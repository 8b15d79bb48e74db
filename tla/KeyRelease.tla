------------------------------ MODULE KeyRelease ------------------------------
(***************************************************************************)
(* How the keys of an RF4CE remote come up again (ctrlm_rf4ce_rcu.cpp).    *)
(* The main thread hands the frames of a remote to the listeners of the    *)
(* bus as DOWN, REPEAT and UP, and a timer brings a key up whose release   *)
(* was lost on the air. The timer runs in the thread of the GLib loop, and *)
(* both threads use the record of the remote without a lock. While a       *)
(* remote is not validated the keys go to the validation instead.          *)
(***************************************************************************)
EXTENDS Integers, FiniteSets

CONSTANTS
    Keys,           \* the keys of the remote
    MaxFrames,      \* bound: frames of the remote
    MaxValidations  \* bound: times the remote becomes valid, or stops to be

NoKey == "none"

\* No key is confused with what inFrame says of none, or of a repeat.
ASSUME KeysAssumption == Keys \cap {NoKey, "repeat"} = {}

VARIABLES
    held,       \* the key that is down, as the listeners know
    record,     \* g_ctrlm_rcu_keypress_last_rf4ce: key_code and timeout_tag
    timers,     \* the timers there are, and how far each is
    inFrame,    \* the main thread: in the middle of a press or a repeat
    valid,      \* whether validation_result_ is success
    frames,     \* frames there were
    changes     \* times valid changed

keyVars == <<held, record, timers, inFrame, valid, frames, changes>>

KeyInit ==
    /\ held = NoKey /\ record = [key |-> NoKey, tag |-> 0] /\ timers = {}
    /\ inFrame = NoKey /\ valid \in BOOLEAN /\ frames = 0 /\ changes = 0

\* ctrlm_timeout_destroy: a timer that already runs is not stopped.
Without(tag) == {t \in timers : t.tag # tag \/ t.at # "armed"}

\* key_event_hook: the keys of a valid remote pass; ctrlm_validation_key_sniff takes those of
\* the other remotes, or lets them pass.
Frame == inFrame = NoKey /\ frames < MaxFrames /\ frames' = frames + 1

-----------------------------------------------------------------------------
(* The main thread.                                                        *)

\* USER_CONTROL_PRESSED: a key that is not released yet is, and its timer goes.
Pressed(k) ==
    /\ Frame /\ inFrame' = k
    /\ IF record.tag # 0
       THEN /\ timers' = Without(record.tag) /\ record' = [record EXCEPT !.tag = 0]
            /\ held' = NoKey
       ELSE UNCHANGED <<timers, record, held>>
    /\ UNCHANGED <<valid, changes>>

\* A timer gets the lowest number that is free here; GLib numbers them on.
Tag == CHOOSE n \in 1 .. (MaxFrames + 1) :
        /\ \A t \in timers : t.tag # n
        /\ \A m \in 1 .. (n - 1) : \E t \in timers : t.tag = m
NewTimer == [tag |-> Tag, at |-> "armed"]

\* The rest of the press: DOWN, then the timer.
DownSent ==
    /\ inFrame \in Keys /\ inFrame' = NoKey
    /\ \/ ~valid /\ UNCHANGED <<held, record, timers>>
       \/ /\ held' = inFrame /\ record' = [key |-> inFrame, tag |-> Tag]
          /\ timers' = timers \cup {NewTimer}
    /\ UNCHANGED <<valid, frames, changes>>

\* USER_CONTROL_REPEATED, where the hook lets it pass: the timer goes, and starts anew.
Repeated ==
    /\ Frame
    /\ timers' = Without(record.tag) /\ record' = [record EXCEPT !.tag = 0]
    /\ inFrame' = "repeat"
    /\ UNCHANGED <<held, valid, changes>>
Kicked ==
    /\ inFrame = "repeat" /\ inFrame' = NoKey
    /\ record' = [record EXCEPT !.tag = Tag] /\ timers' = timers \cup {NewTimer}
    /\ UNCHANGED <<held, valid, frames, changes>>

\* Mutant of Released: the timer goes whether or not UP was sent.
ReleasedAlways ==
    /\ Frame
    /\ \/ ~valid /\ held' = held
       \/ held' = NoKey
    /\ timers' = Without(record.tag) /\ record' = [record EXCEPT !.tag = 0]
    /\ UNCHANGED <<inFrame, valid, changes>>
\* USER_CONTROL_RELEASED: UP, and the timer goes; nothing if the key went to the validation.
Released ==
    /\ Frame
    /\ \/ ~valid /\ UNCHANGED <<held, timers, record>>
       \/ /\ held' = NoKey
          /\ timers' = Without(record.tag) /\ record' = [record EXCEPT !.tag = 0]
    /\ UNCHANGED <<inFrame, valid, changes>>

\* The remote pairs anew, or passes its validation.
ValidationChanges ==
    /\ inFrame = NoKey /\ changes < MaxValidations
    /\ valid' = ~valid /\ changes' = changes + 1
    /\ UNCHANGED <<held, record, timers, inFrame, frames>>

-----------------------------------------------------------------------------
(* ctrlm_rcu_timeout_key_release, in the thread of the GLib loop: it runs, *)
(* sends UP, and clears the tag it finds in the record.                    *)

\* The loop runs one timer at a time.
TimerFires(t) ==
    /\ t \in timers /\ t.at = "armed" /\ \A u \in timers : u.at = "armed"
    /\ timers' = (timers \ {t}) \cup {[t EXCEPT !.at = "runs"]}
    /\ UNCHANGED <<held, record, inFrame, valid, frames, changes>>
TimerSends(t) ==
    /\ t \in timers /\ t.at = "runs"
    /\ timers' = (timers \ {t}) \cup {[t EXCEPT !.at = "sent"]} /\ held' = NoKey
    /\ UNCHANGED <<record, inFrame, valid, frames, changes>>
TimerReturns(t) ==
    /\ t \in timers /\ t.at = "sent"
    /\ timers' = timers \ {t} /\ record' = [record EXCEPT !.tag = 0]
    /\ UNCHANGED <<held, inFrame, valid, frames, changes>>

KeyNext ==
    \/ \E k \in Keys : Pressed(k)
    \/ DownSent \/ Repeated \/ Kicked \/ Released \/ ValidationChanges
    \/ \E t \in timers : TimerFires(t) \/ TimerSends(t) \/ TimerReturns(t)
KeySpec == KeyInit /\ [][KeyNext]_keyVars

-----------------------------------------------------------------------------
\* A key that is down has a timer that brings it up, or the main thread is about to make
\* one: no lost release, no change of the validation and no order of the two threads leaves
\* a key down for good.
DownHasTimer ==
    held # NoKey => inFrame # NoKey \/ \E t \in timers : t.at \in {"armed", "runs"}

\* A tag names a timer there is.
TagsNameTimers ==
    record.tag # 0 => \E t \in timers : t.tag = record.tag

KeysSound == DownHasTimer /\ TagsNameTimers

\* Without a tag in the record no timer is armed: the timer is cancelled with the key.
CancelledWithKey ==
    inFrame = NoKey /\ record.tag = 0 => \A t \in timers : t.at # "armed"
=============================================================================
