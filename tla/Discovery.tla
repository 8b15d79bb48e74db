------------------------------ MODULE Discovery ------------------------------
(***************************************************************************)
(* Discovery and pair requests of the RF4CE network, as its HAL asks them: *)
(* ctrlm_rf4ce_indication.cpp, ctrlm_rf4ce_discovery.cpp, the first half   *)
(* of ctrlm_rf4ce_pairing.cpp and the blackout of ctrlm_rf4ce_network.cpp. *)
(* A synchronous request holds a mutex of its own, pushes a message with a *)
(* condition, and waits; the main queue thread decides, writes the result  *)
(* and signals the condition without the mutex.                            *)
(***************************************************************************)
EXTENDS Integers, FiniteSets, Sequences

CONSTANTS
    Remotes,           \* IEEE addresses
    FailThreshold,     \* pairing_fail_threshold
    RebootThreshold,   \* blackout_reboot_threshold
    MaxQueued          \* bound: messages of the HAL and of the blackout in the queue

VARIABLES
    hal,        \* the thread of the HAL and its request
    hq,         \* the messages of this network in the main queue
    modes,      \* what the rest of the program sets: the mode, a window with restrictions
    deadlines,  \* the remotes whose answered discovery has not expired, for each kind
    binding,    \* binding_in_progress_, with the mode by which the remote came in
    blackout

discoveryVars == <<hal, hq, modes, deadlines, binding, blackout>>

Kinds == {"autobind", "screen", "asb"}
DeviceTypes == {"stb", "autobind", "screen", "other"}
NoRequest == [pc |-> "idle", sync |-> TRUE, result |-> "none", heard |-> TRUE]
NoBinding == [on |-> FALSE, mode |-> "none"]

DiscoveryInit ==
    /\ hal = NoRequest /\ hq = <<>>
    /\ modes = [mode |-> "none", restricted |-> FALSE]
    /\ deadlines = [k \in Kinds |-> {}]
    /\ binding = NoBinding
    /\ blackout = [on |-> FALSE, fails |-> 0, count |-> 0, timer |-> FALSE]

-----------------------------------------------------------------------------
(* The thread of the HAL.                                                  *)

\* ctrlm_hal_rf4ce_ind_discovery and ctrlm_hal_rf4ce_ind_pair, with a result or a callback
Ask(type, r, device, sync) ==
    /\ hal.pc = "idle" /\ Len(hq) < MaxQueued
    /\ hal' = [pc |-> IF sync THEN "check" ELSE "idle", sync |-> sync, result |-> "pending",
               heard |-> ~sync]
    /\ hq' = Append(hq, [type |-> type, from |-> r, device |-> device, sync |-> sync])
    /\ UNCHANGED <<modes, deadlines, binding, blackout>>
IndDiscovery(r, device, sync) == Ask("discovery", r, device, sync)
IndPair(r, sync) == Ask("pair", r, "stb", sync)

\* while(PENDING == rsp_params->result) g_cond_wait: between the test and the wait nothing
\* keeps the main queue thread from signalling.
CheckResult ==
    /\ hal.pc = "check"
    /\ hal' = IF hal.result = "pending" THEN [hal EXCEPT !.pc = "block"] ELSE NoRequest
    /\ UNCHANGED <<hq, modes, deadlines, binding, blackout>>
Block ==
    /\ hal.pc = "block" /\ hal' = [hal EXCEPT !.pc = "waiting"]
    /\ UNCHANGED <<hq, modes, deadlines, binding, blackout>>

\* ctrlm_network_queue_deliver_result: a callback, or the result and a signal
Delivered(result) ==
    IF ~Head(hq).sync THEN hal
    ELSE [hal EXCEPT !.result = result, !.pc = IF @ = "waiting" THEN "check" ELSE @,
                     !.heard = hal.pc # "block"]

-----------------------------------------------------------------------------
(* ctrlm_obj_network_rf4ce_t::ind_process_discovery                        *)

Restricted == modes.restricted
Refusing == binding.on \/ blackout.on
DiscoveryAt(device) == hq # <<>> /\ Head(hq).type = "discovery" /\ Head(hq).device = device

\* A window that is restricted to other remotes: no result is delivered.
IgnoreRestricted ==
    /\ hq # <<>> /\ Head(hq).type = "discovery" /\ Restricted
    /\ hq' = Tail(hq)
    /\ UNCHANGED <<hal, modes, deadlines, binding, blackout>>

\* A binding, a blackout, another vendor or another device type.
IgnoreDiscovery ==
    /\ hq # <<>> /\ Head(hq).type = "discovery" /\ ~Restricted
    /\ Refusing \/ Head(hq).device = "other"
    /\ hq' = Tail(hq) /\ hal' = Delivered("ignore")
    /\ UNCHANGED <<modes, deadlines, binding, blackout>>

Deciding(device) == DiscoveryAt(device) /\ ~Restricted /\ ~Refusing

\* The deadline of a secure pairing is kept before the answer is known.
Asb(r) == {deadlines["asb"], deadlines["asb"] \cup {r}}

\* process_discovery_autobind
AutobindAnswers(sight) == modes.mode \notin {"screen", "button"} /\ sight
DiscoveryAutobind ==
    \E sight \in BOOLEAN :
        LET r == Head(hq).from
        IN  /\ Deciding("autobind")
            /\ hq' = Tail(hq)
            /\ hal' = Delivered(IF AutobindAnswers(sight) THEN "respond" ELSE "ignore")
            /\ \E asb \in Asb(r) : deadlines' = [deadlines EXCEPT !["asb"] = asb,
                                !["autobind"] = IF AutobindAnswers(sight) THEN @ \cup {r} ELSE @]
        /\ UNCHANGED <<modes, binding, blackout>>

\* Mutant of ScreenAnswers: the remotes that are being bound are not looked at.
ScreenAnswersAny(r) == modes.mode = "screen"

\* process_discovery_screen_bind: one remote at a time
ScreenAnswers(r) == modes.mode = "screen" /\ deadlines["screen"] \subseteq {r}
DiscoveryScreenBind ==
    LET r == Head(hq).from
    IN  /\ Deciding("screen")
        /\ hq' = Tail(hq)
        /\ hal' = Delivered(IF ScreenAnswers(r) THEN "respond" ELSE "ignore")
        /\ \E asb \in Asb(r) : deadlines' = [deadlines EXCEPT !["asb"] = asb,
                            !["screen"] = IF ScreenAnswers(r) THEN @ \cup {r} ELSE @]
        /\ UNCHANGED <<modes, binding, blackout>>

\* process_discovery_stb: the class number only orders the boxes that answer
StbAnswers(required, sight) == modes.mode \notin {"screen", "onetouch"} /\ (required => sight)
DiscoveryStb ==
    \E required, sight \in BOOLEAN :
        /\ Deciding("stb")
        /\ hq' = Tail(hq)
        /\ hal' = Delivered(IF StbAnswers(required, sight) THEN "respond" ELSE "ignore")
        /\ \E asb \in Asb(Head(hq).from) : deadlines' = [deadlines EXCEPT !["asb"] = asb]
        /\ UNCHANGED <<modes, binding, blackout>>

\* The deadlines are times: one that has passed is not found by any of the lookups.
Expire(k, r) ==
    /\ r \in deadlines[k]
    /\ deadlines' = [deadlines EXCEPT ![k] = @ \ {r}]
    /\ UNCHANGED <<hal, hq, modes, binding, blackout>>

-----------------------------------------------------------------------------
(* ctrlm_obj_network_rf4ce_t::ind_process_pair                             *)

PairAt == hq # <<>> /\ Head(hq).type = "pair"

\* A blackout: no result is delivered either.
PairInBlackout ==
    /\ PairAt /\ blackout.on
    /\ hq' = Tail(hq)
    /\ UNCHANGED <<hal, modes, deadlines, binding, blackout>>

\* A status that is not known, another vendor, or a binding that has not ended
IgnorePair ==
    /\ PairAt /\ ~blackout.on
    /\ hq' = Tail(hq) /\ hal' = Delivered("ignore")
    /\ UNCHANGED <<modes, deadlines, binding, blackout>>

\* The first of the modes that applies
ModeOf(r) ==
    IF r \in deadlines["autobind"] THEN "autobind"
    ELSE IF modes.mode = "button" THEN "button"
    ELSE IF r \in deadlines["screen"] THEN "screen"
    ELSE "normal"

\* ind_process_pair_stb and its likes: a secure pairing that has no common method is
\* ignored, and leaves the binding in progress.
AcceptPair ==
    LET r == Head(hq).from
    IN  /\ PairAt /\ ~blackout.on /\ ~binding.on
        /\ hq' = Tail(hq)
        /\ binding' = [on |-> TRUE, mode |-> ModeOf(r)]
        /\ \/ hal' = Delivered("respond")
           \/ r \in deadlines["asb"] /\ hal' = Delivered("ignore")
        /\ UNCHANGED <<modes, deadlines, blackout>>

\* binding_in_progress_timeout
BindingExpires ==
    /\ binding.on /\ binding' = NoBinding
    /\ UNCHANGED <<hal, hq, modes, deadlines, blackout>>

\* The validation of the remote ends: blackout_bind_success, ...
BindSucceeds ==
    /\ binding.on /\ binding' = NoBinding
    /\ blackout' = [blackout EXCEPT !.fails = 0]
    /\ UNCHANGED <<hal, hq, modes, deadlines>>

\* Mutant of BindFails: a failure at the threshold restarts the timer and forgets it.
BindFailsUntimed ==
    /\ binding.on /\ binding' = NoBinding
    /\ blackout' =
           IF blackout.fails + 1 < FailThreshold THEN [blackout EXCEPT !.fails = @ + 1]
           ELSE [blackout EXCEPT !.fails = 0, !.on = TRUE, !.count = @ + 1]
    /\ UNCHANGED <<hal, hq, modes, deadlines>>

\* ... or blackout_bind_fail
BindFails ==
    /\ binding.on /\ binding' = NoBinding
    /\ blackout' =
           IF blackout.fails + 1 < FailThreshold \/ blackout.on
           THEN [blackout EXCEPT !.fails = IF @ < FailThreshold THEN @ + 1 ELSE @]
           ELSE [fails |-> blackout.fails + 1, on |-> TRUE, count |-> blackout.count + 1,
                 timer |-> TRUE]
    /\ UNCHANGED <<hal, hq, modes, deadlines>>

\* blackout_timeout
BlackoutTimer ==
    /\ blackout.timer /\ blackout' = [blackout EXCEPT !.timer = FALSE]
    /\ hq' = Append(hq, [type |-> "reset", from |-> "nobody", device |-> "other", sync |-> FALSE])
    /\ UNCHANGED <<hal, modes, deadlines, binding>>

\* blackout_reset: after as many blackouts as the threshold says, only a reboot ends it.
BlackoutReset ==
    /\ hq # <<>> /\ Head(hq).type = "reset" /\ hq' = Tail(hq)
    /\ blackout' = [blackout EXCEPT !.fails = 0,
                        !.on = IF blackout.count >= RebootThreshold THEN @ ELSE FALSE]
    /\ UNCHANGED <<hal, modes, deadlines, binding>>

\* The mode and the window change at any time; the lines of sight do too, and are read
\* only where a discovery is decided.
ModesChange ==
    /\ \/ \E m \in {"none", "button", "screen", "onetouch"} : modes' = [modes EXCEPT !.mode = m]
       \/ \E restricted \in BOOLEAN : modes' = [modes EXCEPT !.restricted = restricted]
    /\ UNCHANGED <<hal, hq, deadlines, binding, blackout>>

DiscoveryNext ==
    \/ \E r \in Remotes, sync \in BOOLEAN :
        \/ \E device \in DeviceTypes : IndDiscovery(r, device, sync)
        \/ IndPair(r, sync)
    \/ CheckResult \/ Block
    \/ IgnoreRestricted \/ IgnoreDiscovery
    \/ DiscoveryAutobind \/ DiscoveryScreenBind \/ DiscoveryStb
    \/ \E k \in Kinds, r \in Remotes : Expire(k, r)
    \/ PairInBlackout \/ IgnorePair \/ AcceptPair
    \/ BindingExpires \/ BindSucceeds \/ BindFails
    \/ BlackoutTimer \/ BlackoutReset \/ ModesChange

DiscoverySpec == DiscoveryInit /\ [][DiscoveryNext]_discoveryVars

-----------------------------------------------------------------------------
\* At most one remote is in the middle of a screen bind, however the mode was switched
\* since its discovery was answered.
ScreenExclusive == Cardinality(deadlines["screen"]) <= 1

\* A blackout ends by its timer, or by the reset that the timer has queued, unless there
\* were so many that only a reboot ends them.
BlackoutTimed ==
    blackout.on =>
        \/ blackout.timer
        \/ blackout.count >= RebootThreshold
        \/ \E i \in DOMAIN hq : hq[i].type = "reset"

\* The HAL waits only while its request is queued or was dropped without an answer; with
\* an answer it waits only if the signal fell between its test and its wait.
HalNotForgotten ==
    hal.pc = "waiting" /\ hal.heard => hal.result = "pending"

\* The header of the HAL says that Control Manager decides whether to respond or to ignore
\* (ctrlm_hal_rf4ce.h:450): a request that was handled has one of the two results.
DiscoveryAnswered ==
    hal.pc \in {"check", "block", "waiting"} /\ ~(\E i \in DOMAIN hq : hq[i].sync)
        => hal.result # "pending"

\* Discoveries and bindings of several remotes end, and exclude each other as their mode
\* says (ctrlm_rf4ce_discovery.cpp).
DiscoverySound == ScreenExclusive /\ BlackoutTimed /\ HalNotForgotten
=============================================================================
