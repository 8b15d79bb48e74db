---------------------------- MODULE PairingWindow ----------------------------
(***************************************************************************)
(* The pairing window of ctrlm_main.cpp: a mode in which remotes may bind, *)
(* opened and ended by the control service, closed by its timer or by a    *)
(* pairing, and taken over by the older properties and stop messages.      *)
(* The main queue thread handles requests and messages one at a time; the  *)
(* timers run on the main loop and post messages, then clear their tag.    *)
(***************************************************************************)
EXTENDS Integers, FiniteSets, Sequences

CONSTANTS
    Networks,     \* network ids
    AllNetworks,  \* CTRLM_MAIN_NETWORK_ID_ALL
    MaxTimers,    \* bound: timers that exist at once
    MaxPosted,    \* bound: messages in the main queue
    MaxRequests   \* bound: requests of the bus

ASSUME WindowAssumption == MaxTimers \in Nat

VARIABLES
    window,      \* g_ctrlm.pairing_window, .autobind and the mode flags; the failures counted
    tags,        \* the tag kept for each mode's timer, 0 if none
    sources,     \* the timers of the main loop
    dispatched,  \* the timer whose callback has posted its message and has yet to clear the tag
    posted,      \* messages in the main queue
    oneTouch,    \* networks whose one touch autobind is enabled
    requests

windowVars == <<window, tags, sources, dispatched, posted, oneTouch, requests>>

Modes == {"button", "screen", "onetouch"}
Targets == Networks \cup {AllNetworks}
Selected(n) == IF n = AllNetworks THEN Networks ELSE {n}
Nothing == [id |-> 0, mode |-> "button"]

Close(reason) == [type |-> "close", about |-> reason]
Stop(m) == [type |-> "stop", about |-> m]
Status(s) == [type |-> "status", about |-> s]

\* The identifier of a new source.
FreshId ==
    CHOOSE i \in 1..MaxTimers :
        i \notin {s.id : s \in sources \cup {dispatched}} \cup {tags[m] : m \in Modes}
HasRoom == \E i \in 1..MaxTimers :
        i \notin {s.id : s \in sources \cup {dispatched}} \cup {tags[m] : m \in Modes}

WindowInit ==
    /\ window = [active |-> FALSE, mode |-> "button", status |-> "none", autobind |-> FALSE,
                 on |-> {}, failures |-> 0, taken |-> FALSE]
    /\ tags = [m \in Modes |-> 0]
    /\ sources = {} /\ dispatched = Nothing /\ posted = <<>>
    /\ oneTouch = {} /\ requests = 0

-----------------------------------------------------------------------------
(* Parts of the handlers.                                                  *)

\* ctrlm_timeout_destroy for the tags of the modes in ms
Destroyed(ms) == {s \in sources : ~\E m \in ms : tags[m] = s.id}
Cleared(ms) == [m \in Modes |-> IF m \in ms THEN 0 ELSE tags[m]]

\* ctrlm_pairing_window_bind_status_set_: a HAL failure does not hide what ASB reported
StatusSet(w, s) == IF s = "hal" /\ w.status = "asb" THEN w ELSE [w EXCEPT !.status = s]

\* The first half of ctrlm_close_pairing_window_.
Ended(w, reason) ==
    IF ~w.active THEN w
    ELSE CASE reason = "success" -> StatusSet([w EXCEPT !.active = FALSE], "success")
           [] reason = "end"     -> [w EXCEPT !.active = FALSE, !.autobind = TRUE]
           [] reason = "timeout" -> StatusSet([w EXCEPT !.active = FALSE, !.autobind = TRUE], "timeout")

\* ctrlm_close_pairing_window_: every mode that is on is stopped, and counts as a
\* failure unless the last status is a success.
CloseWindow(n, reason) ==
    LET w == Ended(window, reason)
    IN  /\ window' = [w EXCEPT !.on = {}, !.taken = FALSE,
              !.failures = IF w.status = "success" THEN @ ELSE @ + Cardinality(w.on)]
        /\ sources' = Destroyed(w.on) /\ tags' = Cleared(w.on)
        /\ oneTouch' = IF "onetouch" \in w.on THEN oneTouch \ Selected(n) ELSE oneTouch

\* Mutant of StartPairing: the timer is created before the old window is stopped.
StartPairingEarlyTimer(n, mode) ==
    LET id == FreshId
    IN  /\ requests < MaxRequests /\ HasRoom
        /\ requests' = requests + 1
        /\ window' = [window EXCEPT !.active = TRUE, !.mode = mode, !.status = "none",
                                    !.autobind = FALSE, !.on = {mode}, !.taken = FALSE]
        /\ sources' = Destroyed(window.on)
            \cup IF mode \in window.on THEN {} ELSE {[id |-> id, mode |-> mode]}
        /\ tags' = [Cleared(window.on) EXCEPT ![mode] = IF mode \in window.on THEN 0 ELSE id]
        /\ oneTouch' = (IF "onetouch" \in window.on THEN {} ELSE oneTouch)
                        \cup (IF mode = "onetouch" THEN Selected(n) ELSE {})
        /\ UNCHANGED <<dispatched, posted>>

\* ctrlm_main_iarm_call_control_service_start_pairing_mode_: the modes that are on are
\* stopped with their timers, everywhere; what they may have posted stays in the queue.
StartPairing(n, mode) ==
    LET id == FreshId
    IN  /\ requests < MaxRequests /\ HasRoom
        /\ requests' = requests + 1
        /\ window' = [window EXCEPT !.active = TRUE, !.mode = mode, !.status = "none",
                                    !.autobind = FALSE, !.on = {mode}, !.taken = FALSE]
        /\ sources' = Destroyed(window.on) \cup {[id |-> id, mode |-> mode]}
        /\ tags' = [Cleared(window.on) EXCEPT ![mode] = id]
        /\ oneTouch' = (IF "onetouch" \in window.on THEN {} ELSE oneTouch)
                        \cup (IF mode = "onetouch" THEN Selected(n) ELSE {})
        /\ UNCHANGED <<dispatched, posted>>

\* ctrlm_main_iarm_call_control_service_end_pairing_mode_
EndPairing(n) ==
    /\ requests < MaxRequests /\ requests' = requests + 1
    /\ CloseWindow(n, "end")
    /\ UNCHANGED <<dispatched, posted>>

\* ctrlm_main_iarm_call_property_set_ (..._BINDING_BUTTON_ACTIVE or ..._SCREEN_ACTIVE, 0)
PropertyOff(mode) ==
    /\ requests < MaxRequests /\ requests' = requests + 1
    /\ sources' = Destroyed({mode}) /\ tags' = Cleared({mode})
    /\ window' = [window EXCEPT !.on = @ \ {mode}, !.taken = window.active]
    /\ UNCHANGED <<dispatched, posted, oneTouch>>

\* The same with 1: the other mode's flag is cleared, its timer is left alone.
PropertyOn(mode, other) ==
    LET id == FreshId
    IN  /\ requests < MaxRequests /\ HasRoom
        /\ requests' = requests + 1
        /\ sources' = Destroyed({mode}) \cup {[id |-> id, mode |-> mode]}
        /\ tags' = [tags EXCEPT ![mode] = id]
        /\ window' = [window EXCEPT !.on = (@ \ {other}) \cup {mode}, !.taken = window.active]
        /\ UNCHANGED <<dispatched, posted, oneTouch>>

\* ctrlm_main_iarm_call_autobind_config_set_: the timer of the one touch mode is gone
\* even if the thresholds are refused.
AutobindRefused ==
    /\ requests < MaxRequests /\ requests' = requests + 1
    /\ sources' = Destroyed({"onetouch"}) /\ tags' = Cleared({"onetouch"})
    /\ window' = [window EXCEPT !.taken = @ \/ window.active]
    /\ UNCHANGED <<dispatched, posted, oneTouch>>

\* ... and if they are accepted, one_touch_autobind_active is not touched.
AutobindConfig(n, enable) ==
    LET id == FreshId
    IN  /\ requests < MaxRequests /\ HasRoom
        /\ requests' = requests + 1
        /\ window' = [window EXCEPT !.on = @ \ {"screen"},
                                    !.taken = @ \/ window.active]
        /\ sources' = Destroyed({"onetouch"}) \cup {[id |-> id, mode |-> "onetouch"]}
        /\ tags' = [tags EXCEPT !["onetouch"] = id]
        /\ oneTouch' = IF enable THEN oneTouch \cup Selected(n) ELSE oneTouch \ Selected(n)
        /\ UNCHANGED <<dispatched, posted>>

-----------------------------------------------------------------------------
(* The main loop and the main queue.                                       *)

\* ctrlm_timeout_binding_button, ctrlm_timeout_screen_bind, ctrlm_timeout_one_touch_autobind
TimerFires(s) ==
    /\ dispatched = Nothing /\ Len(posted) < MaxPosted
    /\ dispatched' = s /\ posted' = Append(posted, Close("timeout"))
    /\ UNCHANGED <<window, tags, sources, oneTouch, requests>>

\* ... and their end: the tag is cleared, whichever timer it is the tag of by now.
TimerReturns ==
    /\ dispatched # Nothing
    /\ tags' = Cleared({dispatched.mode})
    /\ sources' = sources \ {dispatched} /\ dispatched' = Nothing
    /\ UNCHANGED <<window, posted, oneTouch, requests>>

\* ctrlm_obj_network_rf4ce_t::ind_process_discovery and ind_process_pair report where a
\* pairing stands, while the window is open; the secure pairing reports its failure.
Progress(s) ==
    /\ window.active /\ Len(posted) < MaxPosted
    /\ posted' = Append(posted, Status(s))
    /\ UNCHANGED <<window, tags, sources, dispatched, oneTouch, requests>>

\* ctrlm_obj_network_rf4ce_t::process_pair_result for a remote that was let in by the mode
Paired(mode) ==
    /\ Len(posted) < MaxPosted
    /\ \/ window.active /\ posted' = Append(posted, Close("success"))
       \/ ~window.active /\ mode # "onetouch" /\ posted' = Append(posted, Stop(mode))
    /\ UNCHANGED <<window, tags, sources, dispatched, oneTouch, requests>>
PairingFails ==
    /\ window.active /\ Len(posted) + 1 < MaxPosted
    /\ posted' = posted \o <<Status("hal"), Close("end")>>
    /\ UNCHANGED <<window, tags, sources, dispatched, oneTouch, requests>>

\* ctrlm_main_thread: ..._MAIN_CLOSE_PAIRING_WINDOW
HandleClose ==
    /\ posted # <<>> /\ Head(posted).type = "close"
    /\ posted' = Tail(posted)
    /\ CloseWindow(AllNetworks, Head(posted).about)
    /\ UNCHANGED <<dispatched, requests>>

\* ctrlm_main_thread: ..._MAIN_STOP_BINDING_BUTTON and ..._MAIN_STOP_BINDING_SCREEN
HandleStop ==
    /\ posted # <<>> /\ Head(posted).type = "stop"
    /\ posted' = Tail(posted)
    /\ LET m == Head(posted).about
       IN  IF m \in window.on
           THEN /\ window' = [window EXCEPT !.on = @ \ {m}, !.taken = window.active]
                /\ sources' = Destroyed({m}) /\ tags' = Cleared({m})
           ELSE UNCHANGED <<window, sources, tags>>
    /\ UNCHANGED <<dispatched, oneTouch, requests>>

\* ctrlm_main_thread: ..._MAIN_BIND_STATUS_SET
HandleStatus ==
    /\ posted # <<>> /\ Head(posted).type = "status"
    /\ posted' = Tail(posted)
    /\ window' = StatusSet(window, Head(posted).about)
    /\ UNCHANGED <<tags, sources, dispatched, oneTouch, requests>>

WindowNext ==
    \/ \E n \in Targets, m \in Modes : StartPairing(n, m)
    \/ \E n \in Targets : EndPairing(n)
    \/ \E m \in {"button", "screen"} : PropertyOff(m)
    \/ PropertyOn("button", "screen") \/ PropertyOn("screen", "button")
    \/ \E n \in Targets, e \in BOOLEAN : AutobindConfig(n, e)
    \/ AutobindRefused
    \/ \E s \in sources : TimerFires(s)
    \/ TimerReturns
    \/ \E s \in {"pending", "asb"} : Progress(s)
    \/ \E m \in Modes : Paired(m)
    \/ PairingFails
    \/ HandleClose \/ HandleStop \/ HandleStatus

WindowSpec == WindowInit /\ [][WindowNext]_windowVars

-----------------------------------------------------------------------------
\* A window that is open has its mode on, and a timer of that mode that runs or has
\* posted a message that will close it, unless a property or a stop message took the
\* mode away: no order of starts, ends, pairings and timers leaves a window open for good.
WindowTimed ==
    window.active /\ ~window.taken =>
        /\ window.mode \in window.on
        /\ \/ \E s \in sources : s.mode = window.mode
           \/ \E i \in DOMAIN posted : posted[i] = Close("timeout")

\* The comment on the timers of a window says that they limit it
\* (ctrlm_main.cpp:5322). A stop that was posted for an earlier window, and a
\* property, take the timer of a window that stays open.
WindowLimited ==
    window.active =>
        \/ sources # {}
        \/ \E i \in DOMAIN posted : posted[i].type = "close"

\* A mode that was switched on counts at most one failure, however many timers and
\* messages close it.
FailuresOnce == window.failures + Cardinality(window.on) <= requests

WindowSound == WindowTimed /\ FailuresOnce
=============================================================================
