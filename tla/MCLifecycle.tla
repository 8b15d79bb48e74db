----------------------------- MODULE MCLifecycle -----------------------------
(***************************************************************************)
(* What must happen in the end, for TLC: recovery from crashes, the start  *)
(* and the end of the networks, the monitor of the threads, the calls of   *)
(* the bus meanwhile, and the end of a voice stream. They share no state,  *)
(* so that one run checks them side by side: each behaviour is one of one  *)
(* component, with the fairness of its threads.                            *)
(***************************************************************************)
EXTENDS CrashRecovery, NetworkStart, BusCalls

VARIABLES
    part,     \* the component that runs
    loop, mainq, monitor, hung, loopPower, auth,   \* MainLoop
    vo, mq, ends, count, rib, vsr, pc, xr, asked, pub, sent   \* VoiceSession

\* Three networks, of which two are required and confirm under the mutex.
ThreeNets == <<"rf4ce", "ble", "ip">>
\* The main thread and a network of which one hangs; an authentication that fails once.
L == INSTANCE MainLoop WITH
    Direct <- {}, SatEvents <- FALSE, RecentlyBooted <- TRUE, MaxPollRetries <- 1, MaxMain <- 1,
    MaxPolls <- 1, MaxHung <- 1
\* A BLE remote that never says stop, and an application that asks by text.
S == INSTANCE VoiceSession WITH
    Rf4ce <- {}, Ble <- {"ble"}, NoController <- "none",
    ControllerId <- [c \in {"ble"} |-> 2], ByText <- TRUE, IdMax <- 5, MaxRequests <- 2,
    MaxRouter <- 2, QueueMax <- 2

-----------------------------------------------------------------------------
LVars == <<loop, mainq, monitor, hung, loopPower, auth>>
SVars == <<vo, mq, ends, count, rib, vsr, pc, xr, asked, pub, sent>>
vars == <<part, recoveryVars, startVars, LVars, busVars, SVars>>

\* One component runs; the others rest in their first state.
Init ==
    /\ part \in {"recovery", "start", "loop", "bus", "stream"}
    /\ RecoveryInit /\ StartInit /\ L!LoopInit /\ BusInit /\ S!Init
    /\ part # "loop" => ~auth.ready

Next ==
    \/ /\ part = "recovery" /\ RecoveryNext
       /\ UNCHANGED <<part, startVars, LVars, busVars, SVars>>
    \/ /\ part = "start" /\ StartNext
       /\ UNCHANGED <<part, recoveryVars, LVars, busVars, SVars>>
    \/ /\ part = "loop" /\ L!LoopNext
       /\ UNCHANGED <<part, recoveryVars, startVars, busVars, SVars>>
    \/ /\ part = "bus" /\ BusNext
       /\ UNCHANGED <<part, recoveryVars, startVars, LVars, SVars>>
    \/ /\ part = "stream" /\ S!Next
       /\ UNCHANGED <<part, recoveryVars, startVars, LVars, busVars>>

\* The threads go on: the service manager restarts the process, the original thread, the main
\* thread, the confirmations of the HALs, the threads of the bus and those of voice are scheduled.
Fairness ==
    /\ WF_recoveryVars(part = "recovery" /\ Recover)
    /\ WF_startVars(part = "start" /\ Original) /\ WF_startVars(part = "start" /\ MainThread)
    /\ \A n \in {"rf4ce", "ble", "ip"} : WF_startVars(part = "start" /\ CfmInit(n))
    /\ WF_LVars(part = "loop" /\ L!Pass) /\ WF_LVars(part = "loop" /\ L!PollReturns)
    /\ WF_LVars(part = "loop" /\ L!HandleMain)
    /\ \A t \in L!LoopThreads : WF_LVars(part = "loop" /\ L!Answer(t))
    /\ WF_busVars(part = "bus" /\ Worker)
    /\ \A c \in {"b1", "b2"} : WF_busVars(part = "bus" /\ BusThread(c))
    /\ WF_SVars(part = "stream" /\ S!PacketTimeout) /\ WF_SVars(part = "stream" /\ S!StatsTimeout)
    /\ WF_SVars(part = "stream" /\ S!CmdTimeoutStart)
    /\ WF_SVars(part = "stream" /\ S!CmdTimeoutFinish)
    /\ WF_SVars(part = "stream" /\ S!Queue)
    /\ \A r \in S!Requesters :
         WF_SVars(part = "stream" /\ (S!RequestAccept(r) \/ S!RequestRefuse(r)))
    /\ \A t \in S!Threads : WF_SVars(part = "stream" /\ S!TermServed(t))
    /\ WF_SVars(part = "stream" /\ S!RouterBegin) /\ WF_SVars(part = "stream" /\ S!BeginHandler)
    /\ WF_SVars(part = "stream" /\ S!StreamEndHandler)
    /\ WF_SVars(part = "stream" /\ S!EndHandler)
Spec == Init /\ [][Next]_vars /\ Fairness

-----------------------------------------------------------------------------
\* However the process crashes and whatever store is damaged, it comes up again
\* (ctrlm_crash_recovery_check and ctrlm_recovery.cpp).
RecoveryComesUp == part = "recovery" => []<>(phase = "up")

\* The start of every network returns: no confirmation is lost between the request and
\* the wait (NetworkStart!StartsReturn, of hal_init_request).
NetworksStart == part = "start" => StartsReturn

\* A thread that hangs is found: the loop ends, unless it waits itself for a main thread
\* that hangs (MainLoop!HangEndsLoop).
HangIsFound == part = "loop" => L!HangEndsLoop

\* Every call of the bus returns, those that cross the end of the program too
\* (BusCalls!CallsReturn).
BusCallsReturn == part = "bus" => CallsReturn

\* A source that streams stops, even if the controller never says so
\* (VoiceSession!StreamingEnds, of ctrlm_voice_obj.cpp).
StreamsEnd == part = "stream" => S!StreamingEnds
=============================================================================
