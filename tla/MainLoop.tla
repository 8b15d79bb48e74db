------------------------------ MODULE MainLoop ------------------------------
(***************************************************************************)
(* The glib main loop and what it watches, ctrlm_main.cpp: the monitor of  *)
(* the threads, the power state that suspends it, and the poll of the      *)
(* authorization service, a callback of the loop that waits for the main   *)
(* queue thread (builds with AUTH_ENABLED and ENABLE_DEEP_SLEEP).          *)
(***************************************************************************)
EXTENDS Integers, Sequences, FiniteSets

CONSTANTS
    Direct,          \* the threads that are polled by themselves: database, device update, voice
    SatEvents,       \* supports_sat_expiration()
    RecentlyBooted,  \* recently_booted: the first polls have the short period
    MaxPollRetries,      \* authservice_fast_retries_max
    MaxMain,         \* bound: messages in the main queue when another one is pushed
    MaxPolls,        \* bound: unanswered polls of a thread that are told apart
    MaxHung          \* bound: threads that stop answering

VARIABLES
    loop,      \* the glib loop: what it runs, and the result of the poll it waits for
    mainq,     \* the messages of the main queue
    monitor,   \* thread_monitor_active, the response of each thread, its unanswered polls
    hung,      \* the threads that do not run any more
    loopPower,     \* power_state, and what the networks and the database were told last
    auth       \* the data of the authorization service, and the timers for it

loopVars == <<loop, mainq, monitor, hung, loopPower, auth>>

LoopThreads == Direct \cup {"main", "network"}
NoPoll == [ret |-> FALSE, switch |-> FALSE]

\* main(): the data that cannot be loaded at once is polled for, if the service is ready.
LoopInit ==
    \E ready, loaded \in BOOLEAN :
        /\ loop = [pc |-> "run", poll |-> NoPoll]
        /\ mainq = <<>>
        /\ monitor = [active |-> FALSE, response |-> [t \in LoopThreads |-> "alive"],
                      polls |-> [t \in LoopThreads |-> 0]]
        /\ hung = {}
        /\ loopPower = [state |-> "on", told |-> "on"]
        /\ auth = [ready |-> ready, ids |-> ready /\ loaded, token |-> ready /\ loaded,
                   tag |-> IF ready /\ ~loaded THEN "new" ELSE "none",
                   retries |-> IF ready /\ ~loaded /\ ~RecentlyBooted THEN MaxPollRetries ELSE 0,
                   expiry |-> ready /\ loaded /\ ~SatEvents, raced |-> FALSE]

-----------------------------------------------------------------------------
(* ctrlm_thread_monitor, a timer of the loop.                              *)

Halted == loopPower.state \in {"standby", "deep_sleep", "voice"}

\* Every thread that still runs answers within a period. The clock of the timer does not
\* count the time for which the CPU is halted.
ThreadAnswers(t) == t \notin hung /\ (t = "network" => "main" \notin hung)
Prompt == \A t \in LoopThreads : ThreadAnswers(t) => monitor.response[t] = "alive"

\* All responses DEAD, then a poll for each: the network's goes through the main queue. All
\* polls of a thread write the same response.
Pushed(t) == IF t = "network" \/ monitor.polls[t] = MaxPolls THEN monitor.polls[t] ELSE monitor.polls[t] + 1
MonitorPolls == {i \in DOMAIN mainq : mainq[i].type = "monitor_poll"}
Marked ==
    /\ monitor' = [active |-> TRUE, response |-> [t \in LoopThreads |-> "dead"],
                   polls |-> [t \in LoopThreads |-> Pushed(t)]]
    /\ mainq' = IF Cardinality(MonitorPolls) = MaxPolls THEN mainq
                ELSE Append(mainq, [type |-> "monitor_poll"])
    /\ UNCHANGED loop

PassHalted ==
    /\ loop.pc = "run" /\ Halted
    /\ monitor' = [monitor EXCEPT !.active = FALSE]
    /\ UNCHANGED <<loop, mainq, hung, loopPower, auth>>

\* Mutant of PassResumes: the pass that resumes the monitor looks at the old responses.
PassResumesAtOnce ==
    /\ loop.pc = "run" /\ ~Halted /\ ~monitor.active
    /\ IF \E t \in LoopThreads : monitor.response[t] = "dead"
       THEN loop' = [loop EXCEPT !.pc = "alarm"] /\ UNCHANGED <<mainq, monitor>>
       ELSE Marked
    /\ UNCHANGED <<hung, loopPower, auth>>

\* The first pass after the CPU was halted checks nothing.
PassResumes ==
    /\ loop.pc = "run" /\ ~Halted /\ ~monitor.active
    /\ Marked
    /\ UNCHANGED <<hung, loopPower, auth>>

PassChecks ==
    /\ loop.pc = "run" /\ ~Halted /\ monitor.active /\ Prompt
    /\ \A t \in LoopThreads : monitor.response[t] = "alive"
    /\ Marked
    /\ UNCHANGED <<hung, loopPower, auth>>

PassAlarms ==
    /\ loop.pc = "run" /\ ~Halted /\ monitor.active /\ Prompt
    /\ \E t \in LoopThreads : monitor.response[t] = "dead"
    /\ loop' = [loop EXCEPT !.pc = "alarm"]
    /\ UNCHANGED <<mainq, monitor, hung, loopPower, auth>>

\* The TICKLE messages of the threads, and vsdk_thread_poll
Answer(t) ==
    /\ ThreadAnswers(t) /\ monitor.polls[t] > 0
    /\ monitor' = [monitor EXCEPT !.polls[t] = @ - 1, !.response[t] = "alive"]
    /\ UNCHANGED <<loop, mainq, hung, loopPower, auth>>

Hang(t) ==
    /\ t \notin hung /\ Cardinality(hung) < MaxHung /\ loop.pc # "term"
    /\ hung' = hung \cup {t}
    /\ UNCHANGED <<loop, mainq, monitor, loopPower, auth>>

\* ctrlm_signal_handler
Signal ==
    /\ loop.pc \in {"run"} /\ loop' = [loop EXCEPT !.pc = "term"]
    /\ UNCHANGED <<mainq, monitor, hung, loopPower, auth>>

-----------------------------------------------------------------------------
(* The messages of the main queue.                                         *)

Next1(type) == "main" \notin hung /\ mainq # <<>> /\ Head(mainq).type = type

\* Mutant of HandleMonitorPoll: the main thread answers for the network's.
HandleMonitorPollItself ==
    /\ Next1("monitor_poll") /\ mainq' = Tail(mainq)
    /\ monitor' = [monitor EXCEPT !.response["network"] = "alive"]
    /\ UNCHANGED <<loop, hung, loopPower, auth>>

\* obj_net->thread_monitor_poll: on to the thread of the network
HandleMonitorPoll ==
    /\ Next1("monitor_poll") /\ mainq' = Tail(mainq)
    /\ monitor' = [monitor EXCEPT !.polls["network"] = IF @ = MaxPolls THEN @ ELSE @ + 1]
    /\ UNCHANGED <<loop, hung, loopPower, auth>>

\* ctrlm_power_state_change: the power manager, or the voice session that woke the box
PowerEvent(new, system) ==
    /\ Len(mainq) < MaxMain /\ (system \/ loopPower.state = "voice")
    /\ mainq' = Append(mainq, [type |-> "power", new |-> new, system |-> system])
    /\ UNCHANGED <<loop, monitor, hung, loopPower, auth>>

\* What the messages of the power manager are turned into
Filtered(new, system, networked) ==
    IF ~system THEN new
    ELSE IF new = "standby" THEN loopPower.state
    ELSE IF new = "deep_sleep" /\ networked THEN "standby"
    ELSE IF new = "on" /\ loopPower.state = "voice" THEN loopPower.state
    ELSE new

\* A wake up by voice: the networks stay as they are until the transaction is over.
HandlePowerState ==
    \E networked, byVoice \in BOOLEAN :
        LET new == Filtered(Head(mainq).new, Head(mainq).system, networked)
        IN  /\ Next1("power") /\ mainq' = Tail(mainq)
            /\ loopPower' = IF new = loopPower.state THEN loopPower
                        ELSE IF loopPower.state = "standby" /\ new = "on" /\ byVoice
                        THEN [loopPower EXCEPT !.state = "voice"]
                        ELSE [state |-> new, told |-> new]
            /\ UNCHANGED <<loop, monitor, hung, auth>>

-----------------------------------------------------------------------------
(* The authorization service.                                              *)

\* ctrlm_authservice_poll: pushes its message and waits, and the loop with it
PollFires ==
    /\ loop.pc = "run" /\ auth.tag = "new" /\ Len(mainq) < MaxMain
    /\ loop' = [pc |-> "poll", poll |-> NoPoll]
    /\ auth' = [auth EXCEPT !.tag = "mine", !.raced = FALSE]
    /\ mainq' = Append(mainq, [type |-> "auth"])
    /\ UNCHANGED <<monitor, hung, loopPower>>

\* The receiver, device, account and partner ids and the experience: all of them, or not
LoadIds(a, got) == [a EXCEPT !.ids = @ \/ got]

\* A token that is valid still; its expiry is timed unless the service sends an event.
LoadToken(a, got) ==
    IF a.token \/ ~got THEN a ELSE [a EXCEPT !.token = TRUE, !.expiry = ~SatEvents]

\* ctrlm_load_authservice_data: what is missing is asked for, and may be refused
AuthLoad(gotIds, gotToken) ==
    IF ~auth.ready THEN auth ELSE LoadToken(LoadIds(auth, gotIds), gotToken)
AuthLoaded(gotIds, gotToken) ==
    auth.ready => /\ auth.ids \/ gotIds
                  /\ auth.token \/ gotToken \/ SatEvents

HandleAuth ==
    \E gotIds, gotToken \in BOOLEAN :
        LET failed == ~AuthLoaded(gotIds, gotToken)
            retries == IF failed /\ auth.retries < MaxPollRetries THEN auth.retries + 1 ELSE auth.retries
            switch == failed /\ retries = MaxPollRetries
        IN  /\ Next1("auth") /\ mainq' = Tail(mainq)
            /\ auth' = [AuthLoad(gotIds, gotToken) EXCEPT !.retries = IF switch THEN 0 ELSE retries]
            /\ loop' = [pc |-> "polled", poll |-> [ret |-> failed /\ ~switch, switch |-> switch]]
            /\ UNCHANGED <<monitor, hung, loopPower>>

\* Mutant of PollReturns: the last of the fast polls forgets to start the slow ones.
PollReturnsUnswitched ==
    /\ loop.pc = "polled"
    /\ auth' = IF loop.poll.ret THEN [auth EXCEPT !.tag = IF @ = "mine" THEN "new" ELSE @]
               ELSE [auth EXCEPT !.tag = "none"]
    /\ loop' = [pc |-> "run", poll |-> NoPoll]
    /\ UNCHANGED <<mainq, monitor, hung, loopPower>>

\* Back in the callback: without ret the timer that authservice_poll_tag names now is
\* destroyed, be it the one that runs or one that was created meanwhile.
PollReturns ==
    /\ loop.pc = "polled"
    /\ auth' = IF loop.poll.switch THEN [auth EXCEPT !.tag = "new"]
               ELSE IF loop.poll.ret THEN [auth EXCEPT !.tag = IF @ = "mine" THEN "new" ELSE @]
               ELSE [auth EXCEPT !.tag = "none"]
    /\ loop' = [pc |-> "run", poll |-> NoPoll]
    /\ UNCHANGED <<mainq, monitor, hung, loopPower>>

\* ctrlm_main_invalidate_service_access_token: a refused token, from the thread of a voice
\* endpoint, or an expired one, from the loop
InvalidateToken(from) ==
    /\ auth.token
    /\ from = "loop" => loop.pc = "run" /\ auth.expiry
    /\ auth' = [auth EXCEPT !.token = FALSE, !.expiry = FALSE, !.tag = "new",
                            !.raced = @ \/ loop.pc \in {"poll", "polled"}]
    /\ UNCHANGED <<loop, mainq, monitor, hung, loopPower>>

\* The service becomes ready (ctrlm_main_auth_start_poll), or is gone
ServiceReady ==
    /\ ~auth.ready
    /\ auth' = [auth EXCEPT !.ready = TRUE, !.tag = "new",
                            !.raced = @ \/ loop.pc \in {"poll", "polled"}]
    /\ UNCHANGED <<loop, mainq, monitor, hung, loopPower>>
ServiceGone ==
    /\ auth.ready /\ auth' = [auth EXCEPT !.ready = FALSE]
    /\ UNCHANGED <<loop, mainq, monitor, hung, loopPower>>

\* An idle process after the loop has ended
LoopEnded == loop.pc \in {"alarm", "term"} /\ UNCHANGED loopVars

Pass == PassHalted \/ PassResumes \/ PassChecks \/ PassAlarms
HandleMain == HandleMonitorPoll \/ HandlePowerState \/ HandleAuth

LoopNext ==
    \/ PassHalted \/ PassResumes \/ PassChecks \/ PassAlarms
    \/ \E t \in LoopThreads : Answer(t) \/ Hang(t)
    \/ HandleMonitorPoll \/ HandlePowerState \/ HandleAuth
    \/ \E new \in {"on", "standby", "deep_sleep"} : PowerEvent(new, TRUE)
    \/ PowerEvent("on", FALSE)
    \/ PollFires \/ PollReturns
    \/ \E from \in {"voice", "loop"} : InvalidateToken(from)
    \/ ServiceReady \/ ServiceGone
    \/ Signal \/ LoopEnded

\* The loop dispatches its timers and comes back from them, the threads that are not hung
\* read their queues.
LoopFairness ==
    /\ WF_loopVars(Pass) /\ WF_loopVars(PollReturns) /\ WF_loopVars(HandleMain)
    /\ \A t \in LoopThreads : WF_loopVars(Answer(t))

LoopSpec == LoopInit /\ [][LoopNext]_loopVars /\ LoopFairness

-----------------------------------------------------------------------------
\* The monitor stops the program only when a thread is hung, whatever the power state did
\* between two of its passes.
NoFalseAlarm == loop.pc = "alarm" => hung # {}

\* While the service is ready and data that is polled for is missing, a poll is running or
\* will run, unless the last poll was under way when the token became invalid: then the
\* callback may destroy the new timer as its own.
PollKept ==
    auth.ready /\ (~auth.ids \/ (~auth.token /\ ~SatEvents))
        => auth.tag # "none" \/ loop.pc \in {"poll", "polled"} \/ auth.raced

\* The networks and the database know the power state, or the box was woken by voice, and
\* they still have the standby they were told before.
ToldPower == loopPower.told = IF loopPower.state = "voice" THEN "standby" ELSE loopPower.state

\* The monitor never ends the program while every thread works, whatever the power state
\* and failed polls do meanwhile (the thread monitor of ctrlm_main.cpp).
LoopSound == NoFalseAlarm /\ PollKept /\ ToldPower

\* A thread that hangs while the CPU runs is found: the loop ends. The one exception is a
\* loop that waits in the poll of the authorization service for a main queue thread that
\* hangs: nothing then runs the monitor.
HangEndsLoop == ~<>[](hung # {} /\ ~Halted /\ loop.pc = "run")
=============================================================================
