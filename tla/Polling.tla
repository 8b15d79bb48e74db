-------------------------------- MODULE Polling --------------------------------
(***************************************************************************)
(* Polling in the RF4CE network (ctrlm_rf4ce_network.cpp, the controllers  *)
(* of ctrlm_rf4ce_controller.cpp). A remote polls with a heartbeat and is  *)
(* answered with the first of the actions that wait for it. How it polls   *)
(* is configured by four sources, the last of which, RFC, may speak at any *)
(* time; the remote reads its configuration when an action tells it to.    *)
(* A heartbeat also counts the uptime of a remote, which is saved now and  *)
(* then, and when the process ends in good order.                          *)
(***************************************************************************)
EXTENDS Integers, Sequences, FiniteSets, SequencesExt

CONSTANTS
    Polled,         \* the remotes of the network, voice assistants of one type
    Sources,        \* what a source may say: target, methods and every, or Nothing for each
    FirstConf,      \* the configuration of the source code
    Nothing,        \* the source does not say
    Gaps,           \* seconds between two heartbeats
    HbToSave,       \* hb_time_to_save
    HbLimit,        \* time_interval * uptime_multiplier
    MaxActions, MaxClock, MaxRestarts, MaxRfc   \* bounds: actions, seconds, starts, answers of RFC

VARIABLES
    conf,       \* the network's configuration: polling_methods_ (target), and one type's methods and interval
    pollHeld,       \* each controller's copy: polling_methods_ and polling_configurations_
    inDb,       \* what the database keeps of each controller
    box,        \* what the remote itself read last, or Nothing while it is configured
    mail,       \* the main queue: notifications and actions to be queued
    polls,      \* polling_actions_: the actions that wait for each remote
    failed,     \* configuration_complete_failure_: the remotes that were once not configured
    pollTold,       \* the remotes that were told to read their configuration
    missed,     \* the remotes an action was lost for
    up,         \* last heartbeat, start, uptime and privacy seconds, seconds since they were saved
    now,        \* the time
    pushed, pollRestarts, answers   \* counters of the bounds

pollVars == <<conf, pollHeld, inDb, box, mail, polls, failed, pollTold, missed, up, now, pushed, pollRestarts, answers>>

-----------------------------------------------------------------------------
\* A source overrides what it names. Only TR-181 leaves a type no method the target lacks.
Said(new, old) == IF new = Nothing THEN old ELSE new
Overridden(c, s) ==
    [target |-> Said(s.target, c.target), methods |-> Said(s.methods, c.methods), every |-> Said(s.every, c.every)]
Supported(c) == [c EXCEPT !.methods = @ \cap c.target]
Configured(json, tr181) == Supported(Overridden(Overridden(FirstConf, json), tr181))
Copy(c) == [methods |-> c.methods, every |-> c.every]

\* ctrlm_rf4ce_polling_action_priority, and the place of an action: before the first it precedes.
Priority(action) ==
    CASE action = "alert" -> 0 [] action \in {"configuration", "poll_configuration", "ota"} -> 1 [] action = "reboot" -> 2 [] OTHER -> 3
Turn(q, a) == Min({i \in 1 .. Len(q) + 1 :
                      i <= Len(q) => Priority(q[i].action) > Priority(a.action)})
PollQueued(q, a) == InsertAt(q, Turn(q, a), a)

\* What is posted: an action, or the handler that tells the controllers.
Action(to, action) == [does |-> "push", to |-> to, action |-> action]
Notify == [does |-> "notify", to |-> Polled, action |-> "none"]
Waits(r, action) ==
    \/ \E i \in DOMAIN mail : r \in mail[i].to /\ mail[i].action = action
    \/ \E i \in DOMAIN polls[r] : polls[r][i].action = action

NoUp == [last |-> 0, start |-> 0, uptime |-> 0, privacy |-> 0]
Counted(u) == [last |-> u.last, start |-> u.start, uptime |-> u.uptime, privacy |-> u.privacy, since |-> 0]

PollInit ==
    /\ \E json, tr181 \in Sources : conf = Configured(json, tr181)
    /\ pollHeld = <<>> /\ inDb = <<>> /\ up = <<>>
    /\ box = [r \in Polled |-> Nothing]
    /\ mail = <<>> /\ polls = [r \in Polled |-> <<>>] /\ failed = {} /\ pollTold = {} /\ missed = {}
    /\ now = 1 /\ pushed = 0 /\ pollRestarts = 0 /\ answers = 0

-----------------------------------------------------------------------------
\* validation_result_set: the counters start, and the copy is made without an action.
PollValidated(r) ==
    /\ r \notin DOMAIN pollHeld
    /\ pollHeld' = [s \in DOMAIN pollHeld \cup {r} |-> IF s = r THEN Copy(conf) ELSE pollHeld[s]]
    /\ up' = [s \in DOMAIN up \cup {r} |->
                 IF s = r THEN Counted([NoUp EXCEPT !.last = now, !.start = now]) ELSE up[s]]
    /\ inDb' = [s \in DOMAIN inDb \cup {r} |->
                   IF s = r THEN [copy |-> Copy(conf), up |-> [NoUp EXCEPT !.last = now, !.start = now]] ELSE inDb[s]]
    /\ UNCHANGED <<failed, conf, box, mail, polls, pollTold, missed, now, pushed, pollRestarts, answers>>

\* The remote reads its attributes: while it is configured, or because it was told to.
Reads(r) ==
    /\ r \in DOMAIN pollHeld /\ (box[r] = Nothing \/ r \in pollTold)
    /\ box' = [box EXCEPT ![r] = pollHeld[r]] /\ pollTold' = pollTold \ {r}
    /\ UNCHANGED <<failed, conf, pollHeld, inDb, mail, polls, missed, up, now, pushed, pollRestarts, answers>>

\* rfc_retrieved_handler, in the thread that fetches: the network changes, a handler is posted.
RfcRetrieved(s) ==
    /\ answers < MaxRfc /\ answers' = answers + 1
    /\ conf' = Overridden(conf, s) /\ mail' = Append(mail, Notify)
    /\ UNCHANGED <<failed, pollHeld, inDb, box, polls, pollTold, missed, up, now, pushed, pollRestarts>>

\* update_polling_configurations: a copy that differs is replaced, stored, and an action posted.
Stale(all) == {r \in DOMAIN all : all[r] # Copy(conf)}
Updates(rs) == [i \in DOMAIN SetToSeq(rs) |-> Action({SetToSeq(rs)[i]}, "poll_configuration")]
PollHandled(does) == mail # <<>> /\ Head(mail).does = does
\* Mutant of NotifyControllers: the copies are replaced, and no action is posted.
NotifyControllersSilent ==
    /\ PollHandled("notify")
    /\ pollHeld' = [r \in DOMAIN pollHeld |-> Copy(conf)]
    /\ inDb' = [r \in DOMAIN inDb |-> [inDb[r] EXCEPT !.copy = Copy(conf)]]
    /\ mail' = Tail(mail)
    /\ UNCHANGED <<failed, conf, box, polls, pollTold, missed, up, now, pushed, pollRestarts, answers>>
NotifyControllers ==
    /\ PollHandled("notify")
    /\ pollHeld' = [r \in DOMAIN pollHeld |-> Copy(conf)]
    /\ inDb' = [r \in DOMAIN inDb |-> [inDb[r] EXCEPT !.copy = Copy(conf)]]
    /\ mail' = Tail(mail) \o Updates(Stale(pollHeld))
    /\ UNCHANGED <<failed, conf, box, polls, pollTold, missed, up, now, pushed, pollRestarts, answers>>

\* ctrlm_rf4ce_polling_action_push: an action for some remotes is posted.
Posts(to, action) ==
    /\ pushed < MaxActions /\ to # {} /\ pushed' = pushed + 1
    /\ mail' = Append(mail, Action(to, action))
    /\ UNCHANGED <<conf, pollHeld, inDb, box, polls, pollTold, missed, up, now, pollRestarts, answers>>
\* req_process_polling_action_push: for a remote or for all, once for each of them.
Requested(rs) == rs \subseteq DOMAIN pollHeld /\ Posts(rs, "reboot") /\ UNCHANGED failed
\* req_process_reverse_cmd, notify_firmware, handle_controller_metrics and push_ir_codes.
FindsRemote(r) == r \in DOMAIN pollHeld /\ Posts({r}, "alert") /\ UNCHANGED failed
NotifyFirmware(rs) == rs \subseteq DOMAIN pollHeld /\ Posts(rs, "ota") /\ UNCHANGED failed
Metrics(r) == r \in DOMAIN pollHeld /\ Posts({r}, "metrics") /\ UNCHANGED failed
PushIrCodes(r) == r \in DOMAIN pollHeld /\ Posts({r}, "irrf_status") /\ UNCHANGED failed
\* rib_configuration_complete: one that was not complete is asked for again, once.
Incomplete(r) ==
    /\ r \in DOMAIN pollHeld \ failed /\ failed' = failed \cup {r}
    /\ Posts({r}, "configuration")

\* polling_action_push: the action is queued for those of the remotes the network has.
Pushed ==
    /\ PollHandled("push")
    /\ polls' = [r \in Polled |->
                    IF r \in DOMAIN pollHeld /\ r \in Head(mail).to
                    THEN PollQueued(polls[r], [action |-> Head(mail).action, n |-> Len(polls[r])]) ELSE polls[r]]
    /\ mail' = Tail(mail)
    /\ UNCHANGED <<failed, conf, pollHeld, inDb, box, pollTold, missed, up, now, pushed, pollRestarts, answers>>

\* time_last_heartbeat_update: a gap that is short enough counts, and what was counted long enough is saved.
Beat(u, gap, private) ==
    LET diff == now + gap - u.last
        more == IF diff <= HbLimit THEN diff ELSE 0
    IN  [u EXCEPT !.last = now + gap, !.uptime = @ + more, !.privacy = @ + (IF private THEN more ELSE 0),
                  !.since = IF @ + diff >= HbToSave THEN 0 ELSE @ + diff]
Saved(u) == [last |-> u.last, start |-> u.start, uptime |-> u.uptime, privacy |-> u.privacy]
Beats(r, gap, private) ==
    /\ r \in DOMAIN pollHeld /\ now + gap <= MaxClock
    /\ now' = now + gap /\ up' = [up EXCEPT ![r] = Beat(@, gap, private)]
    /\ inDb' = IF up'[r].since = 0 THEN [inDb EXCEPT ![r].up = Saved(up'[r])] ELSE inDb

\* rf4ce_heartbeat: in a voice session no action is taken; else the first one is given, or lost on the air.
VoiceHeartbeat(r, gap, private) ==
    /\ Beats(r, gap, private)
    /\ UNCHANGED <<failed, conf, pollHeld, box, mail, polls, pollTold, missed, pushed, pollRestarts, answers>>
Renumbered(q) == [i \in DOMAIN q |-> [q[i] EXCEPT !.n = Cardinality({j \in DOMAIN q : q[j].n < q[i].n})]]
Heartbeat(r, gap, private, lost) ==
    /\ Beats(r, gap, private)
    /\ lost => polls[r] # <<>>
    /\ LET given == {a.action : a \in {polls[r][i] : i \in DOMAIN polls[r] \cap {1}}}
       IN  /\ polls' = IF polls[r] = <<>> THEN polls ELSE [polls EXCEPT ![r] = Renumbered(Tail(@))]
           /\ pollTold' = IF "poll_configuration" \in given /\ ~lost THEN pollTold \cup {r} ELSE pollTold
           /\ missed' = IF "poll_configuration" \in given /\ lost THEN missed \cup {r} ELSE missed
    /\ UNCHANGED <<failed, conf, pollHeld, box, mail, pushed, pollRestarts, answers>>

\* The process starts again: the controllers are loaded and brought up to date. The queues are gone.
PollRestart(json, tr181, order) ==
    /\ pollRestarts < MaxRestarts /\ pollRestarts' = pollRestarts + 1
    /\ conf' = Configured(json, tr181)
    /\ LET loaded == [r \in DOMAIN inDb |-> inDb[r].copy]
           again == {r \in DOMAIN inDb : loaded[r] # Copy(conf')}
           saved == [r \in DOMAIN inDb |->
                        IF order THEN [inDb[r].up EXCEPT !.uptime = up[r].uptime, !.privacy = up[r].privacy] ELSE inDb[r].up]
       IN  /\ pollHeld' = [r \in DOMAIN inDb |-> Copy(conf')]
           /\ inDb' = [r \in DOMAIN inDb |-> [copy |-> Copy(conf'), up |-> saved[r]]]
           /\ up' = [r \in DOMAIN inDb |-> Counted(saved[r])]
           /\ mail' = Updates(again)
           /\ missed' = missed \cup {r \in Polled : Waits(r, "poll_configuration") /\ r \notin again}
    /\ polls' = [r \in Polled |-> <<>>] /\ failed' = {}
    /\ UNCHANGED <<box, pollTold, now, pushed, answers>>
Crash == \E json, tr181 \in Sources : PollRestart(json, tr181, FALSE)
\* network_destroy and controller_destroy: the uptime is written, the last heartbeat is not.
Ends == \E json, tr181 \in Sources : PollRestart(json, tr181, TRUE)

PollNext ==
    \/ \E r \in Polled : PollValidated(r) \/ Reads(r)
    \/ \E s \in Sources : RfcRetrieved(s)
    \/ \E rs \in SUBSET Polled : Requested(rs) \/ NotifyFirmware(rs)
    \/ \E r \in Polled : FindsRemote(r) \/ Metrics(r) \/ PushIrCodes(r) \/ Incomplete(r)
    \/ NotifyControllers \/ Pushed \/ Crash \/ Ends
    \/ \E r \in Polled, gap \in Gaps, private \in BOOLEAN :
          VoiceHeartbeat(r, gap, private) \/ \E lost \in BOOLEAN : Heartbeat(r, gap, private, lost)
PollSpec == PollInit /\ [][PollNext]_pollVars

-----------------------------------------------------------------------------
\* Actions leave by priority, and those of one priority in the order they came in.
PollsInOrder ==
    \A r \in Polled : \A i, j \in DOMAIN polls[r] :
        i < j => LET a == polls[r][i]  b == polls[r][j]
                 IN  Priority(a.action) < Priority(b.action) \/ (Priority(a.action) = Priority(b.action) /\ a.n < b.n)

\* A remote polls the way the network has it, or will be told, but for an action that was lost.
KnowsOrTold ==
    \A r \in DOMAIN pollHeld :
        /\ pollHeld[r] = Copy(conf) \/ \E i \in DOMAIN mail : mail[i].does = "notify"
        /\ box[r] \in {Nothing, pollHeld[r]} \/ r \in pollTold \cup missed \/ Waits(r, "poll_configuration")

\* What the database keeps is at most one interval of saving behind, and is never ahead.
SavedInTime ==
    \A r \in DOMAIN up :
        /\ inDb[r].up.last <= up[r].last /\ up[r].since < HbToSave
        /\ up[r].last - inDb[r].up.last = up[r].since
        /\ inDb[r].up.privacy <= inDb[r].up.uptime /\ up[r].privacy <= up[r].uptime

\* Actions leave in their order, a remote knows its configuration or is told to read it,
\* and its uptime is stored in time (ctrlm_rf4ce_controller.cpp).
PollSound == PollsInOrder /\ KnowsOrTold /\ SavedInTime

\* No remote was up longer than the time since its uptime started counting.
UptimeElapsed == \A r \in DOMAIN up : up[r].uptime <= up[r].last - up[r].start

\* A type polls only with methods the target supports.
MethodsSupported == conf.methods \subseteq conf.target
=============================================================================
