---------------------------- MODULE VoiceSession ----------------------------
(***************************************************************************)
(* The voice session object of the control manager (ctrlm_voice_t) and the *)
(* four threads that drive it:                                             *)
(*   main - the consumer of the main queue: controller requests and stops, *)
(*          and the speech router's events once they have been queued;     *)
(*   ipc  - the bus thread that runs Thunder calls (a session by text, and *)
(*          the termination of a session);                                 *)
(*   glib - the main loop that fires g_timeout_add sources;                *)
(*   xrsr - the speech router's thread, external, which calls the endpoint *)
(*          handlers.                                                      *)
(* A handler is one action.  It is split only where the code blocks: at    *)
(* xrsr_session_terminate, which waits for the xrsr thread, and at         *)
(* sem_wait on the voice session request semaphore.                        *)
(* The build modelled has no local microphone: there is one session group, *)
(* and its device is always push to talk.                                  *)
(***************************************************************************)
EXTENDS Naturals, Integers, Sequences

CONSTANTS
    Rf4ce,         \* RF4CE controllers; they read the voice command status
    Ble,           \* BLE controllers; they do not
    NoController,  \* CTRLM_MAIN_CONTROLLER_ID_INVALID, the owner of a session by text
    ControllerId,  \* the numeric id of each controller, unique within its network only
    ByText,        \* TRUE if an application asks for sessions by text
    IdMax,         \* the largest session id: 0xFFFFFFFF in the code
    MaxRequests,   \* bound: voice session requests in a behaviour
    MaxRouter,     \* bound: speech router sessions started in a behaviour
    QueueMax       \* bound: the router pushes onto the main queue only below this length

Controllers == Rf4ce \cup Ble

ASSUME ControllersAssumption ==
    /\ Rf4ce \cap Ble = {}
    /\ NoController \notin Controllers
    /\ ControllerId \in [Controllers -> Nat \ {0}]
    /\ ByText \in BOOLEAN

ASSUME BoundsAssumption ==
    /\ IdMax \in Nat \ {0}
    /\ MaxRequests \in Nat
    /\ MaxRouter \in Nat
    /\ QueueMax \in Nat

Threads == {"main", "ipc", "glib"}

VARIABLES
    vo,      \* the voice object: its session, status, timer tags and counters
    mq,      \* main queue: the router's events and the command statuses, in order
    ends,    \* voice session end messages queued for the RF4CE network
    count,   \* voice_session_active_count_ of the RF4CE network
    rib,     \* RIB of each RF4CE controller: is its voice command status PENDING
    vsr,     \* value of vsr_semaphore
    pc,      \* where each thread of the control manager is
    xr,      \* the speech router
    asked,   \* requests made so far, counted for the bound only
    pub,     \* history: the events published for each router session
    sent     \* history: how often the statistics of each session id were published

vars == <<vo, mq, ends, count, rib, vsr, pc, xr, asked, pub, sent>>

IdOf(c) == IF c = NoController THEN 0 ELSE ControllerId[c]

-----------------------------------------------------------------------------
(* The voice object and the routines its handlers share.  A routine is an  *)
(* operator from the object to the object; what it pushes onto the queue   *)
(* or publishes is a companion operator.                                   *)

VoiceInit ==
    [src     |-> "READY",      \* state_src
     dst     |-> "READY",      \* state_dst
     ctl     |-> NoController, \* network_id and controller_id
     cmd     |-> FALSE,        \* controller_command_status
     srv     |-> FALSE,        \* session_active_server
     act     |-> FALSE,        \* session_active_controller
     hal     |-> FALSE,        \* hal_input_object is not NULL
     pipe    |-> FALSE,        \* audio_pipe[PIPE_WRITE] is open
     text    |-> FALSE,        \* is_session_by_text
     uuid    |-> 0,            \* uuid, 0 is the null uuid
     ipcId   |-> 0,            \* ipc_common_data.session_id_ctrlm
     ipcUuid |-> 0,            \* ipc_common_data.session_id_server
     statsId |-> 0,            \* stats_session_id
     sid     |-> 0,            \* session_id
     status  |-> "PENDING",    \* status.status: pending, or any of the final ones
     active  |-> FALSE,        \* CTRLM_VOICE_DEVICE_STATUS_SESSION_ACTIVE
     tPkt    |-> FALSE,        \* timeout_packet_tag names a live source
     tCmd    |-> "off",        \* timeout_ctrl_cmd_status_read: off, armed, or a stale tag
     tStats  |-> FALSE,        \* timeout_ctrl_session_stats_rxd names a live source
     orphans |-> 0]            \* live stats sources whose tag has been overwritten

\* ctrlm_voice_t::voice_status_set
VoiceStatusSet(s) ==
    IF s.ctl = NoController \/ s.status = "PENDING" THEN s
    ELSE IF s.cmd /\ s.tCmd = "off" THEN [s EXCEPT !.tCmd = "armed"]
    ELSE IF ~s.srv THEN [s EXCEPT !.src = "READY"]
    ELSE s

\* The status message it pushes; the BLE network ignores its own.
StatusMsgs(s) ==
    IF s.ctl \in Rf4ce
      THEN <<[type |-> "Status", c |-> s.ctl, pending |-> s.status = "PENDING"]>>
      ELSE <<>>

\* Mutants of Released: a missed close, a missed g_source_remove.
ReleasedNotInput(s) == [s EXCEPT !.tPkt = FALSE, !.pipe = FALSE]
ReleasedNotTimeout(s) == [s EXCEPT !.pipe = FALSE, !.hal = FALSE]

\* What voice_session_end releases: the packet timeout, the pipe, the input.
Released(s) == [s EXCEPT !.tPkt = FALSE, !.pipe = FALSE, !.hal = FALSE]

\* ctrlm_voice_t::voice_session_end(session, ...)
VoiceSessionEnd(s) ==
    IF s.src # "STREAMING" THEN s
    ELSE LET act == s.act /\ s.cmd
         IN  [Released(s) EXCEPT !.act = act,
                                 !.tStats = TRUE,
                                 !.orphans = IF s.tStats THEN @ + 1 ELSE @,
                                 !.src = IF act THEN "WAITING" ELSE "READY"]

\* Mutant of EndMsgs: it is pushed when no session is in progress, too.
EndMsgsUnchecked(s) == IF s.ctl \in Rf4ce THEN 1 ELSE 0

\* The end messages it pushes to the RF4CE network.
EndMsgs(s) == IF s.src = "STREAMING" /\ s.ctl \in Rf4ce THEN 1 ELSE 0

\* ctrlm_voice_t::voice_session_notify_stats
StatsDue(s) == s.statsId # 0 /\ s.statsId = s.ipcId
VoiceSessionNotifyStats(s) ==
    IF ~StatsDue(s) THEN s
    ELSE [s EXCEPT !.tStats = FALSE,
                   !.statsId = IF s.srv THEN @ ELSE 0]

\* One more publication of the statistics of session id; two is enough to know of.
Sent(id, publish) ==
    IF publish /\ id # 0
      THEN [sent EXCEPT ![id] = IF @ = 2 THEN 2 ELSE @ + 1]
      ELSE sent

\* Mutant of VoiceSessionIdNext: the wrap is forgotten.
VoiceSessionIdNextUnbounded(s) == s.sid + 1

\* ctrlm_voice_t::voice_session_id_next
VoiceSessionIdNext(s) == IF s.sid = IdMax THEN 1 ELSE s.sid + 1

Publish(u, e) == [pub EXCEPT ![u] = Append(@, e)]

\* Mutant of Settled: the source is not looked at again when the server ends.
SettledNot(s) == s

\* The server has ended and the source does not stream: with the controller
\* done as well, the source is ready.
Settled(s) == IF s.act THEN s ELSE [s EXCEPT !.src = "READY"]

\* ctrlm_voice_t::voice_session_end_callback, from the uuid check on
SessionEndCallback(s) ==
    LET ended == [s EXCEPT !.active = FALSE, !.srv = FALSE]
    IN  [IF s.src = "STREAMING" THEN VoiceSessionEnd(ended) ELSE Settled(ended)
         EXCEPT !.dst = "READY"]

\* It publishes the statistics itself when the source is done.
EndPublishesStats(s) == s.src # "STREAMING" /\ ~s.act

-----------------------------------------------------------------------------
(* Requests, on the main thread for a controller and on the bus thread for *)
(* a session by text.                                                      *)

Idle == [op |-> "idle", r |-> NoController, n |-> 0]
At(t, op) == pc[t].op = op
Goto(t, op, r, n) == pc' = [pc EXCEPT ![t] = [op |-> op, r |-> r, n |-> n]]
ThreadOf(r) == IF r = NoController THEN "ipc" ELSE "main"

\* ind_process_voice_session_request up to voice_session_req, and that up to
\* the abort of the session in progress, if there is one.
RequestStart(r) ==
    LET t == ThreadOf(r)
    IN  /\ At(t, "idle")
        /\ asked < MaxRequests /\ asked' = asked + 1
        /\ count' = IF r \in Rf4ce THEN count + 1 ELSE count
        /\ IF vo.src = "WAITING"
             THEN /\ vo' = [vo EXCEPT !.tCmd = "off", !.uuid = 0]
                  /\ Goto(t, "term", r, 0)
             ELSE /\ vo' = vo
                  /\ IF IdOf(vo.ctl) = IdOf(r) /\ (vo.src = "STREAMING" \/ vo.dst # "READY")
                       THEN Goto(t, "term", r, 0)
                       ELSE Goto(t, "open", r, 0)
        /\ UNCHANGED <<mq, ends, rib, vsr, xr, pub, sent>>

\* The session the request acquires.
Acquired(r) ==
    [vo EXCEPT !.src = "STREAMING", !.dst = "REQUESTED", !.ctl = r,
               !.cmd = r \in Rf4ce, !.srv = TRUE, !.act = TRUE,
               !.hal = r # NoController, !.pipe = r \in Rf4ce,
               !.text = r = NoController,
               !.status = "PENDING",
               !.statsId = vo.sid + 1,
               !.tPkt = r # NoController]

\* xrsr_session_request and ctrlm_xraudio_hal_input_open can only succeed when
\* the router, or the audio input, is not held.
CanAcquire(r) ==
    IF r = NoController
      THEN /\ vo.src # "STREAMING" /\ vo.dst = "READY"
           /\ xr.pending = "no" /\ xr.phase = "idle"
      ELSE ~vo.hal /\ xr.pending # "text"

RequestAccept(r) ==
    LET t == ThreadOf(r)
    IN  /\ At(t, "open") /\ pc[t].r = r
        /\ CanAcquire(r)
        /\ mq' = mq \o StatusMsgs(Acquired(r))
        /\ vsr' = vsr + 1
        /\ Goto(t, "idle", NoController, 0)
        /\ \E started \in IF r \in Ble THEN BOOLEAN ELSE {TRUE} :
             \* a BLE session ends at once when its audio stream cannot start
             IF started
               THEN /\ vo' = Acquired(r)
                    /\ xr' = [xr EXCEPT !.pending = IF r = NoController THEN "text" ELSE "hal"]
               ELSE /\ vo' = VoiceSessionEnd(Acquired(r))
                    /\ xr' = xr
        /\ UNCHANGED <<asked, ends, count, rib, pub, sent>>

\* Mutant of Uncount: a refused request stays counted.
UncountNever(r) == count

\* The count, when the request of r is refused.
Uncount(r) == IF r \in Rf4ce THEN count - 1 ELSE count

\* Busy, or the pipe or the audio input could not be opened.
RequestRefuse(r) ==
    LET t == ThreadOf(r)
    IN  /\ At(t, "open") /\ pc[t].r = r
        /\ count' = Uncount(r)
        /\ Goto(t, "idle", NoController, 0)
        /\ UNCHANGED <<asked, vo, mq, ends, rib, vsr, xr, pub, sent>>

\* ctrlm_voice_t::voice_session_term
SessionTerm(u) ==
    /\ At("ipc", "idle")
    /\ vo.ipcUuid = u
    /\ vo.src = "STREAMING" \/ vo.dst # "READY"
    /\ Goto("ipc", "term", NoController, 1)
    /\ UNCHANGED <<asked, vo, mq, ends, count, rib, vsr, xr, pub, sent>>

-----------------------------------------------------------------------------
(* The main thread: what controllers do, and the queue.                    *)

\* End the source, and count the end message for the RF4CE network.
EndSource(s) ==
    /\ vo' = VoiceSessionEnd(s)
    /\ ends' = ends + EndMsgs(s)

\* ind_process_voice_session_stop, or the BLE voice session end.
Stop(c) ==
    /\ At("main", "idle")
    /\ vo.ctl = c /\ vo.src = "STREAMING"
    /\ EndSource(vo)
    /\ UNCHANGED <<asked, mq, count, rib, vsr, pc, xr, pub, sent>>

\* ind_process_voice_session_end
VoiceEndMsg ==
    /\ At("main", "idle")
    /\ ends > 0
    /\ ends' = ends - 1
    /\ count' = count - 1
    /\ UNCHANGED <<asked, vo, mq, rib, vsr, pc, xr, pub, sent>>

\* The controller reads its voice command status from the RIB:
\* voice_controller_command_status_read, then the attribute's reset.
StatusRead(c) ==
    /\ At("main", "idle")
    /\ ~rib[c]
    /\ vo.ctl = c
    /\ LET s == [vo EXCEPT !.act = FALSE, !.tCmd = "off"]
       IN  vo' = IF s.srv THEN s ELSE [s EXCEPT !.src = "READY"]
    /\ sent' = Sent(vo.statsId, ~vo.srv)
    /\ UNCHANGED <<asked, mq, ends, count, rib, vsr, pc, xr, pub>>

\* The controller writes its session or reboot statistics to the RIB.
StatsReceived ==
    /\ At("main", "idle")
    /\ StatsDue(vo)
    /\ vo' = VoiceSessionNotifyStats(vo)
    /\ sent' = Sent(vo.statsId, ~vo.srv)
    /\ UNCHANGED <<asked, mq, ends, count, rib, vsr, pc, xr, pub>>

Head1(type) == At("main", "idle") /\ mq # <<>> /\ Head(mq).type = type

\* ctrlm_obj_network_rf4ce_t::voice_command_status_set
StatusMsg ==
    /\ Head1("Status")
    /\ rib' = [rib EXCEPT ![Head(mq).c] = Head(mq).pending]
    /\ mq' = Tail(mq)
    /\ UNCHANGED <<asked, vo, ends, count, vsr, pc, xr, pub, sent>>

\* voice_session_begin_callback; a session by text ends its source at once.
BeginMsg ==
    /\ Head1("Begin")
    /\ LET u  == Head(mq).u
           id == VoiceSessionIdNext(vo)
           s  == [vo EXCEPT !.uuid = u, !.sid = id, !.ipcId = id, !.ipcUuid = u,
                            !.status = "PENDING", !.active = TRUE, !.dst = "OPENED"]
       IN  /\ IF s.text THEN EndSource(s) ELSE vo' = s /\ ends' = ends
           /\ mq' = Tail(mq) \o StatusMsgs(s)
           /\ pub' = Publish(u, "begin")
    /\ UNCHANGED <<asked, count, rib, vsr, pc, xr, sent>>

\* Mutant of Current: events of any session are taken.
CurrentAlways(u) == TRUE

\* voice_session_id_is_current, which every later event is checked with.
Current(u) == u = vo.uuid

StreamBeginMsg ==
    /\ Head1("StreamBegin")
    /\ mq' = Tail(mq)
    /\ IF Current(Head(mq).u)
         THEN /\ vo' = [vo EXCEPT !.dst = "STREAMING"]
              /\ pub' = Publish(vo.ipcUuid, "streamBegin")
         ELSE UNCHANGED <<vo, pub>>
    /\ UNCHANGED <<asked, ends, count, rib, vsr, pc, xr, sent>>

StreamEndMsg ==
    /\ Head1("StreamEnd")
    /\ IF Current(Head(mq).u)
         THEN LET fresh == vo.status = "PENDING"
                  s == [vo EXCEPT !.status = "FINAL"]
              IN  /\ vo' = [IF fresh THEN VoiceStatusSet(s) ELSE s EXCEPT !.dst = "OPENED"]
                  /\ mq' = Tail(mq) \o (IF fresh THEN StatusMsgs(s) ELSE <<>>)
                  /\ pub' = Publish(vo.ipcUuid, "streamEnd")
         ELSE /\ mq' = Tail(mq)
              /\ UNCHANGED <<vo, pub>>
    /\ UNCHANGED <<asked, ends, count, rib, vsr, pc, xr, sent>>

\* voice_session_end_callback; a semaphore left above zero is then waited down.
EndMsg ==
    /\ Head1("End")
    /\ mq' = Tail(mq)
    /\ IF Current(Head(mq).u)
         THEN /\ vo' = SessionEndCallback(vo)
              /\ ends' = ends + EndMsgs(vo)
              /\ pub' = Publish(vo.ipcUuid, "end")
              /\ sent' = Sent(vo.statsId, EndPublishesStats(vo))
              /\ IF vsr > 0 THEN Goto("main", "drain", NoController, vsr) ELSE pc' = pc
         ELSE UNCHANGED <<vo, ends, pub, sent, pc>>
    /\ UNCHANGED <<asked, count, rib, vsr, xr>>

Drain ==
    /\ At("main", "drain")
    /\ IF pc["main"].n = 0
         THEN Goto("main", "idle", NoController, 0) /\ vsr' = vsr
         ELSE vsr > 0 /\ vsr' = vsr - 1
              /\ Goto("main", "drain", NoController, pc["main"].n - 1)
    /\ UNCHANGED <<asked, vo, mq, ends, count, rib, xr, pub, sent>>

-----------------------------------------------------------------------------
(* Timeouts, on the glib main loop.                                        *)

\* Mutant of Expired: the timeout only logs.
ExpiredLogged(s) == s

\* The session after its packet timeout.
Expired(s) == VoiceSessionEnd(s)

\* voice_session_timeout
PacketTimeout ==
    /\ At("glib", "idle")
    /\ vo.tPkt
    /\ vo' = Expired([vo EXCEPT !.tPkt = FALSE])
    /\ ends' = ends + EndMsgs(vo)
    /\ UNCHANGED <<asked, mq, count, rib, vsr, pc, xr, pub, sent>>

\* voice_session_controller_stats_rxd_timeout, from the source its tag names
\* or from one whose tag was overwritten: either clears the tag.
StatsTimeout ==
    /\ At("glib", "idle")
    /\ \E orphan \in BOOLEAN :
         /\ IF orphan THEN vo.orphans > 0 ELSE vo.tStats
         /\ LET left == IF ~orphan THEN vo.orphans
                        ELSE IF vo.tStats THEN vo.orphans ELSE vo.orphans - 1
                s == [vo EXCEPT !.tStats = FALSE, !.orphans = left]
            IN  vo' = VoiceSessionNotifyStats(s)
    /\ sent' = Sent(vo.statsId, StatsDue(vo) /\ ~vo.srv)
    /\ UNCHANGED <<asked, mq, ends, count, rib, vsr, pc, xr, pub>>

\* voice_session_controller_command_status_read_timeout
CmdTimeoutStart ==
    /\ At("glib", "idle")
    /\ vo.tCmd = "armed"
    /\ IF vo.ctl = NoController
         THEN vo' = [vo EXCEPT !.tCmd = "stale"] /\ pc' = pc
         ELSE /\ vo' = [vo EXCEPT !.act = FALSE, !.tCmd = "off"]
              /\ Goto("glib", "term", NoController, 0)
    /\ UNCHANGED <<asked, mq, ends, count, rib, vsr, xr, pub, sent>>

CmdTimeoutFinish ==
    /\ At("glib", "finish")
    /\ vo' = IF vo.srv THEN vo ELSE [vo EXCEPT !.src = "READY"]
    /\ sent' = Sent(vo.statsId, ~vo.srv)
    /\ Goto("glib", "idle", NoController, 0)
    /\ UNCHANGED <<asked, mq, ends, count, rib, vsr, xr, pub>>

-----------------------------------------------------------------------------
(* The speech router (external) and the endpoint handlers it calls.  It    *)
(* runs one session at a time and gives each a uuid of its own.            *)

Push(msg) == mq' = Append(mq, msg)

\* The audio input, or the text request, starts a session; its begin handler
\* is called and waits for the request that caused it.
RouterBegin ==
    /\ xr.pending # "no" /\ xr.phase = "idle"
    /\ xr.last < MaxRouter
    /\ xr' = [pending |-> "no", phase |-> "wait", last |-> xr.last + 1]
    /\ UNCHANGED <<asked, vo, mq, ends, count, rib, vsr, pc, pub, sent>>

\* The audio input was closed before the router had started.
RouterDrop ==
    /\ xr.pending = "hal" /\ ~vo.hal
    /\ xr' = [xr EXCEPT !.pending = "no"]
    /\ UNCHANGED <<asked, vo, mq, ends, count, rib, vsr, pc, pub, sent>>

\* ctrlm_voice_handler_ws_nextgen_session_begin, from sem_wait on
BeginHandler ==
    /\ xr.phase = "wait"
    /\ vsr > 0
    /\ vsr' = vsr - 1
    /\ xr' = [xr EXCEPT !.phase = "begun"]
    /\ Push([type |-> "Begin", u |-> xr.last])
    /\ UNCHANGED <<asked, vo, ends, count, rib, pc, pub, sent>>

StreamBeginHandler ==
    /\ xr.phase = "begun"
    /\ Len(mq) < QueueMax
    /\ xr' = [xr EXCEPT !.phase = "stream"]
    /\ Push([type |-> "StreamBegin", u |-> xr.last])
    /\ UNCHANGED <<asked, vo, ends, count, rib, vsr, pc, pub, sent>>

StreamEndHandler ==
    /\ xr.phase = "stream"
    /\ Len(mq) < QueueMax
    /\ xr' = [xr EXCEPT !.phase = "drained"]
    /\ Push([type |-> "StreamEnd", u |-> xr.last])
    /\ UNCHANGED <<asked, vo, ends, count, rib, vsr, pc, pub, sent>>

\* ctrlm_voice_handler_ws_nextgen_session_end, for any reason but termination
EndHandler ==
    /\ xr.phase \in {"begun", "drained"}
    /\ Len(mq) < QueueMax
    /\ xr' = [xr EXCEPT !.phase = "idle"]
    /\ mq' = Append(mq, [type |-> "End", u |-> xr.last]) \o StatusMsgs(vo)
    /\ vo' = VoiceStatusSet(vo)
    /\ UNCHANGED <<asked, ends, count, rib, vsr, pc, pub, sent>>

\* Where a thread goes on when xrsr_session_terminate returns to it.
AfterTerm(t) ==
    IF t = "glib" THEN Goto(t, "finish", NoController, 0)
    ELSE IF pc[t].n = 1 THEN Goto(t, "idle", NoController, 0)
    ELSE Goto(t, "open", pc[t].r, 0)

\* xrsr_session_terminate: the router ends its session, whose end handler then
\* runs the callback itself instead of queueing it.
TermServed(t) ==
    /\ At(t, "term")
    /\ xr.phase # "wait"
    /\ AfterTerm(t)
    /\ IF xr.phase = "idle"
         THEN UNCHANGED <<vo, mq, ends, vsr, xr, pub, sent>>
         ELSE LET cur == Current(xr.last)
                  s   == IF cur THEN SessionEndCallback(vo) ELSE vo
              IN  /\ xr' = [xr EXCEPT !.phase = "idle"]
                  /\ vo' = VoiceStatusSet(s)
                  /\ mq' = mq \o StatusMsgs(s)
                  /\ IF cur
                       THEN /\ ends' = ends + EndMsgs(vo)
                            /\ pub' = Publish(vo.ipcUuid, "end")
                            /\ sent' = Sent(vo.statsId, EndPublishesStats(vo))
                            /\ vsr' = 0
                       ELSE UNCHANGED <<ends, pub, sent, vsr>>
    /\ UNCHANGED <<asked, count, rib>>

\* voice_action_tv_mute_callback and its siblings, called as the server speaks
TvAvrHandler ==
    /\ xr.phase \in {"begun", "stream", "drained"}
    /\ vo.status = "PENDING"
    /\ vo' = [vo EXCEPT !.status = "FINAL"]
    /\ UNCHANGED <<asked, mq, ends, count, rib, vsr, pc, xr, pub, sent>>

-----------------------------------------------------------------------------
Init ==
    /\ vo = VoiceInit
    /\ mq = <<>>
    /\ ends = 0
    /\ count = 0
    /\ rib = [c \in Rf4ce |-> FALSE]
    /\ vsr = 0
    /\ pc = [t \in Threads |-> Idle]
    /\ asked = 0
    /\ xr = [pending |-> "no", phase |-> "idle", last |-> 0]
    /\ pub = [u \in 1..MaxRouter |-> <<>>]
    /\ sent = [id \in 1..(IdMax + 1) |-> 0]

Requesters == Controllers \cup IF ByText THEN {NoController} ELSE {}
Requests == \E r \in Requesters :
                RequestStart(r) \/ RequestAccept(r) \/ RequestRefuse(r)
FromControllers == \/ \E c \in Controllers : Stop(c)
                   \/ \E c \in Rf4ce : StatusRead(c)
                   \/ StatsReceived
Queue == VoiceEndMsg \/ StatusMsg \/ BeginMsg \/ StreamBeginMsg \/ StreamEndMsg \/ EndMsg \/ Drain
Timeouts == PacketTimeout \/ StatsTimeout \/ CmdTimeoutStart \/ CmdTimeoutFinish
Router == \/ RouterBegin \/ RouterDrop \/ BeginHandler
          \/ StreamBeginHandler \/ StreamEndHandler \/ EndHandler \/ TvAvrHandler
          \/ \E t \in Threads : TermServed(t)
          \/ \E u \in 1..MaxRouter : SessionTerm(u)

Next == Requests \/ FromControllers \/ Queue \/ Timeouts \/ Router

Spec == Init /\ [][Next]_vars

\* The main loop fires its sources, the main thread serves its queue and returns
\* from its requests, and the router serves a termination and ends its sessions.
Fairness ==
    /\ WF_vars(PacketTimeout) /\ WF_vars(StatsTimeout)
    /\ WF_vars(CmdTimeoutStart) /\ WF_vars(CmdTimeoutFinish)
    /\ WF_vars(Queue)
    /\ \A r \in Requesters : WF_vars(RequestAccept(r) \/ RequestRefuse(r))
    /\ \A t \in Threads : WF_vars(TermServed(t))
    /\ WF_vars(RouterBegin) /\ WF_vars(BeginHandler)
    /\ WF_vars(StreamEndHandler) /\ WF_vars(EndHandler)

FairSpec == Spec /\ Fairness

-----------------------------------------------------------------------------
(* Properties.                                                             *)

Message == [type : {"Begin", "StreamBegin", "StreamEnd", "End"}, u : 1..MaxRouter]
           \cup [type : {"Status"}, c : Rf4ce, pending : BOOLEAN]

VoiceObject ==
    [src     : {"READY", "STREAMING", "WAITING"},
     dst     : {"READY", "REQUESTED", "OPENED", "STREAMING"},
     ctl     : Controllers \cup {NoController},
     cmd     : BOOLEAN, srv : BOOLEAN, act : BOOLEAN,
     hal     : BOOLEAN, pipe : BOOLEAN, text : BOOLEAN,
     uuid    : Nat, ipcId : Nat, ipcUuid : Nat, statsId : Nat, sid : 0..IdMax,
     status  : {"PENDING", "FINAL"},
     active  : BOOLEAN,
     tPkt    : BOOLEAN, tCmd : {"off", "armed", "stale"}, tStats : BOOLEAN,
     orphans : Nat]

\* Every variable has its type; the semaphore and the queued messages never go
\* below zero, the RF4CE count may (it is unsigned in the code).
TypeOK ==
    /\ vo \in VoiceObject
    /\ mq \in Seq(Message)
    /\ ends \in Nat
    /\ count \in Int
    /\ rib \in [Rf4ce -> BOOLEAN]
    /\ vsr \in Nat
    /\ pc \in [Threads -> [op : {"idle", "term", "open", "drain", "finish"},
                           r  : Controllers \cup {NoController}, n : Nat]]
    /\ xr \in [pending : {"no", "hal", "text"},
               phase : {"idle", "wait", "begun", "stream", "drained"},
               last : 0..MaxRouter]
    /\ asked \in 0..MaxRequests

\* The audio input and the write pipe are held exactly by a session whose source
\* streams: no path out of STREAMING leaks them, no path into it lacks them.
AudioHeldByStreamingSource ==
    /\ vo.hal => vo.src = "STREAMING"
    /\ vo.pipe => vo.hal
    /\ vo.src = "STREAMING" /\ ~vo.text => vo.hal

\* A streaming source that is not a session by text is watched: the packet
\* timeout is live, so a controller that falls silent cannot hold the session;
\* and the timeout never outlives the streaming.
PacketWatchdog == vo.tPkt <=> vo.src = "STREAMING" /\ ~vo.text

\* While the source waits, somebody can still bring it back to READY: the
\* server has not ended, the controller has not read its status, or the timeout
\* for that is being handled.
WaitingHasOwner == vo.src = "WAITING" => vo.srv \/ vo.act \/ pc["glib"].op # "idle"

\* The RF4CE count of active sessions is the session that streams, plus the
\* request being processed, plus the end messages still queued: it is what
\* frequency agility is re-enabled on.
InProgress == IF pc["main"].op \in {"term", "open"} /\ pc["main"].r \in Rf4ce THEN 1 ELSE 0
ActiveCountBalanced == count = InProgress + EndMsgs(vo) + ends

\* For each router session the events published start with its begin, and it
\* is begun and ended at most once, whatever the order its messages arrive in.
EventsBegunAndEndedOnce ==
    \A u \in 1..MaxRouter :
        /\ pub[u] # <<>> => pub[u][1] = "begin"
        /\ \A i, j \in DOMAIN pub[u] :
             pub[u][i] = pub[u][j] /\ pub[u][i] \in {"begin", "end"} => i = j

\* The statistics of a session are published at most once.
StatsSentAtMostOnce == \A id \in DOMAIN sent : sent[id] <= 1

\* A request never waits for the router to end its session while the router's
\* begin handler waits for the semaphore only a request posts.
RequestNeverDeadlocks ==
    ~(pc["main"].op = "term" /\ xr.phase = "wait" /\ vsr = 0)

\* A streaming source always stops streaming, even if the controller never says so.
StreamingEnds == vo.src = "STREAMING" ~> vo.src # "STREAMING"

\* The audio input is leased as VoiceLease says: to one controller at a time,
\* and every release by an RF4CE controller is queued for its network once.
Lease == INSTANCE VoiceLease
            WITH holder <- IF vo.hal THEN vo.ctl ELSE NoController, owed <- ends
ImplementsLease == Lease!Spec
=============================================================================
