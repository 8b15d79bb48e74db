------------------------- MODULE VoiceSessionProofs -------------------------
(***************************************************************************)
(* Theorems about the voice session object, for every set of controllers   *)
(* and every bound.  The argument is an invariant of the object alone,     *)
(* Sound: each routine of the object preserves it whatever its caller, so  *)
(* each handler does.  Two facts carry it: a streaming source always has   *)
(* an active server (or the voice status would make it READY with its      *)
(* audio input open), and a session by text has no controller.             *)
(***************************************************************************)
EXTENDS VoiceSession, SequenceTheorems, TLAPS

\* The invariant of the voice object.
Sound(s) ==
    /\ s.hal => s.src = "STREAMING" /\ s.ctl \in Controllers
    /\ s.pipe => s.hal
    /\ s.src = "STREAMING" /\ ~s.text => s.hal
    /\ s.tPkt <=> s.src = "STREAMING" /\ ~s.text
    /\ s.src = "STREAMING" => s.srv
    /\ s.text => s.ctl = NoController

\* What is left of Sound once a caller of voice_session_end has cleared the tag of
\* the packet timeout or the activity of the server.
Ending(s) ==
    /\ s.hal => s.src = "STREAMING"
    /\ s.pipe => s.hal
    /\ s.tPkt => s.src = "STREAMING"
    /\ s.text => s.ctl = NoController

\* The source waits for somebody.
Owned(s) == s.src = "WAITING" => s.srv \/ s.act

-----------------------------------------------------------------------------
(* The routines of the object keep its type.                               *)

\* The end of a session keeps the type.
LEMMA VoiceSessionEndType ==
    ASSUME NEW s \in VoiceObject
    PROVE  VoiceSessionEnd(s) \in VoiceObject
  <1>1. CASE s.src # "STREAMING"
    BY <1>1 DEF VoiceSessionEnd
  <1>2. CASE s.src = "STREAMING"
    <2> DEFINE act == s.act /\ s.cmd
               orphans == IF s.tStats THEN Released(s).orphans + 1 ELSE Released(s).orphans
               src == IF act THEN "WAITING" ELSE "READY"
    <2>1. Released(s) \in VoiceObject
      BY Zenon DEF Released, VoiceObject
    <2>2. act \in BOOLEAN /\ orphans \in Nat /\ src \in {"READY", "STREAMING", "WAITING"}
      BY <2>1 DEF VoiceObject
    <2>3. VoiceSessionEnd(s) = [Released(s) EXCEPT !.act = act, !.tStats = TRUE,
                                                   !.orphans = orphans, !.src = src]
      BY <1>2, Zenon DEF VoiceSessionEnd
    <2> HIDE DEF act, orphans, src
    <2> DEFINE e == [Released(s) EXCEPT !.act = act, !.tStats = TRUE]
    <2>4. e \in VoiceObject
      BY <2>1, <2>2, ZenonT(60) DEF VoiceObject
    <2>5. VoiceSessionEnd(s) = [e EXCEPT !.orphans = orphans, !.src = src]
      BY <2>3, Zenon
    <2> HIDE DEF e
    <2>. QED
      BY <2>2, <2>4, <2>5, ZenonT(60) DEF VoiceObject
  <1>. QED
    BY <1>1, <1>2

\* A status keeps the type.
LEMMA VoiceStatusSetType ==
    ASSUME NEW s \in VoiceObject
    PROVE  VoiceStatusSet(s) \in VoiceObject
  <1>1. [s EXCEPT !.tCmd = "armed"] \in VoiceObject
    BY ZenonT(40) DEF VoiceObject
  <1>2. [s EXCEPT !.src = "READY"] \in VoiceObject
    BY ZenonT(40) DEF VoiceObject
  <1>. QED
    BY <1>1, <1>2 DEF VoiceStatusSet

\* Statistics keep the type.
LEMMA NotifyStatsType ==
    ASSUME NEW s \in VoiceObject
    PROVE  VoiceSessionNotifyStats(s) \in VoiceObject
  <1>1. [s EXCEPT !.tStats = FALSE, !.statsId = s.statsId] \in VoiceObject
    BY ZenonT(40) DEF VoiceObject
  <1>2. [s EXCEPT !.tStats = FALSE, !.statsId = 0] \in VoiceObject
    <2>1. 0 \in Nat
      OBVIOUS
    <2>. QED
      BY <2>1, ZenonT(40) DEF VoiceObject
  <1>. QED
    BY <1>1, <1>2 DEF VoiceSessionNotifyStats

\* The callback of the end keeps the type.
LEMMA SessionEndCallbackType ==
    ASSUME NEW s \in VoiceObject
    PROVE  SessionEndCallback(s) \in VoiceObject
  <1> DEFINE ended == [s EXCEPT !.active = FALSE, !.srv = FALSE]
             next  == IF s.src = "STREAMING" THEN VoiceSessionEnd(ended) ELSE Settled(ended)
  <1>1. ended \in VoiceObject
    BY ZenonT(40) DEF VoiceObject
  <1>2. Settled(ended) \in VoiceObject
    <2>1. [ended EXCEPT !.src = "READY"] \in VoiceObject
      BY <1>1, ZenonT(40) DEF VoiceObject
    <2>. QED
      BY <1>1, <2>1 DEF Settled
  <1>3. next \in VoiceObject
    BY <1>1, <1>2, VoiceSessionEndType
  <1>4. SessionEndCallback(s) = [next EXCEPT !.dst = "READY"]
    BY DEF SessionEndCallback
  <1> HIDE DEF next
  <1>. QED
    BY <1>3, <1>4, ZenonT(40) DEF VoiceObject

\* A session that is acquired keeps the type.
LEMMA AcquiredType ==
    ASSUME vo \in VoiceObject, NEW r \in Controllers \cup {NoController}
    PROVE  Acquired(r) \in VoiceObject
  <1> DEFINE cmd == r \in Rf4ce
             hal == r # NoController
             text == r = NoController
             id == vo.sid + 1
  <1>1. id \in Nat
    BY BoundsAssumption DEF VoiceObject
  <1>2. cmd \in BOOLEAN /\ hal \in BOOLEAN /\ text \in BOOLEAN
    OBVIOUS
  <1> DEFINE held == [vo EXCEPT !.src = "STREAMING", !.dst = "REQUESTED", !.ctl = r,
                                !.cmd = cmd, !.srv = TRUE, !.act = TRUE]
  <1> DEFINE filled == [held EXCEPT !.hal = hal, !.pipe = cmd, !.text = text]
  <1>3. Acquired(r) = [filled EXCEPT !.status = "PENDING", !.statsId = id, !.tPkt = hal]
    BY Zenon DEF Acquired
  <1> HIDE DEF cmd, hal, text, id
  <1>4. held \in VoiceObject
    BY <1>2, ZenonT(60) DEF VoiceObject
  <1> HIDE DEF held
  <1>5. filled \in VoiceObject
    BY <1>2, <1>4, ZenonT(60) DEF VoiceObject
  <1> HIDE DEF filled
  <1>. QED
    BY <1>1, <1>2, <1>3, <1>5, ZenonT(60) DEF VoiceObject

-----------------------------------------------------------------------------
(* The routines of the object keep it sound.                               *)

\* The end of a session leaves the source not streaming and nothing held.
LEMMA VoiceSessionEndSound ==
    ASSUME NEW s \in VoiceObject, Ending(s)
    PROVE  /\ Sound(VoiceSessionEnd(s))
           /\ VoiceSessionEnd(s).src # "STREAMING"
           /\ ~VoiceSessionEnd(s).hal
           /\ VoiceSessionEnd(s).ctl = s.ctl
           /\ s.src = "STREAMING" => Owned(VoiceSessionEnd(s))
  BY SMTT(20) DEF VoiceSessionEnd, Released, VoiceObject, Sound, Owned, Ending

\* The voice status cannot make a streaming source ready.
LEMMA VoiceStatusSetSound ==
    ASSUME NEW s \in VoiceObject, Sound(s)
    PROVE  /\ Sound(VoiceStatusSet(s))
           /\ VoiceStatusSet(s).src = "STREAMING" <=> s.src = "STREAMING"
           /\ VoiceStatusSet(s).hal = s.hal
           /\ VoiceStatusSet(s).ctl = s.ctl
           /\ Owned(s) => Owned(VoiceStatusSet(s))
  BY SMTT(20) DEF VoiceStatusSet, VoiceObject, Sound, Owned

\* Statistics leave the session as it is.
LEMMA NotifyStatsSound ==
    ASSUME NEW s \in VoiceObject, Sound(s)
    PROVE  /\ Sound(VoiceSessionNotifyStats(s))
           /\ VoiceSessionNotifyStats(s).src = s.src
           /\ VoiceSessionNotifyStats(s).hal = s.hal
           /\ VoiceSessionNotifyStats(s).ctl = s.ctl
           /\ Owned(s) => Owned(VoiceSessionNotifyStats(s))
  BY SMTT(20) DEF VoiceSessionNotifyStats, VoiceObject, Sound, Owned

\* The server's end ends the streaming, and leaves a source that waits only
\* if the controller has yet to read its status.
LEMMA SessionEndCallbackSound ==
    ASSUME NEW s \in VoiceObject, Sound(s)
    PROVE  /\ Sound(SessionEndCallback(s))
           /\ SessionEndCallback(s).src # "STREAMING"
           /\ ~SessionEndCallback(s).hal
           /\ SessionEndCallback(s).ctl = s.ctl
           /\ Owned(SessionEndCallback(s))
  <1> DEFINE ended == [s EXCEPT !.active = FALSE, !.srv = FALSE]
             next  == IF s.src = "STREAMING" THEN VoiceSessionEnd(ended) ELSE Settled(ended)
  <1>1. ended \in VoiceObject
    BY ZenonT(40) DEF VoiceObject
  <1>2. Ending(ended) /\ ended.src = s.src /\ ended.ctl = s.ctl /\ ~ended.srv
    BY SMTT(20) DEF Sound, Ending, VoiceObject
  <1>3. /\ next \in VoiceObject
        /\ Sound(next) /\ Owned(next)
        /\ next.src # "STREAMING" /\ ~next.hal /\ next.ctl = s.ctl
    <2>1. CASE s.src = "STREAMING"
      BY <1>1, <1>2, <2>1, VoiceSessionEndSound, VoiceSessionEndType
    <2>2. CASE s.src # "STREAMING"
      <3>1. [ended EXCEPT !.src = "READY"] \in VoiceObject
        BY <1>1, ZenonT(40) DEF VoiceObject
      <3>2. Settled(ended) \in VoiceObject
        BY <1>1, <3>1 DEF Settled
      <3>3. Sound(Settled(ended)) /\ Owned(Settled(ended))
        BY <1>1, <2>2, SMTT(30) DEF Settled, Sound, Owned, VoiceObject
      <3>4. /\ Settled(ended).src # "STREAMING" /\ ~Settled(ended).hal
            /\ Settled(ended).ctl = s.ctl
        BY <1>1, <2>2, SMTT(30) DEF Settled, Sound, VoiceObject
      <3>. QED
        BY <2>2, <3>2, <3>3, <3>4
    <2>. QED
      BY <2>1, <2>2
  <1>4. SessionEndCallback(s) = [next EXCEPT !.dst = "READY"]
    BY DEF SessionEndCallback
  <1> HIDE DEF next
  <1>. QED
    BY <1>3, <1>4, SMTT(20) DEF Sound, Owned, VoiceObject

\* A session acquired streams, and holds the input unless it is by text.
LEMMA AcquiredSound ==
    ASSUME vo \in VoiceObject, NEW r \in Controllers \cup {NoController}
    PROVE  /\ Sound(Acquired(r))
           /\ Acquired(r).src = "STREAMING"
           /\ Acquired(r).hal <=> r # NoController
           /\ Acquired(r).ctl = r
  <1> DEFINE cmd == r \in Rf4ce
             hal == r # NoController
             text == r = NoController
  <1>1. /\ Acquired(r).src = "STREAMING"
        /\ Acquired(r).ctl = r
        /\ Acquired(r).srv = TRUE
        /\ Acquired(r).hal = hal
        /\ Acquired(r).pipe = cmd
        /\ Acquired(r).text = text
        /\ Acquired(r).tPkt = hal
    BY ZenonT(30) DEF Acquired, VoiceObject
  <1>2. cmd => hal
    BY ControllersAssumption DEF Controllers
  <1>. QED
    BY <1>1, <1>2 DEF Sound

-----------------------------------------------------------------------------
(* Type correctness.                                                       *)

\* Where the threads may be.
PcType == [Threads -> [op : {"idle", "term", "open", "drain", "finish"},
                       r  : Controllers \cup {NoController}, n : Nat]]

\* A router session has a number once it has been started.
RouterNumbered == xr.phase # "idle" => xr.last \in 1..MaxRouter

\* A thread that moves keeps the type.
LEMMA GotoType ==
    ASSUME pc \in PcType, NEW t \in Threads,
           NEW op \in {"idle", "term", "open", "drain", "finish"},
           NEW r \in Controllers \cup {NoController}, NEW n \in Nat,
           Goto(t, op, r, n)
    PROVE  pc' \in PcType
  BY DEF Goto, PcType

\* The message of a status is one of the queue.
LEMMA StatusMsgsType ==
    ASSUME NEW s \in VoiceObject, NEW q \in Seq(Message)
    PROVE  q \o StatusMsgs(s) \in Seq(Message)
  <1>1. CASE s.ctl \in Rf4ce
    <2> DEFINE msg == [type |-> "Status", c |-> s.ctl, pending |-> s.status = "PENDING"]
    <2>1. msg \in Message
      <3>1. (s.status = "PENDING") \in BOOLEAN
        OBVIOUS
      <3>. QED
        BY <1>1, <3>1, Zenon DEF Message
    <2>2. StatusMsgs(s) = <<msg>>
      BY <1>1 DEF StatusMsgs
    <2> HIDE DEF msg
    <2>. QED
      BY <2>1, <2>2, ConcatProperties
  <1>2. CASE s.ctl \notin Rf4ce
    BY <1>2, EmptySeq, ConcatProperties DEF StatusMsgs
  <1>. QED
    BY <1>1, <1>2

\* What the router posts is a message.
LEMMA RouterMsgType ==
    ASSUME NEW type \in {"Begin", "StreamBegin", "StreamEnd", "End"}, NEW u \in 1..MaxRouter
    PROVE  [type |-> type, u |-> u] \in Message
  BY DEF Message

\* The first message, and what is left.
LEMMA HeadType ==
    ASSUME mq \in Seq(Message), NEW type, Head1(type)
    PROVE  /\ Tail(mq) \in Seq(Message)
           /\ Head(mq) \in Message
           /\ type \in {"Begin", "StreamBegin", "StreamEnd", "End"} => Head(mq).u \in 1..MaxRouter
           /\ type = "Status" => Head(mq).c \in Rf4ce /\ Head(mq).pending \in BOOLEAN
  <1>1. /\ Head(mq) \in Message /\ Tail(mq) \in Seq(Message)
        /\ Head(mq).type = type
    BY HeadTailProperties DEF Head1
  <1>. QED
    BY <1>1 DEF Message

\* The end of a session posts one message or none.
LEMMA EndMsgsType == ASSUME NEW s PROVE EndMsgs(s) \in {0, 1}
  BY DEF EndMsgs

\* The type invariant that is inductive.
TypeInv == TypeOK /\ RouterNumbered

\* What TypeInv says of the variables other than the voice object, the queue and
\* the threads.
RestType ==
    /\ ends \in Nat /\ count \in Int /\ rib \in [Rf4ce -> BOOLEAN] /\ vsr \in Nat
    /\ asked \in 0..MaxRequests
    /\ xr \in [pending : {"no", "hal", "text"},
               phase : {"idle", "wait", "begun", "stream", "drained"},
               last : 0..MaxRouter]
    /\ RouterNumbered

\* The parts of the type invariant.
LEMMA TypeInvParts ==
    TypeInv <=> vo \in VoiceObject /\ mq \in Seq(Message) /\ pc \in PcType /\ RestType
  BY DEF TypeInv, TypeOK, PcType, RestType

\* The type holds at first.
LEMMA InitType == Init => TypeInv
  <1> SUFFICES ASSUME Init PROVE TypeInv
    OBVIOUS
  <1>1. vo \in VoiceObject
    <2>1. 0 \in Nat /\ 0 \in 0..IdMax
      BY BoundsAssumption
    <2>. QED
      BY <2>1, ZenonT(30) DEF Init, VoiceInit, VoiceObject
  <1>2. mq \in Seq(Message) /\ pc \in PcType /\ RestType
    BY BoundsAssumption DEF Init, PcType, Idle, RestType, RouterNumbered
  <1>. QED
    BY <1>1, <1>2, TypeInvParts

\* Requests.
LEMMA RequestsType == TypeInv /\ Requests => TypeInv'
  <1> SUFFICES ASSUME TypeInv, NEW r \in Requesters,
                      RequestStart(r) \/ RequestAccept(r) \/ RequestRefuse(r)
               PROVE  TypeInv'
    BY DEF Requests
  <1>. vo \in VoiceObject /\ mq \in Seq(Message) /\ pc \in PcType /\ RestType
    BY TypeInvParts
  <1>. r \in Controllers \cup {NoController} /\ ThreadOf(r) \in Threads /\ 0 \in Nat
    BY DEF Requesters, ThreadOf, Threads
  <1>. NoController \in Controllers \cup {NoController}
    OBVIOUS
  <1>1. CASE RequestStart(r)
    <2>1. [vo EXCEPT !.tCmd = "off", !.uuid = 0] \in VoiceObject
      BY ZenonT(40) DEF VoiceObject
    <2>2. vo' \in VoiceObject
      BY <1>1, <2>1 DEF RequestStart
    <2>3. pc' \in PcType
      BY <1>1, GotoType DEF RequestStart
    <2>4. mq' \in Seq(Message) /\ RestType'
      BY <1>1, BoundsAssumption DEF RequestStart, RestType, RouterNumbered
    <2>. QED
      BY <2>2, <2>3, <2>4, TypeInvParts DEF TypeInv, TypeOK, PcType, RestType
  <1>2. CASE RequestAccept(r)
    <2>1. Acquired(r) \in VoiceObject /\ VoiceSessionEnd(Acquired(r)) \in VoiceObject
      BY AcquiredType, VoiceSessionEndType
    <2>2. vo' \in VoiceObject /\ xr' \in {xr, [xr EXCEPT !.pending = "text"], [xr EXCEPT !.pending = "hal"]}
      BY <1>2, <2>1 DEF RequestAccept
    <2>3. pc' \in PcType /\ mq' \in Seq(Message)
      BY <1>2, <2>1, GotoType, StatusMsgsType DEF RequestAccept
    <2>4. RestType'
      BY <1>2, <2>2 DEF RequestAccept, RestType, RouterNumbered
    <2>. QED
      BY <2>2, <2>3, <2>4 DEF TypeInv, TypeOK, PcType, RestType
  <1>3. CASE RequestRefuse(r)
    <2>1. pc' \in PcType
      BY <1>3, GotoType DEF RequestRefuse
    <2>. QED
      BY <1>3, <2>1 DEF RequestRefuse, Uncount, TypeInv, TypeOK, PcType, RestType, RouterNumbered
  <1>. QED
    BY <1>1, <1>2, <1>3

\* What controllers do.
LEMMA FromControllersType == TypeInv /\ (FromControllers \/ \E u \in 1..MaxRouter : SessionTerm(u)) => TypeInv'
  <1> SUFFICES ASSUME TypeInv, FromControllers \/ \E u \in 1..MaxRouter : SessionTerm(u)
               PROVE  TypeInv'
    OBVIOUS
  <1>. vo \in VoiceObject /\ mq \in Seq(Message) /\ pc \in PcType /\ RestType
    BY TypeInvParts
  <1>1. ASSUME NEW c \in Controllers, Stop(c) PROVE TypeInv'
    <2>1. vo' \in VoiceObject /\ ends' \in Nat
      BY <1>1, VoiceSessionEndType, EndMsgsType DEF Stop, EndSource, RestType
    <2>. QED
      BY <1>1, <2>1 DEF Stop, TypeInv, TypeOK, PcType, RestType, RouterNumbered
  <1>2. ASSUME NEW c \in Rf4ce, StatusRead(c) PROVE TypeInv'
    <2> DEFINE s == [vo EXCEPT !.act = FALSE, !.tCmd = "off"]
    <2>1. s \in VoiceObject
      BY ZenonT(40) DEF VoiceObject
    <2>2. [s EXCEPT !.src = "READY"] \in VoiceObject
      BY <2>1, ZenonT(40) DEF VoiceObject
    <2>3. vo' \in VoiceObject
      BY <1>2, <2>1, <2>2 DEF StatusRead
    <2>. QED
      BY <1>2, <2>3 DEF StatusRead, TypeInv, TypeOK, PcType, RestType, RouterNumbered
  <1>3. CASE StatsReceived
    <2>1. vo' \in VoiceObject
      BY <1>3, NotifyStatsType DEF StatsReceived
    <2>. QED
      BY <1>3, <2>1 DEF StatsReceived, TypeInv, TypeOK, PcType, RestType, RouterNumbered
  <1>4. ASSUME NEW u \in 1..MaxRouter, SessionTerm(u) PROVE TypeInv'
    <2>1. pc' \in PcType
      BY <1>4, GotoType DEF SessionTerm, Threads
    <2>. QED
      BY <1>4, <2>1 DEF SessionTerm, TypeInv, TypeOK, PcType, RestType, RouterNumbered
  <1>. QED
    BY <1>1, <1>2, <1>3, <1>4 DEF FromControllers

\* The main queue.
LEMMA QueueType == TypeInv /\ Queue => TypeInv'
  <1> SUFFICES ASSUME TypeInv, Queue PROVE TypeInv'
    OBVIOUS
  <1>. vo \in VoiceObject /\ mq \in Seq(Message) /\ pc \in PcType /\ RestType
    BY TypeInvParts
  <1>1. CASE VoiceEndMsg
    BY <1>1 DEF VoiceEndMsg, TypeInv, TypeOK, PcType, RestType, RouterNumbered
  <1>2. CASE StatusMsg
    <2>1. mq' \in Seq(Message) /\ rib' \in [Rf4ce -> BOOLEAN]
      BY <1>2, HeadType DEF StatusMsg, RestType
    <2>. QED
      BY <1>2, <2>1 DEF StatusMsg, TypeInv, TypeOK, PcType, RestType, RouterNumbered
  <1>3. CASE BeginMsg
    <2> DEFINE u == Head(mq).u
               id == VoiceSessionIdNext(vo)
               s == [vo EXCEPT !.uuid = u, !.sid = id, !.ipcId = id, !.ipcUuid = u,
                               !.status = "PENDING", !.active = TRUE, !.dst = "OPENED"]
    <2>1. u \in Nat /\ Tail(mq) \in Seq(Message)
      BY <1>3, HeadType, BoundsAssumption DEF BeginMsg
    <2>2. id \in Nat /\ id \in 0..IdMax
      BY BoundsAssumption DEF VoiceSessionIdNext, VoiceObject
    <2>3. s \in VoiceObject
      <3> HIDE DEF u, id
      <3>. QED
        BY <2>1, <2>2, ZenonT(30) DEF VoiceObject
    <2>4. /\ IF s.text THEN EndSource(s) ELSE vo' = s /\ ends' = ends
          /\ mq' = Tail(mq) \o StatusMsgs(s)
      BY <1>3 DEF BeginMsg
    <2> HIDE DEF s
    <2>5. mq' \in Seq(Message)
      BY <2>1, <2>3, <2>4, StatusMsgsType
    <2>6. vo' \in VoiceObject /\ ends' \in Nat
      <3>1. ends \in Nat /\ EndMsgs(s) \in Nat
        BY EndMsgsType DEF RestType
      <3>2. VoiceSessionEnd(s) \in VoiceObject
        BY <2>3, VoiceSessionEndType
      <3>. QED
        BY <2>3, <2>4, <3>1, <3>2 DEF EndSource
    <2>. QED
      BY <1>3, <2>5, <2>6 DEF BeginMsg, TypeInv, TypeOK, PcType, RestType, RouterNumbered
  <1>4. CASE StreamBeginMsg
    <2>1. [vo EXCEPT !.dst = "STREAMING"] \in VoiceObject
      BY ZenonT(40) DEF VoiceObject
    <2>2. vo' \in VoiceObject /\ mq' \in Seq(Message)
      BY <1>4, <2>1, HeadType DEF StreamBeginMsg
    <2>. QED
      BY <1>4, <2>2 DEF StreamBeginMsg, TypeInv, TypeOK, PcType, RestType, RouterNumbered
  <1>5. CASE StreamEndMsg
    <2> DEFINE s == [vo EXCEPT !.status = "FINAL"]
    <2>1. s \in VoiceObject
      BY ZenonT(40) DEF VoiceObject
    <2>2. ASSUME NEW x \in VoiceObject PROVE [x EXCEPT !.dst = "OPENED"] \in VoiceObject
      BY ZenonT(40) DEF VoiceObject
    <2>3. vo' \in VoiceObject
      <3>1. /\ VoiceStatusSet(s) \in VoiceObject
            /\ \/ vo' = vo
               \/ vo' = [VoiceStatusSet(s) EXCEPT !.dst = "OPENED"]
               \/ vo' = [s EXCEPT !.dst = "OPENED"]
        BY <1>5, <2>1, VoiceStatusSetType DEF StreamEndMsg
      <3>. QED
        BY <2>1, <2>2, <3>1
    <2>4. Tail(mq) \in Seq(Message) /\ <<>> \in Seq(Message)
      BY <1>5, HeadType, EmptySeq DEF StreamEndMsg
    <2>5. mq' \in Seq(Message)
      BY <1>5, <2>1, <2>4, StatusMsgsType, ConcatEmptySeq DEF StreamEndMsg
    <2>. QED
      BY <1>5, <2>3, <2>5 DEF StreamEndMsg, TypeInv, TypeOK, PcType, RestType, RouterNumbered
  <1>6. CASE EndMsg
    <2>1. vo' \in VoiceObject /\ mq' \in Seq(Message)
      BY <1>6, SessionEndCallbackType, HeadType DEF EndMsg
    <2>2. ends' \in Nat
      <3>1. ends \in Nat /\ EndMsgs(vo) \in Nat
        BY EndMsgsType DEF RestType
      <3>. QED
        BY <1>6, <3>1 DEF EndMsg
    <2>3. pc' \in PcType
      <3>1. vsr \in Nat /\ "main" \in Threads
        BY DEF RestType, Threads
      <3>. QED
        BY <1>6, <3>1, GotoType DEF EndMsg
    <2>. QED
      BY <1>6, <2>1, <2>2, <2>3 DEF EndMsg, TypeInv, TypeOK, PcType, RestType, RouterNumbered
  <1>7. CASE Drain
    <2>1. pc["main"].n \in Nat /\ (pc["main"].n # 0 => pc["main"].n - 1 \in Nat)
      BY DEF PcType, Threads
    <2>2. pc' \in PcType
      <3>1. "main" \in Threads /\ 0 \in Nat
        BY DEF Threads
      <3>. QED
        BY <1>7, <2>1, <3>1, GotoType DEF Drain
    <2>3. vsr' \in Nat
      BY <1>7 DEF Drain, RestType
    <2>. QED
      BY <1>7, <2>2, <2>3 DEF Drain, TypeInv, TypeOK, PcType, RestType, RouterNumbered
  <1>. QED
    BY <1>1, <1>2, <1>3, <1>4, <1>5, <1>6, <1>7 DEF Queue

\* Timeouts.
LEMMA TimeoutsType == TypeInv /\ Timeouts => TypeInv'
  <1> SUFFICES ASSUME TypeInv, Timeouts PROVE TypeInv'
    OBVIOUS
  <1>. vo \in VoiceObject /\ mq \in Seq(Message) /\ pc \in PcType /\ RestType
    BY TypeInvParts
  <1>. "glib" \in Threads /\ NoController \in Controllers \cup {NoController} /\ 0 \in Nat
    BY DEF Threads
  <1>1. CASE PacketTimeout
    <2>1. [vo EXCEPT !.tPkt = FALSE] \in VoiceObject
      BY ZenonT(40) DEF VoiceObject
    <2>2. vo' \in VoiceObject
      BY <1>1, <2>1, VoiceSessionEndType DEF PacketTimeout, Expired
    <2>3. ends \in Nat /\ EndMsgs(vo) \in Nat
      BY EndMsgsType DEF RestType
    <2>4. ends' \in Nat
      BY <1>1, <2>3 DEF PacketTimeout
    <2>. QED
      BY <1>1, <2>2, <2>4 DEF PacketTimeout, TypeInv, TypeOK, PcType, RestType, RouterNumbered
  <1>2. CASE StatsTimeout
    <2>1. PICK left \in Nat :
            vo' = VoiceSessionNotifyStats([vo EXCEPT !.tStats = FALSE, !.orphans = left])
      <3>1. PICK orphan \in BOOLEAN :
              /\ IF orphan THEN vo.orphans > 0 ELSE vo.tStats
              /\ vo' = VoiceSessionNotifyStats(
                         [vo EXCEPT !.tStats = FALSE,
                                    !.orphans = IF ~orphan THEN vo.orphans
                                                ELSE IF vo.tStats THEN vo.orphans ELSE vo.orphans - 1])
        BY <1>2, Zenon DEF StatsTimeout
      <3> DEFINE left == IF ~orphan THEN vo.orphans
                         ELSE IF vo.tStats THEN vo.orphans ELSE vo.orphans - 1
      <3>2. vo.orphans \in Nat
        BY DEF VoiceObject
      <3>3. left \in Nat
        BY <3>1, <3>2
      <3>. QED
        BY <3>1, <3>3
    <2>2. [vo EXCEPT !.tStats = FALSE, !.orphans = left] \in VoiceObject
      BY ZenonT(40) DEF VoiceObject
    <2>3. vo' \in VoiceObject
      BY <2>1, <2>2, NotifyStatsType
    <2>. QED
      BY <1>2, <2>3 DEF StatsTimeout, TypeInv, TypeOK, PcType, RestType, RouterNumbered
  <1>3. CASE CmdTimeoutStart
    <2>1. /\ [vo EXCEPT !.tCmd = "stale"] \in VoiceObject
          /\ [vo EXCEPT !.act = FALSE, !.tCmd = "off"] \in VoiceObject
      BY ZenonT(40) DEF VoiceObject
    <2>2. vo' \in VoiceObject /\ pc' \in PcType
      BY <1>3, <2>1, GotoType DEF CmdTimeoutStart
    <2>. QED
      BY <1>3, <2>2 DEF CmdTimeoutStart, TypeInv, TypeOK, PcType, RestType, RouterNumbered
  <1>4. CASE CmdTimeoutFinish
    <2>1. [vo EXCEPT !.src = "READY"] \in VoiceObject
      BY ZenonT(40) DEF VoiceObject
    <2>2. vo' \in VoiceObject /\ pc' \in PcType
      BY <1>4, <2>1, GotoType DEF CmdTimeoutFinish
    <2>. QED
      BY <1>4, <2>2 DEF CmdTimeoutFinish, TypeInv, TypeOK, PcType, RestType, RouterNumbered
  <1>. QED
    BY <1>1, <1>2, <1>3, <1>4 DEF Timeouts

\* A thread goes on to a place of its type.
LEMMA AfterTermType ==
    ASSUME pc \in PcType, NEW t \in Threads, AfterTerm(t)
    PROVE  pc' \in PcType
  <1>1. pc[t].r \in Controllers \cup {NoController} /\ 0 \in Nat
    BY DEF PcType
  <1>2. NoController \in Controllers \cup {NoController}
    OBVIOUS
  <1>. QED
    BY <1>1, <1>2, GotoType DEF AfterTerm

\* The router.
LEMMA TermServedType == \A t \in Threads : TypeInv /\ TermServed(t) => TypeInv'
  <1> SUFFICES ASSUME TypeInv, NEW t \in Threads, TermServed(t) PROVE TypeInv'
    OBVIOUS
  <1>. vo \in VoiceObject /\ mq \in Seq(Message) /\ pc \in PcType /\ RestType
    BY TypeInvParts
  <1>1. pc' \in PcType
    BY AfterTermType DEF TermServed
  <1>2. CASE xr.phase = "idle"
    BY <1>1, <1>2 DEF TermServed, TypeInv, TypeOK, PcType, RestType, RouterNumbered
  <1>3. CASE xr.phase # "idle"
    <2> DEFINE s == IF Current(xr.last) THEN SessionEndCallback(vo) ELSE vo
    <2>1. s \in VoiceObject /\ VoiceStatusSet(s) \in VoiceObject
      BY SessionEndCallbackType, VoiceStatusSetType
    <2>2. vo' = VoiceStatusSet(s) /\ mq' = mq \o StatusMsgs(s)
      BY <1>3 DEF TermServed
    <2>3. vo' \in VoiceObject /\ mq' \in Seq(Message)
      BY <2>1, <2>2, StatusMsgsType
    <2>4. ends' \in Nat /\ vsr' \in Nat
      <3>1. ends \in Nat /\ vsr \in Nat /\ EndMsgs(vo) \in Nat
        BY EndMsgsType DEF RestType
      <3>. QED
        BY <1>3, <3>1 DEF TermServed
    <2>5. xr' = [xr EXCEPT !.phase = "idle"]
      BY <1>3 DEF TermServed
    <2>. QED
      BY <1>1, <2>3, <2>4, <2>5 DEF TermServed, TypeInv, TypeOK, PcType, RestType, RouterNumbered
  <1>. QED
    BY <1>2, <1>3

\* The router's callbacks and the handlers of its messages keep the type.
LEMMA HandlersType ==
    TypeInv /\ (\/ RouterBegin \/ RouterDrop \/ BeginHandler \/ StreamBeginHandler
                \/ StreamEndHandler \/ EndHandler \/ TvAvrHandler) => TypeInv'
  <1>. SUFFICES ASSUME TypeInv
                PROVE  (\/ RouterBegin \/ RouterDrop \/ BeginHandler \/ StreamBeginHandler
                        \/ StreamEndHandler \/ EndHandler \/ TvAvrHandler) => TypeInv'
    OBVIOUS
  <1>. vo \in VoiceObject /\ mq \in Seq(Message) /\ pc \in PcType /\ RestType
    BY TypeInvParts
  <1>1. CASE RouterBegin
    BY <1>1, BoundsAssumption DEF RouterBegin, TypeInv, TypeOK, PcType, RestType, RouterNumbered
  <1>2. CASE RouterDrop
    BY <1>2 DEF RouterDrop, TypeInv, TypeOK, PcType, RestType, RouterNumbered
  <1>3. ASSUME NEW type \in {"Begin", "StreamBegin", "StreamEnd", "End"}, xr.phase # "idle"
        PROVE  Append(mq, [type |-> type, u |-> xr.last]) \in Seq(Message)
    <2>1. [type |-> type, u |-> xr.last] \in Message
      BY <1>3, RouterMsgType DEF RestType, RouterNumbered
    <2>. QED
      BY <2>1
  <1>4. CASE BeginHandler
    <2>1. mq' \in Seq(Message)
      BY <1>3, <1>4 DEF BeginHandler, Push
    <2>2. vsr' \in Nat
      BY <1>4 DEF BeginHandler, RestType
    <2>3. xr' = [xr EXCEPT !.phase = "begun"]
      BY <1>4 DEF BeginHandler
    <2>4. xr.last \in 1..MaxRouter
      BY <1>4 DEF BeginHandler, RestType, RouterNumbered
    <2>. QED
      BY <1>4, <2>1, <2>2, <2>3, <2>4
         DEF BeginHandler, TypeInv, TypeOK, PcType, RestType, RouterNumbered
  <1>5. CASE StreamBeginHandler
    <2>1. mq' \in Seq(Message)
      BY <1>3, <1>5 DEF StreamBeginHandler, Push
    <2>. QED
      BY <1>5, <2>1 DEF StreamBeginHandler, TypeInv, TypeOK, PcType, RestType, RouterNumbered
  <1>6. CASE StreamEndHandler
    <2>1. mq' \in Seq(Message)
      BY <1>3, <1>6 DEF StreamEndHandler, Push
    <2>. QED
      BY <1>6, <2>1 DEF StreamEndHandler, TypeInv, TypeOK, PcType, RestType, RouterNumbered
  <1>7. CASE EndHandler
    <2>1. Append(mq, [type |-> "End", u |-> xr.last]) \in Seq(Message)
      BY <1>3, <1>7 DEF EndHandler
    <2>2. mq' \in Seq(Message)
      BY <1>7, <2>1, StatusMsgsType DEF EndHandler
    <2>3. vo' \in VoiceObject
      BY <1>7, VoiceStatusSetType DEF EndHandler
    <2>. QED
      BY <1>7, <2>2, <2>3 DEF EndHandler, TypeInv, TypeOK, PcType, RestType, RouterNumbered
  <1>8. CASE TvAvrHandler
    <2>1. [vo EXCEPT !.status = "FINAL"] \in VoiceObject
      BY ZenonT(40) DEF VoiceObject
    <2>2. vo' \in VoiceObject
      BY <1>8, <2>1 DEF TvAvrHandler
    <2>. QED
      BY <1>8, <2>2 DEF TvAvrHandler, TypeInv, TypeOK, PcType, RestType, RouterNumbered
  <1>. QED
    BY <1>1, <1>2, <1>4, <1>5, <1>6, <1>7, <1>8

\* Every step keeps the type.
LEMMA NextType == TypeInv /\ [Next]_vars => TypeInv'
  <1>1. TypeInv /\ UNCHANGED vars => TypeInv'
    BY DEF vars, TypeInv, TypeOK, RouterNumbered
  <1>2. TypeInv /\ Router => TypeInv'
    BY TermServedType, HandlersType, FromControllersType DEF Router
  <1>. QED
    BY <1>1, <1>2, RequestsType, FromControllersType, QueueType, TimeoutsType DEF Next

\* Every variable keeps its type: in particular the voice object is only ever in
\* the states its enumerations name, the session id never exceeds its width, and
\* the end messages and the semaphore never go below zero.
THEOREM TypeCorrect == Spec => []TypeOK
  <1>1. Spec => []TypeInv
    BY InitType, NextType, PTL DEF Spec
  <1>2. TypeInv => TypeOK
    BY DEF TypeInv
  <1>. QED
    BY <1>1, <1>2, PTL

-----------------------------------------------------------------------------
(* What a step does to the session: it keeps it, ends it, tells the RF4CE  *)
(* network of an end, or takes the object for a new session.               *)

\* The RF4CE sessions counted, but for the request in progress.
Counted == count - InProgress

\* The session is kept, as are the counts.
Kept ==
    /\ vo'.hal = vo.hal /\ vo'.ctl = vo.ctl
    /\ vo'.src = "STREAMING" <=> vo.src = "STREAMING"
    /\ ends' = ends
    /\ Counted' = Counted

\* The session ends, and its end is posted to the network.
Ended ==
    /\ ~vo'.hal /\ vo'.ctl = vo.ctl
    /\ vo'.src # "STREAMING"
    /\ ends' = ends + EndMsgs(vo)
    /\ Counted' = Counted

\* The network takes an end, and counts a session less.
Told == vo' = vo /\ ends > 0 /\ ends' = ends - 1 /\ Counted' = Counted - 1

\* A free object is taken for a session, which is counted.
Taken ==
    /\ ~vo.hal
    /\ EndMsgs(vo) = 0
    /\ ends' = ends
    /\ Counted' = Counted + EndMsgs(vo')

\* What any step does is one of these.
Effect == Kept \/ Ended \/ Told \/ Taken

\* A request of the main thread goes on to open its session.
MainRequest == pc["main"].op = "term" => pc["main"].n = 0

\* The inductive invariant.
IndInv == TypeInv /\ Sound(vo) /\ WaitingHasOwner /\ MainRequest

\* What is proved of every step, besides its type.
StepSound == Sound(vo)' /\ WaitingHasOwner' /\ MainRequest' /\ Effect

\* A thread that moves leaves the others where they are.
LEMMA GotoElsewhere ==
    ASSUME pc \in PcType, NEW t \in Threads, NEW op, NEW r, NEW n, Goto(t, op, r, n)
    PROVE  /\ pc'[t] = [op |-> op, r |-> r, n |-> n]
           /\ \A u \in Threads : u # t => pc'[u] = pc[u]
  BY DEF Goto, PcType

\* What is counted are numbers.
LEMMA CountedType == ASSUME TypeInv PROVE count \in Int /\ InProgress \in {0, 1} /\ ends \in Nat
  BY DEF TypeInv, TypeOK, InProgress

\* A step that moves no thread and leaves the object, the end messages and the
\* count alone is sound.
LEMMA Untouched ==
    ASSUME IndInv, vo' = vo, ends' = ends, count' = count, pc' = pc
    PROVE  StepSound
  BY DEF StepSound, IndInv, Effect, Kept, Counted, InProgress, WaitingHasOwner, MainRequest

\* So is one that only changes the object, keeping what Sound speaks of.
LEMMA ObjectKept ==
    ASSUME IndInv, ends' = ends, count' = count, pc' = pc,
           Sound(vo'), Owned(vo'),
           vo'.hal = vo.hal, vo'.ctl = vo.ctl,
           vo'.src = "STREAMING" <=> vo.src = "STREAMING"
    PROVE  StepSound
  BY DEF StepSound, IndInv, Effect, Kept, Counted, InProgress, WaitingHasOwner, MainRequest, Owned

\* And one that ends the session and queues its end message.
LEMMA ObjectEnded ==
    ASSUME IndInv, ends' = ends + EndMsgs(vo), count' = count,
           pc'["main"] = pc["main"] \/ (pc'["main"].op = "drain" /\ InProgress = 0),
           Sound(vo'), Owned(vo') \/ pc'["glib"].op # "idle",
           ~vo'.hal, vo'.ctl = vo.ctl, vo'.src # "STREAMING"
    PROVE  StepSound
  BY DEF StepSound, IndInv, Effect, Ended, Counted, InProgress, WaitingHasOwner, MainRequest, Owned

\* A request that is refused leaves the count as it found it; one that is accepted
\* adds the session it takes.
LEMMA RequestsSound == IndInv /\ Requests => StepSound
  <1> SUFFICES ASSUME IndInv, NEW r \in Requesters,
                      RequestStart(r) \/ RequestAccept(r) \/ RequestRefuse(r)
               PROVE  StepSound
    BY DEF Requests
  <1>. /\ vo \in VoiceObject /\ pc \in PcType /\ TypeInv
       /\ Sound(vo) /\ WaitingHasOwner /\ MainRequest
    BY TypeInvParts DEF IndInv
  <1>. r \in Controllers \cup {NoController} /\ ThreadOf(r) \in Threads /\ ThreadOf(r) # "glib"
    BY DEF Requesters, ThreadOf, Threads
  <1>. "main" \in Threads /\ "ipc" \in Threads /\ "glib" \in Threads
    BY DEF Threads
  <1>0. r \in Rf4ce => ThreadOf(r) = "main"
    BY ControllersAssumption DEF ThreadOf, Controllers
  <1>1. CASE RequestStart(r)
    <2>1. /\ vo' = vo \/ vo' = [vo EXCEPT !.tCmd = "off", !.uuid = 0]
          /\ ends' = ends
          /\ pc[ThreadOf(r)].op = "idle"
          /\ \E op \in {"term", "open"} : Goto(ThreadOf(r), op, r, 0)
          /\ count' = IF r \in Rf4ce THEN count + 1 ELSE count
      BY <1>1 DEF RequestStart, At
    <2>2. /\ Sound(vo') /\ vo'.hal = vo.hal /\ vo'.ctl = vo.ctl /\ vo'.src = vo.src
          /\ vo'.srv = vo.srv /\ vo'.act = vo.act
      <3> DEFINE s == [vo EXCEPT !.tCmd = "off", !.uuid = 0]
      <3>1. /\ Sound(s) /\ s.hal = vo.hal /\ s.ctl = vo.ctl /\ s.src = vo.src
            /\ s.srv = vo.srv /\ s.act = vo.act
        BY SMTT(20) DEF Sound, VoiceObject
      <3>. QED
        BY <2>1, <3>1
    <2>3. /\ pc'["glib"] = pc["glib"]
          /\ pc'[ThreadOf(r)].op \in {"term", "open"}
          /\ pc'[ThreadOf(r)].r = r /\ pc'[ThreadOf(r)].n = 0
          /\ ThreadOf(r) # "main" => pc'["main"] = pc["main"]
      <3>1. PICK op \in {"term", "open"} : Goto(ThreadOf(r), op, r, 0)
        BY <2>1
      <3>2. /\ pc'[ThreadOf(r)] = [op |-> op, r |-> r, n |-> 0]
            /\ \A u \in Threads : u # ThreadOf(r) => pc'[u] = pc[u]
        BY <3>1, GotoElsewhere
      <3>. QED
        BY <3>2
    <2>4. Counted' = Counted
      BY <1>0, <2>1, <2>3, CountedType, ControllersAssumption DEF Counted, InProgress
    <2>. QED
      BY <2>1, <2>2, <2>3, <2>4 DEF StepSound, WaitingHasOwner, MainRequest, Effect, Kept
  <1>2. CASE RequestAccept(r)
    <2>1. /\ vo' = Acquired(r) \/ (r \in Ble /\ vo' = VoiceSessionEnd(Acquired(r)))
          /\ ends' = ends /\ count' = count /\ CanAcquire(r)
          /\ pc[ThreadOf(r)].op = "open" /\ pc[ThreadOf(r)].r = r
          /\ Goto(ThreadOf(r), "idle", NoController, 0)
      <3>1. PICK started \in (IF r \in Ble THEN BOOLEAN ELSE {TRUE}) :
              vo' = IF started THEN Acquired(r) ELSE VoiceSessionEnd(Acquired(r))
        BY <1>2, Zenon DEF RequestAccept
      <3>2. started \/ r \in Ble
        BY <3>1
      <3>3. vo' = Acquired(r) \/ (r \in Ble /\ vo' = VoiceSessionEnd(Acquired(r)))
        BY <3>1, <3>2
      <3>. QED
        BY <1>2, <3>3 DEF RequestAccept, At
    <2>2. Acquired(r) \in VoiceObject /\ Sound(Acquired(r)) /\ Ending(Acquired(r))
      BY AcquiredType, AcquiredSound DEF Sound, Ending
    <2>3. Sound(vo') /\ vo'.ctl = r /\ Owned(vo')
      BY <2>1, <2>2, AcquiredSound, VoiceSessionEndSound DEF Owned
    <2>4. ~vo.hal /\ EndMsgs(vo) = 0
      <3>1. CASE r = NoController
        BY <2>1, <3>1 DEF CanAcquire, Sound, EndMsgs
      <3>2. CASE r # NoController
        BY <2>1, <3>2, ControllersAssumption DEF CanAcquire, Sound, EndMsgs, Controllers
      <3>. QED
        BY <3>1, <3>2
    <2>5. EndMsgs(vo') = IF r \in Rf4ce THEN 1 ELSE 0
      BY <2>1, <2>3, AcquiredSound, ControllersAssumption DEF EndMsgs
    <2>6. /\ pc'["glib"] = pc["glib"]
          /\ pc'[ThreadOf(r)].op = "idle"
          /\ ThreadOf(r) # "main" => pc'["main"] = pc["main"]
      <3>1. /\ pc'[ThreadOf(r)] = Idle
            /\ \A u \in Threads : u # ThreadOf(r) => pc'[u] = pc[u]
        BY <2>1, GotoElsewhere DEF Idle
      <3>. QED
        BY <3>1 DEF Idle
    <2>7. Counted' = Counted + EndMsgs(vo')
      BY <1>0, <2>1, <2>5, <2>6, CountedType DEF Counted, InProgress, ThreadOf
    <2>. QED
      BY <2>1, <2>3, <2>4, <2>6, <2>7
         DEF StepSound, WaitingHasOwner, MainRequest, Effect, Taken, Owned
  <1>3. CASE RequestRefuse(r)
    <2>1. /\ vo' = vo /\ ends' = ends /\ count' = Uncount(r)
          /\ pc[ThreadOf(r)].op = "open" /\ pc[ThreadOf(r)].r = r
          /\ Goto(ThreadOf(r), "idle", NoController, 0)
      BY <1>3 DEF RequestRefuse, At
    <2>2. /\ pc'["glib"] = pc["glib"]
          /\ pc'[ThreadOf(r)].op = "idle"
          /\ ThreadOf(r) # "main" => pc'["main"] = pc["main"]
      <3>1. /\ pc'[ThreadOf(r)] = Idle
            /\ \A u \in Threads : u # ThreadOf(r) => pc'[u] = pc[u]
        BY <2>1, GotoElsewhere DEF Idle
      <3>. QED
        BY <3>1 DEF Idle
    <2>3. Counted' = Counted
      BY <1>0, <2>1, <2>2, CountedType DEF Counted, InProgress, ThreadOf, Uncount
    <2>. QED
      BY <2>1, <2>2, <2>3 DEF StepSound, WaitingHasOwner, MainRequest, Effect, Kept
  <1>. QED
    BY <1>1, <1>2, <1>3

\* The end of the source, whoever asks for it.
LEMMA SourceEndSound ==
    ASSUME IndInv, NEW s \in VoiceObject, Ending(s),
           s.src = vo.src, s.ctl = vo.ctl, s.srv = vo.srv, s.act = vo.act,
           vo' = VoiceSessionEnd(s), ends' = ends + EndMsgs(vo),
           count' = count, pc' = pc
    PROVE  StepSound
  <1>1. Sound(vo') /\ vo'.src # "STREAMING" /\ ~vo'.hal /\ vo'.ctl = vo.ctl
    BY VoiceSessionEndSound
  <1>2. Owned(vo') \/ pc'["glib"].op # "idle"
    <2>1. CASE s.src = "STREAMING"
      BY <2>1, VoiceSessionEndSound
    <2>2. CASE s.src # "STREAMING"
      BY <2>2 DEF VoiceSessionEnd, IndInv, WaitingHasOwner, Owned
    <2>. QED
      BY <2>1, <2>2
  <1>. QED
    BY <1>1, <1>2, ObjectEnded

\* What controllers do is sound.
LEMMA FromControllersSound == IndInv /\ FromControllers => StepSound
  <1> SUFFICES ASSUME IndInv, FromControllers PROVE StepSound
    OBVIOUS
  <1>. vo \in VoiceObject /\ pc \in PcType /\ Sound(vo) /\ WaitingHasOwner
    BY TypeInvParts DEF IndInv
  <1>1. ASSUME NEW c \in Controllers, Stop(c) PROVE StepSound
    BY <1>1, SourceEndSound DEF Stop, EndSource, Sound, Ending
  <1>2. ASSUME NEW c \in Rf4ce, StatusRead(c) PROVE StepSound
    <2> DEFINE s == [vo EXCEPT !.act = FALSE, !.tCmd = "off"]
    <2>1. s \in VoiceObject
      BY ZenonT(40) DEF VoiceObject
    <2>2. Sound(s) /\ s.hal = vo.hal /\ s.ctl = vo.ctl /\ s.src = vo.src /\ s.srv = vo.srv
      BY SMTT(20) DEF Sound, VoiceObject
    <2>3. vo' = IF s.srv THEN s ELSE [s EXCEPT !.src = "READY"]
      BY <1>2 DEF StatusRead
    <2>4. /\ Sound(vo') /\ Owned(vo') /\ vo'.hal = vo.hal /\ vo'.ctl = vo.ctl
          /\ vo'.src = "STREAMING" <=> vo.src = "STREAMING"
      <3> HIDE DEF s
      <3>. QED
        BY <2>1, <2>2, <2>3, SMTT(20) DEF Sound, Owned, VoiceObject
    <2>. QED
      BY <1>2, <2>4, ObjectKept DEF StatusRead
  <1>3. CASE StatsReceived
    <2>1. Sound(vo') /\ vo'.src = vo.src /\ vo'.hal = vo.hal /\ vo'.ctl = vo.ctl
      BY <1>3, NotifyStatsSound DEF StatsReceived
    <2>2. Owned(vo) => Owned(vo')
      BY <1>3, NotifyStatsSound DEF StatsReceived
    <2>. QED
      BY <1>3, <2>1, <2>2 DEF StatsReceived, StepSound, IndInv, Effect, Kept, Counted,
                              InProgress, WaitingHasOwner, MainRequest, Owned
  <1>. QED
    BY <1>1, <1>2, <1>3 DEF FromControllers

\* What the main thread takes from its queue is sound.
LEMMA QueueSound == IndInv /\ Queue => StepSound
  <1> SUFFICES ASSUME IndInv, Queue PROVE StepSound
    OBVIOUS
  <1>. vo \in VoiceObject /\ pc \in PcType /\ TypeInv /\ Sound(vo) /\ WaitingHasOwner
    BY TypeInvParts DEF IndInv
  <1>. "main" \in Threads /\ "glib" \in Threads
    BY DEF Threads
  <1>1. CASE VoiceEndMsg
    <2>1. vo' = vo /\ ends > 0 /\ ends' = ends - 1 /\ pc' = pc /\ count' = count - 1
      BY <1>1 DEF VoiceEndMsg
    <2>2. Counted' = Counted - 1
      BY <2>1, CountedType DEF Counted, InProgress
    <2>. QED
      BY <2>1, <2>2 DEF StepSound, IndInv, Effect, Told, WaitingHasOwner, MainRequest
  <1>2. CASE StatusMsg
    BY <1>2, Untouched DEF StatusMsg
  <1>3. CASE BeginMsg
    <2> DEFINE u == Head(mq).u
               id == VoiceSessionIdNext(vo)
               s == [vo EXCEPT !.uuid = u, !.sid = id, !.ipcId = id, !.ipcUuid = u,
                               !.status = "PENDING", !.active = TRUE, !.dst = "OPENED"]
    <2>1. s \in VoiceObject
      <3>1. u \in Nat
        BY <1>3, HeadType, TypeInvParts, BoundsAssumption DEF BeginMsg
      <3>2. id \in Nat /\ id \in 0..IdMax
        BY BoundsAssumption DEF VoiceSessionIdNext, VoiceObject
      <3> HIDE DEF u, id
      <3>. QED
        BY <3>1, <3>2, ZenonT(30) DEF VoiceObject
    <2>2. /\ s.src = vo.src /\ s.ctl = vo.ctl /\ s.hal = vo.hal /\ s.pipe = vo.pipe
          /\ s.text = vo.text /\ s.tPkt = vo.tPkt /\ s.srv = vo.srv /\ s.act = vo.act
      <3> HIDE DEF u, id
      <3>. QED
        BY ZenonT(30) DEF VoiceObject
    <2>3. /\ IF s.text THEN EndSource(s) ELSE vo' = s /\ ends' = ends
          /\ count' = count /\ pc' = pc
      BY <1>3 DEF BeginMsg
    <2> HIDE DEF s
    <2>4. CASE s.text
      <3>1. vo' = VoiceSessionEnd(s) /\ ends' = ends + EndMsgs(vo)
        BY <2>2, <2>3, <2>4 DEF EndSource, EndMsgs
      <3>. QED
        BY <2>1, <2>2, <2>3, <3>1, SourceEndSound DEF Sound, Ending
    <2>5. CASE ~s.text
      <3>1. Sound(s)
        BY <2>2 DEF Sound
      <3>2. vo' = s /\ ends' = ends
        BY <2>3, <2>5
      <3>. QED
        BY <2>2, <2>3, <3>1, <3>2 DEF StepSound, IndInv, Effect, Kept, Counted, InProgress,
                                      WaitingHasOwner, MainRequest
    <2>. QED
      BY <2>4, <2>5
  <1>4. CASE StreamBeginMsg
    <2> DEFINE s == [vo EXCEPT !.dst = "STREAMING"]
    <2>1. /\ Sound(s) /\ s.src = vo.src /\ s.ctl = vo.ctl /\ s.hal = vo.hal
          /\ s.srv = vo.srv /\ s.act = vo.act
      BY SMTT(20) DEF Sound, VoiceObject
    <2>2. (vo' = vo \/ vo' = s) /\ ends' = ends /\ count' = count /\ pc' = pc
      BY <1>4 DEF StreamBeginMsg
    <2> HIDE DEF s
    <2>. QED
      BY <2>1, <2>2 DEF StepSound, IndInv, Effect, Kept, Counted, InProgress,
                        WaitingHasOwner, MainRequest
  <1>5. CASE StreamEndMsg
    <2> DEFINE s == [vo EXCEPT !.status = "FINAL"]
    <2>1. s \in VoiceObject /\ VoiceStatusSet(s) \in VoiceObject
      <3>1. s \in VoiceObject
        BY ZenonT(40) DEF VoiceObject
      <3>. QED
        BY <3>1, VoiceStatusSetType
    <2>2. /\ Sound(s) /\ s.src = vo.src /\ s.ctl = vo.ctl /\ s.hal = vo.hal
          /\ Owned(vo) => Owned(s)
      BY SMTT(20) DEF Sound, Owned, VoiceObject
    <2>3. PICK x \in {s, VoiceStatusSet(s)} :
            /\ vo' = vo \/ vo' = [x EXCEPT !.dst = "OPENED"]
            /\ ends' = ends /\ count' = count /\ pc' = pc
      BY <1>5 DEF StreamEndMsg
    <2>4. /\ x \in VoiceObject /\ Sound(x) /\ x.hal = vo.hal /\ x.ctl = vo.ctl
          /\ x.src = "STREAMING" <=> vo.src = "STREAMING"
          /\ Owned(vo) => Owned(x)
      <3>1. CASE x = s
        BY <2>1, <2>2, <3>1
      <3>2. CASE x = VoiceStatusSet(s)
        BY <2>1, <2>2, <3>2, VoiceStatusSetSound
      <3>. QED
        BY <2>3, <3>1, <3>2
    <2> HIDE DEF s
    <2>5. /\ Sound(vo') /\ vo'.hal = vo.hal /\ vo'.ctl = vo.ctl
          /\ vo'.src = "STREAMING" <=> vo.src = "STREAMING"
          /\ Owned(vo) => Owned(vo')
      <3>1. CASE vo' = vo
        BY <3>1
      <3>2. CASE vo' = [x EXCEPT !.dst = "OPENED"]
        BY <2>4, <3>2, SMTT(20) DEF Sound, Owned, VoiceObject
      <3>. QED
        BY <2>3, <3>1, <3>2
    <2>. QED
      BY <2>3, <2>5 DEF StepSound, IndInv, Effect, Kept, Counted, InProgress,
                        WaitingHasOwner, MainRequest, Owned
  <1>6. CASE EndMsg
    <2>1. CASE Current(Head(mq).u)
      <3>1. /\ vo' = SessionEndCallback(vo) /\ ends' = ends + EndMsgs(vo)
            /\ count' = count /\ pc["main"].op = "idle"
            /\ pc' = pc \/ Goto("main", "drain", NoController, vsr)
        BY <1>6, <2>1 DEF EndMsg, Head1, At
      <3>2. pc'["main"] = pc["main"] \/ (pc'["main"].op = "drain" /\ InProgress = 0)
        <4>1. InProgress = 0
          BY <3>1 DEF InProgress
        <4>2. Goto("main", "drain", NoController, vsr) => pc'["main"].op = "drain"
          BY DEF Goto, PcType
        <4>. QED
          BY <3>1, <4>1, <4>2
      <3>. QED
        BY <3>1, <3>2, SessionEndCallbackSound, ObjectEnded
    <2>2. CASE ~Current(Head(mq).u)
      BY <1>6, <2>2, Untouched DEF EndMsg
    <2>. QED
      BY <2>1, <2>2
  <1>7. CASE Drain
    <2>1. /\ vo' = vo /\ ends' = ends /\ count' = count /\ pc["main"].op = "drain"
          /\ \E op \in {"idle", "drain"}, n \in Nat \cup {pc["main"].n - 1} :
               Goto("main", op, NoController, n)
      BY <1>7 DEF Drain, At
    <2>2. pc'["main"].op \in {"idle", "drain"} /\ pc'["glib"] = pc["glib"]
      BY <2>1 DEF Goto, PcType
    <2>3. Counted' = Counted
      BY <2>1, <2>2 DEF Counted, InProgress
    <2>. QED
      BY <2>1, <2>2, <2>3 DEF StepSound, IndInv, Effect, Kept, WaitingHasOwner, MainRequest
  <1>. QED
    BY <1>1, <1>2, <1>3, <1>4, <1>5, <1>6, <1>7 DEF Queue

\* The timers are sound.
LEMMA TimeoutsSound == IndInv /\ Timeouts => StepSound
  <1> SUFFICES ASSUME IndInv, Timeouts PROVE StepSound
    OBVIOUS
  <1>. vo \in VoiceObject /\ pc \in PcType /\ Sound(vo) /\ WaitingHasOwner
    BY TypeInvParts DEF IndInv
  <1>. "main" \in Threads /\ "glib" \in Threads
    BY DEF Threads
  <1>1. CASE PacketTimeout
    <2> DEFINE s == [vo EXCEPT !.tPkt = FALSE]
    <2>1. s \in VoiceObject
      BY ZenonT(40) DEF VoiceObject
    <2>2. /\ Ending(s) /\ s.src = vo.src /\ s.ctl = vo.ctl /\ s.srv = vo.srv
          /\ s.act = vo.act
      BY SMTT(20) DEF Sound, Ending, VoiceObject
    <2>3. /\ vo' = VoiceSessionEnd(s) /\ ends' = ends + EndMsgs(vo)
          /\ count' = count /\ pc' = pc
      BY <1>1 DEF PacketTimeout, Expired
    <2> HIDE DEF s
    <2>. QED
      BY <2>1, <2>2, <2>3, SourceEndSound
  <1>2. CASE StatsTimeout
    <2>1. PICK left :
            vo' = VoiceSessionNotifyStats([vo EXCEPT !.tStats = FALSE, !.orphans = left])
      BY <1>2, Zenon DEF StatsTimeout
    <2> DEFINE s == [vo EXCEPT !.tStats = FALSE, !.orphans = left]
    <2>2. /\ Sound(s) /\ s.src = vo.src /\ s.hal = vo.hal /\ s.ctl = vo.ctl
          /\ s.srv = vo.srv /\ s.act = vo.act
      BY SMTT(20) DEF Sound, VoiceObject
    <2>3. /\ vo'.src = s.src /\ vo'.hal = s.hal /\ vo'.ctl = s.ctl
          /\ vo'.pipe = s.pipe /\ vo'.text = s.text /\ vo'.tPkt = s.tPkt
          /\ vo'.srv = s.srv /\ vo'.act = s.act
      <3>1. vo' = s \/ \E id : vo' = [s EXCEPT !.tStats = FALSE, !.statsId = id]
        BY <2>1 DEF VoiceSessionNotifyStats
      <3>. QED
        BY <3>1, ZenonT(30) DEF VoiceObject
    <2>4. Sound(vo') /\ ends' = ends /\ count' = count /\ pc' = pc
      <3> HIDE DEF s
      <3>. QED
        BY <1>2, <2>2, <2>3 DEF Sound, StatsTimeout
    <2> HIDE DEF s
    <2>. QED
      BY <2>2, <2>3, <2>4 DEF StepSound, IndInv, Effect, Kept, Counted, InProgress,
                              WaitingHasOwner, MainRequest
  <1>3. CASE CmdTimeoutStart
    <2>1. CASE vo.ctl = NoController
      <3> DEFINE s == [vo EXCEPT !.tCmd = "stale"]
      <3>1. /\ Sound(s) /\ s.src = vo.src /\ s.hal = vo.hal /\ s.ctl = vo.ctl
            /\ s.srv = vo.srv /\ s.act = vo.act
        BY SMTT(20) DEF Sound, VoiceObject
      <3>2. vo' = s /\ ends' = ends /\ count' = count /\ pc' = pc
        BY <1>3, <2>1 DEF CmdTimeoutStart
      <3> HIDE DEF s
      <3>. QED
        BY <3>1, <3>2 DEF StepSound, IndInv, Effect, Kept, Counted, InProgress,
                          WaitingHasOwner, MainRequest
    <2>2. CASE vo.ctl # NoController
      <3> DEFINE s == [vo EXCEPT !.act = FALSE, !.tCmd = "off"]
      <3>1. Sound(s) /\ s.src = vo.src /\ s.hal = vo.hal /\ s.ctl = vo.ctl
        BY SMTT(20) DEF Sound, VoiceObject
      <3>2. /\ vo' = s /\ ends' = ends /\ count' = count
            /\ Goto("glib", "term", NoController, 0)
        BY <1>3, <2>2 DEF CmdTimeoutStart
      <3>3. pc'["main"] = pc["main"] /\ pc'["glib"].op # "idle"
        BY <3>2 DEF Goto, PcType
      <3> HIDE DEF s
      <3>. QED
        BY <3>1, <3>2, <3>3 DEF StepSound, IndInv, Effect, Kept, Counted, InProgress,
                                WaitingHasOwner, MainRequest
    <2>. QED
      BY <2>1, <2>2
  <1>4. CASE CmdTimeoutFinish
    <2> DEFINE s == [vo EXCEPT !.src = "READY"]
    <2>1. /\ vo' = IF vo.srv THEN vo ELSE s
          /\ ends' = ends /\ count' = count
          /\ Goto("glib", "idle", NoController, 0)
      BY <1>4 DEF CmdTimeoutFinish
    <2>2. ~vo.srv => /\ Sound(s) /\ s.hal = vo.hal /\ s.ctl = vo.ctl
                     /\ vo.src # "STREAMING" /\ s.src = "READY"
      BY SMTT(20) DEF Sound, VoiceObject
    <2>3. pc'["main"] = pc["main"]
      BY <2>1 DEF Goto, PcType
    <2> HIDE DEF s
    <2>4. Sound(vo') /\ Owned(vo')
      BY <2>1, <2>2 DEF Owned
    <2>. QED
      BY <2>1, <2>2, <2>3, <2>4 DEF StepSound, IndInv, Effect, Kept, Counted, InProgress,
                                    WaitingHasOwner, MainRequest, Owned
  <1>. QED
    BY <1>1, <1>2, <1>3, <1>4 DEF Timeouts

\* A termination ends the session, if it is still the current one; a request of the
\* main thread goes on to open its own, and stays counted.
LEMMA TermServedSound == \A t \in Threads : IndInv /\ TermServed(t) => StepSound
  <1> SUFFICES ASSUME IndInv, NEW t \in Threads, TermServed(t) PROVE StepSound
    OBVIOUS
  <1>. vo \in VoiceObject /\ pc \in PcType /\ TypeInv /\ Sound(vo) /\ WaitingHasOwner /\ MainRequest
    BY TypeInvParts DEF IndInv
  <1>. "main" \in Threads /\ "glib" \in Threads
    BY DEF Threads
  <1>1. count' = count /\ pc[t].op = "term" /\ AfterTerm(t)
    BY DEF TermServed, At
  <1>2. /\ pc'["glib"].op = "idle" => pc["glib"].op = "idle"
        /\ MainRequest'
    BY <1>1 DEF AfterTerm, Goto, PcType, MainRequest
  <1>3. InProgress' = InProgress
    <2>1. CASE t = "main"
      <3>1. pc["main"].n = 0 /\ Goto("main", "open", pc["main"].r, 0)
        BY <1>1, <2>1 DEF MainRequest, AfterTerm
      <3>2. pc'["main"].op = "open" /\ pc'["main"].r = pc["main"].r
        BY <3>1 DEF Goto, PcType
      <3>. QED
        BY <1>1, <2>1, <3>2 DEF InProgress
    <2>2. CASE t # "main"
      <3>1. pc'["main"] = pc["main"]
        BY <1>1, <2>2 DEF AfterTerm, Goto, PcType
      <3>. QED
        BY <3>1 DEF InProgress
    <2>. QED
      BY <2>1, <2>2
  <1>4. CASE xr.phase = "idle"
    <2>1. vo' = vo /\ ends' = ends
      BY <1>4 DEF TermServed
    <2>. QED
      BY <1>1, <1>2, <1>3, <2>1 DEF StepSound, Effect, Kept, Counted, WaitingHasOwner
  <1>5. CASE xr.phase # "idle" /\ Current(xr.last)
    <2>1. vo' = VoiceStatusSet(SessionEndCallback(vo)) /\ ends' = ends + EndMsgs(vo)
      BY <1>5 DEF TermServed
    <2>2. /\ Sound(vo') /\ Owned(vo') /\ vo'.src # "STREAMING" /\ ~vo'.hal
          /\ vo'.ctl = vo.ctl
      BY <2>1, SessionEndCallbackSound, SessionEndCallbackType, VoiceStatusSetSound
    <2>. QED
      BY <1>1, <1>2, <1>3, <2>1, <2>2 DEF StepSound, Effect, Ended, Counted, WaitingHasOwner, Owned
  <1>6. CASE xr.phase # "idle" /\ ~Current(xr.last)
    <2>1. vo' = VoiceStatusSet(vo) /\ ends' = ends
      BY <1>6 DEF TermServed
    <2>2. Sound(vo') /\ (vo'.src = "STREAMING" <=> vo.src = "STREAMING")
      BY <2>1, VoiceStatusSetSound
    <2>3. vo'.hal = vo.hal /\ vo'.ctl = vo.ctl /\ (Owned(vo) => Owned(vo'))
      BY <2>1, VoiceStatusSetSound
    <2>. QED
      BY <1>1, <1>2, <1>3, <2>1, <2>2, <2>3
         DEF StepSound, Effect, Kept, Counted, WaitingHasOwner, Owned
  <1>. QED
    BY <1>4, <1>5, <1>6

\* What the router's threads do is sound.
LEMMA RouterSound == IndInv /\ Router => StepSound
  <1> SUFFICES ASSUME IndInv, Router PROVE StepSound
    OBVIOUS
  <1>. vo \in VoiceObject /\ pc \in PcType /\ Sound(vo) /\ WaitingHasOwner
    BY TypeInvParts DEF IndInv
  <1>1. CASE RouterBegin \/ RouterDrop \/ BeginHandler \/ StreamBeginHandler \/ StreamEndHandler
    BY <1>1, Untouched
       DEF RouterBegin, RouterDrop, BeginHandler, StreamBeginHandler, StreamEndHandler
  <1>2. CASE EndHandler
    <2>1. vo' = VoiceStatusSet(vo) /\ ends' = ends /\ count' = count /\ pc' = pc
      BY <1>2 DEF EndHandler
    <2>2. Sound(vo') /\ (vo'.src = "STREAMING" <=> vo.src = "STREAMING")
      BY <2>1, VoiceStatusSetSound
    <2>3. vo'.hal = vo.hal /\ vo'.ctl = vo.ctl /\ (Owned(vo) => Owned(vo'))
      BY <2>1, VoiceStatusSetSound
    <2>. QED
      BY <2>1, <2>2, <2>3 DEF StepSound, IndInv, Effect, Kept, Counted, InProgress,
                              WaitingHasOwner, MainRequest, Owned
  <1>3. CASE TvAvrHandler
    <2> DEFINE s == [vo EXCEPT !.status = "FINAL"]
    <2>1. /\ Sound(s) /\ s.src = vo.src /\ s.hal = vo.hal /\ s.ctl = vo.ctl
          /\ s.srv = vo.srv /\ s.act = vo.act
      BY SMTT(20) DEF Sound, VoiceObject
    <2>2. vo' = s /\ ends' = ends /\ count' = count /\ pc' = pc
      BY <1>3 DEF TvAvrHandler
    <2> HIDE DEF s
    <2>. QED
      BY <2>1, <2>2 DEF StepSound, IndInv, Effect, Kept, Counted, InProgress,
                        WaitingHasOwner, MainRequest
  <1>4. CASE \E u \in 1..MaxRouter : SessionTerm(u)
    <2>1. /\ vo' = vo /\ ends' = ends /\ count' = count
          /\ Goto("ipc", "term", NoController, 1)
      BY <1>4 DEF SessionTerm
    <2>2. pc'["main"] = pc["main"] /\ pc'["glib"] = pc["glib"]
      BY <2>1 DEF Goto, PcType, Threads
    <2>. QED
      BY <2>1, <2>2 DEF StepSound, IndInv, Effect, Kept, Counted, InProgress,
                        WaitingHasOwner, MainRequest
  <1>5. CASE \E t \in Threads : TermServed(t)
    BY <1>5, TermServedSound
  <1>. QED
    BY <1>1, <1>2, <1>3, <1>4, <1>5 DEF Router

\* Every step is sound.
LEMMA NextSound == IndInv /\ [Next]_vars => StepSound
  <1>1. IndInv /\ UNCHANGED vars => StepSound
    BY Untouched DEF vars
  <1>. QED
    BY <1>1, RequestsSound, FromControllersSound, QueueSound, TimeoutsSound, RouterSound DEF Next

\* The invariant holds at first.
LEMMA InitSound == Init => IndInv
  <1> SUFFICES ASSUME Init PROVE IndInv
    OBVIOUS
  <1>1. Sound(vo) /\ WaitingHasOwner /\ MainRequest
    BY DEF Init, VoiceInit, Sound, WaitingHasOwner, MainRequest, Threads, Idle
  <1>. QED
    BY <1>1, InitType DEF IndInv

\* The object is sound, and has an owner while it waits, in every state.
THEOREM Invariance == Spec => []IndInv
  <1>1. IndInv /\ [Next]_vars => IndInv'
    BY NextType, NextSound DEF IndInv, StepSound
  <1>. QED
    BY <1>1, InitSound, PTL DEF Spec

-----------------------------------------------------------------------------
(* The theorems.                                                           *)

\* No interleaving of requests, stops, timeouts, status reads and terminations
\* leaks the audio input or the write pipe, or streams without them.
THEOREM AudioHeld == Spec => []AudioHeldByStreamingSource
  <1>1. IndInv => AudioHeldByStreamingSource
    BY DEF IndInv, Sound, AudioHeldByStreamingSource
  <1>. QED
    BY <1>1, Invariance, PTL

\* The packet timeout is live exactly while a controller's session streams.
THEOREM Watched == Spec => []PacketWatchdog
  <1>1. IndInv => PacketWatchdog
    BY DEF IndInv, Sound, PacketWatchdog
  <1>. QED
    BY <1>1, Invariance, PTL

\* A source never waits for nobody.
THEOREM WaitingOwned == Spec => []WaitingHasOwner
  <1>1. IndInv => WaitingHasOwner
    BY DEF IndInv
  <1>. QED
    BY <1>1, Invariance, PTL

\* The count on which frequency agility is turned back on is the number of RF4CE
\* sessions: whatever ends a session, one end message takes it off the count.
THEOREM CountBalanced == Spec => []ActiveCountBalanced
  <1> DEFINE Balanced == count \in Int /\ ActiveCountBalanced
  <1>1. Init => Balanced
    BY DEF Init, VoiceInit, ActiveCountBalanced, InProgress, EndMsgs, Idle, Threads
  <1>2. IndInv /\ IndInv' /\ Balanced /\ [Next]_vars => Balanced'
    <2> SUFFICES ASSUME IndInv, IndInv', Balanced, [Next]_vars PROVE Balanced'
      OBVIOUS
    <2>1. /\ count' \in Int /\ count \in Int /\ ends \in Nat /\ ends' \in Nat
          /\ InProgress \in {0, 1} /\ InProgress' \in {0, 1}
      BY DEF IndInv, TypeInv, TypeOK, InProgress
    <2>2. EndMsgs(vo) \in {0, 1} /\ EndMsgs(vo') \in {0, 1} /\ EndMsgs(vo)' = EndMsgs(vo')
      BY EndMsgsType DEF EndMsgs
    <2>3. Effect
      BY NextSound DEF StepSound
    <2>4. Counted \in Int /\ Counted' \in Int
      BY <2>1 DEF Counted
    <2>5. Counted' + ends - ends' = Counted + EndMsgs(vo') - EndMsgs(vo)
      <3>1. CASE Kept
        <4>1. EndMsgs(vo') = EndMsgs(vo)
          BY <3>1 DEF Kept, EndMsgs
        <4>2. ends' = ends /\ Counted' = Counted
          BY <3>1 DEF Kept
        <4>. QED
          BY <2>1, <2>2, <2>4, <4>1, <4>2
      <3>2. CASE Ended
        <4>1. EndMsgs(vo') = 0
          BY <3>2 DEF Ended, EndMsgs
        <4>2. ends' = ends + EndMsgs(vo) /\ Counted' = Counted
          BY <3>2 DEF Ended
        <4>. QED
          BY <2>1, <2>2, <2>4, <4>1, <4>2
      <3>3. CASE Told
        <4>1. ends' = ends - 1 /\ Counted' = Counted - 1 /\ EndMsgs(vo') = EndMsgs(vo)
          BY <3>3 DEF Told
        <4>. QED
          BY <2>1, <2>2, <2>4, <4>1
      <3>4. CASE Taken
        <4>1. ends' = ends /\ Counted' = Counted + EndMsgs(vo') /\ EndMsgs(vo) = 0
          BY <3>4 DEF Taken
        <4>. QED
          BY <2>1, <2>2, <2>4, <4>1
      <3>. QED
        BY <2>3, <3>1, <3>2, <3>3, <3>4 DEF Effect
    <2>. QED
      BY <2>1, <2>2, <2>5 DEF ActiveCountBalanced, Counted
  <1>3. Balanced => ActiveCountBalanced
    OBVIOUS
  <1> HIDE DEF Balanced
  <1>. QED
    BY <1>1, <1>2, <1>3, Invariance, PTL DEF Spec

\* The voice object implements the lease: the input goes from nobody to one
\* controller and back, and each release is queued for the RF4CE network once.
THEOREM LeaseImplemented == Spec => ImplementsLease
  <1> DEFINE holder == IF vo.hal THEN vo.ctl ELSE NoController
  <1>1. Init => Lease!Init
    BY DEF Init, VoiceInit, Lease!Init
  <1>2. IndInv /\ IndInv' /\ [Next]_vars => [Lease!Next]_<<holder, ends>>
    <2> SUFFICES ASSUME IndInv, IndInv', [Next]_vars PROVE [Lease!Next]_<<holder, ends>>
      OBVIOUS
    <2>1. /\ Sound(vo) /\ Sound(vo') /\ ends \in Nat
          /\ Controllers = Rf4ce \cup Ble /\ NoController \notin Controllers
          /\ EndMsgs(vo) \in {0, 1}
      BY ControllersAssumption, EndMsgsType DEF IndInv, TypeInv, TypeOK, Controllers
    <2>2. Effect
      BY NextSound DEF StepSound
    <2>3. CASE Kept
      BY <2>3 DEF Kept
    <2>4. CASE Ended
      <3>1. CASE vo.hal
        <4>1. holder = vo.ctl /\ holder # NoController /\ holder' = NoController
          BY <2>1, <2>4, <3>1 DEF Ended, Sound
        <4>2. ends' = IF holder \in Rf4ce THEN ends + 1 ELSE ends
          BY <2>1, <2>4, <3>1, <4>1 DEF Ended, EndMsgs, Sound
        <4>. QED
          BY <4>1, <4>2 DEF Lease!Next, Lease!Release
      <3>2. CASE ~vo.hal
        <4>1. EndMsgs(vo) = 0
          BY <2>1, <3>2 DEF EndMsgs, Sound
        <4>. QED
          BY <2>1, <2>4, <3>2, <4>1 DEF Ended
      <3>. QED
        BY <3>1, <3>2
    <2>5. CASE Told
      BY <2>5 DEF Told, Lease!Next, Lease!Tell
    <2>6. CASE Taken
      <3>1. CASE vo'.hal
        <4>1. holder = NoController /\ holder' = vo'.ctl /\ vo'.ctl \in Rf4ce \cup Ble
          BY <2>1, <2>6, <3>1 DEF Taken, Sound
        <4>. QED
          BY <2>6, <4>1 DEF Taken, Lease!Next, Lease!Acquire
      <3>2. CASE ~vo'.hal
        BY <2>6, <3>2 DEF Taken
      <3>. QED
        BY <3>1, <3>2
    <2>. QED
      BY <2>2, <2>3, <2>4, <2>5, <2>6 DEF Effect
  <1>. QED
    BY <1>1, <1>2, Invariance, PTL DEF Spec, ImplementsLease, Lease!Spec

-----------------------------------------------------------------------------
(* The events of a session of the router: what was published of it, and    *)
(* what is queued that will be.                                            *)

\* The events that are published of a session.
Events == {"begin", "streamBegin", "streamEnd", "end"}

\* The router has called the begin handler of its session u to the end; it has ended it.
Announced(u) == u < xr.last \/ (u = xr.last /\ xr.phase # "wait")
Over(u) == u < xr.last \/ (u = xr.last /\ xr.phase = "idle")

\* A message of session u is in the queue q; no two of them are.
Posted(q, type, u) == \E k \in DOMAIN q : q[k].type = type /\ q[k].u = u
Once(q, type) ==
    \A j, k \in DOMAIN q : q[j].type = type /\ q[k].type = type /\ q[j].u = q[k].u => j = k

\* What EventsBegunAndEndedOnce says of the events of one session.
Orderly(s) ==
    /\ s # <<>> => s[1] = "begin"
    /\ \A i, j \in DOMAIN s : s[i] = s[j] /\ s[i] \in {"begin", "end"} => i = j
Happened(s, e) == \E i \in DOMAIN s : s[i] = e

\* A begin is queued before anything is published, an end before the end is.
EventsOf(u) ==
    /\ Orderly(pub[u])
    /\ pub[u] # <<>> => Announced(u)
    /\ Posted(mq, "Begin", u) => Announced(u) /\ pub[u] = <<>>
    /\ Posted(mq, "End", u) => Over(u) /\ ~Happened(pub[u], "end")
    /\ Happened(pub[u], "end") => Over(u)

\* The session that events are published of has begun; it is the current one, or none is.
PublishedOf ==
    /\ vo.uuid \in {0, vo.ipcUuid}
    /\ vo.ipcUuid \in 0..MaxRouter
    /\ vo.ipcUuid # 0 => pub[vo.ipcUuid] # <<>>

\* The inductive invariant of the events.
EventsInv ==
    /\ pub \in [1..MaxRouter -> Seq(Events)]
    /\ PublishedOf
    /\ Once(mq, "Begin") /\ Once(mq, "End")
    /\ \A u \in 1..MaxRouter : EventsOf(u)

\* The ids of the session, which a request alone forgets and a begin alone sets.
NoNewId == vo'.uuid \in {0, vo.uuid} /\ vo'.ipcUuid = vo.ipcUuid

\* The routines of the object leave the ids alone.
LEMMA RoutinesKeepIds ==
    ASSUME NEW s \in VoiceObject
    PROVE  /\ VoiceSessionEnd(s).uuid = s.uuid /\ VoiceSessionEnd(s).ipcUuid = s.ipcUuid
           /\ VoiceStatusSet(s).uuid = s.uuid /\ VoiceStatusSet(s).ipcUuid = s.ipcUuid
           /\ VoiceSessionNotifyStats(s).uuid = s.uuid /\ VoiceSessionNotifyStats(s).ipcUuid = s.ipcUuid
           /\ SessionEndCallback(s).uuid = s.uuid /\ SessionEndCallback(s).ipcUuid = s.ipcUuid
  <1>1. \A r \in VoiceObject : VoiceSessionEnd(r).uuid = r.uuid /\ VoiceSessionEnd(r).ipcUuid = r.ipcUuid
    BY SMTT(20) DEF VoiceSessionEnd, Released, VoiceObject
  <1>2. VoiceStatusSet(s).uuid = s.uuid /\ VoiceStatusSet(s).ipcUuid = s.ipcUuid
    BY SMTT(20) DEF VoiceStatusSet, VoiceObject
  <1>3. VoiceSessionNotifyStats(s).uuid = s.uuid /\ VoiceSessionNotifyStats(s).ipcUuid = s.ipcUuid
    BY SMTT(20) DEF VoiceSessionNotifyStats, VoiceObject
  <1>4. SessionEndCallback(s).uuid = s.uuid /\ SessionEndCallback(s).ipcUuid = s.ipcUuid
    <2> DEFINE ended == [s EXCEPT !.active = FALSE, !.srv = FALSE]
               next  == IF s.src = "STREAMING" THEN VoiceSessionEnd(ended) ELSE Settled(ended)
    <2>1. ended \in VoiceObject
      BY ZenonT(40) DEF VoiceObject
    <2>2. ended.uuid = s.uuid /\ ended.ipcUuid = s.ipcUuid
      BY ZenonT(40) DEF VoiceObject
    <2>3. Settled(ended) \in VoiceObject
      <3>1. [ended EXCEPT !.src = "READY"] \in VoiceObject
        BY <2>1, ZenonT(40) DEF VoiceObject
      <3>. QED
        BY <2>1, <3>1 DEF Settled
    <2>4. SessionEndCallback(s) = [next EXCEPT !.dst = "READY"]
      BY DEF SessionEndCallback
    <2> HIDE DEF ended
    <2>5. Settled(ended).uuid = ended.uuid /\ Settled(ended).ipcUuid = ended.ipcUuid
      BY <2>1, SMTT(20) DEF Settled, VoiceObject
    <2>6. next \in VoiceObject /\ next.uuid = s.uuid /\ next.ipcUuid = s.ipcUuid
      BY <1>1, <2>1, <2>2, <2>3, <2>5, VoiceSessionEndType
    <2> HIDE DEF next
    <2>. QED
      BY <2>4, <2>6, SMTT(20) DEF VoiceObject
  <1>. QED
    BY <1>1, <1>2, <1>3, <1>4

-----------------------------------------------------------------------------
(* The queue, of which only the router's begins and ends matter here.      *)

\* What is in r was in q, and there no more often.
Fewer(q, r) ==
    \A type \in {"Begin", "End"} :
        /\ \A u : Posted(r, type, u) => Posted(q, type, u)
        /\ Once(q, type) => Once(r, type)

\* A message more.
LEMMA PostedAppend ==
    ASSUME NEW q \in Seq(Message), NEW m \in Message, NEW type
    PROVE  /\ \A u : Posted(Append(q, m), type, u) <=> Posted(q, type, u) \/ (m.type = type /\ m.u = u)
           /\ Once(q, type) /\ ~(m.type = type /\ Posted(q, type, m.u)) => Once(Append(q, m), type)
  <1> DEFINE r == Append(q, m)
             n == Len(q)
  <1>1. /\ n \in Nat /\ DOMAIN q = 1..n /\ DOMAIN r = 1..(n + 1)
        /\ r[n + 1] = m /\ \A i \in 1..n : r[i] = q[i]
    BY AppendProperties, LenProperties
  <1>2. \A i \in DOMAIN r : i \in DOMAIN q \/ i = n + 1
    BY <1>1
  <1>3. \A i \in DOMAIN q : i \in DOMAIN r /\ r[i] = q[i]
    BY <1>1
  <1>4. n + 1 \in DOMAIN r
    BY <1>1
  <1> HIDE DEF r, n
  <1>5. \A u : Posted(r, type, u) <=> Posted(q, type, u) \/ (m.type = type /\ m.u = u)
    BY <1>1, <1>2, <1>3, <1>4 DEF Posted
  <1>6. ASSUME Once(q, type), ~(m.type = type /\ Posted(q, type, m.u))
        PROVE  Once(r, type)
    <2> SUFFICES ASSUME NEW j \in DOMAIN r, NEW k \in DOMAIN r, r[j].type = type, r[k].type = type,
                        r[j].u = r[k].u
                 PROVE  j = k
      BY DEF Once
    <2>1. CASE j \in DOMAIN q /\ k \in DOMAIN q
      BY <1>3, <1>6, <2>1 DEF Once
    <2>2. CASE j = n + 1 /\ k = n + 1
      BY <2>2
    <2>3. CASE j \in DOMAIN q /\ k = n + 1
      BY <1>1, <1>3, <1>6, <2>3 DEF Posted
    <2>4. CASE j = n + 1 /\ k \in DOMAIN q
      BY <1>1, <1>3, <1>6, <2>4 DEF Posted
    <2>. QED
      BY <1>2, <2>1, <2>2, <2>3, <2>4
  <1>. QED
    BY <1>5, <1>6 DEF r

\* A status is no begin and no end.
LEMMA FewerStatus ==
    ASSUME NEW s \in VoiceObject, NEW q \in Seq(Message)
    PROVE  Fewer(q, q \o StatusMsgs(s))
  <1>1. CASE s.ctl \in Rf4ce
    <2> DEFINE msg == [type |-> "Status", c |-> s.ctl, pending |-> s.status = "PENDING"]
    <2>1. msg \in Message
      <3>1. (s.status = "PENDING") \in BOOLEAN
        OBVIOUS
      <3>. QED
        BY <1>1, <3>1, Zenon DEF Message
    <2>2. msg.type = "Status"
      OBVIOUS
    <2>3. StatusMsgs(s) = <<msg>>
      BY <1>1 DEF StatusMsgs
    <2> HIDE DEF msg
    <2>4. q \o <<msg>> = Append(q, msg)
      BY <2>1, AppendIsConcat
    <2>5. ASSUME NEW type \in {"Begin", "End"}
          PROVE  /\ \A u : Posted(Append(q, msg), type, u) => Posted(q, type, u)
                 /\ Once(q, type) => Once(Append(q, msg), type)
      <3>1. msg.type # type
        BY <2>2
      <3>. QED
        BY <2>1, <3>1, PostedAppend
    <2>. QED
      BY <2>3, <2>4, <2>5 DEF Fewer
  <1>2. CASE s.ctl \notin Rf4ce
    <2>1. q \o StatusMsgs(s) = q
      BY <1>2, ConcatEmptySeq DEF StatusMsgs
    <2>. QED
      BY <2>1 DEF Fewer
  <1>. QED
    BY <1>1, <1>2

\* The first message is taken, and there is no other of its session.
LEMMA FewerTail ==
    ASSUME NEW q \in Seq(Message), q # <<>>
    PROVE  /\ Fewer(q, Tail(q))
           /\ Posted(q, Head(q).type, Head(q).u)
           /\ Once(q, Head(q).type) => ~Posted(Tail(q), Head(q).type, Head(q).u)
  <1> DEFINE r == Tail(q)
             n == Len(q)
  <1>1. /\ n \in Nat \ {0} /\ DOMAIN q = 1..n /\ DOMAIN r = 1..(n - 1) /\ Head(q) = q[1]
        /\ \A i \in 1..(n - 1) : r[i] = q[i + 1]
    <2>1. n \in Nat /\ n # 0 /\ DOMAIN q = 1..n
      BY EmptySeq, LenProperties
    <2>2. Len(r) = n - 1 /\ r \in Seq(Message) /\ Head(q) = q[1] /\ \A i \in 1..Len(r) : r[i] = q[i + 1]
      BY HeadTailProperties
    <2>. QED
      BY <2>1, <2>2, LenProperties
  <1>2. \A i \in DOMAIN r : i + 1 \in DOMAIN q /\ r[i] = q[i + 1] /\ i + 1 # 1 /\ i \in Nat
    BY <1>1
  <1>3. 1 \in DOMAIN q
    BY <1>1
  <1> HIDE DEF r, n
  <1>4. \A type, u : Posted(r, type, u) => Posted(q, type, u)
    BY <1>2 DEF Posted
  <1>5. ASSUME NEW type, Once(q, type) PROVE Once(r, type)
    <2>1. \A j, k \in DOMAIN r : j + 1 = k + 1 => j = k
      BY <1>2
    <2>. QED
      BY <1>2, <1>5, <2>1 DEF Once
  <1>6. Posted(q, Head(q).type, Head(q).u)
    BY <1>1, <1>3 DEF Posted
  <1>7. ASSUME Once(q, Head(q).type) PROVE ~Posted(r, Head(q).type, Head(q).u)
    BY <1>1, <1>2, <1>3, <1>7 DEF Posted, Once
  <1>. QED
    BY <1>4, <1>5, <1>6, <1>7 DEF Fewer, r

\* Twice fewer is fewer.
LEMMA FewerTwice ==
    ASSUME NEW p, NEW q, NEW r, Fewer(p, q), Fewer(q, r)
    PROVE  Fewer(p, r)
  BY DEF Fewer

-----------------------------------------------------------------------------
(* Every step keeps the invariant of the events.                           *)

\* The router goes on with its sessions.
Forward ==
    \A u \in 1..MaxRouter : (Announced(u) => Announced(u)') /\ (Over(u) => Over(u)')

\* An event is published after the others.
LEMMA OrderlyAppend ==
    ASSUME NEW s \in Seq(Events), NEW e \in Events, Orderly(s), e = "begin" <=> s = <<>>,
           e = "end" => ~Happened(s, "end")
    PROVE  /\ Append(s, e) \in Seq(Events) /\ Append(s, e) # <<>> /\ Orderly(Append(s, e))
           /\ Happened(Append(s, e), "end") => Happened(s, "end") \/ e = "end"
  <1> DEFINE r == Append(s, e)
             n == Len(s)
  <1>1. /\ n \in Nat /\ DOMAIN s = 1..n /\ DOMAIN r = 1..(n + 1) /\ r \in Seq(Events) /\ r # <<>>
        /\ r[n + 1] = e /\ \A i \in 1..n : r[i] = s[i]
        /\ s = <<>> <=> n = 0
    BY AppendProperties, LenProperties, EmptySeq
  <1>2. \A i \in DOMAIN r : (i \in DOMAIN s /\ r[i] = s[i]) \/ (i = n + 1 /\ r[i] = e)
    BY <1>1
  <1>3. r[1] = "begin"
    <2>1. CASE s = <<>>
      BY <1>1, <2>1
    <2>2. CASE s # <<>>
      BY <1>1, <2>2 DEF Orderly
    <2>. QED
      BY <2>1, <2>2
  <1> HIDE DEF r, n
  <1>4. e = "begin" => ~\E i \in DOMAIN s : s[i] = "begin"
    BY <1>1
  <1>5. \A i, j \in DOMAIN r : r[i] = r[j] /\ r[i] \in {"begin", "end"} => i = j
    <2> SUFFICES ASSUME NEW i \in DOMAIN r, NEW j \in DOMAIN r, r[i] = r[j], r[i] \in {"begin", "end"}
                 PROVE  i = j
      OBVIOUS
    <2>1. CASE i \in DOMAIN s /\ j \in DOMAIN s /\ r[i] = s[i] /\ r[j] = s[j]
      BY <2>1 DEF Orderly
    <2>2. \A k \in DOMAIN s : s[k] = e => e \notin {"begin", "end"}
      <3> SUFFICES ASSUME NEW k \in DOMAIN s, s[k] = e, e = "begin" \/ e = "end"
                   PROVE  FALSE
        OBVIOUS
      <3>1. CASE e = "begin"
        BY <1>4, <3>1
      <3>2. CASE e = "end"
        BY <3>2 DEF Happened
      <3>. QED
        BY <3>1, <3>2
    <2>. QED
      BY <1>2, <2>1, <2>2
  <1>6. Happened(r, "end") => Happened(s, "end") \/ e = "end"
    BY <1>2 DEF Happened
  <1>. QED
    BY <1>1, <1>3, <1>5, <1>6 DEF Orderly, r

\* Nothing is published and no begin or end is posted.
LEMMA Calm ==
    ASSUME EventsInv, NoNewId, pub' = pub, Fewer(mq, mq'), Forward
    PROVE  EventsInv'
  <1>1. pub' \in [1..MaxRouter -> Seq(Events)] /\ PublishedOf'
    BY DEF EventsInv, PublishedOf, NoNewId
  <1>2. Once(mq', "Begin") /\ Once(mq', "End")
    BY DEF EventsInv, Fewer
  <1>3. ASSUME NEW u \in 1..MaxRouter PROVE EventsOf(u)'
    <2>1. /\ Posted(mq', "Begin", u) => Posted(mq, "Begin", u)
          /\ Posted(mq', "End", u) => Posted(mq, "End", u)
      BY DEF Fewer
    <2>2. EventsOf(u)
      BY DEF EventsInv
    <2>. QED
      BY <2>1, <2>2 DEF EventsOf, Forward
  <1>. QED
    BY <1>1, <1>2, <1>3 DEF EventsInv

\* An event of session u is published: its begin first, its end as the router has ended it.
LEMMA Published ==
    ASSUME EventsInv, NEW u \in 1..MaxRouter, NEW e \in Events, pub' = Publish(u, e),
           Fewer(mq, mq'), Forward, e = "begin" <=> pub[u] = <<>>,
           Announced(u)', ~Posted(mq', "Begin", u),
           e = "end" => ~Happened(pub[u], "end") /\ ~Posted(mq', "End", u) /\ Over(u)'
    PROVE  /\ pub' \in [1..MaxRouter -> Seq(Events)]
           /\ Once(mq, "Begin")' /\ Once(mq, "End")' /\ \A v \in 1..MaxRouter : EventsOf(v)'
           /\ \A v \in 1..MaxRouter : pub[v] # <<>> \/ v = u => pub'[v] # <<>>
  <1> DEFINE s == pub[u]
             r == Append(s, e)
  <1>1. pub \in [1..MaxRouter -> Seq(Events)] /\ s \in Seq(Events)
    BY DEF EventsInv
  <1>2. pub' = [pub EXCEPT ![u] = r]
    BY DEF Publish
  <1>3. EventsOf(u)
    BY DEF EventsInv
  <1>4. /\ r \in Seq(Events) /\ r # <<>> /\ Orderly(r)
        /\ Happened(r, "end") => Happened(s, "end") \/ e = "end"
    BY <1>1, <1>3, OrderlyAppend DEF EventsOf
  <1> HIDE DEF r
  <1>5. /\ pub' \in [1..MaxRouter -> Seq(Events)] /\ pub'[u] = r
        /\ \A v \in 1..MaxRouter : v # u => pub'[v] = pub[v]
    BY <1>1, <1>2, <1>4
  <1>6. Once(mq', "Begin") /\ Once(mq', "End")
    BY DEF EventsInv, Fewer
  <1>7. \A v : /\ Posted(mq', "Begin", v) => Posted(mq, "Begin", v)
               /\ Posted(mq', "End", v) => Posted(mq, "End", v)
    BY DEF Fewer
  <1>8. ASSUME NEW v \in 1..MaxRouter, v # u PROVE EventsOf(v)'
    <2>1. EventsOf(v)
      BY DEF EventsInv
    <2>. QED
      BY <1>5, <1>7, <1>8, <2>1 DEF EventsOf, Forward
  <1>9. EventsOf(u)'
    <2>1. Orderly(pub'[u]) /\ pub'[u] # <<>>
      BY <1>4, <1>5
    <2>2. Happened(pub'[u], "end") => Over(u)'
      BY <1>3, <1>4, <1>5 DEF EventsOf, Forward
    <2>3. Posted(mq', "End", u) => Over(u)' /\ ~Happened(pub'[u], "end")
      BY <1>3, <1>4, <1>5, <1>7 DEF EventsOf, Forward
    <2>. QED
      BY <2>1, <2>2, <2>3 DEF EventsOf
  <1>. QED
    BY <1>4, <1>5, <1>6, <1>8, <1>9

\* What the router's sessions are like if the router has not moved, or only between begin and end.
LEMMA ForwardFacts ==
    ASSUME TypeInv
    PROVE  /\ xr'.last = xr.last /\ xr'.phase = xr.phase => Forward
           /\ xr'.last = xr.last /\ xr.phase # "idle" /\ xr'.phase # "wait" => Forward
           /\ xr'.last = xr.last + 1 => Forward
  <1>1. xr.last \in Nat /\ xr.phase \in {"idle", "wait", "begun", "stream", "drained"}
    BY BoundsAssumption DEF TypeInv, TypeOK
  <1>2. ASSUME xr'.last = xr.last + 1 PROVE Forward
    <2>1. \A u \in 1..MaxRouter : u <= xr.last => u < xr'.last
      BY <1>1, <1>2, BoundsAssumption
    <2>2. \A u \in 1..MaxRouter : u < xr.last \/ u = xr.last => u <= xr.last
      BY <1>1, BoundsAssumption
    <2>. QED
      BY <2>1, <2>2 DEF Forward, Announced, Over
  <1>. QED
    BY <1>1, <1>2 DEF Forward, Announced, Over

\* A queue as it was.
LEMMA FewerSame == ASSUME mq' = mq PROVE Fewer(mq, mq')
  BY DEF Fewer

\* Requests.
LEMMA RequestsEvents == TypeInv /\ EventsInv /\ Requests => EventsInv'
  <1> SUFFICES ASSUME TypeInv, EventsInv, NEW r \in Requesters,
                      RequestStart(r) \/ RequestAccept(r) \/ RequestRefuse(r)
               PROVE  EventsInv'
    BY DEF Requests
  <1>. vo \in VoiceObject /\ mq \in Seq(Message)
    BY TypeInvParts
  <1>. r \in Controllers \cup {NoController}
    BY DEF Requesters
  <1>1. CASE RequestStart(r)
    <2>1. mq' = mq /\ pub' = pub /\ xr' = xr /\ vo' \in {vo, [vo EXCEPT !.tCmd = "off", !.uuid = 0]}
      BY <1>1 DEF RequestStart
    <2>2. LET s == [vo EXCEPT !.tCmd = "off", !.uuid = 0] IN s.uuid = 0 /\ s.ipcUuid = vo.ipcUuid
      BY ZenonT(40) DEF VoiceObject
    <2>3. NoNewId
      BY <2>1, <2>2 DEF NoNewId
    <2>. QED
      BY <2>1, <2>3, FewerSame, ForwardFacts, Calm
  <1>2. CASE RequestAccept(r)
    <2>1. /\ pub' = pub /\ mq' = mq \o StatusMsgs(Acquired(r)) /\ vo' \in {Acquired(r), VoiceSessionEnd(Acquired(r))}
          /\ xr' \in {xr, [xr EXCEPT !.pending = "text"], [xr EXCEPT !.pending = "hal"]}
      BY <1>2 DEF RequestAccept
    <2>2. Acquired(r) \in VoiceObject
      BY AcquiredType
    <2>3. Acquired(r).uuid = vo.uuid /\ Acquired(r).ipcUuid = vo.ipcUuid
      BY ZenonT(30) DEF Acquired, VoiceObject
    <2>4. NoNewId
      BY <2>1, <2>2, <2>3, RoutinesKeepIds DEF NoNewId
    <2>5. xr'.last = xr.last /\ xr'.phase = xr.phase
      BY <2>1 DEF TypeInv, TypeOK
    <2>6. Fewer(mq, mq')
      BY <2>1, <2>2, FewerStatus
    <2>. QED
      BY <2>1, <2>4, <2>5, <2>6, ForwardFacts, Calm
  <1>3. CASE RequestRefuse(r)
    <2>1. mq' = mq /\ pub' = pub /\ xr' = xr /\ vo' = vo
      BY <1>3 DEF RequestRefuse
    <2>. QED
      BY <2>1, FewerSame, ForwardFacts, Calm DEF NoNewId
  <1>. QED
    BY <1>1, <1>2, <1>3

\* What controllers do, and the application that terminates a session.
LEMMA FromControllersEvents ==
    TypeInv /\ EventsInv /\ (FromControllers \/ \E u \in 1..MaxRouter : SessionTerm(u)) => EventsInv'
  <1> SUFFICES ASSUME TypeInv, EventsInv, FromControllers \/ \E u \in 1..MaxRouter : SessionTerm(u)
               PROVE  EventsInv'
    OBVIOUS
  <1>. vo \in VoiceObject
    BY TypeInvParts
  <1>1. mq' = mq /\ pub' = pub /\ xr' = xr
    BY DEF FromControllers, Stop, StatusRead, StatsReceived, SessionTerm
  <1>2. NoNewId
    <2>1. ASSUME NEW c \in Controllers, Stop(c) PROVE NoNewId
      BY <2>1, RoutinesKeepIds DEF Stop, EndSource, NoNewId
    <2>2. ASSUME NEW c \in Rf4ce, StatusRead(c) PROVE NoNewId
      <3> DEFINE s == [vo EXCEPT !.act = FALSE, !.tCmd = "off"]
      <3>1. vo' \in {s, [s EXCEPT !.src = "READY"]}
        BY <2>2 DEF StatusRead
      <3>2. s.uuid = vo.uuid /\ s.ipcUuid = vo.ipcUuid
        BY ZenonT(40) DEF VoiceObject
      <3>3. LET t == [s EXCEPT !.src = "READY"] IN t.uuid = vo.uuid /\ t.ipcUuid = vo.ipcUuid
        BY ZenonT(40) DEF VoiceObject
      <3> HIDE DEF s
      <3>. QED
        BY <3>1, <3>2, <3>3 DEF NoNewId
    <2>3. ASSUME StatsReceived PROVE NoNewId
      BY <2>3, RoutinesKeepIds DEF StatsReceived, NoNewId
    <2>4. ASSUME NEW u \in 1..MaxRouter, SessionTerm(u) PROVE NoNewId
      BY <2>4 DEF SessionTerm, NoNewId
    <2>. QED
      BY <2>1, <2>2, <2>3, <2>4 DEF FromControllers
  <1>. QED
    BY <1>1, <1>2, FewerSame, ForwardFacts, Calm

\* The timeouts.
LEMMA TimeoutsEvents == TypeInv /\ EventsInv /\ Timeouts => EventsInv'
  <1> SUFFICES ASSUME TypeInv, EventsInv, Timeouts PROVE EventsInv'
    OBVIOUS
  <1>. vo \in VoiceObject
    BY TypeInvParts
  <1>1. mq' = mq /\ pub' = pub /\ xr' = xr
    BY DEF Timeouts, PacketTimeout, StatsTimeout, CmdTimeoutStart, CmdTimeoutFinish
  <1>2. CASE PacketTimeout
    <2> DEFINE s == [vo EXCEPT !.tPkt = FALSE]
    <2>1. s \in VoiceObject
      BY ZenonT(40) DEF VoiceObject
    <2>2. s.uuid = vo.uuid /\ s.ipcUuid = vo.ipcUuid
      BY ZenonT(40) DEF VoiceObject
    <2>3. vo' = VoiceSessionEnd(s)
      BY <1>2 DEF PacketTimeout, Expired
    <2> HIDE DEF s
    <2>4. NoNewId
      BY <2>1, <2>2, <2>3, RoutinesKeepIds DEF NoNewId
    <2>. QED
      BY <1>1, <2>4, FewerSame, ForwardFacts, Calm
  <1>3. CASE StatsTimeout
    <2>1. PICK left : /\ left \in {vo.orphans, vo.orphans - 1} /\ left \in Nat
                      /\ vo' = VoiceSessionNotifyStats([vo EXCEPT !.tStats = FALSE, !.orphans = left])
      <3>1. PICK orphan \in BOOLEAN :
               /\ IF orphan THEN vo.orphans > 0 ELSE vo.tStats
               /\ LET left == IF ~orphan THEN vo.orphans
                              ELSE IF vo.tStats THEN vo.orphans ELSE vo.orphans - 1
                      s == [vo EXCEPT !.tStats = FALSE, !.orphans = left]
                  IN  vo' = VoiceSessionNotifyStats(s)
        BY <1>3 DEF StatsTimeout
      <3>2. vo.orphans \in Nat
        BY DEF VoiceObject
      <3> DEFINE left == IF ~orphan THEN vo.orphans
                         ELSE IF vo.tStats THEN vo.orphans ELSE vo.orphans - 1
      <3>3. left \in {vo.orphans, vo.orphans - 1} /\ left \in Nat
        BY <3>1, <3>2
      <3>. QED
        BY <3>1, <3>3
    <2> DEFINE s == [vo EXCEPT !.tStats = FALSE, !.orphans = left]
    <2>2. s \in VoiceObject
      BY <2>1, ZenonT(40) DEF VoiceObject
    <2>3. s.uuid = vo.uuid /\ s.ipcUuid = vo.ipcUuid
      BY ZenonT(40) DEF VoiceObject
    <2> HIDE DEF s
    <2>4. vo' = VoiceSessionNotifyStats(s)
      BY <2>1 DEF s
    <2>5. NoNewId
      BY <2>2, <2>3, <2>4, RoutinesKeepIds DEF NoNewId
    <2>. QED
      BY <1>1, <2>5, FewerSame, ForwardFacts, Calm
  <1>4. CASE CmdTimeoutStart \/ CmdTimeoutFinish
    <2>1. vo' \in {vo, [vo EXCEPT !.tCmd = "stale"], [vo EXCEPT !.act = FALSE, !.tCmd = "off"],
                   [vo EXCEPT !.src = "READY"]}
      BY <1>4 DEF CmdTimeoutStart, CmdTimeoutFinish
    <2>2. LET s == [vo EXCEPT !.tCmd = "stale"] IN s.uuid = vo.uuid /\ s.ipcUuid = vo.ipcUuid
      BY ZenonT(40) DEF VoiceObject
    <2>3. LET s == [vo EXCEPT !.act = FALSE, !.tCmd = "off"] IN s.uuid = vo.uuid /\ s.ipcUuid = vo.ipcUuid
      BY ZenonT(40) DEF VoiceObject
    <2>4. LET s == [vo EXCEPT !.src = "READY"] IN s.uuid = vo.uuid /\ s.ipcUuid = vo.ipcUuid
      BY ZenonT(40) DEF VoiceObject
    <2>5. NoNewId
      BY <2>1, <2>2, <2>3, <2>4 DEF NoNewId
    <2>. QED
      BY <1>1, <2>5, FewerSame, ForwardFacts, Calm
  <1>. QED
    BY <1>2, <1>3, <1>4 DEF Timeouts

\* An event of the current session, which has begun, is published.
LEMMA CurrentPublished ==
    ASSUME EventsInv, NoNewId, Forward, Fewer(mq, mq'),
           NEW u \in 1..MaxRouter, Current(u),
           NEW e \in Events \ {"begin"}, pub' = Publish(vo.ipcUuid, e),
           e = "end" => ~Happened(pub[u], "end") /\ ~Posted(mq', "End", u) /\ Over(u)'
    PROVE  EventsInv'
  <1>1. vo.uuid = u /\ vo.ipcUuid = u /\ pub[u] # <<>>
    <2>1. u # 0
      BY BoundsAssumption
    <2>. QED
      BY <2>1 DEF EventsInv, PublishedOf, Current
  <1>2. EventsOf(u)
    BY DEF EventsInv
  <1>3. Announced(u)' /\ ~Posted(mq', "Begin", u)
    BY <1>1, <1>2 DEF EventsOf, Forward, Fewer
  <1>4. e \in Events /\ (e = "begin" <=> pub[u] = <<>>)
    BY <1>1
  <1>5. /\ pub' \in [1..MaxRouter -> Seq(Events)]
        /\ Once(mq, "Begin")' /\ Once(mq, "End")' /\ \A v \in 1..MaxRouter : EventsOf(v)'
        /\ \A v \in 1..MaxRouter : pub[v] # <<>> \/ v = u => pub'[v] # <<>>
    BY <1>1, <1>3, <1>4, Published
  <1>6. PublishedOf'
    BY <1>1, <1>5 DEF EventsInv, PublishedOf, NoNewId
  <1>. QED
    BY <1>5, <1>6 DEF EventsInv

\* The router posts the begin, or the end, of its session.
LEMMA HandlerPosted ==
    ASSUME EventsInv, NoNewId, Forward, pub' = pub, mq \in Seq(Message),
           NEW type \in {"Begin", "End"}, NEW u \in 1..MaxRouter,
           Fewer(Append(mq, [type |-> type, u |-> u]), mq'),
           type = "Begin" => ~Announced(u) /\ Announced(u)',
           type = "End" => ~Over(u) /\ Over(u)'
    PROVE  EventsInv'
  <1> DEFINE m == [type |-> type, u |-> u]
             q == Append(mq, m)
  <1>1. m \in Message /\ m.type = type /\ m.u = u
    BY RouterMsgType
  <1> HIDE DEF m
  <1>2. \A t \in {"Begin", "End"} :
           /\ \A v : Posted(q, t, v) => Posted(mq, t, v) \/ (t = type /\ v = u)
           /\ Once(mq, t) /\ ~(t = type /\ Posted(mq, t, u)) => Once(q, t)
    BY <1>1, PostedAppend
  <1>3. ~Posted(mq, type, u)
    BY DEF EventsInv, EventsOf
  <1>4. \A t \in {"Begin", "End"} :
           /\ \A v : Posted(mq', t, v) => Posted(mq, t, v) \/ (t = type /\ v = u)
           /\ Once(mq', t)
    BY <1>2, <1>3 DEF EventsInv, Fewer, m
  <1>5. pub' \in [1..MaxRouter -> Seq(Events)] /\ PublishedOf'
    BY DEF EventsInv, PublishedOf, NoNewId
  <1>6. ASSUME NEW v \in 1..MaxRouter PROVE EventsOf(v)'
    <2>1. /\ EventsOf(v)
          /\ Announced(v) => Announced(v)'
          /\ Over(v) => Over(v)'
      BY DEF EventsInv, Forward
    <2>2. /\ Posted(mq', "Begin", v) => Posted(mq, "Begin", v) \/ (type = "Begin" /\ v = u)
          /\ Posted(mq', "End", v) => Posted(mq, "End", v) \/ (type = "End" /\ v = u)
      BY <1>4
    <2>3. CASE v # u
      BY <2>1, <2>2, <2>3 DEF EventsOf
    <2>4. CASE v = u
      BY <2>1, <2>2, <2>4 DEF EventsOf
    <2>. QED
      BY <2>3, <2>4
  <1>. QED
    BY <1>4, <1>5, <1>6 DEF EventsInv

-----------------------------------------------------------------------------
(* The main thread takes a message of the queue.                           *)

\* The messages that publish nothing.
LEMMA QuietMsgsEvents == TypeInv /\ EventsInv /\ (VoiceEndMsg \/ StatusMsg \/ Drain) => EventsInv'
  <1> SUFFICES ASSUME TypeInv, EventsInv, VoiceEndMsg \/ StatusMsg \/ Drain PROVE EventsInv'
    OBVIOUS
  <1>1. vo' = vo /\ pub' = pub /\ xr' = xr /\ (mq' = mq \/ (mq # <<>> /\ mq' = Tail(mq)))
    BY DEF VoiceEndMsg, StatusMsg, Drain, Head1
  <1>2. mq \in Seq(Message)
    BY TypeInvParts
  <1>3. Fewer(mq, mq')
    BY <1>1, <1>2, FewerSame, FewerTail
  <1>. QED
    BY <1>1, <1>3, ForwardFacts, Calm DEF NoNewId

\* The begin, which is the first event published of its session.
LEMMA BeginMsgEvents == TypeInv /\ EventsInv /\ BeginMsg => EventsInv'
  <1> SUFFICES ASSUME TypeInv, EventsInv, BeginMsg PROVE EventsInv'
    OBVIOUS
  <1>. vo \in VoiceObject /\ mq \in Seq(Message)
    BY TypeInvParts
  <1>1. PICK u \in 1..MaxRouter : u = Head(mq).u
    BY HeadType DEF BeginMsg
  <1> DEFINE id == VoiceSessionIdNext(vo)
             s == [vo EXCEPT !.uuid = u, !.sid = id, !.ipcId = id, !.ipcUuid = u,
                             !.status = "PENDING", !.active = TRUE, !.dst = "OPENED"]
  <1>2. id \in Nat /\ id \in 0..IdMax /\ u \in Nat
    BY BoundsAssumption DEF VoiceSessionIdNext, VoiceObject
  <1>3. /\ vo' \in {s, VoiceSessionEnd(s)} /\ mq' = Tail(mq) \o StatusMsgs(s)
        /\ pub' = Publish(u, "begin") /\ xr' = xr /\ mq # <<>> /\ Head(mq).type = "Begin"
    BY <1>1 DEF BeginMsg, EndSource, Head1
  <1> HIDE DEF id
  <1>4. s \in VoiceObject
    BY <1>2, ZenonT(40) DEF VoiceObject
  <1>5. s.uuid = u /\ s.ipcUuid = u
    BY ZenonT(40) DEF VoiceObject
  <1> HIDE DEF s
  <1>6. vo'.uuid = u /\ vo'.ipcUuid = u
    BY <1>3, <1>4, <1>5, RoutinesKeepIds
  <1>7. Tail(mq) \in Seq(Message)
    BY <1>3, HeadTailProperties
  <1>8. Fewer(mq, mq') /\ Posted(mq, "Begin", u) /\ ~Posted(mq', "Begin", u)
    <2>1. Fewer(Tail(mq), mq')
      BY <1>3, <1>4, <1>7, FewerStatus
    <2>2. Fewer(mq, Tail(mq)) /\ Posted(mq, "Begin", u) /\ ~Posted(Tail(mq), "Begin", u)
      BY <1>1, <1>3, FewerTail DEF EventsInv
    <2>3. Fewer(mq, mq')
      BY <2>1, <2>2, FewerTwice
    <2>. QED
      BY <2>1, <2>2, <2>3 DEF Fewer
  <1>9. pub[u] = <<>> /\ Announced(u)
    BY <1>8 DEF EventsInv, EventsOf
  <1>10. Forward /\ Announced(u)'
    BY <1>3, <1>9, ForwardFacts DEF Forward
  <1>11. /\ pub' \in [1..MaxRouter -> Seq(Events)]
         /\ Once(mq, "Begin")' /\ Once(mq, "End")' /\ \A v \in 1..MaxRouter : EventsOf(v)'
         /\ \A v \in 1..MaxRouter : pub[v] # <<>> \/ v = u => pub'[v] # <<>>
    <2>1. "begin" \in Events
      BY DEF Events
    <2>. QED
      BY <1>3, <1>8, <1>9, <1>10, <2>1, Published
  <1>12. PublishedOf'
    <2>1. u \in 0..MaxRouter
      BY BoundsAssumption
    <2>. QED
      BY <1>6, <1>11, <2>1 DEF PublishedOf
  <1>. QED
    BY <1>11, <1>12 DEF EventsInv

\* The events of the stream.
LEMMA StreamMsgsEvents == TypeInv /\ EventsInv /\ (StreamBeginMsg \/ StreamEndMsg) => EventsInv'
  <1> SUFFICES ASSUME TypeInv, EventsInv, StreamBeginMsg \/ StreamEndMsg PROVE EventsInv'
    OBVIOUS
  <1>. vo \in VoiceObject /\ mq \in Seq(Message)
    BY TypeInvParts
  <1>1. PICK u \in 1..MaxRouter : u = Head(mq).u
    BY HeadType DEF StreamBeginMsg, StreamEndMsg
  <1>2. mq # <<>> /\ xr' = xr /\ Tail(mq) \in Seq(Message)
    BY HeadTailProperties DEF StreamBeginMsg, StreamEndMsg, Head1
  <1>3. Fewer(mq, Tail(mq)) /\ Forward
    BY <1>2, FewerTail, ForwardFacts
  <1>4. \A s \in VoiceObject : LET t == [s EXCEPT !.dst = "OPENED"]
                               IN  t.uuid = s.uuid /\ t.ipcUuid = s.ipcUuid
    BY ZenonT(40) DEF VoiceObject
  <1>5. CASE StreamBeginMsg /\ Current(u)
    <2>1. vo' = [vo EXCEPT !.dst = "STREAMING"] /\ pub' = Publish(vo.ipcUuid, "streamBegin") /\ mq' = Tail(mq)
      BY <1>1, <1>5 DEF StreamBeginMsg
    <2>2. LET t == [vo EXCEPT !.dst = "STREAMING"] IN t.uuid = vo.uuid /\ t.ipcUuid = vo.ipcUuid
      BY ZenonT(40) DEF VoiceObject
    <2>3. NoNewId
      BY <2>1, <2>2 DEF NoNewId
    <2>4. "streamBegin" \in Events \ {"begin"}
      BY DEF Events
    <2>. QED
      BY <1>3, <1>5, <2>1, <2>3, <2>4, CurrentPublished
  <1>6. CASE StreamEndMsg /\ Current(u)
    <2> DEFINE s == [vo EXCEPT !.status = "FINAL"]
    <2>1. s \in VoiceObject
      BY ZenonT(40) DEF VoiceObject
    <2>2. s.uuid = vo.uuid /\ s.ipcUuid = vo.ipcUuid
      BY ZenonT(40) DEF VoiceObject
    <2>3. /\ vo' \in {[VoiceStatusSet(s) EXCEPT !.dst = "OPENED"], [s EXCEPT !.dst = "OPENED"]}
          /\ mq' \in {Tail(mq) \o StatusMsgs(s), Tail(mq) \o <<>>}
          /\ pub' = Publish(vo.ipcUuid, "streamEnd")
      BY <1>1, <1>6 DEF StreamEndMsg
    <2> HIDE DEF s
    <2>4. VoiceStatusSet(s) \in VoiceObject /\ VoiceStatusSet(s).uuid = s.uuid /\ VoiceStatusSet(s).ipcUuid = s.ipcUuid
      BY <2>1, VoiceStatusSetType, RoutinesKeepIds
    <2>5. NoNewId
      BY <1>4, <2>1, <2>2, <2>3, <2>4 DEF NoNewId
    <2>6. Tail(mq) \o <<>> = Tail(mq)
      BY <1>2, ConcatEmptySeq
    <2>7. Fewer(Tail(mq), Tail(mq) \o StatusMsgs(s))
      BY <1>2, <2>1, FewerStatus
    <2>8. Fewer(mq, mq')
      <3>1. Fewer(mq, Tail(mq) \o StatusMsgs(s))
        BY <1>3, <2>7, FewerTwice
      <3>2. mq' = Tail(mq) \/ mq' = Tail(mq) \o StatusMsgs(s)
        BY <2>3, <2>6
      <3>. QED
        BY <1>3, <3>1, <3>2
    <2>9. "streamEnd" \in Events \ {"begin"}
      BY DEF Events
    <2>. QED
      BY <1>3, <1>6, <2>3, <2>5, <2>8, <2>9, CurrentPublished
  <1>7. CASE ~Current(u)
    <2>1. vo' = vo /\ pub' = pub /\ mq' = Tail(mq)
      BY <1>1, <1>7 DEF StreamBeginMsg, StreamEndMsg
    <2>. QED
      BY <1>3, <2>1, Calm DEF NoNewId
  <1>. QED
    BY <1>5, <1>6, <1>7

\* The end, of which there is one message.
LEMMA EndMsgEvents == TypeInv /\ EventsInv /\ EndMsg => EventsInv'
  <1> SUFFICES ASSUME TypeInv, EventsInv, EndMsg PROVE EventsInv'
    OBVIOUS
  <1>. vo \in VoiceObject /\ mq \in Seq(Message)
    BY TypeInvParts
  <1>1. PICK u \in 1..MaxRouter : u = Head(mq).u
    BY HeadType DEF EndMsg
  <1>2. mq # <<>> /\ xr' = xr /\ mq' = Tail(mq) /\ Head(mq).type = "End"
    BY DEF EndMsg, Head1
  <1>3. Fewer(mq, mq') /\ Forward
    BY <1>2, FewerTail, ForwardFacts
  <1>4. CASE Current(u)
    <2>1. vo' = SessionEndCallback(vo) /\ pub' = Publish(vo.ipcUuid, "end")
      BY <1>1, <1>4 DEF EndMsg
    <2>2. NoNewId
      BY <2>1, RoutinesKeepIds DEF NoNewId
    <2>3. Posted(mq, "End", u) /\ ~Posted(mq', "End", u)
      BY <1>1, <1>2, FewerTail DEF EventsInv
    <2>4. ~Happened(pub[u], "end") /\ Over(u)'
      BY <1>3, <2>3 DEF EventsInv, EventsOf, Forward
    <2>5. "end" \in Events \ {"begin"}
      BY DEF Events
    <2>. QED
      BY <1>3, <1>4, <2>1, <2>2, <2>3, <2>4, <2>5, CurrentPublished
  <1>5. CASE ~Current(u)
    <2>1. vo' = vo /\ pub' = pub
      BY <1>1, <1>5 DEF EndMsg
    <2>. QED
      BY <1>3, <2>1, Calm DEF NoNewId
  <1>. QED
    BY <1>4, <1>5

-----------------------------------------------------------------------------
(* The router, and the theorem.                                            *)

\* The router's handlers.
LEMMA HandlersEvents ==
    TypeInv /\ EventsInv /\ (\/ RouterBegin \/ RouterDrop \/ BeginHandler \/ StreamBeginHandler
                             \/ StreamEndHandler \/ EndHandler \/ TvAvrHandler) => EventsInv'
  <1> SUFFICES ASSUME TypeInv, EventsInv
               PROVE  (\/ RouterBegin \/ RouterDrop \/ BeginHandler \/ StreamBeginHandler
                       \/ StreamEndHandler \/ EndHandler \/ TvAvrHandler) => EventsInv'
    OBVIOUS
  <1>. vo \in VoiceObject /\ mq \in Seq(Message) /\ RestType
    BY TypeInvParts
  <1>1. PICK u \in 0..MaxRouter : u = xr.last
    BY DEF RestType
  <1>2. xr.phase # "idle" => u \in 1..MaxRouter
    BY <1>1 DEF RestType, RouterNumbered
  <1>3. \A phase : [xr EXCEPT !.phase = phase].last = u /\ [xr EXCEPT !.phase = phase].phase = phase
    BY <1>1 DEF RestType
  <1>4. CASE RouterBegin \/ RouterDrop
    <2>1. vo' = vo /\ pub' = pub /\ mq' = mq
      BY <1>4 DEF RouterBegin, RouterDrop
    <2>2. xr'.last = xr.last + 1 \/ (xr'.last = xr.last /\ xr'.phase = xr.phase)
      BY <1>4 DEF RouterBegin, RouterDrop, RestType
    <2>. QED
      BY <2>1, <2>2, FewerSame, ForwardFacts, Calm DEF NoNewId
  <1>5. CASE TvAvrHandler
    <2>1. vo' = [vo EXCEPT !.status = "FINAL"] /\ pub' = pub /\ mq' = mq /\ xr' = xr
      BY <1>5 DEF TvAvrHandler
    <2>2. LET t == [vo EXCEPT !.status = "FINAL"] IN t.uuid = vo.uuid /\ t.ipcUuid = vo.ipcUuid
      BY ZenonT(40) DEF VoiceObject
    <2>3. NoNewId
      BY <2>1, <2>2 DEF NoNewId
    <2>. QED
      BY <2>1, <2>3, FewerSame, ForwardFacts, Calm
  <1>6. CASE BeginHandler
    <2>1. /\ vo' = vo /\ pub' = pub /\ mq' = Append(mq, [type |-> "Begin", u |-> u])
          /\ xr.phase = "wait" /\ xr'.last = u /\ xr'.phase = "begun"
      BY <1>1, <1>3, <1>6 DEF BeginHandler, Push
    <2>2. Forward /\ NoNewId
      BY <1>1, <2>1, ForwardFacts DEF NoNewId
    <2>3. ~Announced(u) /\ Announced(u)' /\ u \in 1..MaxRouter
      BY <1>1, <1>2, <2>1 DEF Announced
    <2>4. Fewer(Append(mq, [type |-> "Begin", u |-> u]), mq')
      BY <2>1 DEF Fewer
    <2>5. PICK type \in {"Begin", "End"} : type = "Begin"
      OBVIOUS
    <2>. QED
      BY <2>1, <2>2, <2>3, <2>4, <2>5, HandlerPosted
  <1>7. CASE EndHandler
    <2>1. /\ vo' = VoiceStatusSet(vo) /\ pub' = pub
          /\ mq' = Append(mq, [type |-> "End", u |-> u]) \o StatusMsgs(vo)
          /\ xr.phase \in {"begun", "drained"} /\ xr'.last = u /\ xr'.phase = "idle"
      BY <1>1, <1>3, <1>7 DEF EndHandler
    <2>2. Forward /\ NoNewId
      BY <1>1, <2>1, RoutinesKeepIds, ForwardFacts DEF NoNewId
    <2>3. ~Over(u) /\ Over(u)' /\ u \in 1..MaxRouter
      BY <1>1, <1>2, <2>1 DEF Over
    <2>4. Append(mq, [type |-> "End", u |-> u]) \in Seq(Message)
      BY <2>3, RouterMsgType
    <2>5. Fewer(Append(mq, [type |-> "End", u |-> u]), mq')
      BY <2>1, <2>4, FewerStatus
    <2>6. PICK type \in {"Begin", "End"} : type = "End"
      OBVIOUS
    <2>. QED
      BY <2>1, <2>2, <2>3, <2>5, <2>6, HandlerPosted
  <1>8. CASE StreamBeginHandler \/ StreamEndHandler
    <2>1. PICK type \in {"StreamBegin", "StreamEnd"} :
             /\ vo' = vo /\ pub' = pub /\ mq' = Append(mq, [type |-> type, u |-> u])
             /\ xr.phase \notin {"idle", "wait"} /\ xr'.last = u /\ xr'.phase \in {"stream", "drained"}
      BY <1>1, <1>3, <1>8 DEF StreamBeginHandler, StreamEndHandler, Push
    <2>2. Forward /\ NoNewId
      BY <1>1, <2>1, ForwardFacts DEF NoNewId
    <2>3. [type |-> type, u |-> u] \in Message
      BY <1>2, <2>1, RouterMsgType
    <2>4. Fewer(mq, mq')
      <3>1. ASSUME NEW t \in {"Begin", "End"}
            PROVE  /\ \A v : Posted(mq', t, v) => Posted(mq, t, v)
                   /\ Once(mq, t) => Once(mq', t)
        BY <2>1, <2>3, PostedAppend
      <3>. QED
        BY <3>1 DEF Fewer
    <2>. QED
      BY <2>1, <2>2, <2>4, Calm
  <1>. QED
    BY <1>4, <1>5, <1>6, <1>7, <1>8

\* The router serves a termination: the end handler publishes the end itself.
LEMMA TermServedEvents == \A t \in Threads : TypeInv /\ EventsInv /\ TermServed(t) => EventsInv'
  <1> SUFFICES ASSUME NEW t \in Threads, TypeInv, EventsInv, TermServed(t) PROVE EventsInv'
    OBVIOUS
  <1>. vo \in VoiceObject /\ mq \in Seq(Message) /\ RestType
    BY TypeInvParts
  <1>1. CASE xr.phase = "idle"
    <2>1. vo' = vo /\ pub' = pub /\ mq' = mq /\ xr' = xr
      BY <1>1 DEF TermServed
    <2>. QED
      BY <2>1, FewerSame, ForwardFacts, Calm DEF NoNewId
  <1>2. CASE xr.phase # "idle"
    <2>1. PICK u \in 1..MaxRouter : u = xr.last
      BY <1>2 DEF RestType, RouterNumbered
    <2> DEFINE s == IF Current(u) THEN SessionEndCallback(vo) ELSE vo
    <2>2. /\ vo' = VoiceStatusSet(s) /\ mq' = mq \o StatusMsgs(s)
          /\ IF Current(u) THEN pub' = Publish(vo.ipcUuid, "end") ELSE pub' = pub
          /\ xr' = [xr EXCEPT !.phase = "idle"] /\ xr.phase # "wait"
      BY <1>2, <2>1 DEF TermServed
    <2>3. s \in VoiceObject /\ s.uuid = vo.uuid /\ s.ipcUuid = vo.ipcUuid
      BY SessionEndCallbackType, RoutinesKeepIds
    <2>4. xr'.last = u /\ xr'.phase = "idle"
      BY <2>1, <2>2 DEF RestType
    <2> HIDE DEF s
    <2>5. NoNewId /\ Fewer(mq, mq')
      BY <2>2, <2>3, RoutinesKeepIds, FewerStatus DEF NoNewId
    <2>6. Forward
      BY <1>2, <2>1, <2>4, ForwardFacts
    <2>7. ~Over(u) /\ Over(u)'
      BY <1>2, <2>1, <2>4 DEF Over
    <2>8. ~Happened(pub[u], "end") /\ ~Posted(mq', "End", u)
      BY <2>5, <2>7 DEF EventsInv, EventsOf, Fewer
    <2>9. "end" \in Events \ {"begin"}
      BY DEF Events
    <2>10. CASE Current(u)
      BY <2>2, <2>5, <2>6, <2>7, <2>8, <2>9, <2>10, CurrentPublished
    <2>11. CASE ~Current(u)
      BY <2>2, <2>5, <2>6, <2>11, Calm
    <2>. QED
      BY <2>10, <2>11
  <1>. QED
    BY <1>1, <1>2

\* Every step keeps the invariant of the events.
LEMMA NextEvents == TypeInv /\ EventsInv /\ [Next]_vars => EventsInv'
  <1>1. TypeInv /\ EventsInv /\ UNCHANGED vars => EventsInv'
    BY FewerSame, ForwardFacts, Calm DEF vars, NoNewId
  <1>2. TypeInv /\ EventsInv /\ Queue => EventsInv'
    BY QuietMsgsEvents, BeginMsgEvents, StreamMsgsEvents, EndMsgEvents DEF Queue
  <1>3. TypeInv /\ EventsInv /\ Router => EventsInv'
    BY TermServedEvents, HandlersEvents, FromControllersEvents DEF Router
  <1>. QED
    BY <1>1, <1>2, <1>3, RequestsEvents, FromControllersEvents, TimeoutsEvents DEF Next

\* Nothing has been posted or published at first.
LEMMA InitEvents == Init => EventsInv
  <1> SUFFICES ASSUME Init PROVE EventsInv
    OBVIOUS
  <1>1. vo.uuid = 0 /\ vo.ipcUuid = 0 /\ 0 \in 0..MaxRouter
    BY BoundsAssumption DEF Init, VoiceInit
  <1>2. mq = <<>> /\ pub = [u \in 1..MaxRouter |-> <<>>]
    BY DEF Init
  <1>3. DOMAIN mq = {}
    BY <1>2
  <1>4. pub \in [1..MaxRouter -> Seq(Events)] /\ \A u \in 1..MaxRouter : pub[u] = <<>> /\ DOMAIN pub[u] = {}
    BY <1>2, EmptySeq
  <1>5. \A u \in 1..MaxRouter : EventsOf(u)
    BY <1>3, <1>4 DEF EventsOf, Orderly, Happened, Posted
  <1>. QED
    BY <1>1, <1>3, <1>4, <1>5 DEF EventsInv, PublishedOf, Once

\* Whatever the order in which a session's end is terminated, queued and taken,
\* and whatever other sessions are in between, of each session of the router the
\* begin is published first and once, and its end at most once.
THEOREM EventsOnce == Spec => []EventsBegunAndEndedOnce
  <1>1. TypeInv /\ EventsInv /\ [Next]_vars => TypeInv' /\ EventsInv'
    BY NextType, NextEvents
  <1>2. EventsInv => EventsBegunAndEndedOnce
    BY DEF EventsInv, EventsOf, Orderly, EventsBegunAndEndedOnce
  <1>. QED
    BY <1>1, <1>2, InitType, InitEvents, PTL DEF Spec
=============================================================================
