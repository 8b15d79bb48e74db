------------------------- MODULE UpdateSessionsProofs -------------------------
(***************************************************************************)
(* The counts of sessions and readers, the archives that are extracted,    *)
(* the voice flag and what controllers were told are those of the          *)
(* sessions, for any controllers, images and number of downloads; what is  *)
(* staged was initiated, and what is finished is ended.                    *)
(***************************************************************************)
EXTENDS UpdateSessions, FiniteSetTheorems, SequenceTheorems, TLAPS

\* The thread deletes a session before its controller or timer does more; downloads wait for
\* no application; a controller takes one image, whose file is not announced again.
UpdateAssumption ==
    /\ Quick /\ ~Interactive /\ IsFiniteSet(Controllers)
    /\ \A c \in Controllers : \A i, j \in Wants[c] : i = j
    /\ \A c \in Controllers : Wants[c] \cap Announced = {}

-----------------------------------------------------------------------------
(* The inductive invariant.                                                *)

Sessions ==
    [image : Images \cup {None}, file : Images \cup {None, Failed}, downloading : BOOLEAN,
     waiting : BOOLEAN, initiated : BOOLEAN, background : BOOLEAN,
     tag : {"none", "armed", "fired"}, param : Images \cup {None}]
Messages ==
    [type : {"stage", "unstage"}, ctl : Controllers, image : Images, count : Int, readers : Int]
Updates ==
    [sessions : [Controllers -> Sessions], count : Int, active : 0..ActiveMax,
     readers : [Images -> Int], queue : Seq(Messages), stray : {{}}, voice : BOOLEAN]
Told == [image : Images \cup {None}, progress : BOOLEAN, over : BOOLEAN, done : BOOLEAN]

Types ==
    /\ extracted \subseteq Images /\ resuming \subseteq Controllers
    /\ ctl \in [Controllers -> Told] /\ stored \in [Controllers -> Images \cup {None}]

\* What a controller has, was told and is to resume is the one image it wants.
Wanted ==
    \A c \in Controllers :
       {du.sessions[c].image, ctl[c].image, stored[c]} \subseteq Wants[c] \cup {None}

\* A session that goes on: there is one, and no message will delete it.
Gone(d, c) == \E k \in 1..Len(d.queue) : d.queue[k].type = "unstage" /\ d.queue[k].ctl = c
Alive(d, c) == d.sessions[c].image # None /\ ~Gone(d, c)

\* A message is about a session there is; a session is staged once, then deleted once.
Ordered(d) ==
    /\ \A k \in 1..Len(d.queue) :
          LET m == d.queue[k] IN m.image = d.sessions[m.ctl].image
    /\ \A j, k \in 1..Len(d.queue) :
          j < k /\ d.queue[j].ctl = d.queue[k].ctl
             => d.queue[j].type = "stage" /\ d.queue[k].type = "unstage"

\* A session has its file, or the message that will open it; only those that go on download.
Filed(d) ==
    \A c \in Controllers :
       /\ d.sessions[c].file \in {None, d.sessions[c].image}
       /\ d.sessions[c].image # None /\ d.sessions[c].file = None
             => \E k \in 1..Len(d.queue) : d.queue[k].type = "stage" /\ d.queue[k].ctl = c
       /\ d.sessions[c].downloading => Alive(d, c)
       /\ d.sessions[c].tag # "none" => d.sessions[c].param = d.sessions[c].image

\* The counts are those of the sessions that go on.
On(d, i) == {c \in Controllers : Alive(d, c) /\ d.sessions[c].image = i}
All(d) == {c \in Controllers : Alive(d, c)}
Busy(d) == {c \in Controllers : Alive(d, c) /\ ~d.sessions[c].waiting}
Counted(d) ==
    /\ \A i \in Images : d.readers[i] = Cardinality(On(d, i))
    /\ d.count = Cardinality(All(d))
    /\ d.active = Cardinality(Busy(d))

\* The callback that waits for the mutex is that of a session that goes on.
Timed ==
    \/ firing = NoTimer
    \/ \E c \in Controllers :
          /\ firing = [ctl |-> {c}, image |-> du.sessions[c].image]
          /\ Alive(du, c) /\ du.sessions[c].tag = "fired"

\* Who was told of an image has a session.
Offered == \A c \in Controllers : ctl[c].image # None /\ ~ctl[c].over => Alive(du, c)

\* The counts of readers before each message and after the last: what the thread has
\* extracted, what the messages say, and what the main thread counts now.
Counts(m, before) ==
    [before EXCEPT ![m.image] = IF m.type = "stage" THEN @ + 1 ELSE @ - 1]
Traces(h, q, ext, rd) ==
    /\ h \in [0..Len(q) -> [Images -> Nat]]
    /\ \A i \in Images : i \in ext <=> h[0][i] > 0
    /\ h[Len(q)] = rd
    /\ \A k \in 1..Len(q) :
          /\ h[k] = Counts(q[k], h[k - 1])
          /\ q[k].readers = h[k][q[k].image]
          /\ q[k].count = 0 => \A i \in Images : h[k][i] = 0
    /\ \A k \in 0..Len(q), i \in Images \cap Announced : h[k][i] = 0
Traced(d, ext) == \E h : Traces(h, d.queue, ext, d.readers)

Foreground(d) == \E c \in Controllers : d.sessions[c].downloading /\ ~d.sessions[c].background

\* The invariant, of the part of the state that the handlers share ...
Sound(d, ext) ==
    /\ d \in Updates /\ Ordered(d) /\ Filed(d) /\ Counted(d) /\ Traced(d, ext)
    /\ d.voice <=> Foreground(d)

\* ... and of all of it.
IInv == Types /\ Wanted /\ Timed /\ Offered /\ Sound(du, extracted)

-----------------------------------------------------------------------------
(* Records.                                                                *)

\* The constants of the images are no image.
LEMMA NoneFacts == None \notin Images /\ Failed \notin Images /\ None # Failed
  BY ControllersAssumption DEF None, Failed

\* The fields of du.
LEMMA UpdatesFacts ==
    ASSUME NEW d \in Updates
    PROVE  /\ d.sessions \in [Controllers -> Sessions] /\ d.count \in Int
           /\ d.active \in 0..ActiveMax /\ d.readers \in [Images -> Int]
           /\ d.queue \in Seq(Messages) /\ d.stray = {} /\ d.voice \in BOOLEAN
           /\ d = [sessions |-> d.sessions, count |-> d.count, active |-> d.active,
                   readers |-> d.readers, queue |-> d.queue, stray |-> d.stray,
                   voice |-> d.voice]
  BY Zenon DEF Updates

\* The fields of a session.
LEMMA SessionsFacts ==
    ASSUME NEW s \in Sessions
    PROVE  /\ s.image \in Images \cup {None} /\ s.file \in Images \cup {None, Failed}
           /\ s.downloading \in BOOLEAN /\ s.waiting \in BOOLEAN /\ s.initiated \in BOOLEAN
           /\ s.background \in BOOLEAN /\ s.tag \in {"none", "armed", "fired"}
           /\ s.param \in Images \cup {None}
  BY DEF Sessions

\* A session of du in another state.
LEMMA SessionPut ==
    ASSUME NEW d \in Updates, NEW c \in Controllers, NEW s \in Sessions
    PROVE  LET e == [d EXCEPT !.sessions[c] = s]
           IN  /\ e \in Updates /\ e.sessions = [d.sessions EXCEPT ![c] = s]
               /\ e.count = d.count /\ e.active = d.active /\ e.readers = d.readers
               /\ e.queue = d.queue /\ e.stray = d.stray /\ e.voice = d.voice
<1>. DEFINE e == [d EXCEPT !.sessions[c] = s]
<1>1. e = [sessions |-> [d.sessions EXCEPT ![c] = s], count |-> d.count, active |-> d.active,
           readers |-> d.readers, queue |-> d.queue, stray |-> d.stray, voice |-> d.voice]
  BY UpdatesFacts
<1>2. [d.sessions EXCEPT ![c] = s] \in [Controllers -> Sessions]
  BY UpdatesFacts
<1>. HIDE DEF e
<1>3. e \in Updates
  BY <1>1, <1>2, UpdatesFacts, Zenon DEF Updates
<1>4. /\ e \in Updates /\ e.sessions = [d.sessions EXCEPT ![c] = s]
      /\ e.count = d.count /\ e.active = d.active /\ e.readers = d.readers
      /\ e.queue = d.queue /\ e.stray = d.stray /\ e.voice = d.voice
  BY <1>1, <1>3
<1>. QED  BY <1>4 DEF e

\* du with another voice flag.
LEMMA VoicePut ==
    ASSUME NEW d \in Updates, NEW v \in BOOLEAN
    PROVE  LET e == [d EXCEPT !.voice = v]
           IN  /\ e \in Updates /\ e.sessions = d.sessions
               /\ e.count = d.count /\ e.active = d.active /\ e.readers = d.readers
               /\ e.queue = d.queue /\ e.stray = d.stray /\ e.voice = v
<1>. DEFINE e == [d EXCEPT !.voice = v]
<1>1. e = [sessions |-> d.sessions, count |-> d.count, active |-> d.active,
           readers |-> d.readers, queue |-> d.queue, stray |-> d.stray, voice |-> v]
  BY UpdatesFacts
<1>. HIDE DEF e
<1>2. e \in Updates
  BY <1>1, UpdatesFacts, Zenon DEF Updates
<1>3. /\ e \in Updates /\ e.sessions = d.sessions
      /\ e.count = d.count /\ e.active = d.active /\ e.readers = d.readers
      /\ e.queue = d.queue /\ e.stray = d.stray /\ e.voice = v
  BY <1>1, <1>2
<1>. QED  BY <1>3 DEF e

-----------------------------------------------------------------------------
(* The parts of the handlers.                                              *)

\* What a handler keeps of the session of c, and of all else but the active downloads.
Keeps(d, e, c) ==
    /\ e \in Updates
    /\ e.count = d.count /\ e.readers = d.readers /\ e.queue = d.queue
    /\ \A o \in Controllers \ {c} : e.sessions[o] = d.sessions[o]
    /\ e.sessions[c].image = d.sessions[c].image /\ e.sessions[c].file = d.sessions[c].file
    /\ e.sessions[c].param = d.sessions[c].param

\* A download that completes leaves its session as it is, and voice as the other downloads want it.
LEMMA DownloadCompleteFacts ==
    ASSUME NEW d \in Updates, NEW c \in Controllers, d.voice <=> Foreground(d),
           NEW e, e = DownloadComplete(d, c)
    PROVE  /\ Keeps(d, e, c) /\ e.active = d.active
           /\ e.sessions[c].waiting = d.sessions[c].waiting
           /\ e.sessions[c].tag = d.sessions[c].tag /\ ~e.sessions[c].downloading
           /\ e.voice <=> Foreground(e)
<1>. DEFINE s == d.sessions[c]
            others == {o \in Controllers \ {c} : d.sessions[o].downloading /\ ~d.sessions[o].background}
            s1 == [s EXCEPT !.downloading = FALSE]
            e1 == [d EXCEPT !.sessions[c] = s1]
            s2 == [s1 EXCEPT !.background = Background]
            e2 == [e1 EXCEPT !.sessions[c] = s2]
            e3 == [e2 EXCEPT !.voice = @ /\ others # {}]
<1>0. s \in Sessions
  BY UpdatesFacts
<1>1. /\ s1 \in Sessions /\ s1.image = s.image /\ s1.file = s.file /\ s1.param = s.param
      /\ s1.waiting = s.waiting /\ s1.tag = s.tag /\ ~s1.downloading
      /\ s1.background = s.background
  BY <1>0 DEF Sessions
<1>2. /\ s2 \in Sessions /\ s2.image = s.image /\ s2.file = s.file /\ s2.param = s.param
      /\ s2.waiting = s.waiting /\ s2.tag = s.tag /\ ~s2.downloading
  BY <1>0, PreferencesAssumption DEF Sessions
<1>3. /\ e1 \in Updates /\ e1.sessions = [d.sessions EXCEPT ![c] = s1]
      /\ e1.count = d.count /\ e1.active = d.active /\ e1.readers = d.readers
      /\ e1.queue = d.queue /\ e1.stray = d.stray /\ e1.voice = d.voice
  BY <1>1, SessionPut
<1>4. /\ e2 \in Updates /\ e2.sessions = [e1.sessions EXCEPT ![c] = s2]
      /\ e2.count = e1.count /\ e2.active = e1.active /\ e2.readers = e1.readers
      /\ e2.queue = e1.queue /\ e2.stray = e1.stray /\ e2.voice = e1.voice
  BY <1>2, <1>3, SessionPut
<1>5. DownloadComplete(d, c) = IF ~s.downloading THEN d ELSE IF s.background THEN e1 ELSE e3
  BY <1>0, <1>1, <1>2, UpdatesFacts DEF DownloadComplete
<1>. HIDE DEF s1, s2, e1, e2
<1>6. /\ e3 \in Updates /\ e3.sessions = e2.sessions
      /\ e3.count = e2.count /\ e3.active = e2.active /\ e3.readers = e2.readers
      /\ e3.queue = e2.queue /\ e3.voice = (e2.voice /\ others # {})
  <2>1. (e2.voice /\ others # {}) \in BOOLEAN
    OBVIOUS
  <2>2. e2 \in Updates
    BY <1>4
  <2>3. /\ e3 \in Updates /\ e3.sessions = e2.sessions
        /\ e3.count = e2.count /\ e3.active = e2.active /\ e3.readers = e2.readers
        /\ e3.queue = e2.queue /\ e3.voice = (e2.voice /\ others # {})
    BY ONLY <2>1, <2>2, VoicePut DEF e3
  <2>. QED  BY <2>3
<1>. HIDE DEF e3
<1>7. \A o \in Controllers \ {c} : /\ e1.sessions[o] = d.sessions[o]
                                   /\ e2.sessions[o] = d.sessions[o]
                                   /\ e3.sessions[o] = d.sessions[o]
  BY <1>3, <1>4, <1>6, UpdatesFacts
<1>8. e1.sessions[c] = s1 /\ e3.sessions[c] = s2
  BY <1>3, <1>4, <1>6, UpdatesFacts
<1>9. CASE ~s.downloading
  BY <1>5, <1>9 DEF Keeps, Foreground
<1>10. CASE s.downloading /\ s.background
  <2>1. Foreground(e1) <=> Foreground(d)
    BY <1>1, <1>7, <1>8, <1>10 DEF Foreground
  <2>. QED  BY <1>1, <1>3, <1>5, <1>7, <1>8, <1>10, <2>1 DEF Keeps
<1>11. CASE s.downloading /\ ~s.background
  <2>1. Foreground(d)
    BY <1>11 DEF Foreground
  <2>2. Foreground(e3) <=> others # {}
    BY <1>2, <1>7, <1>8 DEF Foreground
  <2>3. e3.voice <=> others # {}
    BY <1>3, <1>4, <1>6, <2>1
  <2>. HIDE DEF others
  <2>. QED  BY <1>2, <1>3, <1>4, <1>5, <1>6, <1>7, <1>8, <1>11, <2>2, <2>3 DEF Keeps
<1>. QED  BY <1>9, <1>10, <1>11

\* The timer of a session is put off.
LEMMA RearmFacts ==
    ASSUME NEW d \in Updates, NEW c \in Controllers, NEW e, e = Rearm(d, c)
    PROVE  /\ Keeps(d, e, c) /\ e.active = d.active /\ e.voice = d.voice
           /\ e.sessions[c].waiting = d.sessions[c].waiting
           /\ e.sessions[c].downloading = d.sessions[c].downloading
           /\ e.sessions[c].tag # "none" => d.sessions[c].tag # "none"
           /\ Foreground(e) <=> Foreground(d)
<1>. DEFINE s == d.sessions[c]
            s1 == [s EXCEPT !.tag = "armed"]
<1>1. s \in Sessions
  BY UpdatesFacts
<1>2. /\ s1 \in Sessions /\ s1.image = s.image /\ s1.file = s.file /\ s1.param = s.param
      /\ s1.waiting = s.waiting /\ s1.downloading = s.downloading
      /\ s1.background = s.background
  BY <1>1 DEF Sessions
<1>. HIDE DEF s1
<1>3. CASE s.tag = "none"
  BY <1>3 DEF Rearm, Keeps
<1>4. CASE s.tag # "none"
  <2>. DEFINE e1 == [d EXCEPT !.sessions[c] = s1]
  <2>1. e = e1
    BY <1>1, <1>4, UpdatesFacts DEF Rearm, s1
  <2>2. /\ e1 \in Updates /\ e1.sessions = [d.sessions EXCEPT ![c] = s1]
        /\ e1.count = d.count /\ e1.active = d.active /\ e1.readers = d.readers
        /\ e1.queue = d.queue /\ e1.stray = d.stray /\ e1.voice = d.voice
    BY <1>2, SessionPut
  <2>. HIDE DEF e1
  <2>3. e.sessions[c] = s1 /\ \A o \in Controllers \ {c} : e.sessions[o] = d.sessions[o]
    BY <2>1, <2>2, UpdatesFacts
  <2>4. Foreground(e) <=> Foreground(d)
    BY <1>2, <2>3 DEF Foreground
  <2>. QED  BY <1>2, <1>4, <2>1, <2>2, <2>3, <2>4 DEF Keeps
<1>. QED  BY <1>3, <1>4

\* du with another queue.
LEMMA QueuePut ==
    ASSUME NEW d \in Updates, NEW q \in Seq(Messages)
    PROVE  LET e == [d EXCEPT !.queue = q]
           IN  /\ e \in Updates /\ e.sessions = d.sessions
               /\ e.count = d.count /\ e.active = d.active /\ e.readers = d.readers
               /\ e.queue = q /\ e.stray = d.stray /\ e.voice = d.voice
<1>. DEFINE S == [Controllers -> Sessions]
            R == [Images -> Int]
            Q == Seq(Messages)
            A == 0..ActiveMax
            U == [sessions : S, count : Int, active : A, readers : R, queue : Q,
                  stray : {{}}, voice : BOOLEAN]
<1>1. U = Updates
  BY DEF Updates
<1>2. d \in U /\ q \in Q
  BY <1>1
<1>. HIDE DEF S, R, Q, A
<1>. QED  BY <1>1, <1>2

\* What the end of the session of c does.
Ends(d, e, c) ==
    LET i == d.sessions[c].image
    IN  /\ e \in Updates
        /\ e.count = d.count - 1 /\ e.readers = [d.readers EXCEPT ![i] = @ - 1]
        /\ e.active = IF d.sessions[c].waiting THEN d.active ELSE LessOne(d.active)
        /\ e.queue = Append(d.queue, [type |-> "unstage", ctl |-> c, image |-> i,
                                      count |-> e.count, readers |-> e.readers[i]])
        /\ \A o \in Controllers \ {c} : e.sessions[o] = d.sessions[o]
        /\ e.sessions[c].image = i /\ e.sessions[c].file = d.sessions[c].file
        /\ e.sessions[c].param = d.sessions[c].param
        /\ ~e.sessions[c].downloading /\ (e.voice <=> Foreground(e))

\* The end of a session, for the image it is for.
LEMMA EndSessionFacts ==
    ASSUME NEW d \in Updates, NEW c \in Controllers, d.voice <=> Foreground(d),
           NEW i \in Images, d.sessions[c].image = i
    PROVE  /\ Ends(d, EndSession(d, c, i), c)
           /\ EndSession(d, c, i).sessions[c].tag = d.sessions[c].tag
<1>. DEFINE e == DownloadComplete(d, c)
            a == IF d.sessions[c].waiting THEN e.active ELSE LessOne(e.active)
            f == [e EXCEPT !.active = IF d.sessions[c].waiting THEN @ ELSE LessOne(@),
                           !.count = @ - 1,
                           !.readers[i] = @ - 1]
            r == [e.readers EXCEPT ![i] = @ - 1]
            m == UnstageMsg(f, c, i)
            q == Append(f.queue, m)
            g == [f EXCEPT !.queue = Append(@, m)]
<1>1. /\ Keeps(d, e, c) /\ e.active = d.active
      /\ e.sessions[c].waiting = d.sessions[c].waiting
      /\ e.sessions[c].tag = d.sessions[c].tag /\ ~e.sessions[c].downloading
      /\ e.voice <=> Foreground(e)
  BY DownloadCompleteFacts
<1>2. EndSession(d, c, i) = g
  BY NoneFacts DEF EndSession
<1>. HIDE DEF e
<1>3. e \in Updates /\ e.count \in Int /\ e.active \in 0..ActiveMax /\ e.readers \in [Images -> Int]
      /\ e.queue \in Seq(Messages)
  BY <1>1, UpdatesFacts DEF Keeps
<1>4. a \in 0..ActiveMax /\ e.count - 1 \in Int /\ r \in [Images -> Int]
  BY <1>3, PreferencesAssumption DEF LessOne
<1>5. /\ f \in Updates /\ f.sessions = e.sessions /\ f.count = e.count - 1 /\ f.active = a
      /\ f.readers = r /\ f.queue = e.queue /\ f.voice = e.voice
  <2>. DEFINE n == e.count - 1
  <2>1. f = [e EXCEPT !.active = a, !.count = n, !.readers = r]
    BY <1>3, UpdatesFacts
  <2>3. a \in 0..ActiveMax /\ n \in Int /\ r \in [Images -> Int] /\ e \in Updates
    BY <1>3, <1>4
  <2>. HIDE DEF a, n, r, f
  <2>2. LET x == [e EXCEPT !.active = a, !.count = n, !.readers = r]
        IN  /\ x \in Updates /\ x.sessions = e.sessions /\ x.count = n /\ x.active = a
            /\ x.readers = r /\ x.queue = e.queue /\ x.voice = e.voice
    <3>. DEFINE S == [Controllers -> Sessions]
                R == [Images -> Int]
                Q == Seq(Messages)
                A == 0..ActiveMax
                U == [sessions : S, count : Int, active : A, readers : R, queue : Q,
                      stray : {{}}, voice : BOOLEAN]
    <3>1. U = Updates
      BY DEF Updates
    <3>2. e \in U /\ a \in A /\ r \in R
      BY <2>3, <3>1
    <3>. HIDE DEF S, R, Q, A
    <3>. QED  BY <2>3, <3>1, <3>2
  <2>. QED  BY <2>1, <2>2 DEF n
<1>. HIDE DEF f, a, r
<1>6. m = [type |-> "unstage", ctl |-> c, image |-> i, count |-> e.count - 1, readers |-> r[i]]
  BY <1>5 DEF UnstageMsg, StageMsg
<1>7. m \in Messages
  BY <1>4, <1>6 DEF Messages
<1>. HIDE DEF m
<1>8. q \in Seq(Messages) /\ q = Append(e.queue, m) /\ g = [f EXCEPT !.queue = q]
  BY <1>3, <1>5, <1>7
<1>. HIDE DEF q, g
<1>9. /\ g \in Updates /\ g.sessions = f.sessions /\ g.count = f.count /\ g.active = f.active
      /\ g.readers = f.readers /\ g.queue = q /\ g.voice = f.voice
  <2>1. LET x == [f EXCEPT !.queue = q]
        IN  /\ x \in Updates /\ x.sessions = f.sessions /\ x.count = f.count
            /\ x.active = f.active /\ x.readers = f.readers /\ x.queue = q /\ x.voice = f.voice
    BY <1>5, <1>8, QueuePut
  <2>. QED  BY <1>8, <2>1
<1>10. g.voice <=> Foreground(g)
  BY <1>1, <1>5, <1>9 DEF Foreground
<1>11. g.readers = [d.readers EXCEPT ![i] = @ - 1] /\ g.readers[i] = r[i]
  BY <1>1, <1>5, <1>9 DEF Keeps, r
<1>12. g.active = IF d.sessions[c].waiting THEN d.active ELSE LessOne(d.active)
  BY <1>1, <1>5, <1>9 DEF a
<1>13. g.queue = Append(d.queue, [type |-> "unstage", ctl |-> c, image |-> i,
                                  count |-> g.count, readers |-> g.readers[i]])
  BY <1>1, <1>5, <1>6, <1>8, <1>9, <1>11 DEF Keeps
<1>14. Ends(d, g, c) /\ g.sessions[c].tag = d.sessions[c].tag
  BY <1>1, <1>5, <1>9, <1>10, <1>11, <1>12, <1>13 DEF Ends, Keeps
<1>. QED  BY <1>2, <1>14

\* The end of a session by its timer, whose tag it clears.
LEMMA TimedOutFacts ==
    ASSUME NEW c \in Controllers, du \in Updates, du.voice <=> Foreground(du),
           NEW i \in Images, du.sessions[c].image = i, du.sessions[c].tag # "armed"
    PROVE  Ends(du, TimedOut(c, i), c) /\ TimedOut(c, i).sessions[c].tag = "none"
<1>. DEFINE d == EndSession(du, c, i)
            s == [d.sessions[c] EXCEPT !.tag = "none"]
            e == [d EXCEPT !.sessions[c] = s]
            g == TimedOut(c, i)
<1>1. Ends(du, d, c) /\ d.sessions[c].tag # "armed" /\ d \in Updates
  <2>1. Ends(du, d, c) /\ d.sessions[c].tag = du.sessions[c].tag
    BY EndSessionFacts
  <2>2. d \in Updates
    BY <2>1 DEF Ends
  <2>. QED  BY <2>1, <2>2
<1>2. g = e
  <2>1. g = [d EXCEPT !.sessions[c].tag = "none", !.stray = d.stray]
    BY <1>1, UpdatesFacts DEF TimedOut
  <2>. HIDE DEF d, g
  <2>2. [d EXCEPT !.sessions[c].tag = "none", !.stray = d.stray] = [d EXCEPT !.sessions[c] = s]
    BY <1>1, UpdatesFacts
  <2>. QED  BY <2>1, <2>2
<1>. HIDE DEF d, g
<1>3. d.sessions[c] \in Sessions
  BY <1>1, UpdatesFacts
<1>4. /\ s \in Sessions /\ s.image = d.sessions[c].image /\ s.file = d.sessions[c].file
      /\ s.param = d.sessions[c].param /\ s.downloading = d.sessions[c].downloading
      /\ s.background = d.sessions[c].background /\ s.tag = "none"
  BY <1>3 DEF Sessions
<1>. HIDE DEF s
<1>5. /\ e \in Updates /\ e.sessions = [d.sessions EXCEPT ![c] = s]
      /\ e.count = d.count /\ e.active = d.active /\ e.readers = d.readers
      /\ e.queue = d.queue /\ e.voice = d.voice
  BY <1>1, <1>4, SessionPut
<1>. HIDE DEF e
<1>6. e.sessions[c] = s /\ \A o \in Controllers \ {c} : e.sessions[o] = d.sessions[o]
  BY <1>1, <1>5, UpdatesFacts
<1>7. Foreground(e) <=> Foreground(d)
  BY <1>4, <1>6 DEF Foreground
<1>8. Ends(du, e, c) /\ e.sessions[c].tag = "none"
  BY <1>1, <1>4, <1>5, <1>6, <1>7 DEF Ends
<1>. QED  BY <1>2, <1>8 DEF g

\* What the begin of a session of c for image i does.
Begins(d, e, c, i) ==
    /\ e \in Updates
    /\ e.count = d.count + 1 /\ e.active = d.active + 1
    /\ e.readers = [d.readers EXCEPT ![i] = @ + 1]
    /\ e.queue = Append(d.queue, [type |-> "stage", ctl |-> c, image |-> i,
                                  count |-> e.count, readers |-> e.readers[i]])
    /\ \A o \in Controllers \ {c} : e.sessions[o] = d.sessions[o]
    /\ e.sessions[c].image = i /\ e.sessions[c].file = None /\ ~e.sessions[c].waiting
    /\ e.sessions[c].tag # "none" => e.sessions[c].param = i
    /\ e.voice <=> Foreground(e)

\* The begin of a session, for a controller that has none.
LEMMA StartedFacts ==
    ASSUME NEW c \in Controllers, du \in Updates, du.voice <=> Foreground(du),
           NEW i \in Images, ~Exists(c), ~Full(c), ~du.sessions[c].downloading,
           NEW manual \in BOOLEAN
    PROVE  Begins(du, Started(Acquired(c, i), c, i, manual), c, i)
<1>. DEFINE s == NewSession(i)
            n == du.count + 1
            a == du.active + 1
            r == [du.readers EXCEPT ![i] = @ + 1]
            d == [du EXCEPT !.count = n, !.active = a, !.readers = r, !.sessions[c] = s]
            timed == c \notin Resume
            background == s.background /\ ~manual
            t == [s EXCEPT !.tag = IF timed THEN "armed" ELSE @,
                           !.param = IF timed THEN i ELSE @,
                           !.background = background,
                           !.downloading = TRUE]
            m == StageMsg(d, c, i)
            q == Append(d.queue, m)
            v == d.voice \/ ~background
            e == [d EXCEPT !.queue = q, !.sessions[c] = t, !.voice = v]
            g == Started(Acquired(c, i), c, i, manual)
<1>1. du.count \in Int /\ du.active \in 0..ActiveMax /\ du.readers \in [Images -> Int]
      /\ du.queue \in Seq(Messages) /\ du.sessions \in [Controllers -> Sessions]
  BY UpdatesFacts
<1>2. /\ s \in Sessions /\ s.image = i /\ s.file = None /\ ~s.waiting /\ s.tag = "none"
      /\ s.background = Background
  BY NoneFacts, PreferencesAssumption DEF NewSession, Sessions
<1>3. n \in Int /\ a \in 0..ActiveMax /\ r \in [Images -> Int]
  BY <1>1, PreferencesAssumption DEF Full
<1>4. Acquired(c, i) = d
  BY <1>1, UpdatesFacts DEF Acquired
<1>5. /\ t \in Sessions /\ t.image = i /\ t.file = None /\ ~t.waiting /\ t.downloading
      /\ t.background = background
      /\ t.tag = IF timed THEN "armed" ELSE "none"
      /\ timed => t.param = i
  <2>1. background \in BOOLEAN
    OBVIOUS
  <2>. HIDE DEF background, s
  <2>. QED  BY <1>2, <2>1 DEF Sessions
<1>. HIDE DEF s, n, a, r, t
<1>6. /\ d \in Updates /\ d.sessions = [du.sessions EXCEPT ![c] = s] /\ d.count = n
      /\ d.active = a /\ d.readers = r /\ d.queue = du.queue /\ d.voice = du.voice
  <2>. DEFINE S == [Controllers -> Sessions]
              R == [Images -> Int]
              Q == Seq(Messages)
              A == 0..ActiveMax
              U == [sessions : S, count : Int, active : A, readers : R, queue : Q,
                    stray : {{}}, voice : BOOLEAN]
              ss == [du.sessions EXCEPT ![c] = s]
  <2>1. U = Updates
    BY DEF Updates
  <2>2. du \in U /\ a \in A /\ r \in R /\ ss \in S
    BY <1>1, <1>2, <1>3, <2>1
  <2>3. d = [du EXCEPT !.count = n, !.active = a, !.readers = r, !.sessions = ss]
    OBVIOUS
  <2>. HIDE DEF S, R, Q, A, ss, d
  <2>4. /\ d \in Updates /\ d.sessions = ss /\ d.count = n
        /\ d.active = a /\ d.readers = r /\ d.queue = du.queue /\ d.voice = du.voice
    BY <1>3, <2>1, <2>2, <2>3
  <2>. QED  BY <2>4 DEF ss
<1>7. d.sessions[c] = s /\ \A o \in Controllers \ {c} : d.sessions[o] = du.sessions[o]
  BY <1>1, <1>6
<1>8. m = [type |-> "stage", ctl |-> c, image |-> i, count |-> n, readers |-> r[i]]
  <2>. HIDE DEF d
  <2>. QED  BY <1>6 DEF StageMsg
<1>. HIDE DEF d
<1>9. m \in Messages
  BY <1>3, <1>8 DEF Messages
<1>10. q \in Seq(Messages) /\ v \in BOOLEAN /\ q = Append(du.queue, m)
  <2>1. q \in Seq(Messages) /\ q = Append(du.queue, m)
    BY <1>1, <1>6, <1>9
  <2>2. v \in BOOLEAN
    BY <1>6
  <2>. QED  BY <2>1, <2>2
<1>11. g = e
  <2>1. g = [d EXCEPT !.queue = q, !.sessions[c] = t, !.stray = d.stray, !.voice = v]
    BY <1>2, <1>4, <1>6, <1>7 DEF Started, t
  <2>2. d.stray = {}
    BY <1>6, UpdatesFacts
  <2>. HIDE DEF q, v, g
  <2>3. [d EXCEPT !.queue = q, !.sessions[c] = t, !.stray = d.stray, !.voice = v] = e
    BY <1>6 DEF Updates
  <2>. QED  BY <2>1, <2>3
<1>. HIDE DEF g, q, m
<1>12. /\ e \in Updates /\ e.sessions = [d.sessions EXCEPT ![c] = t] /\ e.count = n
       /\ e.active = a /\ e.readers = r /\ e.queue = q /\ e.voice = v
  <2>. DEFINE S == [Controllers -> Sessions]
              R == [Images -> Int]
              Q == Seq(Messages)
              A == 0..ActiveMax
              U == [sessions : S, count : Int, active : A, readers : R, queue : Q,
                    stray : {{}}, voice : BOOLEAN]
              ss == [d.sessions EXCEPT ![c] = t]
  <2>1. U = Updates
    BY DEF Updates
  <2>2. d \in U /\ q \in Q /\ ss \in S
    BY <1>1, <1>5, <1>6, <1>10, <2>1, UpdatesFacts
  <2>3. e = [d EXCEPT !.queue = q, !.sessions = ss, !.voice = v]
    OBVIOUS
  <2>. HIDE DEF S, R, Q, A, ss, e, v
  <2>4. /\ e \in Updates /\ e.sessions = ss /\ e.count = d.count
        /\ e.active = d.active /\ e.readers = d.readers /\ e.queue = q /\ e.voice = v
    BY <1>10, <2>1, <2>2, <2>3
  <2>. QED  BY <1>6, <2>4 DEF ss
<1>. HIDE DEF e
<1>13. e.sessions[c] = t /\ \A o \in Controllers \ {c} : e.sessions[o] = du.sessions[o]
  BY <1>6, <1>7, <1>12, UpdatesFacts
<1>14. e.voice <=> Foreground(e)
  <2>1. Foreground(e) <=> (Foreground(du) \/ ~background)
    <3>. HIDE DEF background
    <3>. QED  BY <1>5, <1>13 DEF Foreground
  <2>2. e.voice <=> (du.voice \/ ~background)
    BY <1>6, <1>12
  <2>. QED  BY <2>1, <2>2
<1>15. Begins(du, e, c, i)
  BY <1>5, <1>8, <1>10, <1>12, <1>13, <1>14 DEF Begins, n, a, r
<1>. QED  BY <1>11, <1>15 DEF g

\* What a request of c does to its session: the last of the image has been read, or not.
Touches(d, e, c, last) ==
    /\ Keeps(d, e, c)
    /\ e.active = IF last THEN LessOne(d.active) ELSE d.active
    /\ e.sessions[c].waiting = (d.sessions[c].waiting \/ last)
    /\ e.sessions[c].downloading => d.sessions[c].downloading
    /\ e.sessions[c].tag # "none" => d.sessions[c].tag # "none"
    /\ e.voice <=> Foreground(e)

\* A request for data.
LEMMA DataRequestFacts ==
    ASSUME NEW c \in Controllers, NEW last \in BOOLEAN,
           du \in Updates, du.voice <=> Foreground(du), DataRequest(c, last)
    PROVE  Touches(du, du', c, last)
<1>. DEFINE d == Rearm(du, c)
            s == [d.sessions[c] EXCEPT !.waiting = TRUE]
            a == LessOne(d.active)
            e == [d EXCEPT !.sessions[c].waiting = TRUE, !.active = LessOne(@)]
<1>1. /\ Keeps(du, d, c) /\ d.active = du.active /\ d.voice = du.voice
      /\ d.sessions[c].waiting = du.sessions[c].waiting
      /\ d.sessions[c].downloading = du.sessions[c].downloading
      /\ d.sessions[c].tag # "none" => du.sessions[c].tag # "none"
      /\ Foreground(d) <=> Foreground(du)
  BY RearmFacts
<1>2. du' = IF last THEN e ELSE d
  BY DEF DataRequest
<1>. HIDE DEF d
<1>3. d \in Updates /\ d.sessions[c] \in Sessions /\ d.sessions[c].waiting \in BOOLEAN
      /\ d.active \in 0..ActiveMax
  BY <1>1, UpdatesFacts, SessionsFacts DEF Keeps
<1>4. /\ s \in Sessions /\ s.image = d.sessions[c].image /\ s.file = d.sessions[c].file
      /\ s.param = d.sessions[c].param /\ s.downloading = d.sessions[c].downloading
      /\ s.background = d.sessions[c].background /\ s.tag = d.sessions[c].tag /\ s.waiting
  BY <1>3 DEF Sessions
<1>5. a \in 0..ActiveMax
  BY <1>3, PreferencesAssumption DEF LessOne
<1>6. e = [d EXCEPT !.sessions[c] = s, !.active = a]
  BY <1>3, UpdatesFacts
<1>. HIDE DEF s, a, e
<1>7. /\ e \in Updates /\ e.sessions = [d.sessions EXCEPT ![c] = s] /\ e.count = d.count
      /\ e.active = a /\ e.readers = d.readers /\ e.queue = d.queue /\ e.voice = d.voice
  <2>. DEFINE S == [Controllers -> Sessions]
              R == [Images -> Int]
              Q == Seq(Messages)
              A == 0..ActiveMax
              U == [sessions : S, count : Int, active : A, readers : R, queue : Q,
                    stray : {{}}, voice : BOOLEAN]
              ss == [d.sessions EXCEPT ![c] = s]
  <2>1. U = Updates
    BY DEF Updates
  <2>2. d \in U /\ a \in A /\ ss \in S
    BY <1>3, <1>4, <1>5, <2>1, UpdatesFacts
  <2>3. e = [d EXCEPT !.sessions = ss, !.active = a]
    BY <1>6
  <2>. HIDE DEF S, R, Q, A, ss
  <2>4. /\ e \in Updates /\ e.sessions = ss /\ e.count = d.count
        /\ e.active = a /\ e.readers = d.readers /\ e.queue = d.queue /\ e.voice = d.voice
    BY <2>1, <2>2, <2>3
  <2>. QED  BY <2>4 DEF ss
<1>8. e.sessions[c] = s /\ \A o \in Controllers \ {c} : e.sessions[o] = d.sessions[o]
  BY <1>3, <1>7, UpdatesFacts
<1>9. Foreground(e) <=> Foreground(d)
  BY <1>4, <1>8 DEF Foreground
<1>10. CASE last
  BY <1>1, <1>2, <1>4, <1>7, <1>8, <1>9, <1>10 DEF Touches, Keeps, a
<1>11. CASE ~last
  BY <1>1, <1>2, <1>3, <1>11 DEF Touches
<1>. QED  BY <1>10, <1>11

\* A request for the time of the load.
LEMMA LoadRequestFacts ==
    ASSUME NEW c \in Controllers, du \in Updates, du.voice <=> Foreground(du), LoadRequest(c)
    PROVE  Touches(du, du', c, FALSE)
<1>. DEFINE d == DownloadComplete(du, c)
<1>1. /\ Keeps(du, d, c) /\ d.active = du.active
      /\ d.sessions[c].waiting = du.sessions[c].waiting
      /\ d.sessions[c].tag = du.sessions[c].tag /\ ~d.sessions[c].downloading
      /\ d.voice <=> Foreground(d)
  BY DownloadCompleteFacts
<1>2. du' = Rearm(d, c)
  BY DEF LoadRequest
<1>. HIDE DEF d
<1>3. d \in Updates
  BY <1>1 DEF Keeps
<1>4. /\ Keeps(d, du', c) /\ du'.active = d.active /\ du'.voice = d.voice
      /\ du'.sessions[c].waiting = d.sessions[c].waiting
      /\ du'.sessions[c].downloading = d.sessions[c].downloading
      /\ du'.sessions[c].tag # "none" => d.sessions[c].tag # "none"
      /\ Foreground(du') <=> Foreground(d)
  BY <1>2, <1>3, RearmFacts
<1>5. du.sessions[c].waiting \in BOOLEAN
  BY UpdatesFacts, SessionsFacts
<1>. QED  BY <1>1, <1>4, <1>5 DEF Touches, Keeps

-----------------------------------------------------------------------------
(* The counts that the messages carry.                                     *)

\* The fields of a message.
LEMMA MessagesFacts ==
    ASSUME NEW m \in Messages
    PROVE  /\ m.type \in {"stage", "unstage"} /\ m.ctl \in Controllers /\ m.image \in Images
           /\ m.count \in Int /\ m.readers \in Int
  BY DEF Messages

\* A message is sent: the counts it carries are the last of the trace.
LEMMA TraceSent ==
    ASSUME NEW q \in Seq(Messages), NEW ext, NEW rd \in [Images -> Int], NEW m \in Messages,
           NEW h, Traces(h, q, ext, rd),
           NEW rd2 \in [Images -> Nat], rd2 = Counts(m, rd), m.image \notin Announced,
           m.readers = rd2[m.image], m.count = 0 => \A i \in Images : rd2[i] = 0
    PROVE  \E g : Traces(g, Append(q, m), ext, rd2)
<1>. DEFINE n == Len(q)
            p == Append(q, m)
            g == [k \in 0..(n + 1) |-> IF k = n + 1 THEN rd2 ELSE h[k]]
<1>1. n \in Nat /\ Len(p) = n + 1 /\ p[n + 1] = m /\ \A k \in 1..n : p[k] = q[k]
  OBVIOUS
<1>2. /\ h \in [0..n -> [Images -> Nat]] /\ (\A i \in Images : i \in ext <=> h[0][i] > 0)
      /\ h[n] = rd
      /\ \A k \in 1..n : /\ h[k] = Counts(q[k], h[k - 1])
                         /\ q[k].readers = h[k][q[k].image]
                         /\ q[k].count = 0 => \A i \in Images : h[k][i] = 0
      /\ \A k \in 0..n, i \in Images \cap Announced : h[k][i] = 0
  BY DEF Traces
<1>. HIDE DEF n, p
<1>3. g \in [0..(n + 1) -> [Images -> Nat]]
  BY <1>1, <1>2
<1>4. g[n + 1] = rd2 /\ \A k \in 0..n : g[k] = h[k]
  BY <1>1
<1>. HIDE DEF g
<1>5. \A i \in Images : i \in ext <=> g[0][i] > 0
  BY <1>1, <1>2, <1>4
<1>6. \A k \in 1..(n + 1) : /\ g[k] = Counts(p[k], g[k - 1])
                            /\ p[k].readers = g[k][p[k].image]
                            /\ p[k].count = 0 => \A i \in Images : g[k][i] = 0
  <2>. SUFFICES ASSUME NEW k \in 1..(n + 1)
                PROVE  /\ g[k] = Counts(p[k], g[k - 1])
                       /\ p[k].readers = g[k][p[k].image]
                       /\ p[k].count = 0 => \A i \in Images : g[k][i] = 0
    OBVIOUS
  <2>1. CASE k = n + 1
    <3>1. g[k - 1] = rd /\ p[k] = m /\ g[k] = rd2
      BY <1>1, <1>2, <1>4, <2>1
    <3>. QED  BY <3>1
  <2>2. CASE k # n + 1
    <3>1. k \in 1..n /\ k - 1 \in 0..n /\ k \in 0..n
      BY <1>1, <2>2
    <3>2. p[k] = q[k] /\ g[k] = h[k] /\ g[k - 1] = h[k - 1]
      BY <1>1, <1>4, <3>1
    <3>. QED  BY <1>2, <3>1, <3>2
  <2>. QED  BY <2>1, <2>2
<1>7. \A k \in 0..(n + 1), i \in Images \cap Announced : g[k][i] = 0
  <2>1. \A i \in Images \cap Announced : rd2[i] = 0
    <3>1. \A i \in Images \cap Announced : rd[i] = 0
      BY <1>1, <1>2
    <3>2. \A i \in Images \cap Announced : Counts(m, rd)[i] = rd[i]
      BY MessagesFacts DEF Counts
    <3>. QED  BY <3>1, <3>2
  <2>. QED  BY <1>1, <1>2, <1>4, <2>1
<1>8. Traces(g, p, ext, rd2)
  BY <1>1, <1>3, <1>4, <1>5, <1>6, <1>7 DEF Traces
<1>. QED  BY <1>8 DEF p

\* The thread takes a message: the trace goes on from the counts after it.
LEMMA TraceTaken ==
    ASSUME NEW q \in Seq(Messages), q # <<>>, NEW ext, NEW rd \in [Images -> Int],
           NEW h, Traces(h, q, ext, rd), NEW ext2, \A i \in Images : i \in ext2 <=> h[1][i] > 0
    PROVE  Traces([k \in 0..(Len(q) - 1) |-> h[k + 1]], Tail(q), ext2, rd)
<1>. DEFINE n == Len(q) - 1
            p == Tail(q)
            g == [k \in 0..n |-> h[k + 1]]
<1>1. n \in Nat /\ Len(q) = n + 1 /\ Len(p) = n /\ \A k \in 1..n : p[k] = q[k + 1]
  OBVIOUS
<1>2. /\ h \in [0..(n + 1) -> [Images -> Nat]] /\ h[n + 1] = rd
      /\ \A k \in 1..(n + 1) : /\ h[k] = Counts(q[k], h[k - 1])
                               /\ q[k].readers = h[k][q[k].image]
                               /\ q[k].count = 0 => \A i \in Images : h[k][i] = 0
      /\ \A k \in 0..(n + 1), i \in Images \cap Announced : h[k][i] = 0
  BY <1>1 DEF Traces
<1>. HIDE DEF n, p
<1>3. g \in [0..n -> [Images -> Nat]] /\ \A k \in 0..n : g[k] = h[k + 1]
  BY <1>1, <1>2
<1>. HIDE DEF g
<1>4. g[n] = rd /\ \A i \in Images : i \in ext2 <=> g[0][i] > 0
  BY <1>1, <1>2, <1>3
<1>5. \A k \in 1..n : /\ g[k] = Counts(p[k], g[k - 1])
                      /\ p[k].readers = g[k][p[k].image]
                      /\ p[k].count = 0 => \A i \in Images : g[k][i] = 0
  <2>. SUFFICES ASSUME NEW k \in 1..n
                PROVE  /\ g[k] = Counts(p[k], g[k - 1])
                       /\ p[k].readers = g[k][p[k].image]
                       /\ p[k].count = 0 => \A i \in Images : g[k][i] = 0
    OBVIOUS
  <2>1. k + 1 \in 1..(n + 1) /\ k \in 0..n /\ k - 1 \in 0..n /\ (k - 1) + 1 = k /\ (k + 1) - 1 = k
    BY <1>1
  <2>2. p[k] = q[k + 1] /\ g[k] = h[k + 1] /\ g[k - 1] = h[k]
    BY <1>1, <1>3, <2>1
  <2>3. /\ h[k + 1] = Counts(q[k + 1], h[(k + 1) - 1])
        /\ q[k + 1].readers = h[k + 1][q[k + 1].image]
        /\ q[k + 1].count = 0 => \A i \in Images : h[k + 1][i] = 0
    BY <1>2, <2>1
  <2>. QED  BY <2>1, <2>2, <2>3
<1>6. \A k \in 0..n, i \in Images \cap Announced : g[k][i] = 0
  BY <1>1, <1>2, <1>3
<1>7. Traces(g, p, ext2, rd)
  BY <1>1, <1>3, <1>4, <1>5, <1>6 DEF Traces
<1>. QED  BY <1>7 DEF g, p, n

\* What is extracted once the thread has handled a message is what has readers after it.
LEMMA TraceExtracts ==
    ASSUME NEW q \in Seq(Messages), q # <<>>, NEW ext, NEW rd \in [Images -> Int],
           NEW h, Traces(h, q, ext, rd), Head(q).type = "stage"
    PROVE  LET m == Head(q)
               ext2 == ext \cup (IF m.readers = 1 THEN {m.image} ELSE {})
           IN  m.image \in ext2 /\ \A i \in Images : i \in ext2 <=> h[1][i] > 0
<1>. DEFINE m == Head(q)
            ext2 == ext \cup (IF m.readers = 1 THEN {m.image} ELSE {})
<1>1. m = q[1] /\ 1 \in 1..Len(q) /\ 0 \in 0..Len(q) /\ 1 \in 0..Len(q) /\ m \in Messages
  OBVIOUS
<1>2. /\ h[0] \in [Images -> Nat] /\ h[1] \in [Images -> Nat]
      /\ \A i \in Images : i \in ext <=> h[0][i] > 0
      /\ h[1] = [h[0] EXCEPT ![m.image] = @ + 1] /\ m.readers = h[1][m.image]
  <2>1. h[1] = Counts(q[1], h[1 - 1]) /\ q[1].readers = h[1][q[1].image]
        /\ (q[1].count = 0 => \A i \in Images : h[1][i] = 0)
    BY <1>1 DEF Traces
  <2>2. 1 - 1 = 0
    OBVIOUS
  <2>3. h[1] = Counts(m, h[0])
    BY <1>1, <2>1, <2>2
  <2>. QED  BY <1>1, <2>1, <2>3 DEF Traces, Counts
<1>3. m.image \in Images
  BY <1>1, MessagesFacts
<1>. HIDE DEF m
<1>4. h[1][m.image] = h[0][m.image] + 1 /\ \A i \in Images \ {m.image} : h[1][i] = h[0][i]
  BY <1>2, <1>3
<1>5. \A i \in Images : h[0][i] \in Nat
  BY <1>2
<1>6. m.image \in ext2 /\ \A i \in Images : i \in ext2 <=> h[1][i] > 0
  BY <1>2, <1>3, <1>4, <1>5
<1>. QED  BY <1>6 DEF m

\* So it is once the thread has deleted a session.
LEMMA TraceRemoves ==
    ASSUME NEW q \in Seq(Messages), q # <<>>, NEW rd \in [Images -> Int],
           NEW h, Traces(h, q, extracted, rd), Head(q).type = "unstage"
    PROVE  \A i \in Images : i \in Left(Head(q)) <=> h[1][i] > 0
<1>. DEFINE m == Head(q)
<1>1. m = q[1] /\ 1 \in 1..Len(q) /\ 0 \in 0..Len(q) /\ 1 \in 0..Len(q) /\ m \in Messages
  OBVIOUS
<1>2. /\ h[0] \in [Images -> Nat] /\ h[1] \in [Images -> Nat]
      /\ \A i \in Images : i \in extracted <=> h[0][i] > 0
      /\ h[1] = [h[0] EXCEPT ![m.image] = @ - 1] /\ m.readers = h[1][m.image]
      /\ m.count = 0 => \A i \in Images : h[1][i] = 0
  <2>1. h[1] = Counts(q[1], h[1 - 1]) /\ q[1].readers = h[1][q[1].image]
        /\ (q[1].count = 0 => \A i \in Images : h[1][i] = 0)
    BY <1>1 DEF Traces
  <2>2. 1 - 1 = 0
    OBVIOUS
  <2>3. h[1] = Counts(m, h[0])
    BY <1>1, <2>1, <2>2
  <2>. QED  BY <1>1, <2>1, <2>3 DEF Traces, Counts
<1>3. m.image \in Images
  BY <1>1, MessagesFacts
<1>. HIDE DEF m
<1>4. h[1][m.image] = h[0][m.image] - 1 /\ \A i \in Images \ {m.image} : h[1][i] = h[0][i]
  BY <1>2, <1>3
<1>5. \A i \in Images : h[0][i] \in Nat /\ h[1][i] \in Nat
  BY <1>2
<1>6. \A i \in Images : i \in Left(m) <=> h[1][i] > 0
  BY <1>2, <1>3, <1>4, <1>5 DEF Left
<1>. QED  BY <1>6 DEF m

-----------------------------------------------------------------------------
(* Sessions and their messages.                                            *)

\* The messages in the queue.
LEMMA QueueFacts ==
    ASSUME NEW d \in Updates
    PROVE  /\ Len(d.queue) \in Nat /\ DOMAIN d.queue = 1..Len(d.queue)
           /\ \A k \in 1..Len(d.queue) : /\ d.queue[k] \in Messages
                                         /\ d.queue[k].type \in {"stage", "unstage"}
                                         /\ d.queue[k].ctl \in Controllers
                                         /\ d.queue[k].image \in Images
<1>1. d.queue \in Seq(Messages)
  BY UpdatesFacts
<1>2. Len(d.queue) \in Nat /\ DOMAIN d.queue = 1..Len(d.queue)
      /\ \A k \in 1..Len(d.queue) : d.queue[k] \in Messages
  BY <1>1
<1>. QED  BY <1>2, MessagesFacts

\* A message is queued behind the others.
LEMMA MessageQueued ==
    ASSUME NEW d \in Updates, NEW e \in Updates, NEW m \in Messages,
           e.queue = Append(d.queue, m)
    PROVE  /\ Len(e.queue) = Len(d.queue) + 1 /\ e.queue[Len(d.queue) + 1] = m
           /\ \A k \in 1..Len(d.queue) : k \in 1..Len(e.queue) /\ e.queue[k] = d.queue[k]
           /\ \A k \in 1..Len(e.queue) : k = Len(d.queue) + 1 \/ k \in 1..Len(d.queue)
           /\ \A c \in Controllers : Gone(e, c) <=> Gone(d, c) \/ (m.type = "unstage" /\ m.ctl = c)
<1>1. d.queue \in Seq(Messages) /\ Len(d.queue) \in Nat
  BY UpdatesFacts, QueueFacts
<1>2. /\ Len(e.queue) = Len(d.queue) + 1 /\ e.queue[Len(d.queue) + 1] = m
      /\ \A k \in 1..Len(d.queue) : k \in 1..Len(e.queue) /\ e.queue[k] = d.queue[k]
      /\ \A k \in 1..Len(e.queue) : k = Len(d.queue) + 1 \/ k \in 1..Len(d.queue)
  BY <1>1
<1>3. Len(d.queue) + 1 \in 1..Len(e.queue)
  BY <1>1, <1>2
<1>. QED  BY <1>2, <1>3 DEF Gone

\* The sets of sessions are finite, and their counts natural.
LEMMA FiniteSessions ==
    ASSUME IsFiniteSet(Controllers), NEW d
    PROVE  /\ IsFiniteSet(All(d)) /\ IsFiniteSet(Busy(d)) /\ \A i : IsFiniteSet(On(d, i))
           /\ Cardinality(All(d)) \in Nat /\ Cardinality(Busy(d)) \in Nat
           /\ \A i : Cardinality(On(d, i)) \in Nat
<1>1. /\ All(d) \in SUBSET Controllers /\ Busy(d) \in SUBSET Controllers
      /\ \A i : On(d, i) \in SUBSET Controllers
  BY DEF All, Busy, On
<1>2. \A S \in SUBSET Controllers : IsFiniteSet(S)
  BY FS_Subset
<1>3. IsFiniteSet(All(d)) /\ IsFiniteSet(Busy(d)) /\ \A i : IsFiniteSet(On(d, i))
  BY <1>1, <1>2
<1>. QED  BY <1>3, FS_CardinalityType

\* The trace of a message that carries the new counts.
LEMMA TraceCounted ==
    ASSUME UpdateAssumption, NEW d \in Updates, NEW e \in Updates, NEW ext, NEW m \in Messages,
           Traced(d, ext), Counted(e), e.queue = Append(d.queue, m), m.image \notin Announced,
           e.readers = Counts(m, d.readers), m.count = e.count, m.readers = e.readers[m.image]
    PROVE  Traced(e, ext)
<1>1. PICK h : Traces(h, d.queue, ext, d.readers)
  BY DEF Traced
<1>2. e.readers \in [Images -> Int] /\ d.readers \in [Images -> Int] /\ d.queue \in Seq(Messages)
  BY UpdatesFacts
<1>3. \A i \in Images : e.readers[i] = Cardinality(On(e, i)) /\ e.readers[i] \in Nat
  BY FiniteSessions DEF Counted, UpdateAssumption
<1>4. e.readers \in [Images -> Nat]
  BY <1>2, <1>3
<1>5. ASSUME m.count = 0, NEW i \in Images PROVE e.readers[i] = 0
  <2>1. Cardinality(All(e)) = 0 /\ IsFiniteSet(All(e))
    BY <1>5, FiniteSessions DEF Counted, UpdateAssumption
  <2>2. All(e) = {}
    BY <2>1, FS_EmptySet
  <2>3. On(e, i) = {}
    BY <2>2 DEF All, On
  <2>. QED  BY <1>3, <2>3, FS_EmptySet
<1>6. \E g : Traces(g, Append(d.queue, m), ext, e.readers)
  BY <1>1, <1>2, <1>4, <1>5, TraceSent
<1>. QED  BY <1>6 DEF Traced

\* A session ends.
LEMMA EndsSound ==
    ASSUME UpdateAssumption, NEW ext, NEW d, Sound(d, ext), NEW c \in Controllers, Alive(d, c),
           d.sessions[c].image \in Wants[c], NEW e, Ends(d, e, c),
           e.sessions[c].tag # "none" => d.sessions[c].tag # "none"
    PROVE  /\ Sound(e, ext)
           /\ \A o \in Controllers : Alive(e, o) <=> Alive(d, o) /\ o # c
<1>. DEFINE i == d.sessions[c].image
            m == [type |-> "unstage", ctl |-> c, image |-> i, count |-> e.count,
                  readers |-> e.readers[i]]
            n == Len(d.queue)
<1>1. /\ d \in Updates /\ e \in Updates /\ Ordered(d) /\ Filed(d) /\ Counted(d) /\ Traced(d, ext)
  BY DEF Sound, Ends
<1>2. /\ e.count = d.count - 1 /\ e.readers = [d.readers EXCEPT ![i] = @ - 1]
      /\ e.active = IF d.sessions[c].waiting THEN d.active ELSE LessOne(d.active)
      /\ e.queue = Append(d.queue, m)
      /\ \A o \in Controllers \ {c} : e.sessions[o] = d.sessions[o]
      /\ e.sessions[c].image = i /\ e.sessions[c].file = d.sessions[c].file
      /\ e.sessions[c].param = d.sessions[c].param
      /\ ~e.sessions[c].downloading /\ (e.voice <=> Foreground(e))
  BY DEF Ends
<1>3. i \in Images /\ i \notin Announced /\ i # None
  BY ControllersAssumption, NoneFacts DEF UpdateAssumption
<1>4. m \in Messages
  <2>1. e.count \in Int /\ e.readers[i] \in Int
    BY <1>1, <1>3, UpdatesFacts
  <2>. QED  BY <1>3, <2>1 DEF Messages
<1>5. m.type = "unstage" /\ m.ctl = c /\ m.image = i /\ m.count = e.count /\ m.readers = e.readers[i]
  OBVIOUS
<1>. HIDE DEF m
<1>6. /\ Len(e.queue) = n + 1 /\ e.queue[n + 1] = m /\ n \in Nat
      /\ \A k \in 1..n : k \in 1..Len(e.queue) /\ e.queue[k] = d.queue[k]
      /\ \A k \in 1..Len(e.queue) : k = n + 1 \/ k \in 1..n
      /\ \A o \in Controllers : Gone(e, o) <=> Gone(d, o) \/ o = c
  BY <1>1, <1>2, <1>4, <1>5, MessageQueued, QueueFacts
<1>. HIDE DEF n, i
<1>7. \A o \in Controllers : e.sessions[o].image = d.sessions[o].image
  BY <1>2 DEF i
<1>8. \A o \in Controllers : Alive(e, o) <=> Alive(d, o) /\ o # c
  BY <1>6, <1>7 DEF Alive
<1>9. Ordered(e)
  <2>1. ASSUME NEW k \in 1..Len(e.queue)
        PROVE  e.queue[k].image = e.sessions[e.queue[k].ctl].image
    <3>1. CASE k = n + 1
      BY <1>5, <1>6, <1>7, <3>1 DEF i
    <3>2. CASE k \in 1..n
      <4>1. e.queue[k] = d.queue[k] /\ d.queue[k].ctl \in Controllers
            /\ d.queue[k].image = d.sessions[d.queue[k].ctl].image
        BY <1>1, <1>6, <3>2, QueueFacts DEF Ordered, n
      <4>. QED  BY <4>1, <1>7
    <3>. QED  BY <1>6, <3>1, <3>2
  <2>2. ASSUME NEW j \in 1..Len(e.queue), NEW k \in 1..Len(e.queue), j < k,
               e.queue[j].ctl = e.queue[k].ctl
        PROVE  e.queue[j].type = "stage" /\ e.queue[k].type = "unstage"
    <3>1. j \in 1..n
      BY <1>6, <2>2
    <3>2. e.queue[j] = d.queue[j] /\ d.queue[j].type \in {"stage", "unstage"}
      BY <1>1, <1>6, <3>1, QueueFacts DEF n
    <3>3. CASE k = n + 1
      <4>1. d.queue[j].ctl = c
        BY <1>5, <1>6, <2>2, <3>2, <3>3
      <4>2. d.queue[j].type # "unstage"
        BY <4>1, <3>1 DEF Alive, Gone, n
      <4>. QED  BY <1>5, <1>6, <3>2, <3>3, <4>2
    <3>4. CASE k \in 1..n
      BY <1>1, <1>6, <2>2, <3>1, <3>4 DEF Ordered, n
    <3>. QED  BY <1>6, <3>3, <3>4
  <2>. QED  BY <2>1, <2>2 DEF Ordered
<1>10. Filed(e)
  <2>. SUFFICES ASSUME NEW o \in Controllers
                PROVE  /\ e.sessions[o].file \in {None, e.sessions[o].image}
                       /\ e.sessions[o].image # None /\ e.sessions[o].file = None
                             => \E k \in 1..Len(e.queue) :
                                   e.queue[k].type = "stage" /\ e.queue[k].ctl = o
                       /\ e.sessions[o].downloading => Alive(e, o)
                       /\ e.sessions[o].tag # "none" => e.sessions[o].param = e.sessions[o].image
    BY DEF Filed
  <2>1. /\ d.sessions[o].file \in {None, d.sessions[o].image}
        /\ d.sessions[o].image # None /\ d.sessions[o].file = None
              => \E k \in 1..n : d.queue[k].type = "stage" /\ d.queue[k].ctl = o
        /\ d.sessions[o].downloading => Alive(d, o)
        /\ d.sessions[o].tag # "none" => d.sessions[o].param = d.sessions[o].image
    BY <1>1 DEF Filed, n
  <2>2. (\E k \in 1..n : d.queue[k].type = "stage" /\ d.queue[k].ctl = o)
           => \E k \in 1..Len(e.queue) : e.queue[k].type = "stage" /\ e.queue[k].ctl = o
    BY <1>6
  <2>3. CASE o = c
    BY <1>2, <2>1, <2>2, <2>3 DEF i
  <2>4. CASE o # c
    BY <1>2, <1>8, <2>1, <2>2, <2>4
  <2>. QED  BY <2>3, <2>4
<1>11. Counted(e)
  <2>1. All(e) = All(d) \ {c} /\ c \in All(d)
    BY <1>8 DEF All
  <2>2. On(e, i) = On(d, i) \ {c} /\ c \in On(d, i)
    BY <1>7, <1>8 DEF On, i
  <2>3. \A x \in Images \ {i} : On(e, x) = On(d, x)
    BY <1>7, <1>8 DEF On, i
  <2>4. d.sessions[c].waiting => Busy(e) = Busy(d)
    BY <1>2, <1>8 DEF Busy
  <2>5. ~d.sessions[c].waiting => Busy(e) = Busy(d) \ {c} /\ c \in Busy(d)
    BY <1>2, <1>8 DEF Busy
  <2>6. /\ IsFiniteSet(All(d)) /\ IsFiniteSet(Busy(d)) /\ IsFiniteSet(On(d, i))
        /\ Cardinality(Busy(e)) \in Nat
    BY FiniteSessions DEF UpdateAssumption
  <2>7. d.readers \in [Images -> Int] /\ d.active \in 0..ActiveMax
    BY <1>1, UpdatesFacts
  <2>8. e.count = Cardinality(All(e))
    <3>1. Cardinality(All(d) \ {c}) = Cardinality(All(d)) - 1
      BY <2>1, <2>6, FS_RemoveElement
    <3>2. d.count = Cardinality(All(d))
      BY <1>1 DEF Counted
    <3>. QED  BY <1>2, <2>1, <3>1, <3>2
  <2>9. e.readers[i] = Cardinality(On(e, i))
    <3>1. Cardinality(On(d, i) \ {c}) = Cardinality(On(d, i)) - 1
      BY <2>2, <2>6, FS_RemoveElement
    <3>2. d.readers[i] = Cardinality(On(d, i))
      BY <1>1, <1>3 DEF Counted
    <3>3. e.readers[i] = d.readers[i] - 1
      BY <1>2, <1>3, <2>7
    <3>. QED  BY <2>2, <3>1, <3>2, <3>3
  <2>10. \A x \in Images \ {i} : e.readers[x] = Cardinality(On(e, x))
    BY <1>1, <1>2, <1>3, <2>3, <2>7 DEF Counted
  <2>11. e.active = Cardinality(Busy(e))
    <3>1. d.active = Cardinality(Busy(d))
      BY <1>1 DEF Counted
    <3>2. CASE d.sessions[c].waiting
      BY <1>2, <2>4, <3>1, <3>2
    <3>3. CASE ~d.sessions[c].waiting
      <4>1. Cardinality(Busy(e)) = Cardinality(Busy(d)) - 1
        BY <2>5, <2>6, <3>3, FS_RemoveElement
      <4>2. d.active \in Nat /\ d.active > 0
        BY <2>6, <2>7, <3>1, <4>1, PreferencesAssumption
      <4>. QED  BY <1>2, <3>1, <3>3, <4>1, <4>2 DEF LessOne
    <3>. QED  BY <3>2, <3>3
  <2>. QED  BY <2>8, <2>9, <2>10, <2>11 DEF Counted
<1>12. Traced(e, ext)
  <2>1. e.readers = Counts(m, d.readers)
    BY <1>2, <1>5 DEF Counts
  <2>2. m.image \notin Announced /\ m.count = e.count /\ m.readers = e.readers[m.image]
    BY <1>3, <1>5
  <2>3. /\ d \in Updates /\ e \in Updates /\ m \in Messages /\ Traced(d, ext) /\ Counted(e)
        /\ e.queue = Append(d.queue, m) /\ UpdateAssumption
    BY <1>1, <1>2, <1>4, <1>11
  <2>. HIDE DEF Traced, Counted
  <2>. QED  BY ONLY <2>1, <2>2, <2>3, TraceCounted
<1>. QED  BY <1>1, <1>2, <1>8, <1>9, <1>10, <1>11, <1>12 DEF Sound

\* A session begins.
LEMMA BeginsSound ==
    ASSUME UpdateAssumption, NEW ext, NEW d, Sound(d, ext), NEW c \in Controllers,
           d.sessions[c].image = None, NEW i \in Wants[c], NEW e, Begins(d, e, c, i)
    PROVE  /\ Sound(e, ext)
           /\ \A o \in Controllers : Alive(e, o) <=> Alive(d, o) \/ o = c
<1>. DEFINE m == [type |-> "stage", ctl |-> c, image |-> i, count |-> e.count,
                  readers |-> e.readers[i]]
            n == Len(d.queue)
<1>1. /\ d \in Updates /\ e \in Updates /\ Ordered(d) /\ Filed(d) /\ Counted(d) /\ Traced(d, ext)
  BY DEF Sound, Begins
<1>2. /\ e.count = d.count + 1 /\ e.readers = [d.readers EXCEPT ![i] = @ + 1]
      /\ e.active = d.active + 1 /\ e.queue = Append(d.queue, m)
      /\ \A o \in Controllers \ {c} : e.sessions[o] = d.sessions[o]
      /\ e.sessions[c].image = i /\ e.sessions[c].file = None /\ ~e.sessions[c].waiting
      /\ e.sessions[c].tag # "none" => e.sessions[c].param = i
      /\ e.voice <=> Foreground(e)
  BY DEF Begins
<1>3. i \in Images /\ i \notin Announced /\ i # None
  BY ControllersAssumption, NoneFacts DEF UpdateAssumption
<1>4. m \in Messages
  <2>1. e.count \in Int /\ e.readers[i] \in Int
    BY <1>1, <1>3, UpdatesFacts
  <2>. QED  BY <1>3, <2>1 DEF Messages
<1>5. m.type = "stage" /\ m.ctl = c /\ m.image = i /\ m.count = e.count /\ m.readers = e.readers[i]
  OBVIOUS
<1>. HIDE DEF m
<1>6. /\ Len(e.queue) = n + 1 /\ e.queue[n + 1] = m /\ n \in Nat
      /\ \A k \in 1..n : k \in 1..Len(e.queue) /\ e.queue[k] = d.queue[k]
      /\ \A k \in 1..Len(e.queue) : k = n + 1 \/ k \in 1..n
      /\ \A o \in Controllers : Gone(e, o) <=> Gone(d, o)
  BY <1>1, <1>2, <1>4, <1>5, MessageQueued, QueueFacts
<1>7. \A k \in 1..n : /\ d.queue[k].ctl \in Controllers /\ d.queue[k].ctl # c
                      /\ d.queue[k].image = d.sessions[d.queue[k].ctl].image
  <2>1. \A k \in 1..n : /\ d.queue[k].ctl \in Controllers /\ d.queue[k].image \in Images
                        /\ d.queue[k].image = d.sessions[d.queue[k].ctl].image
    BY <1>1, QueueFacts DEF Ordered
  <2>. QED  BY <2>1, NoneFacts
<1>8. ~Gone(d, c)
  BY <1>7 DEF Gone
<1>. HIDE DEF n
<1>9. \A o \in Controllers : Alive(e, o) <=> Alive(d, o) \/ o = c
  <2>1. \A o \in Controllers \ {c} : e.sessions[o].image = d.sessions[o].image
    BY <1>2
  <2>. QED  BY <1>2, <1>3, <1>6, <1>8, <2>1 DEF Alive
<1>10. Ordered(e)
  <2>1. ASSUME NEW k \in 1..Len(e.queue)
        PROVE  e.queue[k].image = e.sessions[e.queue[k].ctl].image
    <3>1. CASE k = n + 1
      BY <1>2, <1>5, <1>6, <3>1
    <3>2. CASE k \in 1..n
      BY <1>2, <1>6, <1>7, <3>2
    <3>. QED  BY <1>6, <3>1, <3>2
  <2>2. ASSUME NEW j \in 1..Len(e.queue), NEW k \in 1..Len(e.queue), j < k,
               e.queue[j].ctl = e.queue[k].ctl
        PROVE  e.queue[j].type = "stage" /\ e.queue[k].type = "unstage"
    <3>1. j \in 1..n /\ e.queue[j] = d.queue[j]
      BY <1>6, <2>2
    <3>2. k \in 1..n /\ e.queue[k] = d.queue[k]
      BY <1>5, <1>6, <1>7, <2>2, <3>1
    <3>. QED  BY <1>1, <2>2, <3>1, <3>2 DEF Ordered, n
  <2>. QED  BY <2>1, <2>2 DEF Ordered
<1>11. Filed(e)
  <2>. SUFFICES ASSUME NEW o \in Controllers
                PROVE  /\ e.sessions[o].file \in {None, e.sessions[o].image}
                       /\ e.sessions[o].image # None /\ e.sessions[o].file = None
                             => \E k \in 1..Len(e.queue) :
                                   e.queue[k].type = "stage" /\ e.queue[k].ctl = o
                       /\ e.sessions[o].downloading => Alive(e, o)
                       /\ e.sessions[o].tag # "none" => e.sessions[o].param = e.sessions[o].image
    BY DEF Filed
  <2>1. CASE o = c
    <3>1. n + 1 \in 1..Len(e.queue)
      BY <1>6
    <3>2. \E k \in 1..Len(e.queue) : e.queue[k].type = "stage" /\ e.queue[k].ctl = c
      BY <1>5, <1>6, <3>1
    <3>. QED  BY <1>2, <1>9, <2>1, <3>2
  <2>2. CASE o # c
    <3>1. /\ d.sessions[o].file \in {None, d.sessions[o].image}
          /\ d.sessions[o].image # None /\ d.sessions[o].file = None
                => \E k \in 1..n : d.queue[k].type = "stage" /\ d.queue[k].ctl = o
          /\ d.sessions[o].downloading => Alive(d, o)
          /\ d.sessions[o].tag # "none" => d.sessions[o].param = d.sessions[o].image
      BY <1>1 DEF Filed, n
    <3>2. (\E k \in 1..n : d.queue[k].type = "stage" /\ d.queue[k].ctl = o)
             => \E k \in 1..Len(e.queue) : e.queue[k].type = "stage" /\ e.queue[k].ctl = o
      BY <1>6
    <3>. QED  BY <1>2, <1>9, <2>2, <3>1, <3>2
  <2>. QED  BY <2>1, <2>2
<1>12. Counted(e)
  <2>1. ~Alive(d, c)
    BY DEF Alive
  <2>2. All(e) = All(d) \cup {c} /\ c \notin All(d)
    BY <1>9, <2>1 DEF All
  <2>3. On(e, i) = On(d, i) \cup {c} /\ c \notin On(d, i)
    BY <1>2, <1>9, <2>1 DEF On
  <2>4. \A x \in Images \ {i} : On(e, x) = On(d, x)
    BY <1>2, <1>9, <2>1 DEF On
  <2>5. Busy(e) = Busy(d) \cup {c} /\ c \notin Busy(d)
    BY <1>2, <1>9, <2>1 DEF Busy
  <2>6. IsFiniteSet(All(d)) /\ IsFiniteSet(Busy(d)) /\ IsFiniteSet(On(d, i))
    BY FiniteSessions DEF UpdateAssumption
  <2>7. d.readers \in [Images -> Int]
    BY <1>1, UpdatesFacts
  <2>8. /\ Cardinality(All(d) \cup {c}) = Cardinality(All(d)) + 1
        /\ Cardinality(On(d, i) \cup {c}) = Cardinality(On(d, i)) + 1
        /\ Cardinality(Busy(d) \cup {c}) = Cardinality(Busy(d)) + 1
    BY <2>2, <2>3, <2>5, <2>6, FS_AddElement
  <2>9. /\ d.count = Cardinality(All(d)) /\ d.active = Cardinality(Busy(d))
        /\ \A x \in Images : d.readers[x] = Cardinality(On(d, x))
    BY <1>1 DEF Counted
  <2>10. e.readers[i] = d.readers[i] + 1 /\ \A x \in Images \ {i} : e.readers[x] = d.readers[x]
    BY <1>2, <1>3, <2>7
  <2>11. \A x \in Images : e.readers[x] = Cardinality(On(e, x))
    BY <1>3, <2>3, <2>4, <2>8, <2>9, <2>10
  <2>. QED  BY <1>2, <2>2, <2>5, <2>8, <2>9, <2>11 DEF Counted
<1>13. Traced(e, ext)
  <2>1. e.readers = Counts(m, d.readers)
    BY <1>2, <1>5 DEF Counts
  <2>2. m.image \notin Announced /\ m.count = e.count /\ m.readers = e.readers[m.image]
    BY <1>2, <1>3, <1>5
  <2>3. /\ d \in Updates /\ e \in Updates /\ m \in Messages /\ Traced(d, ext) /\ Counted(e)
        /\ e.queue = Append(d.queue, m) /\ UpdateAssumption
    BY <1>1, <1>2, <1>4, <1>12
  <2>. HIDE DEF Traced, Counted
  <2>. QED  BY ONLY <2>1, <2>2, <2>3, TraceCounted
<1>. QED  BY <1>1, <1>2, <1>9, <1>10, <1>11, <1>12, <1>13 DEF Sound

\* A session is asked for data or for the time of its load, or its download is over.
LEMMA TouchesSound ==
    ASSUME UpdateAssumption, NEW ext, NEW d, Sound(d, ext), NEW c \in Controllers, Alive(d, c),
           NEW last \in BOOLEAN, last => ~d.sessions[c].waiting, NEW e, Touches(d, e, c, last)
    PROVE  /\ Sound(e, ext)
           /\ \A o \in Controllers : /\ Alive(e, o) <=> Alive(d, o)
                                     /\ e.sessions[o].image = d.sessions[o].image
<1>1. /\ d \in Updates /\ Ordered(d) /\ Filed(d) /\ Counted(d) /\ Traced(d, ext)
  BY DEF Sound
<1>2. /\ e \in Updates
      /\ e.count = d.count /\ e.readers = d.readers /\ e.queue = d.queue
      /\ \A o \in Controllers \ {c} : e.sessions[o] = d.sessions[o]
      /\ e.sessions[c].image = d.sessions[c].image /\ e.sessions[c].file = d.sessions[c].file
      /\ e.sessions[c].param = d.sessions[c].param
      /\ e.active = IF last THEN LessOne(d.active) ELSE d.active
      /\ e.sessions[c].waiting = (d.sessions[c].waiting \/ last)
      /\ e.sessions[c].downloading => d.sessions[c].downloading
      /\ e.sessions[c].tag # "none" => d.sessions[c].tag # "none"
      /\ e.voice <=> Foreground(e)
  BY DEF Touches, Keeps
<1>3. \A o \in Controllers : /\ e.sessions[o].image = d.sessions[o].image
                             /\ e.sessions[o].file = d.sessions[o].file
                             /\ e.sessions[o].param = d.sessions[o].param
  BY <1>2
<1>4. \A o \in Controllers : Alive(e, o) <=> Alive(d, o)
  BY <1>2, <1>3 DEF Alive, Gone
<1>5. Ordered(e)
  <2>1. \A k \in 1..Len(d.queue) : /\ d.queue[k].ctl \in Controllers
                                   /\ d.queue[k].image = d.sessions[d.queue[k].ctl].image
    BY <1>1, QueueFacts DEF Ordered
  <2>2. \A k \in 1..Len(e.queue) : e.queue[k].image = e.sessions[e.queue[k].ctl].image
    BY <1>2, <1>3, <2>1
  <2>3. \A j, k \in 1..Len(e.queue) :
           j < k /\ e.queue[j].ctl = e.queue[k].ctl
              => e.queue[j].type = "stage" /\ e.queue[k].type = "unstage"
    BY <1>1, <1>2 DEF Ordered
  <2>. QED  BY <2>2, <2>3 DEF Ordered
<1>6. Filed(e)
  <2>1. ASSUME NEW o \in Controllers
        PROVE  /\ e.sessions[o].downloading => d.sessions[o].downloading
               /\ e.sessions[o].tag # "none" => d.sessions[o].tag # "none"
    BY <1>2
  <2>. QED  BY <1>1, <1>2, <1>3, <1>4, <2>1 DEF Filed
<1>7. Counted(e)
  <2>1. All(e) = All(d) /\ \A x \in Images : On(e, x) = On(d, x)
    BY <1>3, <1>4 DEF All, On
  <2>2. e.active = Cardinality(Busy(e))
    <3>1. d.active = Cardinality(Busy(d)) /\ IsFiniteSet(Busy(d)) /\ Cardinality(Busy(d)) \in Nat
      BY <1>1, FiniteSessions DEF Counted, UpdateAssumption
    <3>2. CASE last
      <4>1. Busy(e) = Busy(d) \ {c} /\ c \in Busy(d)
        BY <1>2, <1>4, <3>2 DEF Busy
      <4>2. Cardinality(Busy(d) \ {c}) = Cardinality(Busy(d)) - 1
        BY <3>1, <4>1, FS_RemoveElement
      <4>3. Cardinality(Busy(e)) \in Nat
        BY FiniteSessions DEF UpdateAssumption
      <4>. QED  BY <1>2, <3>1, <3>2, <4>1, <4>2, <4>3 DEF LessOne
    <3>3. CASE ~last
      <4>1. Busy(e) = Busy(d)
        BY <1>2, <1>4, <3>3 DEF Busy
      <4>. QED  BY <1>2, <3>1, <3>3, <4>1
    <3>. QED  BY <3>2, <3>3
  <2>. QED  BY <1>1, <1>2, <2>1, <2>2 DEF Counted
<1>8. Traced(e, ext)
  BY <1>1, <1>2 DEF Traced
<1>. QED  BY <1>2, <1>3, <1>4, <1>5, <1>6, <1>7, <1>8 DEF Sound

-----------------------------------------------------------------------------
(* The device update thread.                                               *)

\* A message is taken from the front of the others.
LEMMA TailFacts ==
    ASSUME NEW d \in Updates, NEW e \in Updates, d.queue # <<>>, e.queue = Tail(d.queue)
    PROVE  /\ Head(d.queue) = d.queue[1] /\ 1 \in 1..Len(d.queue)
           /\ \A k \in 1..Len(e.queue) : k + 1 \in 1..Len(d.queue) /\ e.queue[k] = d.queue[k + 1]
           /\ \A k \in 1..Len(d.queue) :
                 k = 1 \/ \E j \in 1..Len(e.queue) : e.queue[j] = d.queue[k]
<1>1. d.queue \in Seq(Messages) /\ Len(d.queue) \in Nat
  BY UpdatesFacts, QueueFacts
<1>2. Len(e.queue) = Len(d.queue) - 1 /\ Len(d.queue) >= 1 /\ Head(d.queue) = d.queue[1]
      /\ \A k \in 1..(Len(d.queue) - 1) : e.queue[k] = d.queue[k + 1]
  BY <1>1
<1>3. ASSUME NEW k \in 1..Len(d.queue), k # 1
      PROVE  \E j \in 1..Len(e.queue) : e.queue[j] = d.queue[k]
  <2>1. k - 1 \in 1..Len(e.queue) /\ (k - 1) + 1 = k
    BY <1>1, <1>2, <1>3
  <2>2. e.queue[k - 1] = d.queue[k]
    BY <1>1, <1>2, <2>1
  <2>. QED  BY <2>1, <2>2
<1>4. \A k \in 1..Len(e.queue) : k + 1 \in 1..Len(d.queue) /\ e.queue[k] = d.queue[k + 1]
  BY <1>1, <1>2
<1>5. 1 \in 1..Len(d.queue)
  BY <1>1, <1>2
<1>. QED  BY <1>2, <1>3, <1>4, <1>5

\* What the thread does with the message it takes: the session has its file, or is deleted.
Serves(d, e, m) ==
    /\ e \in Updates /\ m \in Messages
    /\ e.count = d.count /\ e.readers = d.readers /\ e.active = d.active /\ e.voice = d.voice
    /\ d.queue # <<>> /\ m = Head(d.queue) /\ e.queue = Tail(d.queue)
    /\ \A o \in Controllers \ {m.ctl} : e.sessions[o] = d.sessions[o]
    /\ \/ /\ m.type = "stage" /\ e.sessions[m.ctl].file = e.sessions[m.ctl].image
          /\ e.sessions[m.ctl].image = d.sessions[m.ctl].image
          /\ e.sessions[m.ctl].param = d.sessions[m.ctl].param
          /\ e.sessions[m.ctl].tag = d.sessions[m.ctl].tag
          /\ e.sessions[m.ctl].waiting = d.sessions[m.ctl].waiting
          /\ e.sessions[m.ctl].downloading = d.sessions[m.ctl].downloading
          /\ e.sessions[m.ctl].background = d.sessions[m.ctl].background
       \/ m.type = "unstage" /\ e.sessions[m.ctl] = NoSession

\* What the map holds of a controller without a session.
LEMMA NoSessionFacts ==
    /\ NoSession \in Sessions
    /\ NoSession.image = None /\ NoSession.file = None /\ NoSession.tag = "none"
    /\ ~NoSession.downloading
  BY PreferencesAssumption DEF NoSession, NewSession, Sessions

\* The thread keeps what the counts and the messages say of the sessions that go on.
LEMMA ServesSound ==
    ASSUME UpdateAssumption, NEW ext, NEW d, Sound(d, ext), NEW e, NEW m, Serves(d, e, m),
           NEW h, Traces(h, d.queue, ext, d.readers),
           NEW ext2, \A i \in Images : i \in ext2 <=> h[1][i] > 0
    PROVE  /\ Sound(e, ext2)
           /\ \A o \in Controllers :
                 /\ Alive(e, o) <=> Alive(d, o)
                 /\ Alive(d, o) => /\ e.sessions[o].image = d.sessions[o].image
                                   /\ e.sessions[o].tag = d.sessions[o].tag
                 /\ e.sessions[o].image \in {None, d.sessions[o].image}
<1>. DEFINE c == m.ctl
<1>1. /\ d \in Updates /\ Ordered(d) /\ Filed(d) /\ Counted(d) /\ (d.voice <=> Foreground(d))
      /\ e \in Updates /\ m \in Messages
      /\ e.count = d.count /\ e.readers = d.readers /\ e.active = d.active /\ e.voice = d.voice
      /\ d.queue # <<>> /\ m = Head(d.queue) /\ e.queue = Tail(d.queue)
  BY DEF Sound, Serves
<1>2. c \in Controllers /\ m.image \in Images /\ m.type \in {"stage", "unstage"}
  BY <1>1, MessagesFacts
<1>3. /\ m = d.queue[1] /\ 1 \in 1..Len(d.queue)
      /\ \A k \in 1..Len(e.queue) : k + 1 \in 1..Len(d.queue) /\ e.queue[k] = d.queue[k + 1]
      /\ \A k \in 1..Len(d.queue) :
            k = 1 \/ \E j \in 1..Len(e.queue) : e.queue[j] = d.queue[k]
  BY <1>1, TailFacts
<1>4. \A o \in Controllers \ {c} : e.sessions[o] = d.sessions[o]
  BY DEF Serves
<1>5. \/ /\ m.type = "stage" /\ e.sessions[c].file = e.sessions[c].image
         /\ e.sessions[c].image = d.sessions[c].image /\ e.sessions[c].param = d.sessions[c].param
         /\ e.sessions[c].tag = d.sessions[c].tag /\ e.sessions[c].waiting = d.sessions[c].waiting
         /\ e.sessions[c].downloading = d.sessions[c].downloading
         /\ e.sessions[c].background = d.sessions[c].background
      \/ m.type = "unstage" /\ e.sessions[c] = NoSession
  BY DEF Serves
<1>. HIDE DEF c
<1>6. m.image = d.sessions[c].image /\ d.sessions[c].image # None
  <2>1. m.image = d.sessions[c].image
    BY <1>1, <1>3 DEF Ordered, c
  <2>. QED  BY <1>2, <2>1, NoneFacts
<1>7. \A k \in 1..Len(e.queue) :
         e.queue[k].ctl = c => m.type = "stage" /\ e.queue[k].type = "unstage"
  <2>. SUFFICES ASSUME NEW k \in 1..Len(e.queue), e.queue[k].ctl = c
                PROVE  m.type = "stage" /\ e.queue[k].type = "unstage"
    OBVIOUS
  <2>1. 1 < k + 1 /\ k + 1 \in 1..Len(d.queue) /\ d.queue[k + 1].ctl = c
    <3>1. k + 1 \in 1..Len(d.queue) /\ e.queue[k] = d.queue[k + 1]
      BY <1>3
    <3>2. k \in Nat /\ k >= 1
      OBVIOUS
    <3>3. 1 < k + 1
      BY <3>2
    <3>. QED  BY <3>1, <3>3
  <2>2. d.queue[1].ctl = d.queue[k + 1].ctl
    BY <1>3, <2>1 DEF c
  <2>3. d.queue[1].type = "stage" /\ d.queue[k + 1].type = "unstage"
    <3>1. Ordered(d) /\ 1 \in 1..Len(d.queue) /\ 1 < k + 1 /\ k + 1 \in 1..Len(d.queue)
      BY <1>1, <1>3, <2>1
    <3>. QED  BY ONLY <2>2, <3>1 DEF Ordered
  <2>. QED  BY <1>3, <2>3
<1>8. \A o \in Controllers : Gone(e, o) <=> Gone(d, o) /\ ~(m.type = "unstage" /\ o = c)
  <2>. SUFFICES ASSUME NEW o \in Controllers
                PROVE  Gone(e, o) <=> Gone(d, o) /\ ~(m.type = "unstage" /\ o = c)
    OBVIOUS
  <2>1. ASSUME Gone(e, o) PROVE Gone(d, o) /\ ~(m.type = "unstage" /\ o = c)
    <3>1. PICK k \in 1..Len(e.queue) : e.queue[k].type = "unstage" /\ e.queue[k].ctl = o
      BY <2>1 DEF Gone
    <3>2. k + 1 \in 1..Len(d.queue) /\ d.queue[k + 1] = e.queue[k]
      BY <1>3
    <3>3. Gone(d, o)
      BY <3>1, <3>2 DEF Gone
    <3>. QED  BY <1>7, <3>1, <3>3
  <2>2. ASSUME Gone(d, o), ~(m.type = "unstage" /\ o = c) PROVE Gone(e, o)
    <3>1. PICK k \in 1..Len(d.queue) : d.queue[k].type = "unstage" /\ d.queue[k].ctl = o
      BY <2>2 DEF Gone
    <3>2. k # 1
      BY <1>3, <2>2, <3>1 DEF c
    <3>. QED  BY <1>3, <3>1, <3>2 DEF Gone
  <2>. QED  BY <2>1, <2>2
<1>9. m.type = "unstage" => ~Alive(d, c) /\ ~d.sessions[c].downloading
  <2>1. m.type = "unstage" => Gone(d, c)
    BY <1>3 DEF Gone, c
  <2>. QED  BY <1>1, <1>2, <2>1 DEF Alive, Filed
<1>10. \A o \in Controllers : Alive(e, o) <=> Alive(d, o)
  <2>1. m.type = "unstage" => ~Alive(e, c)
    BY <1>5, NoSessionFacts DEF Alive
  <2>2. ASSUME NEW o \in Controllers, m.type = "stage" \/ o # c
        PROVE  Alive(e, o) <=> Alive(d, o)
    BY <1>4, <1>5, <1>8, <2>2 DEF Alive
  <2>. QED  BY <1>2, <1>9, <2>1, <2>2
<1>11. Ordered(e)
  <2>1. ASSUME NEW k \in 1..Len(e.queue)
        PROVE  e.queue[k].image = e.sessions[e.queue[k].ctl].image
    <3>1. e.queue[k] = d.queue[k + 1] /\ k + 1 \in 1..Len(d.queue)
      BY <1>3
    <3>2. /\ d.queue[k + 1].ctl \in Controllers
          /\ d.queue[k + 1].image = d.sessions[d.queue[k + 1].ctl].image
      BY <1>1, <3>1, QueueFacts DEF Ordered
    <3>. QED  BY <1>4, <1>5, <1>7, <3>1, <3>2
  <2>2. ASSUME NEW j \in 1..Len(e.queue), NEW k \in 1..Len(e.queue), j < k,
               e.queue[j].ctl = e.queue[k].ctl
        PROVE  e.queue[j].type = "stage" /\ e.queue[k].type = "unstage"
    <3>1. j + 1 < k + 1 /\ j + 1 \in 1..Len(d.queue) /\ k + 1 \in 1..Len(d.queue)
          /\ e.queue[j] = d.queue[j + 1] /\ e.queue[k] = d.queue[k + 1]
      BY <1>3, <2>2
    <3>. QED  BY <1>1, <2>2, <3>1 DEF Ordered
  <2>. QED  BY <2>1, <2>2 DEF Ordered
<1>12. Filed(e)
  <2>. SUFFICES ASSUME NEW o \in Controllers
                PROVE  /\ e.sessions[o].file \in {None, e.sessions[o].image}
                       /\ e.sessions[o].image # None /\ e.sessions[o].file = None
                             => \E k \in 1..Len(e.queue) :
                                   e.queue[k].type = "stage" /\ e.queue[k].ctl = o
                       /\ e.sessions[o].downloading => Alive(e, o)
                       /\ e.sessions[o].tag # "none" => e.sessions[o].param = e.sessions[o].image
    BY DEF Filed
  <2>1. /\ d.sessions[o].file \in {None, d.sessions[o].image}
        /\ d.sessions[o].image # None /\ d.sessions[o].file = None
              => \E k \in 1..Len(d.queue) : d.queue[k].type = "stage" /\ d.queue[k].ctl = o
        /\ d.sessions[o].downloading => Alive(d, o)
        /\ d.sessions[o].tag # "none" => d.sessions[o].param = d.sessions[o].image
    BY <1>1 DEF Filed
  <2>2. CASE o = c
    BY <1>5, <1>10, <2>1, <2>2, NoSessionFacts
  <2>3. CASE o # c
    <3>1. (\E k \in 1..Len(d.queue) : d.queue[k].type = "stage" /\ d.queue[k].ctl = o)
             => \E k \in 1..Len(e.queue) : e.queue[k].type = "stage" /\ e.queue[k].ctl = o
      BY <1>3, <2>3 DEF c
    <3>. QED  BY <1>4, <1>10, <2>1, <2>3, <3>1
  <2>. QED  BY <2>2, <2>3
<1>13. ASSUME NEW o \in Controllers, Alive(d, o)
       PROVE  /\ e.sessions[o].image = d.sessions[o].image /\ e.sessions[o].tag = d.sessions[o].tag
              /\ e.sessions[o].waiting = d.sessions[o].waiting
  <2>1. m.type = "stage" \/ o # c
    BY <1>2, <1>9, <1>13
  <2>. QED  BY <1>4, <1>5, <2>1
<1>14. Counted(e)
  <2>1. All(e) = All(d)
    BY <1>10 DEF All
  <2>2. Busy(e) = Busy(d)
    BY <1>10, <1>13 DEF Busy
  <2>3. \A x \in Images : On(e, x) = On(d, x)
    BY <1>10, <1>13 DEF On
  <2>. QED  BY <1>1, <2>1, <2>2, <2>3 DEF Counted
<1>15. Traced(e, ext2)
  <2>1. d.queue \in Seq(Messages) /\ d.readers \in [Images -> Int]
    BY <1>1, UpdatesFacts
  <2>2. Traces([k \in 0..(Len(d.queue) - 1) |-> h[k + 1]], Tail(d.queue), ext2, d.readers)
    BY <1>1, <2>1, TraceTaken
  <2>. QED  BY <1>1, <2>2 DEF Traced
<1>16. e.voice <=> Foreground(e)
  <2>1. \A o \in Controllers : /\ e.sessions[o].downloading <=> d.sessions[o].downloading
                               /\ d.sessions[o].downloading =>
                                     e.sessions[o].background = d.sessions[o].background
    <3>1. m.type = "unstage" => ~e.sessions[c].downloading /\ ~d.sessions[c].downloading
      BY <1>5, <1>9, NoSessionFacts
    <3>. QED  BY <1>4, <1>5, <3>1
  <2>. QED  BY <1>1, <2>1 DEF Foreground
<1>17. \A o \in Controllers : e.sessions[o].image \in {None, d.sessions[o].image}
  BY <1>4, <1>5, NoSessionFacts
<1>. QED  BY <1>1, <1>10, <1>11, <1>12, <1>13, <1>14, <1>15, <1>16, <1>17 DEF Sound

\* The thread extracts the archive for its first reader, and opens the file.
LEMMA StageServes ==
    ASSUME UpdateAssumption, Sound(du, extracted), ThreadStage
    PROVE  /\ Serves(du, du', Head(du.queue))
           /\ \E h : /\ Traces(h, du.queue, extracted, du.readers)
                     /\ \A i \in Images : i \in extracted' <=> h[1][i] > 0
<1>. DEFINE m == Head(du.queue)
            c == m.ctl
            d == [du EXCEPT !.queue = Tail(@)]
            s == [d.sessions[c] EXCEPT !.file = m.image]
            e == [d EXCEPT !.sessions[c] = s]
            ext == extracted \cup (IF m.readers = 1 THEN {m.image} ELSE {})
<1>1. /\ du \in Updates /\ du.queue \in Seq(Messages) /\ du.queue # <<>> /\ m.type = "stage"
      /\ Ordered(du) /\ Traced(du, extracted) /\ du.readers \in [Images -> Int]
  BY UpdatesFacts DEF Sound, ThreadStage, Taken
<1>2. m = du.queue[1] /\ 1 \in 1..Len(du.queue) /\ Tail(du.queue) \in Seq(Messages) /\ m \in Messages
  BY <1>1
<1>3. c \in Controllers /\ m.image \in Images /\ m.image = du.sessions[c].image /\ m.image # None
  <2>1. c \in Controllers /\ m.image \in Images
    BY <1>2, MessagesFacts
  <2>2. m.image = du.sessions[c].image
    BY <1>1, <1>2 DEF Ordered
  <2>. QED  BY <2>1, <2>2, NoneFacts
<1>4. PICK h : Traces(h, du.queue, extracted, du.readers)
  BY <1>1 DEF Traced
<1>5. m.image \in ext /\ \A i \in Images : i \in ext <=> h[1][i] > 0
  BY <1>1, <1>4, TraceExtracts
<1>6. extracted' = ext /\ du' = [d EXCEPT !.sessions[c].file = m.image]
  <2>1. extracted' = ext
    BY <1>3 DEF ThreadStage, Extracts, Exists
  <2>2. du' = [d EXCEPT !.sessions[c].file = IF m.image \in extracted' THEN m.image ELSE Failed]
    BY <1>3 DEF ThreadStage, Exists
  <2>. QED  BY <1>5, <2>1, <2>2
<1>. HIDE DEF ext
<1>7. /\ d \in Updates /\ d.sessions = du.sessions
      /\ d.count = du.count /\ d.active = du.active /\ d.readers = du.readers
      /\ d.queue = Tail(du.queue) /\ d.voice = du.voice
  <2>1. d = [du EXCEPT !.queue = Tail(du.queue)]
    BY Zenon
  <2>. QED  BY <1>1, <1>2, <2>1, QueuePut
<1>. HIDE DEF d, m
<1>8. /\ s \in Sessions /\ s.file = m.image /\ s.image = du.sessions[c].image
      /\ s.param = du.sessions[c].param /\ s.tag = du.sessions[c].tag
      /\ s.waiting = du.sessions[c].waiting /\ s.downloading = du.sessions[c].downloading
      /\ s.background = du.sessions[c].background
  <2>1. d.sessions[c] = du.sessions[c] /\ d.sessions[c] \in Sessions
    BY <1>3, <1>7, UpdatesFacts
  <2>. QED  BY <1>3, <2>1 DEF Sessions
<1>9. du' = e
  BY <1>3, <1>6, <1>7, UpdatesFacts
<1>. HIDE DEF s
<1>10. /\ e \in Updates /\ e.sessions = [d.sessions EXCEPT ![c] = s]
       /\ e.count = d.count /\ e.active = d.active /\ e.readers = d.readers
       /\ e.queue = d.queue /\ e.voice = d.voice
  BY <1>3, <1>7, <1>8, SessionPut
<1>. HIDE DEF e, c
<1>11. e.sessions[c] = s /\ \A o \in Controllers \ {c} : e.sessions[o] = du.sessions[o]
  BY <1>1, <1>3, <1>7, <1>10, UpdatesFacts
<1>12. Serves(du, e, m)
  BY <1>1, <1>2, <1>3, <1>7, <1>8, <1>10, <1>11 DEF Serves, c, m
<1>. QED  BY <1>4, <1>5, <1>6, <1>9, <1>12 DEF m

\* The thread removes the archive after its last reader, and deletes the session.
LEMMA UnstageServes ==
    ASSUME UpdateAssumption, Sound(du, extracted), ThreadUnstage
    PROVE  /\ Serves(du, du', Head(du.queue))
           /\ \E h : /\ Traces(h, du.queue, extracted, du.readers)
                     /\ \A i \in Images : i \in extracted' <=> h[1][i] > 0
<1>. DEFINE m == Head(du.queue)
            c == m.ctl
            d == [du EXCEPT !.queue = Tail(du.queue)]
            e == [d EXCEPT !.sessions[c] = NoSession]
<1>1. /\ du \in Updates /\ du.queue \in Seq(Messages) /\ du.queue # <<>> /\ m.type = "unstage"
      /\ Traced(du, extracted) /\ du.readers \in [Images -> Int]
      /\ du' = [du EXCEPT !.queue = Tail(@), !.sessions[c] = NoSession]
      /\ extracted' = Left(m)
  BY UpdatesFacts DEF Sound, ThreadUnstage, Taken
<1>2. m = du.queue[1] /\ 1 \in 1..Len(du.queue) /\ Tail(du.queue) \in Seq(Messages) /\ m \in Messages
  BY <1>1
<1>3. c \in Controllers
  BY <1>2, MessagesFacts
<1>4. PICK h : Traces(h, du.queue, extracted, du.readers)
  BY <1>1 DEF Traced
<1>5. \A i \in Images : i \in extracted' <=> h[1][i] > 0
  BY <1>1, <1>4, TraceRemoves
<1>6. /\ d \in Updates /\ d.sessions = du.sessions
      /\ d.count = du.count /\ d.active = du.active /\ d.readers = du.readers
      /\ d.queue = Tail(du.queue) /\ d.voice = du.voice
  <2>1. du \in Updates /\ Tail(du.queue) \in Seq(Messages)
    BY <1>1, <1>2
  <2>. QED  BY ONLY <2>1, QueuePut
<1>7. du' = e
  BY <1>1
<1>. HIDE DEF d, m
<1>8. /\ e \in Updates /\ e.sessions = [d.sessions EXCEPT ![c] = NoSession]
      /\ e.count = d.count /\ e.active = d.active /\ e.readers = d.readers
      /\ e.queue = d.queue /\ e.voice = d.voice
  BY <1>3, <1>6, NoSessionFacts, SessionPut
<1>. HIDE DEF e, c
<1>9. e.sessions[c] = NoSession /\ \A o \in Controllers \ {c} : e.sessions[o] = du.sessions[o]
  BY <1>1, <1>3, <1>6, <1>8, UpdatesFacts
<1>10. Serves(du, e, m)
  BY <1>1, <1>2, <1>3, <1>6, <1>8, <1>9 DEF Serves, c, m
<1>. QED  BY <1>4, <1>5, <1>7, <1>10 DEF m

-----------------------------------------------------------------------------
(* The steps.                                                              *)

\* The two ways to say that a session goes on.
LEMMA LiveIsAlive ==
    ASSUME du \in Updates, NEW c \in Controllers
    PROVE  Live(c) <=> Alive(du, c)
<1>1. DOMAIN du.queue = 1..Len(du.queue)
  BY QueueFacts
<1>2. Queued("unstage", c) = {} <=> ~Gone(du, c)
  BY <1>1 DEF Queued, Gone
<1>. QED  BY <1>2 DEF Live, Exists, Alive

\* A session that is settled goes on, and its timer is not being served.
LEMMA SettledFacts ==
    ASSUME UpdateAssumption, du \in Updates, NEW c \in Controllers, Settled(c)
    PROVE  /\ Exists(c) => Alive(du, c)
           /\ firing.ctl # {c}
<1>1. Live(c) <=> Alive(du, c)
  BY LiveIsAlive
<1>. QED  BY <1>1 DEF UpdateAssumption, Settled, Live

\* A handler of the main thread, for one controller, that leaves the others alone.
LEMMA HandlerInvariant ==
    ASSUME IInv, NEW c \in Controllers, Sound(du', extracted), extracted' = extracted,
           firing' = firing, firing.ctl # {c}, resuming' \subseteq Controllers,
           ctl' \in [Controllers -> Told], stored' \in [Controllers -> Images \cup {None}],
           \A o \in Controllers \ {c} :
              /\ ctl'[o] = ctl[o] /\ stored'[o] = stored[o]
              /\ du'.sessions[o] = du.sessions[o]
              /\ Alive(du, o) => Alive(du', o),
           {du'.sessions[c].image, ctl'[c].image, stored'[c]} \subseteq Wants[c] \cup {None},
           ctl'[c].image # None /\ ~ctl'[c].over => Alive(du', c)
    PROVE  IInv'
<1>1. Types'
  BY DEF IInv, Types
<1>2. Wanted'
  BY DEF IInv, Wanted
<1>3. Timed'
  <2>1. CASE firing = NoTimer
    BY <2>1 DEF Timed
  <2>2. CASE firing # NoTimer
    <3>1. PICK o \in Controllers : /\ firing = [ctl |-> {o}, image |-> du.sessions[o].image]
                                   /\ Alive(du, o) /\ du.sessions[o].tag = "fired"
      BY <2>2 DEF IInv, Timed
    <3>2. o # c
      BY <3>1
    <3>3. /\ firing' = [ctl |-> {o}, image |-> du'.sessions[o].image]
          /\ Alive(du', o) /\ du'.sessions[o].tag = "fired"
      BY <3>1, <3>2
    <3>. QED  BY <3>3 DEF Timed
  <2>. QED  BY <2>1, <2>2
<1>4. Offered'
  BY DEF IInv, Offered
<1>5. Sound(du, extracted)'
  OBVIOUS
<1>. QED  BY <1>1, <1>2, <1>3, <1>4, <1>5 DEF IInv

\* What a controller was told, in two of the ways that it is changed.
LEMMA ToldPut ==
    ASSUME NEW c \in Controllers, ctl \in [Controllers -> Told], NEW x, NEW z
    PROVE  /\ [ctl EXCEPT ![c].over = z] =
                 [ctl EXCEPT ![c] = [image |-> ctl[c].image, progress |-> ctl[c].progress,
                                     over |-> z, done |-> ctl[c].done]]
           /\ [ctl EXCEPT ![c].image = x, ![c].over = z] =
                 [ctl EXCEPT ![c] = [image |-> x, progress |-> ctl[c].progress,
                                     over |-> z, done |-> ctl[c].done]]
<1>. DEFINE t == ctl[c]
<1>1. /\ [t EXCEPT !.over = z] =
            [image |-> t.image, progress |-> t.progress, over |-> z, done |-> t.done]
      /\ [t EXCEPT !.image = x, !.over = z] =
            [image |-> x, progress |-> t.progress, over |-> z, done |-> t.done]
  <2>1. t \in Told
    OBVIOUS
  <2>. HIDE DEF t
  <2>2. PICK a, b, d, e : t = [image |-> a, progress |-> b, over |-> d, done |-> e]
    <3>1. t = [image |-> t.image, progress |-> t.progress, over |-> t.over, done |-> t.done]
      BY <2>1 DEF Told
    <3>. QED  BY <3>1
  <2>. DEFINE t1 == [image |-> x, progress |-> b, over |-> d, done |-> e]
              u1 == [image |-> x, progress |-> b, over |-> z, done |-> e]
  <2>3. /\ [t EXCEPT !.over = z] = [image |-> a, progress |-> b, over |-> z, done |-> e]
        /\ [t EXCEPT !.image = x] = t1 /\ t.image = a /\ t.progress = b /\ t.done = e
    BY <2>2
  <2>4. [t EXCEPT !.image = x, !.over = z] = [[t EXCEPT !.image = x] EXCEPT !.over = z]
    OBVIOUS
  <2>5. [t1 EXCEPT !.over = z] = u1
    OBVIOUS
  <2>6. [t EXCEPT !.image = x, !.over = z] = u1
    <3>. HIDE DEF t1, u1
    <3>. QED  BY <2>3, <2>4, <2>5
  <2>. QED  BY <2>3, <2>6
<1>2. [ctl EXCEPT ![c].over = z] = [ctl EXCEPT ![c] = [t EXCEPT !.over = z]]
  OBVIOUS
<1>3. [ctl EXCEPT ![c].image = x, ![c].over = z]
         = [ctl EXCEPT ![c] = [t EXCEPT !.image = x, !.over = z]]
  OBVIOUS
<1>. QED  BY <1>1, <1>2, <1>3

\* What the main thread finds of a controller.
LEMMA WantedFacts ==
    ASSUME UpdateAssumption, IInv, NEW c \in Controllers
    PROVE  /\ du.sessions[c].image \in Wants[c] \cup {None}
           /\ ctl[c].image \in Wants[c] \cup {None} /\ stored[c] \in Wants[c] \cup {None}
           /\ Wants[c] \subseteq Images /\ None \notin Wants[c]
           /\ \A i, j \in Wants[c] : i = j
           /\ du \in Updates /\ ctl \in [Controllers -> Told] /\ ctl[c] \in Told
           /\ stored \in [Controllers -> Images \cup {None}]
           /\ ctl[c].progress \in BOOLEAN /\ ctl[c].over \in BOOLEAN /\ ctl[c].done \in BOOLEAN
           /\ resuming \subseteq Controllers
<1>1. Wants[c] \subseteq Images /\ None \notin Wants[c]
  BY ControllersAssumption, NoneFacts
<1>2. ctl \in [Controllers -> Told] /\ ctl[c] \in Told
  BY DEF IInv, Types
<1>3. ctl[c].progress \in BOOLEAN /\ ctl[c].over \in BOOLEAN /\ ctl[c].done \in BOOLEAN
  BY <1>2 DEF Told
<1>. QED  BY <1>1, <1>2, <1>3 DEF IInv, Types, Wanted, Sound, UpdateAssumption

\* A controller is told of an image, and has its session, or is told of none.
LEMMA BeginSound ==
    ASSUME UpdateAssumption, IInv, NEW c \in Controllers, Settled(c), NEW i \in Wants[c],
           NEW manual \in BOOLEAN, NEW ready \in BOOLEAN, Begin(c, i, manual, ready)
    PROVE  /\ Sound(du', extracted)
           /\ \A o \in Controllers \ {c} : /\ du'.sessions[o] = du.sessions[o]
                                           /\ Alive(du, o) => Alive(du', o)
           /\ Alive(du, c) => Alive(du', c)
           /\ ready => Alive(du', c)
           /\ du'.sessions[c].image \in Wants[c] \cup {None}
<1>1. Sound(du, extracted) /\ du \in Updates /\ i \in Images /\ (Exists(c) => Alive(du, c))
  BY WantedFacts, SettledFacts DEF IInv
<1>2. CASE Again(c, i) /\ ready /\ du' = du
  BY <1>1, <1>2, WantedFacts DEF Again
<1>3. CASE Full(c) /\ ~ready /\ du' = du
  BY <1>1, <1>3, WantedFacts
<1>4. ~Waits(c, i)
  BY DEF Waits, UpdateAssumption
<1>5. CASE ~Again(c, i) /\ ~Full(c) /\ ready /\ du' = Started(Acquired(c, i), c, i, manual)
  <2>1. ~Exists(c) /\ du.sessions[c].image = None
    BY <1>5, WantedFacts DEF Again, Exists
  <2>2. ~Alive(du, c) /\ ~du.sessions[c].downloading /\ (du.voice <=> Foreground(du))
    BY <1>1, <2>1 DEF Alive, Sound, Filed
  <2>3. Begins(du, du', c, i)
    BY <1>1, <1>5, <2>1, <2>2, StartedFacts
  <2>4. /\ Sound(du', extracted)
        /\ \A o \in Controllers : Alive(du', o) <=> Alive(du, o) \/ o = c
    BY <1>1, <2>1, <2>3, BeginsSound
  <2>. QED  BY <2>2, <2>3, <2>4 DEF Begins
<1>. QED  BY <1>2, <1>3, <1>4, <1>5 DEF Begin

\* A controller asks for an image.
LEMMA ImageCheckInvariant ==
    ASSUME UpdateAssumption, IInv, NEW c \in Controllers, NEW i \in Images, NEW manual \in BOOLEAN,
           ImageCheck(c, i, manual)
    PROVE  IInv'
<1>1. PICK ready \in BOOLEAN :
         /\ Begin(c, i, manual, ready)
         /\ ctl' = [ctl EXCEPT ![c].image = IF ready THEN i ELSE None,
                               ![c].progress = TRUE, ![c].over = FALSE]
         /\ stored' = IF ready /\ c \in Resume THEN [stored EXCEPT ![c] = i] ELSE stored
  BY DEF ImageCheck
<1>2. Settled(c) /\ i \in Wants[c] /\ UNCHANGED <<extracted, firing, resuming>>
  BY DEF ImageCheck
<1>3. /\ Sound(du', extracted) /\ (ready => Alive(du', c))
      /\ \A o \in Controllers \ {c} : /\ du'.sessions[o] = du.sessions[o]
                                      /\ Alive(du, o) => Alive(du', o)
      /\ du'.sessions[c].image \in Wants[c] \cup {None}
  BY <1>1, <1>2, BeginSound
<1>4. firing.ctl # {c}
  BY <1>2, SettledFacts, WantedFacts
<1>5. /\ ctl' \in [Controllers -> Told] /\ ctl'[c].image = IF ready THEN i ELSE None
      /\ \A o \in Controllers \ {c} : ctl'[o] = ctl[o]
  <2>. DEFINE x == IF ready THEN i ELSE None
              y == TRUE
              z == FALSE
              t == [image |-> x, progress |-> y, over |-> z, done |-> ctl[c].done]
  <2>1. t \in Told /\ t.image = x
    BY WantedFacts DEF Told
  <2>. HIDE DEF x, y, z
  <2>2. [ctl EXCEPT ![c].image = x, ![c].progress = y, ![c].over = z]
           = [ctl EXCEPT ![c] = [ctl[c] EXCEPT !.image = x, !.progress = y, !.over = z]]
    BY WantedFacts
  <2>3. [ctl[c] EXCEPT !.image = x, !.progress = y, !.over = z] = t
    <3>. DEFINE s == ctl[c]
    <3>1. s \in Told
      BY WantedFacts
    <3>. HIDE DEF s
    <3>2. PICK a, b, d, e : s = [image |-> a, progress |-> b, over |-> d, done |-> e]
      <4>1. s = [image |-> s.image, progress |-> s.progress, over |-> s.over, done |-> s.done]
        BY <3>1 DEF Told
      <4>. QED  BY <4>1
    <3>. DEFINE t1 == [image |-> x, progress |-> b, over |-> d, done |-> e]
                t2 == [image |-> x, progress |-> y, over |-> d, done |-> e]
    <3>3. [s EXCEPT !.image = x] = t1 /\ s.done = e
      BY <3>2
    <3>4. [s EXCEPT !.image = x, !.progress = y, !.over = z] =
             [[[s EXCEPT !.image = x] EXCEPT !.progress = y] EXCEPT !.over = z]
      OBVIOUS
    <3>5. /\ [t1 EXCEPT !.progress = y] = t2
          /\ [t2 EXCEPT !.over = z] = [image |-> x, progress |-> y, over |-> z, done |-> e]
      OBVIOUS
    <3>6. [s EXCEPT !.image = x, !.progress = y, !.over = z]
             = [image |-> x, progress |-> y, over |-> z, done |-> s.done]
      <4>. HIDE DEF t1, t2
      <4>. QED  BY <3>3, <3>4, <3>5
    <3>. QED  BY <3>6 DEF s
  <2>4. ctl' = [ctl EXCEPT ![c] = t]
    <3>1. ctl' = [ctl EXCEPT ![c].image = x, ![c].progress = y, ![c].over = z]
      BY <1>1 DEF x, y, z
    <3>. HIDE DEF t
    <3>. QED  BY <2>2, <2>3, <3>1
  <2>. HIDE DEF t
  <2>. QED  BY <2>1, <2>4, WantedFacts DEF x
<1>6. /\ stored' \in [Controllers -> Images \cup {None}] /\ stored'[c] \in Wants[c] \cup {None}
      /\ \A o \in Controllers \ {c} : stored'[o] = stored[o]
  BY <1>1, <1>2, WantedFacts
<1>7. ctl'[c].image \in Wants[c] \cup {None} /\ (ctl'[c].image # None => Alive(du', c))
  BY <1>2, <1>3, <1>5
<1>. QED  BY <1>2, <1>3, <1>4, <1>5, <1>6, <1>7, WantedFacts, HandlerInvariant

\* A request of a controller for its session.
LEMMA TouchesInvariant ==
    ASSUME UpdateAssumption, IInv, NEW c \in Controllers, Settled(c), Exists(c),
           NEW last \in BOOLEAN, last => ~du.sessions[c].waiting, Touches(du, du', c, last),
           UNCHANGED <<extracted, firing, ctl, stored, resuming>>
    PROVE  IInv'
<1>1. Sound(du, extracted) /\ Alive(du, c) /\ firing.ctl # {c}
  BY WantedFacts, SettledFacts DEF IInv
<1>2. /\ Sound(du', extracted)
      /\ \A o \in Controllers : /\ Alive(du', o) <=> Alive(du, o)
                                /\ du'.sessions[o].image = du.sessions[o].image
  BY <1>1, TouchesSound
<1>3. \A o \in Controllers \ {c} : du'.sessions[o] = du.sessions[o]
  BY DEF Touches, Keeps
<1>. QED  BY <1>1, <1>2, <1>3, WantedFacts, HandlerInvariant

\* A controller asks for data, or for the time of its load.
LEMMA RequestsInvariant ==
    ASSUME UpdateAssumption, IInv, NEW c \in Controllers, NEW last \in BOOLEAN,
           DataRequest(c, last) \/ LoadRequest(c)
    PROVE  IInv'
<1>1. du \in Updates /\ (du.voice <=> Foreground(du))
  BY DEF IInv, Sound
<1>2. CASE DataRequest(c, last)
  <2>1. /\ Settled(c) /\ Exists(c) /\ (last => ~du.sessions[c].waiting)
        /\ UNCHANGED <<extracted, firing, ctl, stored, resuming>>
    BY <1>2 DEF DataRequest
  <2>. QED  BY <1>1, <1>2, <2>1, DataRequestFacts, TouchesInvariant
<1>3. CASE LoadRequest(c)
  <2>1. Settled(c) /\ Exists(c) /\ UNCHANGED <<extracted, firing, ctl, stored, resuming>>
    BY <1>3 DEF LoadRequest
  <2>. QED  BY <1>1, <1>3, <2>1, LoadRequestFacts, TouchesInvariant
<1>. QED  BY <1>2, <1>3

\* The session of a controller is ended for its own image, or there is none.
LEMMA EndSound ==
    ASSUME UpdateAssumption, IInv, NEW c \in Controllers, Settled(c), NEW i \in Wants[c],
           du' = EndSession(du, c, i)
    PROVE  /\ Sound(du', extracted)
           /\ \A o \in Controllers \ {c} : /\ du'.sessions[o] = du.sessions[o]
                                           /\ Alive(du, o) => Alive(du', o)
           /\ du'.sessions[c].image \in Wants[c] \cup {None}
<1>1. Sound(du, extracted) /\ du \in Updates /\ i \in Images /\ (du.voice <=> Foreground(du))
  BY WantedFacts DEF IInv, Sound
<1>2. CASE du.sessions[c].image = None
  <2>1. du' = du
    BY <1>2 DEF EndSession
  <2>. QED  BY <1>1, <2>1, WantedFacts
<1>3. CASE du.sessions[c].image # None
  <2>1. du.sessions[c].image = i /\ Alive(du, c)
    BY <1>3, WantedFacts, SettledFacts DEF Exists
  <2>2. /\ Ends(du, du', c) /\ du'.sessions[c].tag = du.sessions[c].tag
    BY <1>1, <2>1, EndSessionFacts
  <2>3. /\ Sound(du', extracted)
        /\ \A o \in Controllers : Alive(du', o) <=> Alive(du, o) /\ o # c
    BY <1>1, <2>1, <2>2, EndsSound
  <2>. QED  BY <2>1, <2>2, <2>3 DEF Ends
<1>. QED  BY <1>2, <1>3

\* A download is over, or its controller reboots or is paired again.
LEMMA EndsInvariant ==
    ASSUME UpdateAssumption, IInv, NEW c \in Controllers, NEW done \in BOOLEAN,
           DownloadCompleted(c, done) \/ Reboot(c) \/ Unload(c)
    PROVE  IInv'
<1>1. Settled(c) /\ UNCHANGED <<extracted, firing, resuming>>
  BY DEF DownloadCompleted, Reboot, Unload
<1>2. Sound(du, extracted) /\ firing.ctl # {c}
  BY <1>1, WantedFacts, SettledFacts DEF IInv
<1>3. /\ Sound(du', extracted)
      /\ \A o \in Controllers \ {c} : /\ du'.sessions[o] = du.sessions[o]
                                      /\ Alive(du, o) => Alive(du', o)
      /\ du'.sessions[c].image \in Wants[c] \cup {None}
  <2>1. CASE DownloadCompleted(c, done)
    <3>1. CASE ctl[c].progress
      BY <1>1, <2>1, <3>1, WantedFacts, EndSound DEF DownloadCompleted, Completed
    <3>2. CASE ~ctl[c].progress
      <4>1. du' = du
        BY <2>1, <3>2 DEF DownloadCompleted, Completed
      <4>. QED  BY <1>2, <4>1, WantedFacts
    <3>. QED  BY <3>1, <3>2
  <2>2. CASE Reboot(c)
    BY <1>1, <2>2, WantedFacts, EndSound DEF Reboot, Exists
  <2>3. CASE Unload(c)
    BY <1>1, <2>3, WantedFacts, EndSound DEF Unload
  <2>. QED  BY <2>1, <2>2, <2>3
<1>4. /\ ctl' \in [Controllers -> Told] /\ ctl'[c].image = None
      /\ \A o \in Controllers \ {c} : ctl'[o] = ctl[o]
  <2>1. ASSUME NEW t \in Told, ctl' = [ctl EXCEPT ![c] = t], t.image = None
        PROVE  /\ ctl' \in [Controllers -> Told] /\ ctl'[c].image = None
               /\ \A o \in Controllers \ {c} : ctl'[o] = ctl[o]
    BY <2>1, WantedFacts
  <2>2. CASE DownloadCompleted(c, done)
    <3>. DEFINE t == [image |-> None, progress |-> FALSE, over |-> TRUE, done |-> done]
    <3>1. t \in Told
      BY DEF Told
    <3>2. ctl' = [ctl EXCEPT ![c] = t]
      BY <2>2 DEF DownloadCompleted, Over
    <3>3. t.image = None
      OBVIOUS
    <3>. HIDE DEF t
    <3>. QED  BY <2>1, <3>1, <3>2, <3>3
  <2>3. CASE Reboot(c) \/ Unload(c)
    <3>. DEFINE x == None
                z == TRUE
                t == [image |-> x, progress |-> ctl[c].progress, over |-> z, done |-> ctl[c].done]
    <3>1. t \in Told /\ t.image = None
      BY WantedFacts DEF Told
    <3>2. ctl' = [ctl EXCEPT ![c].image = x, ![c].over = z]
      BY <2>3 DEF Reboot, Unload
    <3>. HIDE DEF x, z
    <3>3. ctl' = [ctl EXCEPT ![c] = t]
      BY <3>2, WantedFacts, ToldPut
    <3>. HIDE DEF t
    <3>. QED  BY <2>1, <3>1, <3>3
  <2>. QED  BY <2>2, <2>3
<1>5. stored' = stored \/ stored' = [stored EXCEPT ![c] = None]
  BY DEF DownloadCompleted, Reboot, Unload
<1>6. /\ stored' \in [Controllers -> Images \cup {None}] /\ stored'[c] \in Wants[c] \cup {None}
      /\ \A o \in Controllers \ {c} : stored'[o] = stored[o]
  BY <1>5, WantedFacts
<1>. QED  BY <1>1, <1>2, <1>3, <1>4, <1>6, WantedFacts, HandlerInvariant

\* A controller is resumed.
LEMMA ResumeInvariant ==
    ASSUME UpdateAssumption, IInv, NEW c \in Controllers, NEW manual \in BOOLEAN,
           ResumeSession(c, manual)
    PROVE  IInv'
<1>1. PICK i \in Wants[c], ready \in BOOLEAN :
         /\ Begin(c, i, manual, ready)
         /\ resuming' = IF ready THEN resuming \ {c} ELSE resuming
         /\ ctl' = IF ready THEN [ctl EXCEPT ![c].over = FALSE] ELSE ctl
  BY DEF ResumeSession
<1>2. Settled(c) /\ UNCHANGED <<extracted, firing, stored>>
  BY DEF ResumeSession
<1>3. /\ Sound(du', extracted) /\ (ready => Alive(du', c)) /\ (Alive(du, c) => Alive(du', c))
      /\ \A o \in Controllers \ {c} : /\ du'.sessions[o] = du.sessions[o]
                                      /\ Alive(du, o) => Alive(du', o)
      /\ du'.sessions[c].image \in Wants[c] \cup {None}
  BY <1>1, <1>2, BeginSound
<1>4. firing.ctl # {c}
  BY <1>2, SettledFacts, WantedFacts
<1>5. /\ ctl' \in [Controllers -> Told] /\ ctl'[c].image = ctl[c].image
      /\ \A o \in Controllers \ {c} : ctl'[o] = ctl[o]
      /\ ~ready => ctl' = ctl
  <2>. DEFINE t == [image |-> ctl[c].image, progress |-> ctl[c].progress, over |-> FALSE,
                    done |-> ctl[c].done]
  <2>1. t \in Told
    BY WantedFacts DEF Told
  <2>2. ready => ctl' = [ctl EXCEPT ![c] = t]
    BY <1>1, WantedFacts, ToldPut
  <2>3. t.image = ctl[c].image
    OBVIOUS
  <2>. HIDE DEF t
  <2>. QED  BY <1>1, <2>1, <2>2, <2>3, WantedFacts
<1>6. ctl'[c].image # None /\ ~ctl'[c].over => Alive(du', c)
  BY <1>3, <1>5 DEF IInv, Offered
<1>7. /\ resuming' \subseteq Controllers /\ ctl'[c].image \in Wants[c] \cup {None}
      /\ stored' \in [Controllers -> Images \cup {None}] /\ stored'[c] \in Wants[c] \cup {None}
      /\ \A o \in Controllers \ {c} : stored'[o] = stored[o]
  BY <1>1, <1>2, <1>5, WantedFacts
<1>. QED  BY <1>2, <1>3, <1>4, <1>5, <1>6, <1>7, HandlerInvariant

-----------------------------------------------------------------------------
(* The timer, the thread and restarts.                                     *)

\* The tag of the session of c is that of a source that has been dispatched.
LEMMA FiresTouches ==
    ASSUME NEW c \in Controllers, du \in Updates, du.voice <=> Foreground(du),
           du.sessions[c].tag = "armed", du' = [du EXCEPT !.sessions[c].tag = "fired"]
    PROVE  Touches(du, du', c, FALSE) /\ du'.sessions[c].tag = "fired"
<1>. DEFINE s == [du.sessions[c] EXCEPT !.tag = "fired"]
            e == [du EXCEPT !.sessions[c] = s]
<1>1. du.sessions[c] \in Sessions
  BY UpdatesFacts
<1>2. /\ s \in Sessions /\ s.image = du.sessions[c].image /\ s.file = du.sessions[c].file
      /\ s.param = du.sessions[c].param /\ s.waiting = du.sessions[c].waiting
      /\ s.downloading = du.sessions[c].downloading
      /\ s.background = du.sessions[c].background /\ s.tag = "fired"
  BY <1>1 DEF Sessions
<1>3. du' = e
  BY UpdatesFacts
<1>. HIDE DEF s
<1>4. /\ e \in Updates /\ e.sessions = [du.sessions EXCEPT ![c] = s]
      /\ e.count = du.count /\ e.active = du.active /\ e.readers = du.readers
      /\ e.queue = du.queue /\ e.voice = du.voice
  BY <1>2, SessionPut
<1>. HIDE DEF e
<1>5. e.sessions[c] = s /\ \A o \in Controllers \ {c} : e.sessions[o] = du.sessions[o]
  BY <1>4, UpdatesFacts
<1>6. Foreground(e) <=> Foreground(du)
  BY <1>2, <1>5 DEF Foreground
<1>7. e.sessions[c].waiting = (du.sessions[c].waiting \/ FALSE)
  <2>1. du.sessions[c].waiting \in BOOLEAN
    BY <1>1, SessionsFacts
  <2>. QED  BY <1>2, <1>5, <2>1
<1>8. Touches(du, e, c, FALSE)
  BY <1>2, <1>4, <1>5, <1>6, <1>7 DEF Touches, Keeps
<1>. QED  BY <1>2, <1>3, <1>5, <1>8

\* The main loop dispatches the timer of a session that goes on.
LEMMA TimerFiresInvariant ==
    ASSUME UpdateAssumption, IInv, TimerFires
    PROVE  IInv'
<1>1. /\ Sound(du, extracted) /\ du \in Updates /\ du.stray = {} /\ (du.voice <=> Foreground(du))
      /\ Filed(du)
  BY UpdatesFacts DEF IInv, Sound
<1>2. PICK c \in Controllers :
         /\ du.sessions[c].tag = "armed" /\ (Quick => Live(c))
         /\ firing' = [ctl |-> {c}, image |-> du.sessions[c].param]
         /\ du' = [du EXCEPT !.sessions[c].tag = "fired"]
  BY <1>1 DEF TimerFires
<1>3. UNCHANGED <<extracted, ctl, stored, resuming>>
  BY DEF TimerFires
<1>4. Alive(du, c) /\ du.sessions[c].param = du.sessions[c].image
  <2>1. Live(c)
    BY <1>2 DEF UpdateAssumption
  <2>. QED  BY <1>1, <1>2, <2>1, LiveIsAlive DEF Filed
<1>5. Touches(du, du', c, FALSE) /\ du'.sessions[c].tag = "fired"
  BY <1>1, <1>2, FiresTouches
<1>6. /\ Sound(du', extracted)
      /\ \A o \in Controllers : /\ Alive(du', o) <=> Alive(du, o)
                                /\ du'.sessions[o].image = du.sessions[o].image
  <2>. DEFINE last == FALSE
  <2>1. Touches(du, du', c, last) /\ last \in BOOLEAN /\ ~last
    BY <1>5
  <2>. HIDE DEF last
  <2>. QED  BY <1>1, <1>4, <2>1, TouchesSound
<1>7. Timed'
  <2>1. firing' = [ctl |-> {c}, image |-> du'.sessions[c].image]
    BY <1>2, <1>4, <1>6
  <2>2. Alive(du', c)
    BY <1>4, <1>6
  <2>. QED  BY <1>5, <2>1, <2>2 DEF Timed
<1>8. Types' /\ Wanted' /\ Offered'
  BY <1>3, <1>6 DEF IInv, Types, Wanted, Offered
<1>9. Sound(du, extracted)'
  BY <1>3, <1>6
<1>. QED  BY <1>7, <1>8, <1>9 DEF IInv

\* The callback of a timer ends the session it was for.
LEMMA TimerRunsInvariant ==
    ASSUME UpdateAssumption, IInv, TimerRuns
    PROVE  IInv'
<1>1. /\ Sound(du, extracted) /\ du \in Updates /\ (du.voice <=> Foreground(du))
  BY DEF IInv, Sound
<1>2. PICK c \in Controllers :
         /\ \A o \in firing.ctl : Exists(o) => c = o
         /\ IF Exists(c)
              THEN /\ du' = TimedOut(c, firing.image)
                   /\ ctl' = [ctl EXCEPT ![c].over = TRUE]
              ELSE du' = [du EXCEPT !.sessions[c] = Phantom] /\ ctl' = ctl
  BY DEF TimerRuns
<1>3. firing # NoTimer /\ firing' = NoTimer /\ UNCHANGED <<extracted, stored, resuming>>
  BY DEF TimerRuns
<1>4. firing.image = du.sessions[c].image /\ Alive(du, c) /\ du.sessions[c].tag = "fired" /\ Exists(c)
  <2>1. PICK o \in Controllers : /\ firing = [ctl |-> {o}, image |-> du.sessions[o].image]
                                 /\ Alive(du, o) /\ du.sessions[o].tag = "fired"
    BY <1>3 DEF IInv, Timed
  <2>2. o \in firing.ctl /\ Exists(o) /\ firing.image = du.sessions[o].image
    BY <2>1 DEF Alive, Exists
  <2>3. o = c
    BY <1>2, <2>2
  <2>. QED  BY <2>1, <2>2, <2>3
<1>5. du.sessions[c].image \in Wants[c] /\ du.sessions[c].image \in Images
  BY <1>4, WantedFacts DEF Exists
<1>6. Ends(du, du', c) /\ du'.sessions[c].tag = "none"
  BY <1>1, <1>2, <1>4, <1>5, TimedOutFacts
<1>7. /\ Sound(du', extracted)
      /\ \A o \in Controllers : Alive(du', o) <=> Alive(du, o) /\ o # c
  BY <1>1, <1>4, <1>5, <1>6, EndsSound
<1>8. \A o \in Controllers : du'.sessions[o].image = du.sessions[o].image
  BY <1>6 DEF Ends
<1>9. /\ ctl' \in [Controllers -> Told] /\ ctl'[c].image = ctl[c].image
      /\ ctl'[c].over /\ \A o \in Controllers \ {c} : ctl'[o] = ctl[o]
  <2>. DEFINE t == [image |-> ctl[c].image, progress |-> ctl[c].progress, over |-> TRUE,
                    done |-> ctl[c].done]
  <2>1. t \in Told
    BY WantedFacts DEF Told
  <2>2. ctl' = [ctl EXCEPT ![c] = t]
    BY <1>2, <1>4, WantedFacts, ToldPut
  <2>3. t.image = ctl[c].image /\ t.over
    OBVIOUS
  <2>. HIDE DEF t
  <2>. QED  BY <2>1, <2>2, <2>3, WantedFacts
<1>10. Types'
  BY <1>3, <1>9 DEF IInv, Types
<1>11. Wanted'
  BY <1>3, <1>8, <1>9 DEF IInv, Wanted
<1>12. Offered'
  BY <1>7, <1>9 DEF IInv, Offered
<1>13. Timed' /\ Sound(du, extracted)'
  BY <1>3, <1>7 DEF Timed
<1>. QED  BY <1>10, <1>11, <1>12, <1>13 DEF IInv

\* The thread handles a message.
LEMMA ThreadInvariant ==
    ASSUME UpdateAssumption, IInv, Thread
    PROVE  IInv'
<1>. DEFINE m == Head(du.queue)
<1>1. Sound(du, extracted) /\ du \in Updates
  BY DEF IInv, Sound
<1>2. /\ Serves(du, du', m)
      /\ \E h : /\ Traces(h, du.queue, extracted, du.readers)
                /\ \A i \in Images : i \in extracted' <=> h[1][i] > 0
  BY <1>1, StageServes, UnstageServes DEF Thread
<1>3. /\ Sound(du', extracted')
      /\ \A o \in Controllers :
            /\ Alive(du', o) <=> Alive(du, o)
            /\ Alive(du, o) => /\ du'.sessions[o].image = du.sessions[o].image
                               /\ du'.sessions[o].tag = du.sessions[o].tag
            /\ du'.sessions[o].image \in {None, du.sessions[o].image}
  BY <1>1, <1>2, ServesSound
<1>4. UNCHANGED <<firing, ctl, stored, resuming>>
  BY DEF Thread, ThreadStage, ThreadUnstage
<1>5. extracted' \subseteq Images
  <2>1. m.image \in Images
    BY <1>2, MessagesFacts DEF Serves
  <2>2. extracted \subseteq Images
    BY DEF IInv, Types
  <2>. QED  BY <2>1, <2>2 DEF Thread, ThreadStage, ThreadUnstage, Left
<1>6. Types'
  BY <1>4, <1>5 DEF IInv, Types
<1>7. Wanted' /\ Offered'
  BY <1>3, <1>4 DEF IInv, Wanted, Offered
<1>8. Timed'
  <2>1. CASE firing = NoTimer
    BY <1>4, <2>1 DEF Timed
  <2>2. CASE firing # NoTimer
    <3>1. PICK o \in Controllers : /\ firing = [ctl |-> {o}, image |-> du.sessions[o].image]
                                   /\ Alive(du, o) /\ du.sessions[o].tag = "fired"
      BY <2>2 DEF IInv, Timed
    <3>2. /\ firing' = [ctl |-> {o}, image |-> du'.sessions[o].image]
          /\ Alive(du', o) /\ du'.sessions[o].tag = "fired"
      BY <1>3, <1>4, <3>1
    <3>. QED  BY <3>2 DEF Timed
  <2>. QED  BY <2>1, <2>2
<1>9. Sound(du, extracted)'
  BY <1>3
<1>. QED  BY <1>6, <1>7, <1>8, <1>9 DEF IInv

\* A file that nobody downloads is announced: its archive is not extracted.
LEMMA AnnouncedInvariant ==
    ASSUME UpdateAssumption, IInv, NEW i \in Announced, ThreadAnnounced(i)
    PROVE  IInv'
<1>1. PICK h : Traces(h, du.queue, extracted, du.readers)
  BY DEF IInv, Sound, Traced
<1>2. i \in Images /\ Len(du.queue) \in Nat
  BY ControllersAssumption, QueueFacts DEF IInv, Sound
<1>3. h[0][i] = 0 /\ (i \in extracted <=> h[0][i] > 0)
  BY <1>1, <1>2 DEF Traces
<1>4. UNCHANGED <<du, extracted, firing, ctl, stored, resuming>>
  BY <1>3 DEF ThreadAnnounced
<1>. QED  BY <1>4 DEF IInv, Types, Wanted, Timed, Offered

\* Nobody has a session, and nothing is extracted.
LEMMA NothingSound ==
    ASSUME UpdateAssumption
    PROVE  Sound(InitDu, {}) /\ \A c \in Controllers : InitDu.sessions[c].image = None
<1>. DEFINE S == [Controllers -> Sessions]
            R == [Images -> Int]
            Q == Seq(Messages)
            A == 0..ActiveMax
            ss == [c \in Controllers |-> NoSession]
            r == [i \in Images |-> 0]
            q == <<>>
            h == [k \in 0..0 |-> [i \in Images |-> 0]]
            d == [sessions |-> ss, count |-> 0, active |-> 0, readers |-> r, queue |-> q,
                  stray |-> {}, voice |-> FALSE]
<1>1. InitDu = d
  BY DEF InitDu
<1>2. ss \in S /\ r \in R /\ q \in Q /\ 0 \in A /\ 0 \in Int /\ {} \in {{}} /\ FALSE \in BOOLEAN
  BY NoSessionFacts, PreferencesAssumption
<1>3. \A c \in Controllers : ss[c] = NoSession
  OBVIOUS
<1>4. Len(q) = 0 /\ 1..Len(q) = {}
  OBVIOUS
<1>5. \A i \in Images : r[i] = 0
  OBVIOUS
<1>6. Traces(h, q, {}, r)
  <2>1. h \in [0..Len(q) -> [Images -> Nat]] /\ h[0] = r /\ \A i \in Images : h[0][i] = 0
    BY <1>4
  <2>2. \A k \in 0..Len(q) : k = 0
    BY <1>4
  <2>. QED  BY <1>4, <2>1, <2>2 DEF Traces
<1>. HIDE DEF ss, r, q, h
<1>7. /\ d.sessions = ss /\ d.count = 0 /\ d.active = 0 /\ d.readers = r /\ d.queue = q
      /\ ~d.voice
  OBVIOUS
<1>8. d \in Updates
  <2>1. d \in [sessions : S, count : Int, active : A, readers : R, queue : Q, stray : {{}},
               voice : BOOLEAN]
    <3>. HIDE DEF S, R, Q, A
    <3>. QED  BY <1>2
  <2>. QED  BY <2>1 DEF Updates
<1>. HIDE DEF d
<1>9. \A c \in Controllers : ~Alive(d, c)
  BY <1>3, <1>7, NoSessionFacts DEF Alive
<1>10. Ordered(d) /\ Filed(d)
  BY <1>3, <1>4, <1>7, NoSessionFacts DEF Ordered, Filed
<1>11. Counted(d)
  <2>1. All(d) = {} /\ Busy(d) = {} /\ \A i : On(d, i) = {}
    BY <1>9 DEF All, Busy, On
  <2>. QED  BY <1>5, <1>7, <2>1, FS_EmptySet DEF Counted
<1>12. d.voice <=> Foreground(d)
  BY <1>3, <1>7, NoSessionFacts DEF Foreground
<1>13. Sound(d, {})
  BY <1>6, <1>7, <1>8, <1>10, <1>11, <1>12 DEF Sound, Traced
<1>. QED  BY <1>1, <1>3, <1>7, <1>13, NoSessionFacts

\* The start.
LEMMA InitInvariant ==
    ASSUME UpdateAssumption, Init
    PROVE  IInv
<1>1. /\ Sound(du, extracted) /\ firing = NoTimer /\ resuming = {}
      /\ \A c \in Controllers : du.sessions[c].image = None
      /\ ctl = [c \in Controllers |->
                  [image |-> None, progress |-> FALSE, over |-> FALSE, done |-> FALSE]]
      /\ stored = [c \in Controllers |-> None] /\ extracted = {}
  BY NothingSound DEF Init
<1>2. Types
  BY <1>1 DEF Types, Told
<1>3. Wanted /\ Timed /\ Offered
  BY <1>1 DEF Wanted, Timed, Offered
<1>. QED  BY <1>1, <1>2, <1>3 DEF IInv

\* A restart: what is stored is kept.
LEMMA RestartInvariant ==
    ASSUME UpdateAssumption, IInv, Restart
    PROVE  IInv'
<1>1. /\ du' = InitDu /\ extracted' = {} /\ firing' = NoTimer /\ stored' = stored
      /\ resuming' \subseteq Controllers
      /\ ctl' = [c \in Controllers |->
                   [image |-> IF c \in Resume THEN ctl[c].image ELSE None,
                    progress |-> FALSE, over |-> TRUE, done |-> ctl[c].done]]
  BY DEF Restart
<1>2. Sound(du', extracted') /\ \A c \in Controllers : du'.sessions[c].image = None
  BY <1>1, NothingSound
<1>3. ctl' \in [Controllers -> Told]
      /\ \A c \in Controllers : ctl'[c].image \in Wants[c] \cup {None} /\ ctl'[c].over
  <2>1. ASSUME NEW c \in Controllers
        PROVE  /\ [image |-> IF c \in Resume THEN ctl[c].image ELSE None,
                   progress |-> FALSE, over |-> TRUE, done |-> ctl[c].done] \in Told
               /\ (IF c \in Resume THEN ctl[c].image ELSE None) \in Wants[c] \cup {None}
    BY WantedFacts DEF Told
  <2>. QED  BY <1>1, <2>1
<1>4. Types'
  BY <1>1, <1>3 DEF IInv, Types
<1>5. Wanted'
  BY <1>1, <1>2, <1>3 DEF IInv, Wanted
<1>6. Timed' /\ Offered' /\ Sound(du, extracted)'
  BY <1>1, <1>2, <1>3 DEF Timed, Offered
<1>. QED  BY <1>4, <1>5, <1>6 DEF IInv

\* Each step keeps the invariant.
LEMMA StepInvariant ==
    ASSUME UpdateAssumption, IInv, [Next]_vars
    PROVE  IInv'
<1>1. CASE \E c \in Controllers : Main(c)
  <2>1. PICK c \in Controllers : Main(c)
    BY <1>1
  <2>2. ~\E flag \in BOOLEAN : DownloadStart(c, flag)
    BY DEF DownloadStart, UpdateAssumption
  <2>3. CASE \E i \in Images, manual \in BOOLEAN : ImageCheck(c, i, manual)
    BY <2>3, ImageCheckInvariant
  <2>4. CASE \E flag \in BOOLEAN : DataRequest(c, flag) \/ LoadRequest(c)
    BY <2>4, RequestsInvariant
  <2>5. CASE \E flag \in BOOLEAN : DownloadCompleted(c, flag) \/ Reboot(c) \/ Unload(c)
    BY <2>5, EndsInvariant
  <2>6. CASE \E flag \in BOOLEAN : ResumeSession(c, flag)
    BY <2>6, ResumeInvariant
  <2>7. TRUE \in BOOLEAN
    OBVIOUS
  <2>. QED  BY <2>1, <2>2, <2>3, <2>4, <2>5, <2>6, <2>7, Zenon DEF Main
<1>2. CASE Thread
  BY <1>2, ThreadInvariant
<1>3. CASE Timer
  BY <1>3, TimerFiresInvariant, TimerRunsInvariant DEF Timer
<1>4. CASE \E i \in Announced : ThreadAnnounced(i)
  BY <1>4, AnnouncedInvariant
<1>5. CASE Restart
  BY <1>5, RestartInvariant
<1>6. CASE UNCHANGED vars
  BY <1>6 DEF vars, IInv, Types, Wanted, Timed, Offered
<1>. QED  BY <1>1, <1>2, <1>3, <1>4, <1>5, <1>6 DEF Next

-----------------------------------------------------------------------------
(* What the invariant implies.                                             *)

\* The invariant implies the properties.
LEMMA InvariantIsSound ==
    ASSUME UpdateAssumption, IInv
    PROVE  UpdateSound
<1>1. /\ du \in Updates /\ Ordered(du) /\ Filed(du) /\ Counted(du) /\ Traced(du, extracted)
      /\ du.voice <=> Foreground(du)
  BY DEF IInv, Sound
<1>2. \A c \in Controllers : Live(c) <=> Alive(du, c)
  BY <1>1, LiveIsAlive
<1>3. TypeOK
  <2>1. ASSUME NEW c \in Controllers
        PROVE  /\ du.sessions[c].image \in Images \cup {None}
               /\ du.sessions[c].file \in Images \cup {None, Failed}
               /\ du.sessions[c].param \in Images \cup {None}
               /\ du.sessions[c].tag \in {"none", "armed", "fired"}
    <3>1. du.sessions[c] \in Sessions
      BY <1>1, UpdatesFacts
    <3>. QED  BY <3>1, SessionsFacts
  <2>2. du.count \in Int /\ du.active \in 0..ActiveMax /\ du.readers \in [Images -> Int]
    BY <1>1, UpdatesFacts
  <2>3. firing.ctl \subseteq Controllers
    BY DEF IInv, Timed, NoTimer
  <2>. QED  BY <2>1, <2>2, <2>3 DEF IInv, Types, TypeOK
<1>4. CountsMatch
  <2>1. \A i \in Images : LiveOn(i) = On(du, i)
    BY <1>2 DEF LiveOn, On
  <2>2. {c \in Controllers : Live(c)} = All(du) /\ Loading = Busy(du)
    BY <1>2 DEF All, Loading, Busy
  <2>. QED  BY <1>1, <2>1, <2>2 DEF Counted, CountsMatch
<1>5. DownloadsBounded
  <2>1. du.active = Cardinality(Loading)
    BY <1>4 DEF CountsMatch
  <2>2. du.active \in 0..ActiveMax /\ ActiveMax \in Nat
    BY <1>1, UpdatesFacts, PreferencesAssumption
  <2>. QED  BY <2>1, <2>2 DEF DownloadsBounded
<1>6. StageFindsArchive
  <2>1. ASSUME NEW c \in Controllers PROVE du.sessions[c].file # Failed
    <3>1. du.sessions[c].file \in {None, du.sessions[c].image}
      BY <1>1 DEF Filed
    <3>2. du.sessions[c].image \in Images \cup {None}
      BY <1>3 DEF TypeOK
    <3>. QED  BY <3>1, <3>2, NoneFacts
  <2>. QED  BY <2>1 DEF StageFindsArchive
<1>7. ArchivesMatch
  <2>. SUFFICES ASSUME du.queue = <<>>, NEW i \in Images
                PROVE  i \in extracted <=> LiveOn(i) # {}
    BY DEF ArchivesMatch, IInv, Types
  <2>1. PICK h : Traces(h, du.queue, extracted, du.readers)
    BY <1>1 DEF Traced
  <2>2. i \in extracted <=> du.readers[i] > 0
    BY <2>1 DEF Traces
  <2>3. du.readers[i] = Cardinality(LiveOn(i))
    BY <1>4 DEF CountsMatch
  <2>4. IsFiniteSet(LiveOn(i)) /\ Cardinality(LiveOn(i)) \in Nat
    <3>1. LiveOn(i) = On(du, i)
      BY <1>2 DEF LiveOn, On
    <3>. QED  BY <3>1, FiniteSessions DEF UpdateAssumption
  <2>5. Cardinality(LiveOn(i)) = 0 <=> LiveOn(i) = {}
    BY <2>4, FS_EmptySet
  <2>. QED  BY <2>2, <2>3, <2>4, <2>5
<1>8. VoiceOffInForeground
  BY <1>1 DEF VoiceOffInForeground, Foreground
<1>9. AvailableIsStaged
  <2>. SUFFICES ASSUME NEW c \in Controllers, ctl[c].image # None, ~ctl[c].over
                PROVE  \/ du.sessions[c].file = ctl[c].image
                       \/ \E m \in Queued("stage", c) : m.image = ctl[c].image
    BY DEF AvailableIsStaged
  <2>1. Alive(du, c)
    BY DEF IInv, Offered
  <2>2. du.sessions[c].image = ctl[c].image /\ du.sessions[c].image # None
    BY <2>1, WantedFacts DEF Alive
  <2>3. CASE du.sessions[c].file # None
    BY <1>1, <2>2, <2>3 DEF Filed
  <2>4. CASE du.sessions[c].file = None
    <3>1. PICK k \in 1..Len(du.queue) : du.queue[k].type = "stage" /\ du.queue[k].ctl = c
      BY <1>1, <2>2, <2>4 DEF Filed
    <3>2. du.queue[k].image = du.sessions[c].image
      BY <1>1, <3>1 DEF Ordered
    <3>3. DOMAIN du.queue = 1..Len(du.queue)
      BY <1>1, QueueFacts
    <3>4. du.queue[k] \in Queued("stage", c)
      BY <3>1, <3>3 DEF Queued
    <3>. QED  BY <2>2, <3>2, <3>4
  <2>. QED  BY <2>3, <2>4
<1>. QED  BY <1>3, <1>4, <1>5, <1>6, <1>7, <1>8, <1>9 DEF UpdateSound

\* However the sessions of ctrlm_device_update begin, end and overlap, and whatever its thread
\* has still to do, the counts are those of the sessions, no session fails to find its archive,
\* voice is off in foreground downloads, and what a controller was told of is staged or will be.
THEOREM SessionsMatch ==
    ASSUME UpdateAssumption
    PROVE  Spec => []UpdateSound
<1>1. Init => IInv
  BY InitInvariant
<1>2. IInv /\ [Next]_vars => IInv'
  BY StepInvariant
<1>3. IInv => UpdateSound
  BY InvariantIsSound
<1>. QED  BY <1>1, <1>2, <1>3, PTL DEF Spec

-----------------------------------------------------------------------------
(* What is staged was initiated, and what is finished is ended, for any      *)
(* choice of the constants.                                                *)

DuFields == {"sessions", "count", "active", "readers", "queue", "stray", "voice"}
SessionFields ==
    {"image", "file", "downloading", "waiting", "initiated", "background", "tag", "param"}

\* du has its fields, and its queue is a sequence of whatever it holds.
IsQueue(q) == \E S : q \in Seq(S)
Framed(d) ==
    /\ DOMAIN d = DuFields /\ DOMAIN d.sessions = Controllers
    /\ \A c \in Controllers : DOMAIN d.sessions[c] = SessionFields
    /\ IsQueue(d.queue)

\* A session is staged while it is there, and it was initiated; a message that will delete
\* it comes after.
StageOk(d, k) ==
    LET c == d.queue[k].ctl
    IN  /\ c \in Controllers /\ d.sessions[c].image # None /\ d.sessions[c].initiated
        /\ \A j \in 1 .. k - 1 : ~(d.queue[j].type = "unstage" /\ d.queue[j].ctl = c)
Initiated(d) ==
    /\ \A k \in 1 .. Len(d.queue) : d.queue[k].type = "stage" => StageOk(d, k)
    /\ \A c \in Controllers : d.sessions[c].file # None => d.sessions[c].initiated

\* It is so where downloads wait for the application, and the thread is quick.
Right(d) == Interactive /\ Quick => Initiated(d)

\* A step that leaves the queue and what the sessions are.
SessionKept(s, t) == t.image = s.image /\ t.file = s.file /\ (s.initiated => t.initiated)
Leaves(d, e) ==
    /\ Framed(e) /\ e.queue = d.queue
    /\ \A c \in Controllers : SessionKept(d.sessions[c], e.sessions[c])

\* A step that leaves the sessions, and asks to delete one of them, if it is there.
Deletes(d, e, c) ==
    /\ Framed(e) /\ \A o \in Controllers : SessionKept(d.sessions[o], e.sessions[o])
    /\ IF d.sessions[c].image = None THEN e.queue = d.queue
       ELSE \E m : e.queue = Append(d.queue, m) /\ m.type = "unstage" /\ m.ctl = c

\* What is appended to the queue of du.
LEMMA QueueAppend ==
    ASSUME NEW q, IsQueue(q), NEW m
    PROVE  /\ IsQueue(Append(q, m))
           /\ Len(q) \in Nat /\ Len(Append(q, m)) = Len(q) + 1
           /\ \A i \in 1 .. Len(q) : Append(q, m)[i] = q[i]
           /\ Append(q, m)[Len(q) + 1] = m
           /\ DOMAIN q = 1 .. Len(q) /\ DOMAIN Append(q, m) = 1 .. Len(q) + 1
<1>1. PICK S : q \in Seq(S)  BY DEF IsQueue
<1>2. q \in Seq(S \cup {m})
  <2>1. \A i \in 1 .. Len(q) : q[i] \in S \cup {m}  BY <1>1, ElementOfSeq
  <2>2. Len(q) \in Nat /\ q \in [1 .. Len(q) -> S]  BY <1>1, LenProperties
  <2>3. q \in [1 .. Len(q) -> S \cup {m}]  BY <2>1, <2>2
  <2>. QED  BY <2>2, <2>3, SeqDef
<1>3. m \in S \cup {m}  OBVIOUS
<1>4. Append(q, m) \in Seq(S \cup {m})  BY <1>2, <1>3, AppendProperties
<1>. QED  BY <1>2, <1>3, <1>4, AppendProperties, LenProperties DEF IsQueue

\* A part of du that no session is about.
LEMMA OtherLeaves ==
    ASSUME NEW d, Framed(d), NEW e,
           DOMAIN e = DOMAIN d, e.sessions = d.sessions, e.queue = d.queue
    PROVE  Leaves(d, e)
BY DEF Framed, Leaves, SessionKept

\* A session that is changed in a part of it.
LEMMA PutLeaves ==
    ASSUME NEW d, Framed(d), NEW c \in Controllers, NEW s,
           DOMAIN s = SessionFields, SessionKept(d.sessions[c], s)
    PROVE  LET e == [d EXCEPT !.sessions[c] = s] IN Leaves(d, e) /\ e.sessions[c] = s
<1>. DEFINE e == [d EXCEPT !.sessions[c] = s]
<1>1. /\ DOMAIN e = DuFields /\ e.queue = d.queue
      /\ e.sessions = [d.sessions EXCEPT ![c] = s]
  BY DEF Framed, DuFields
<1>2. /\ DOMAIN e.sessions = Controllers /\ e.sessions[c] = s
      /\ \A o \in Controllers : o # c => e.sessions[o] = d.sessions[o]
  BY <1>1 DEF Framed
<1>3. Framed(e)
  BY <1>1, <1>2 DEF Framed
<1>. HIDE DEF e
<1>4. Leaves(d, e) /\ e.sessions[c] = s
  BY <1>1, <1>2, <1>3 DEF Leaves, SessionKept
<1>. QED  BY <1>4 DEF e

\* One after the other.
LEMMA LeavesTwice ==
    ASSUME NEW d, NEW e, NEW f, Leaves(d, e), Leaves(e, f)
    PROVE  Leaves(d, f)
BY DEF Leaves, SessionKept

\* What was initiated stays so, when nothing is staged ...
LEMMA LeavesInitiated ==
    ASSUME NEW d, Framed(d), NEW e, Leaves(d, e)
    PROVE  Framed(e) /\ (Initiated(d) => Initiated(e))
BY DEF Leaves, SessionKept, Initiated, StageOk

\* ... and when a session is to be deleted.
LEMMA DeletesInitiated ==
    ASSUME NEW d, Framed(d), NEW c \in Controllers, NEW e, Deletes(d, e, c)
    PROVE  Framed(e) /\ (Initiated(d) => Initiated(e))
<1>1. CASE e.queue = d.queue
  BY <1>1, LeavesInitiated DEF Deletes, Leaves
<1>2. ASSUME NEW m, e.queue = Append(d.queue, m), m.type = "unstage", Initiated(d) PROVE Initiated(e)
  <2>. DEFINE n == Len(d.queue)
  <2>1. /\ n \in Nat /\ Len(e.queue) = n + 1 /\ e.queue[n + 1] = m
        /\ \A i \in 1 .. n : e.queue[i] = d.queue[i]
    BY <1>2, QueueAppend DEF Framed
  <2>2. ASSUME NEW k \in 1 .. n + 1, e.queue[k].type = "stage" PROVE StageOk(e, k)
    <3>1. k \in 1 .. n /\ e.queue[k] = d.queue[k]
      <4>1. k # n + 1  BY <1>2, <2>1, <2>2
      <4>. QED  BY <2>1, <4>1
    <3>2. \A j \in 1 .. k - 1 : e.queue[j] = d.queue[j]
      <4>1. \A j \in 1 .. k - 1 : j \in 1 .. n  BY <2>1, <3>1
      <4>. QED  BY <2>1, <4>1
    <3>3. StageOk(d, k)  BY <1>2, <2>2, <3>1 DEF Initiated
    <3>. QED  BY <3>1, <3>2, <3>3 DEF StageOk, Deletes, SessionKept
  <2>3. \A o \in Controllers : e.sessions[o].file # None => e.sessions[o].initiated
    BY <1>2 DEF Initiated, Deletes, SessionKept
  <2>. QED  BY <2>1, <2>2, <2>3 DEF Initiated
<1>. QED  BY <1>1, <1>2 DEF Deletes

-----------------------------------------------------------------------------
(* Parts of the handlers.                                                  *)

\* Putting the timer off leaves the sessions and the queue.
LEMMA RearmLeaves ==
    ASSUME NEW d, Framed(d), NEW c \in Controllers PROVE Leaves(d, Rearm(d, c))
<1>1. CASE d.sessions[c].tag = "none"
  BY <1>1, OtherLeaves DEF Rearm
<1>2. CASE d.sessions[c].tag # "none"
  <2>. DEFINE s == [d.sessions[c] EXCEPT !.tag = "armed"]
  <2>1. DOMAIN s = SessionFields /\ SessionKept(d.sessions[c], s)
    BY DEF Framed, SessionFields, SessionKept
  <2>2. Rearm(d, c) = [d EXCEPT !.sessions[c] = s]  BY <1>2 DEF Rearm
  <2>. QED  BY <2>1, <2>2, PutLeaves
<1>. QED  BY <1>1, <1>2

\* So does the end of a download.
LEMMA DownloadCompleteLeaves ==
    ASSUME NEW d, Framed(d), NEW c \in Controllers PROVE Leaves(d, DownloadComplete(d, c))
<1>. DEFINE others == {o \in Controllers \ {c} : d.sessions[o].downloading /\ ~d.sessions[o].background}
            s == [d.sessions[c] EXCEPT !.downloading = FALSE]
            e == [d EXCEPT !.sessions[c] = s]
            t == [s EXCEPT !.background = Background]
            f == [e EXCEPT !.sessions[c] = t]
            g == [f EXCEPT !.voice = @ /\ others # {}]
<1>1. DOMAIN s = SessionFields /\ SessionKept(d.sessions[c], s)
  BY DEF Framed, SessionFields, SessionKept
<1>2. DOMAIN t = SessionFields /\ SessionKept(s, t)
  BY <1>1 DEF SessionFields, SessionKept
<1>. HIDE DEF s, t
<1>3. Leaves(d, e) /\ e.sessions[c] = s
  BY <1>1, PutLeaves
<1>4. Framed(e)  BY <1>3 DEF Leaves
<1>. HIDE DEF e
<1>5. Leaves(e, f)
  BY <1>2, <1>3, <1>4, PutLeaves
<1>6. Framed(f)  BY <1>5 DEF Leaves
<1>. HIDE DEF f
<1>7. DOMAIN g = DOMAIN f /\ g.sessions = f.sessions /\ g.queue = f.queue
  BY <1>6 DEF Framed, DuFields
<1>8. Leaves(f, g)
  <2>. HIDE DEF g
  <2>. QED  BY <1>6, <1>7, OtherLeaves
<1>. HIDE DEF g
<1>9. DownloadComplete(d, c) \in {d, e, g}
  BY <1>3, <1>4 DEF DownloadComplete, e, f, g, s, t, Framed, DuFields
<1>10. Leaves(d, d)  BY OtherLeaves
<1>11. Leaves(d, g)  BY <1>3, <1>5, <1>8, LeavesTwice
<1>. QED  BY <1>3, <1>9, <1>10, <1>11

\* The end of a session asks the thread to delete it.
LEMMA EndSessionDeletes ==
    ASSUME NEW d, Framed(d), NEW c \in Controllers, NEW i PROVE Deletes(d, EndSession(d, c, i), c)
<1>. DEFINE e == DownloadComplete(d, c)
            f == [e EXCEPT !.active = IF d.sessions[c].waiting THEN @ ELSE LessOne(@),
                           !.count = @ - 1, !.readers[i] = @ - 1]
            m == UnstageMsg(f, c, i)
            g == [f EXCEPT !.queue = Append(@, m)]
<1>1. CASE d.sessions[c].image = None
  <2>1. EndSession(d, c, i) = d  BY <1>1 DEF EndSession
  <2>. QED  BY <1>1, <2>1 DEF Deletes, SessionKept
<1>2. CASE d.sessions[c].image # None
  <2>1. EndSession(d, c, i) = g  BY <1>2 DEF EndSession
  <2>2. Leaves(d, e)  BY DownloadCompleteLeaves
  <2>. HIDE DEF e
  <2>3. DOMAIN f = DOMAIN e /\ f.sessions = e.sessions /\ f.queue = e.queue
    BY <2>2 DEF Leaves, Framed, DuFields
  <2>. HIDE DEF f
  <2>4. Leaves(e, f)  BY <2>2, <2>3, OtherLeaves DEF Leaves
  <2>5. Leaves(d, f)  BY <2>2, <2>4, LeavesTwice
  <2>6. m.type = "unstage" /\ m.ctl = c  BY DEF UnstageMsg, StageMsg
  <2>. HIDE DEF m
  <2>7. DOMAIN g = DuFields /\ g.sessions = f.sessions /\ g.queue = Append(f.queue, m)
    BY <2>5 DEF Leaves, Framed, DuFields
  <2>. HIDE DEF g
  <2>8. IsQueue(Append(f.queue, m))  BY <2>5, QueueAppend DEF Leaves, Framed
  <2>9. Framed(g)  BY <2>5, <2>7, <2>8 DEF Framed, Leaves
  <2>. QED  BY <1>2, <2>1, <2>5, <2>6, <2>7, <2>9 DEF Deletes, Leaves
<1>. QED  BY <1>1, <1>2

\* A session that began: it is there, and if it was started it was staged after it was initiated.
LEMMA BeginInitiated ==
    ASSUME Framed(du), Right(du),
           NEW c \in Controllers, NEW i \in Images, NEW manual \in BOOLEAN, NEW ready \in BOOLEAN,
           Settled(c), Begin(c, i, manual, ready)
    PROVE  Framed(du') /\ Right(du')
<1>. DEFINE a == Acquired(c, i)
            n == Len(du.queue)
<1>1. i # None  BY ControllersAssumption DEF None
<1>2. Quick => Queued("unstage", c) = {}  BY DEF Settled
<1>3. n \in Nat /\ DOMAIN du.queue = 1 .. n
  <2>1. PICK S : du.queue \in Seq(S)  BY DEF Framed, IsQueue
  <2>. QED  BY <2>1, LenProperties
<1>4. Quick => \A k \in 1 .. n : ~(du.queue[k].type = "unstage" /\ du.queue[k].ctl = c)
  BY <1>2, <1>3 DEF Queued
<1>5. /\ Framed(a) /\ Right(a) /\ a.queue = du.queue /\ a.sessions[c].image # None
      /\ a.sessions[c] \in {du.sessions[c], NewSession(i)}
  <2>1. CASE Exists(c)
    BY <2>1 DEF Acquired, Exists
  <2>2. CASE ~Exists(c)
    <3>. DEFINE s == NewSession(i)
    <3>1. a = [du EXCEPT !.count = @ + 1, !.active = @ + 1, !.readers[i] = @ + 1, !.sessions[c] = s]
      BY <2>2 DEF Acquired
    <3>2. DOMAIN s = SessionFields /\ s.image = i /\ s.file = None
      BY DEF NewSession, SessionFields
    <3>. HIDE DEF s
    <3>3. /\ DOMAIN a = DuFields /\ a.sessions = [du.sessions EXCEPT ![c] = s] /\ a.queue = du.queue
      BY <3>1 DEF Framed, DuFields
    <3>. HIDE DEF a
    <3>4. /\ DOMAIN a.sessions = Controllers /\ a.sessions[c] = s
          /\ \A o \in Controllers : o # c => a.sessions[o] = du.sessions[o]
      BY <3>3 DEF Framed
    <3>5. Framed(a)  BY <3>2, <3>3, <3>4 DEF Framed
    <3>6. ASSUME Interactive, Quick PROVE Initiated(a)
      <4>0. Initiated(du)  BY <3>6 DEF Right
      <4>1. ASSUME NEW k \in 1 .. n, du.queue[k].type = "stage" PROVE StageOk(a, k)
        <5>1. StageOk(du, k)  BY <4>0, <4>1 DEF Initiated
        <5>2. du.queue[k].ctl # c  BY <5>1, <2>2 DEF StageOk, Exists
        <5>. QED  BY <5>1, <5>2, <3>3, <3>4 DEF StageOk
      <4>. QED  BY <4>0, <4>1, <3>2, <3>3, <3>4 DEF Initiated
    <3>7. Right(a)  BY <3>6 DEF Right
    <3>. QED  BY <1>1, <3>2, <3>3, <3>4, <3>5, <3>7 DEF s
  <2>. QED  BY <2>1, <2>2
<1>6. CASE du' = du  BY <1>6
<1>7. CASE du' = Released(a, i)
  <2>. HIDE DEF a
  <2>1. Leaves(a, du')
    <3>1. DOMAIN du' = DOMAIN a /\ du'.sessions = a.sessions /\ du'.queue = a.queue
      BY <1>5, <1>7 DEF Released, Framed, DuFields
    <3>. QED  BY <1>5, <3>1, OtherLeaves
  <2>. QED  BY <1>5, <2>1, LeavesInitiated DEF Right
<1>8. CASE ~Waits(c, i) /\ du' = Started(a, c, i, manual)
  <2>1. Interactive => a.sessions[c].initiated  BY <1>8 DEF Waits
  <2>. HIDE DEF a
  <2>. DEFINE m == StageMsg(a, c, i)
              timed == c \notin Resume
              s == [a.sessions[c] EXCEPT !.tag = IF timed THEN "armed" ELSE @,
                                         !.param = IF timed THEN i ELSE @,
                                         !.background = a.sessions[c].background /\ ~manual,
                                         !.downloading = TRUE]
  <2>2. DOMAIN s = SessionFields /\ SessionKept(a.sessions[c], s)
    BY <1>5 DEF Framed, SessionFields, SessionKept
  <2>3. m.type = "stage" /\ m.ctl = c  BY DEF StageMsg
  <2>4. /\ DOMAIN du' = DuFields /\ du'.queue = Append(a.queue, m)
        /\ du'.sessions = [a.sessions EXCEPT ![c] = s]
    BY <1>5, <1>8 DEF Started, Framed, DuFields
  <2>. HIDE DEF m, s
  <2>5. /\ DOMAIN du'.sessions = Controllers /\ du'.sessions[c] = s
        /\ \A o \in Controllers : SessionKept(a.sessions[o], du'.sessions[o])
        /\ \A o \in Controllers : DOMAIN du'.sessions[o] = SessionFields
    BY <1>5, <2>2, <2>4 DEF Framed, SessionKept
  <2>6. /\ IsQueue(du'.queue)
        /\ Len(du'.queue) = n + 1 /\ du'.queue[n + 1] = m
        /\ \A k \in 1 .. n : du'.queue[k] = du.queue[k]
    <3>1. IsQueue(du.queue)  BY DEF Framed
    <3>2. du'.queue = Append(du.queue, m)  BY <1>5, <2>4
    <3>. QED  BY <3>1, <3>2, QueueAppend
  <2>7. Framed(du')  BY <2>4, <2>5, <2>6 DEF Framed
  <2>8. ASSUME Interactive, Quick, NEW k \in 1 .. n + 1, du'.queue[k].type = "stage" PROVE StageOk(du', k)
    <3>1. \A j \in 1 .. k - 1 : j \in 1 .. n /\ du'.queue[j] = du.queue[j]
      <4>1. \A j \in 1 .. k - 1 : j \in 1 .. n  BY <1>3
      <4>. QED  BY <4>1, <2>6
    <3>2. CASE k = n + 1
      <4>1. du'.queue[k].ctl = c  BY <2>3, <2>6, <3>2
      <4>2. du'.sessions[c].image # None /\ du'.sessions[c].initiated
        BY <1>5, <2>1, <2>5, <2>8 DEF SessionKept
      <4>. QED  BY <4>1, <4>2, <3>1, <1>4, <2>8 DEF StageOk
    <3>3. CASE k # n + 1
      <4>1. k \in 1 .. n /\ du'.queue[k] = a.queue[k]  BY <1>3, <1>5, <2>6, <3>3
      <4>2. StageOk(a, k)  BY <1>5, <2>8, <4>1 DEF Initiated, Right
      <4>. QED  BY <1>5, <2>5, <3>1, <4>1, <4>2 DEF StageOk, SessionKept
    <3>. QED  BY <3>2, <3>3
  <2>9. Interactive /\ Quick =>
           \A o \in Controllers : du'.sessions[o].file # None => du'.sessions[o].initiated
    BY <1>5, <2>5 DEF Initiated, SessionKept, Right
  <2>10. Interactive /\ Quick => Initiated(du')
    BY <2>6, <2>8, <2>9 DEF Initiated
  <2>. QED  BY <2>7, <2>10 DEF Right
<1>. QED  BY <1>6, <1>7, <1>8 DEF Begin

-----------------------------------------------------------------------------
\* What controllers were told: who has an image to download makes progress, until a restart.
TellFields == {"image", "progress", "over", "done"}
Telling ==
    /\ DOMAIN ctl = Controllers /\ \A c \in Controllers : DOMAIN ctl[c] = TellFields
    /\ \A c \in Controllers : ctl[c].image # None /\ (c \in Resume => restarts = 0) => ctl[c].progress
    /\ begins \in Nat /\ restarts \in Nat
SessionsInv == Framed(du) /\ Right(du) /\ Telling

\* What FinishedEnds says of a step.
FinishedStep ==
    \A c \in Controllers :
       /\ ctl[c].image # None /\ ctl'[c].image = None
       /\ begins' = begins /\ restarts' = restarts
       /\ c \in Resume => restarts = 0
       => ~Live(c)'

\* A session that is to be deleted is not live.
LEMMA DeletedNotLive ==
    ASSUME Framed(du), NEW c \in Controllers, Deletes(du, du', c) PROVE ~Live(c)'
<1>1. CASE du.sessions[c].image = None
  BY <1>1 DEF Deletes, SessionKept, Live, Exists
<1>2. CASE du.sessions[c].image # None
  <2>1. PICK m : du'.queue = Append(du.queue, m) /\ m.type = "unstage" /\ m.ctl = c
    BY <1>2 DEF Deletes
  <2>. DEFINE n == Len(du.queue)
  <2>2. n \in Nat /\ du'.queue[n + 1] = m /\ DOMAIN du'.queue = 1 .. n + 1
    BY <2>1, QueueAppend DEF Framed
  <2>3. n + 1 \in DOMAIN du'.queue  BY <2>2
  <2>. HIDE DEF n
  <2>. QED  BY <2>1, <2>2, <2>3 DEF Live, Queued
<1>. QED  BY <1>1, <1>2

\* A step that tells no controller anything else, or that its time is over, keeps what
\* controllers were told, and finishes nothing.
LEMMA TellsKeep ==
    ASSUME Telling, UNCHANGED <<begins, restarts>>,
           \/ ctl' = ctl
           \/ \E c \in Controllers : \E over : ctl' = [ctl EXCEPT ![c].over = over]
    PROVE  Telling' /\ FinishedStep
<1>1. /\ DOMAIN ctl' = Controllers /\ \A c \in Controllers : DOMAIN ctl'[c] = TellFields
      /\ \A c \in Controllers : ctl'[c].image = ctl[c].image /\ ctl'[c].progress = ctl[c].progress
  <2>1. CASE ctl' = ctl  BY <2>1 DEF Telling
  <2>2. ASSUME NEW c \in Controllers, NEW over, ctl' = [ctl EXCEPT ![c].over = over]
        PROVE  /\ DOMAIN ctl' = Controllers /\ \A o \in Controllers : DOMAIN ctl'[o] = TellFields
               /\ \A o \in Controllers : ctl'[o].image = ctl[o].image /\ ctl'[o].progress = ctl[o].progress
    BY <2>2 DEF Telling, TellFields
  <2>. QED  BY <2>1, <2>2
<1>2. Telling'  BY <1>1 DEF Telling
<1>3. FinishedStep  BY <1>1 DEF FinishedStep
<1>. QED  BY <1>2, <1>3

\* Each step keeps the invariant, and ends the session of a controller that has finished.
LEMMA ImageCheckEnds ==
    ASSUME SessionsInv, NEW c \in Controllers, NEW i \in Images, NEW manual \in BOOLEAN,
           ImageCheck(c, i, manual)
    PROVE  SessionsInv' /\ FinishedStep
<1>1. PICK ready \in BOOLEAN :
         /\ Begin(c, i, manual, ready)
         /\ ctl' = [ctl EXCEPT ![c].image = IF ready THEN i ELSE None,
                               ![c].progress = TRUE, ![c].over = FALSE]
  BY DEF ImageCheck
<1>2. Settled(c) /\ begins' = begins + 1 /\ restarts' = restarts
  BY DEF ImageCheck
<1>3. Framed(du') /\ Right(du')  BY <1>1, <1>2, BeginInitiated DEF SessionsInv
<1>4. /\ DOMAIN ctl' = Controllers /\ \A o \in Controllers : DOMAIN ctl'[o] = TellFields
      /\ ctl'[c].progress = TRUE /\ \A o \in Controllers : o # c => ctl'[o] = ctl[o]
  BY <1>1 DEF SessionsInv, Telling, TellFields
<1>5. Telling'  BY <1>2, <1>4 DEF SessionsInv, Telling
<1>6. begins' # begins  BY <1>2 DEF SessionsInv, Telling
<1>7. FinishedStep  BY <1>6 DEF FinishedStep
<1>. QED  BY <1>3, <1>5, <1>7 DEF SessionsInv

\* A request for data or for the time to load.
LEMMA RequestsEnd ==
    ASSUME SessionsInv, NEW c \in Controllers, NEW flag \in BOOLEAN,
           DataRequest(c, flag) \/ LoadRequest(c)
    PROVE  SessionsInv' /\ FinishedStep
<1>. DEFINE d == Rearm(du, c)
            s == [d.sessions[c] EXCEPT !.waiting = TRUE]
            e == [d EXCEPT !.sessions[c] = s]
            f == [e EXCEPT !.active = LessOne(@)]
<1>1. ctl' = ctl /\ UNCHANGED <<begins, restarts>>  BY DEF DataRequest, LoadRequest
<1>2. Leaves(du, d)  BY RearmLeaves DEF SessionsInv
<1>3. Framed(d)  BY <1>2 DEF Leaves
<1>4. CASE du' = d
  BY <1>1, <1>2, <1>4, LeavesInitiated, TellsKeep DEF SessionsInv, Right
<1>5. CASE LoadRequest(c)
  <2>. DEFINE b == DownloadComplete(du, c)
  <2>1. du' = Rearm(b, c)  BY <1>5 DEF LoadRequest
  <2>2. Leaves(du, b)  BY DownloadCompleteLeaves DEF SessionsInv
  <2>. HIDE DEF b
  <2>3. Leaves(b, du')  BY <2>1, <2>2, RearmLeaves DEF Leaves
  <2>4. Leaves(du, du')  BY <2>2, <2>3, LeavesTwice
  <2>. QED  BY <1>1, <2>4, LeavesInitiated, TellsKeep DEF SessionsInv, Right
<1>6. CASE du' = [d EXCEPT !.sessions[c].waiting = TRUE, !.active = LessOne(@)]
  <2>. HIDE DEF d
  <2>1. DOMAIN s = SessionFields /\ SessionKept(d.sessions[c], s)
    BY <1>3 DEF Framed, SessionFields, SessionKept
  <2>2. du' = f  BY <1>3, <1>6 DEF Framed, DuFields
  <2>. HIDE DEF s
  <2>3. Leaves(d, e)  BY <1>3, <2>1, PutLeaves
  <2>. HIDE DEF e
  <2>4. DOMAIN f = DOMAIN e /\ f.sessions = e.sessions /\ f.queue = e.queue
    BY <2>3 DEF Leaves, Framed, DuFields
  <2>. HIDE DEF f
  <2>5. Leaves(e, f)  BY <2>3, <2>4, OtherLeaves DEF Leaves
  <2>6. Leaves(du, du')  BY <1>2, <2>2, <2>3, <2>5, LeavesTwice
  <2>. QED  BY <1>1, <2>6, LeavesInitiated, TellsKeep DEF SessionsInv, Right
<1>. QED  BY <1>4, <1>5, <1>6 DEF DataRequest

\* The ends of a session: it is deleted, and its controller is told nothing more.
LEMMA FinishedKeeps ==
    ASSUME SessionsInv, NEW c \in Controllers, Deletes(du, du', c),
           UNCHANGED <<begins, restarts>>,
           DOMAIN ctl' = Controllers, DOMAIN ctl'[c] = TellFields, ctl'[c].image = None,
           \A o \in Controllers : o # c => ctl'[o] = ctl[o]
    PROVE  SessionsInv' /\ FinishedStep
<1>1. Framed(du') /\ Right(du')  BY DeletesInitiated DEF SessionsInv, Right
<1>2. Telling'  BY DEF SessionsInv, Telling
<1>3. ~Live(c)'  BY DeletedNotLive DEF SessionsInv
<1>4. FinishedStep  BY <1>3 DEF FinishedStep
<1>. QED  BY <1>1, <1>2, <1>4 DEF SessionsInv

\* The controller has loaded the image, or gives up.
LEMMA DownloadCompletedEnds ==
    ASSUME SessionsInv, NEW c \in Controllers, NEW done \in BOOLEAN, DownloadCompleted(c, done)
    PROVE  SessionsInv' /\ FinishedStep
<1>1. /\ UNCHANGED <<begins, restarts>> /\ du' = Completed(c, done)
      /\ ctl' = [ctl EXCEPT ![c] = [image |-> None, progress |-> FALSE, over |-> TRUE, done |-> done]]
  BY DEF DownloadCompleted, Over
<1>2. /\ DOMAIN ctl' = Controllers /\ DOMAIN ctl'[c] = TellFields /\ ctl'[c].image = None
      /\ \A o \in Controllers : o # c => ctl'[o] = ctl[o]
  BY <1>1 DEF SessionsInv, Telling, TellFields
<1>3. CASE ctl[c].progress
  <2>1. du' = EndSession(du, c, ctl[c].image)  BY <1>1, <1>3 DEF Completed
  <2>2. Deletes(du, du', c)  BY <2>1, EndSessionDeletes DEF SessionsInv
  <2>. QED  BY <1>1, <1>2, <2>2, FinishedKeeps
<1>4. CASE ~ctl[c].progress
  <2>1. du' = du  BY <1>1, <1>4 DEF Completed
  <2>2. Telling'  BY <1>1, <1>2 DEF SessionsInv, Telling
  <2>3. FinishedStep  BY <1>2, <1>4 DEF FinishedStep, SessionsInv, Telling
  <2>. QED  BY <2>1, <2>2, <2>3 DEF SessionsInv
<1>. QED  BY <1>3, <1>4

\* It reboots, or is paired again.
LEMMA RebootEnds ==
    ASSUME SessionsInv, NEW c \in Controllers, Reboot(c) \/ Unload(c)
    PROVE  SessionsInv' /\ FinishedStep
<1>1. /\ UNCHANGED <<begins, restarts>>
      /\ ctl' = [ctl EXCEPT ![c].image = None, ![c].over = TRUE]
      /\ \E i : du' = EndSession(du, c, i)
  BY DEF Reboot, Unload
<1>2. /\ DOMAIN ctl' = Controllers /\ DOMAIN ctl'[c] = TellFields /\ ctl'[c].image = None
      /\ \A o \in Controllers : o # c => ctl'[o] = ctl[o]
  BY <1>1 DEF SessionsInv, Telling, TellFields
<1>3. Deletes(du, du', c)  BY <1>1, EndSessionDeletes DEF SessionsInv
<1>. QED  BY <1>1, <1>2, <1>3, FinishedKeeps

\* The application starts the download.
LEMMA DownloadStartEnds ==
    ASSUME SessionsInv, NEW c \in Controllers, NEW flag \in BOOLEAN, DownloadStart(c, flag)
    PROVE  SessionsInv' /\ FinishedStep
<1>. DEFINE s == [du.sessions[c] EXCEPT !.initiated = TRUE, !.background = flag]
<1>1. ctl' = ctl /\ UNCHANGED <<begins, restarts>>  BY DEF DownloadStart
<1>2. DOMAIN s = SessionFields /\ SessionKept(du.sessions[c], s)
  BY DEF SessionsInv, Framed, SessionFields, SessionKept
<1>3. du' = [du EXCEPT !.sessions[c] = s]
  BY DEF DownloadStart, SessionsInv, Framed, DuFields
<1>. HIDE DEF s
<1>4. Leaves(du, du')  BY <1>2, <1>3, PutLeaves DEF SessionsInv
<1>. QED  BY <1>1, <1>4, LeavesInitiated, TellsKeep DEF SessionsInv, Right

\* A session is resumed after a restart.
LEMMA ResumeEnds ==
    ASSUME SessionsInv, NEW c \in Controllers, NEW flag \in BOOLEAN, ResumeSession(c, flag)
    PROVE  SessionsInv' /\ FinishedStep
<1>1. PICK i \in Wants[c], ready \in BOOLEAN :
         /\ Begin(c, i, flag, ready)
         /\ ctl' = IF ready THEN [ctl EXCEPT ![c].over = FALSE] ELSE ctl
  BY DEF ResumeSession
<1>2. Settled(c) /\ UNCHANGED <<begins, restarts>>  BY DEF ResumeSession
<1>3. i \in Images  BY ControllersAssumption
<1>4. Framed(du') /\ Right(du')  BY <1>1, <1>2, <1>3, BeginInitiated DEF SessionsInv
<1>5. Telling' /\ FinishedStep  BY <1>1, <1>2, TellsKeep DEF SessionsInv
<1>. QED  BY <1>4, <1>5 DEF SessionsInv

\* The main loop dispatches a timer ...
LEMMA TimerFiresEnds ==
    ASSUME SessionsInv, TimerFires
    PROVE  SessionsInv' /\ FinishedStep
<1>1. ctl' = ctl /\ UNCHANGED <<begins, restarts>>  BY DEF TimerFires
<1>2. CASE \E c \in Controllers : du' = [du EXCEPT !.sessions[c].tag = "fired"]
  <2>1. PICK c \in Controllers : du' = [du EXCEPT !.sessions[c].tag = "fired"]  BY <1>2
  <2>. DEFINE s == [du.sessions[c] EXCEPT !.tag = "fired"]
  <2>2. DOMAIN s = SessionFields /\ SessionKept(du.sessions[c], s)
    BY DEF SessionsInv, Framed, SessionFields, SessionKept
  <2>3. du' = [du EXCEPT !.sessions[c] = s]
    BY <2>1 DEF SessionsInv, Framed, DuFields
  <2>. HIDE DEF s
  <2>4. Leaves(du, du')  BY <2>2, <2>3, PutLeaves DEF SessionsInv
  <2>. QED  BY <1>1, <2>4, LeavesInitiated, TellsKeep DEF SessionsInv, Right
<1>3. CASE \E t \in du.stray : du' = [du EXCEPT !.stray = @ \ {t}]
  <2>1. DOMAIN du' = DOMAIN du /\ du'.sessions = du.sessions /\ du'.queue = du.queue
    BY <1>3 DEF SessionsInv, Framed, DuFields
  <2>2. Leaves(du, du')  BY <2>1, OtherLeaves DEF SessionsInv
  <2>. QED  BY <1>1, <2>2, LeavesInitiated, TellsKeep DEF SessionsInv, Right
<1>. QED  BY <1>2, <1>3 DEF TimerFires

\* ... and its callback runs.
LEMMA TimerRunsEnds ==
    ASSUME SessionsInv, TimerRuns
    PROVE  SessionsInv' /\ FinishedStep
<1>1. PICK c \in Controllers :
         IF Exists(c)
         THEN du' = TimedOut(c, firing.image) /\ ctl' = [ctl EXCEPT ![c].over = TRUE]
         ELSE du' = [du EXCEPT !.sessions[c] = Phantom] /\ ctl' = ctl
  BY DEF TimerRuns
<1>2. UNCHANGED <<begins, restarts>>  BY DEF TimerRuns
<1>3. Telling' /\ FinishedStep
  BY <1>1, <1>2, TellsKeep DEF SessionsInv
<1>4. CASE Exists(c)
  <2>. DEFINE d == EndSession(du, c, firing.image)
              s == [d.sessions[c] EXCEPT !.tag = "none"]
              e == [d EXCEPT !.sessions[c] = s]
              strays == IF d.sessions[c].tag = "armed"
                        THEN d.stray \cup {[ctl |-> {c}, image |-> firing.image]} ELSE d.stray
              f == [e EXCEPT !.stray = strays]
  <2>1. Deletes(du, d, c)  BY EndSessionDeletes DEF SessionsInv
  <2>2. Framed(d)  BY <2>1 DEF Deletes
  <2>3. du' = [d EXCEPT !.sessions[c].tag = "none", !.stray = strays]
    BY <1>1, <1>4, <2>2 DEF TimedOut, Framed, DuFields
  <2>. HIDE DEF d, strays
  <2>4. DOMAIN s = SessionFields /\ SessionKept(d.sessions[c], s)
    BY <2>2 DEF Framed, SessionFields, SessionKept
  <2>5. du' = f  BY <2>2, <2>3 DEF Framed, DuFields
  <2>. HIDE DEF s
  <2>6. Leaves(d, e)  BY <2>2, <2>4, PutLeaves
  <2>. HIDE DEF e
  <2>7. DOMAIN f = DOMAIN e /\ f.sessions = e.sessions /\ f.queue = e.queue
    BY <2>6 DEF Leaves, Framed, DuFields
  <2>. HIDE DEF f
  <2>8. Leaves(e, f)  BY <2>6, <2>7, OtherLeaves DEF Leaves
  <2>9. Leaves(d, du')  BY <2>5, <2>6, <2>8, LeavesTwice
  <2>10. Framed(d) /\ Right(d)  BY <2>1, DeletesInitiated DEF SessionsInv, Right
  <2>. QED  BY <1>3, <2>9, <2>10, LeavesInitiated DEF SessionsInv, Right
<1>5. CASE ~Exists(c)
  <2>. DEFINE s == Phantom
  <2>1. DOMAIN s = SessionFields /\ s.file = None
    BY DEF Phantom, NewSession, SessionFields
  <2>2. du' = [du EXCEPT !.sessions[c] = s]  BY <1>1, <1>5
  <2>. HIDE DEF s
  <2>3. /\ DOMAIN du' = DuFields /\ du'.queue = du.queue
        /\ du'.sessions = [du.sessions EXCEPT ![c] = s]
    BY <2>2 DEF SessionsInv, Framed, DuFields
  <2>4. /\ DOMAIN du'.sessions = Controllers /\ du'.sessions[c] = s
        /\ \A o \in Controllers : o # c => du'.sessions[o] = du.sessions[o]
    BY <2>3 DEF SessionsInv, Framed
  <2>5. Framed(du')  BY <2>1, <2>3, <2>4 DEF SessionsInv, Framed
  <2>6. ASSUME Initiated(du) PROVE Initiated(du')
    <3>1. ASSUME NEW k \in 1 .. Len(du.queue), du.queue[k].type = "stage" PROVE StageOk(du', k)
      <4>1. StageOk(du, k)  BY <2>6, <3>1 DEF Initiated
      <4>2. du.queue[k].ctl # c  BY <4>1, <1>5 DEF StageOk, Exists
      <4>. QED  BY <4>1, <4>2, <2>3, <2>4 DEF StageOk
    <3>. QED  BY <2>1, <2>3, <2>4, <2>6, <3>1 DEF Initiated
  <2>. QED  BY <1>3, <2>5, <2>6 DEF SessionsInv, Right
<1>. QED  BY <1>4, <1>5

\* What the thread does of a message m: it leaves the queue, and changes one session at most.
ThreadTaken(d, e, m) ==
    /\ DOMAIN e = DuFields /\ e.queue = Tail(d.queue) /\ DOMAIN e.sessions = Controllers
    /\ \A o \in Controllers : o # m.ctl => e.sessions[o] = d.sessions[o]
    /\ \A o \in Controllers : o = m.ctl =>
          /\ DOMAIN e.sessions[o] = SessionFields
          /\ \/ m.type = "unstage" /\ e.sessions[o].file = None
             \/ /\ m.type = "stage" /\ e.sessions[o].image = d.sessions[o].image
                /\ e.sessions[o].initiated = d.sessions[o].initiated

\* The thread takes a message.
LEMMA ThreadEnds ==
    ASSUME SessionsInv, Thread
    PROVE  SessionsInv' /\ FinishedStep
<1>. DEFINE m == Head(du.queue)  n == Len(du.queue) - 1
<1>1. ctl' = ctl /\ UNCHANGED <<begins, restarts>>  BY DEF Thread, ThreadStage, ThreadUnstage
<1>2. du.queue # <<>> /\ (m.type = "stage" \/ m.type = "unstage")
  BY DEF Thread, ThreadStage, ThreadUnstage, Taken
<1>3. /\ n \in Nat /\ n + 1 = Len(du.queue) /\ m = du.queue[1]
      /\ IsQueue(Tail(du.queue)) /\ Len(Tail(du.queue)) = n
      /\ \A k \in 1 .. n : Tail(du.queue)[k] = du.queue[k + 1]
  <2>1. PICK S : du.queue \in Seq(S)  BY DEF SessionsInv, Framed, IsQueue
  <2>2. /\ m = du.queue[1] /\ Tail(du.queue) \in Seq(S) /\ Len(Tail(du.queue)) = Len(du.queue) - 1
        /\ \A k \in 1 .. Len(Tail(du.queue)) : Tail(du.queue)[k] = du.queue[k + 1]
        /\ Len(du.queue) \in Nat /\ Len(du.queue) # 0
    BY <1>2, <2>1, HeadTailProperties, LenProperties, EmptySeq
  <2>. QED  BY <2>2 DEF IsQueue
<1>. DEFINE d == [du EXCEPT !.queue = Tail(du.queue)]
<1>4. DOMAIN d = DuFields /\ d.queue = Tail(du.queue) /\ d.sessions = du.sessions
  BY DEF SessionsInv, Framed, DuFields
<1>5. ThreadTaken(du, du', m)
  <2>1. ASSUME NEW x, m.type = "stage", du' = [d EXCEPT !.sessions[m.ctl].file = x] PROVE ThreadTaken(du, du', m)
    <3>1. /\ DOMAIN du' = DuFields /\ du'.queue = d.queue
          /\ du'.sessions = [d.sessions EXCEPT ![m.ctl].file = x]
      BY <1>4, <2>1 DEF DuFields
    <3>. HIDE DEF d, m
    <3>2. DOMAIN d.sessions = Controllers /\ \A o \in Controllers : DOMAIN d.sessions[o] = SessionFields
      BY <1>4 DEF SessionsInv, Framed
    <3>3. /\ DOMAIN du'.sessions = Controllers
          /\ \A o \in Controllers : o # m.ctl => du'.sessions[o] = d.sessions[o]
          /\ \A o \in Controllers : o = m.ctl => du'.sessions[o] = [d.sessions[o] EXCEPT !.file = x]
      BY <3>1, <3>2
    <3>4. \A o \in Controllers : o = m.ctl =>
            /\ DOMAIN du'.sessions[o] = SessionFields
            /\ du'.sessions[o].image = d.sessions[o].image /\ du'.sessions[o].initiated = d.sessions[o].initiated
      BY <3>2, <3>3 DEF SessionFields
    <3>. QED  BY <1>4, <2>1, <3>1, <3>3, <3>4 DEF ThreadTaken
  <2>2. CASE m.type = "stage" /\ du' = d
    <3>. HIDE DEF d, m
    <3>. QED  BY <1>4, <2>2 DEF SessionsInv, Framed, ThreadTaken
  <2>3. CASE m.type = "unstage" /\ du' = [d EXCEPT !.sessions[m.ctl] = NoSession]
    <3>1. /\ DOMAIN du' = DuFields /\ du'.queue = d.queue
          /\ du'.sessions = [d.sessions EXCEPT ![m.ctl] = NoSession]
      BY <1>4, <2>3 DEF DuFields
    <3>2. DOMAIN NoSession = SessionFields /\ NoSession.file = None
      BY DEF NoSession, NewSession, SessionFields
    <3>. HIDE DEF d, m
    <3>. QED  BY <1>4, <2>3, <3>1, <3>2 DEF SessionsInv, Framed, ThreadTaken
  <2>4. CASE ThreadStage
    <3>1. CASE Exists(m.ctl)
      <4>1. PICK x : du' = [d EXCEPT !.sessions[m.ctl].file = x]  BY <2>4, <3>1 DEF ThreadStage
      <4>. QED  BY <2>1, <4>1, <2>4 DEF ThreadStage, Taken
    <3>2. CASE ~Exists(m.ctl)
      BY <2>2, <2>4, <3>2 DEF ThreadStage, Taken
    <3>. QED  BY <3>1, <3>2
  <2>5. CASE ThreadUnstage
    <3>1. du' = [d EXCEPT !.sessions[m.ctl] = NoSession]
      BY <2>5, <1>4 DEF ThreadUnstage, SessionsInv, Framed, DuFields
    <3>. QED  BY <2>3, <2>5, <3>1 DEF ThreadUnstage, Taken
  <2>. QED  BY <2>4, <2>5 DEF Thread
<1>. HIDE DEF d
<1>6. Framed(du')  BY <1>3, <1>5 DEF ThreadTaken, Framed, SessionsInv
<1>7. ASSUME Interactive, Quick PROVE Initiated(du')
  <2>0. Initiated(du)  BY <1>7 DEF SessionsInv, Right
  <2>1. ASSUME NEW k \in 1 .. n, du'.queue[k].type = "stage" PROVE StageOk(du', k)
    <3>1. k + 1 \in 1 .. Len(du.queue) /\ du.queue[k + 1] = du'.queue[k]
      BY <1>3, <1>5 DEF ThreadTaken
    <3>2. StageOk(du, k + 1)  BY <2>0, <2>1, <3>1 DEF Initiated
    <3>3. 1 \in 1 .. (k + 1) - 1  OBVIOUS
    <3>4. ~(m.type = "unstage" /\ m.ctl = du'.queue[k].ctl)
      BY <1>3, <3>1, <3>2, <3>3 DEF StageOk
    <3>5. \A j \in 1 .. k - 1 : du'.queue[j] = du.queue[j + 1] /\ j + 1 \in 1 .. (k + 1) - 1
      BY <1>3, <1>5 DEF ThreadTaken
    <3>6. \A j \in 1 .. k - 1 : ~(du'.queue[j].type = "unstage" /\ du'.queue[j].ctl = du'.queue[k].ctl)
      BY <3>1, <3>2, <3>5 DEF StageOk
    <3>. HIDE DEF m
    <3>. QED  BY <1>5, <3>1, <3>2, <3>4, <3>6 DEF StageOk, ThreadTaken
  <2>2. \A c \in Controllers : du'.sessions[c].file # None => du'.sessions[c].initiated
    <3>1. m.type = "stage" => m.ctl \in Controllers /\ du.sessions[m.ctl].initiated
      <4>1. 1 \in 1 .. Len(du.queue)  BY <1>3
      <4>2. m.type = "stage" => StageOk(du, 1)  BY <1>3, <2>0, <4>1 DEF Initiated
      <4>. QED  BY <1>3, <4>2 DEF StageOk
    <3>. HIDE DEF m
    <3>. QED  BY <1>5, <2>0, <3>1 DEF ThreadTaken, Initiated
  <2>3. Len(du'.queue) = n  BY <1>3, <1>5 DEF ThreadTaken
  <2>. HIDE DEF n
  <2>. QED  BY <2>1, <2>2, <2>3 DEF Initiated
<1>8. Telling' /\ FinishedStep  BY <1>1, TellsKeep DEF SessionsInv
<1>. QED  BY <1>6, <1>7, <1>8 DEF SessionsInv, Right

\* A file is announced again.
LEMMA AnnouncedEnds ==
    ASSUME SessionsInv, NEW i \in Announced, ThreadAnnounced(i)
    PROVE  SessionsInv' /\ FinishedStep
<1>1. ctl' = ctl /\ du' = du /\ UNCHANGED <<begins, restarts>>  BY DEF ThreadAnnounced
<1>2. Telling' /\ FinishedStep  BY <1>1, TellsKeep DEF SessionsInv
<1>. QED  BY <1>1, <1>2 DEF SessionsInv

\* After a start nothing is staged.
LEMMA InitDuRight == Framed(InitDu) /\ Right(InitDu)
<1>. DEFINE d == InitDu
<1>1. /\ DOMAIN d = DuFields /\ d.sessions = [c \in Controllers |-> NoSession] /\ d.queue = <<>>
  BY DEF InitDu, DuFields
<1>2. DOMAIN NoSession = SessionFields /\ NoSession.file = None
  BY DEF NoSession, NewSession, SessionFields
<1>3. <<>> \in Seq({}) /\ Len(<<>>) = 0  BY EmptySeq
<1>. HIDE DEF d
<1>4. Framed(d)  BY <1>1, <1>2, <1>3 DEF Framed, IsQueue
<1>5. Right(d)  BY <1>1, <1>2, <1>3 DEF Right, Initiated
<1>. QED  BY <1>4, <1>5 DEF d

\* The control manager restarts.
LEMMA RestartEnds ==
    ASSUME SessionsInv, Restart
    PROVE  SessionsInv' /\ FinishedStep
<1>1. Framed(du') /\ Right(du')  BY InitDuRight DEF Restart
<1>2. restarts \in Nat /\ restarts' = restarts + 1 /\ begins' = begins
  BY DEF Restart, SessionsInv, Telling
<1>3. restarts' \in Nat /\ restarts' # 0 /\ restarts' # restarts  BY <1>2
<1>4. /\ DOMAIN ctl' = Controllers
      /\ \A c \in Controllers : DOMAIN ctl'[c] = TellFields /\ (c \notin Resume => ctl'[c].image = None)
  BY DEF Restart, TellFields
<1>5. Telling'  BY <1>2, <1>3, <1>4 DEF SessionsInv, Telling
<1>6. FinishedStep  BY <1>3 DEF FinishedStep
<1>. QED  BY <1>1, <1>5, <1>6 DEF SessionsInv

\* The invariant holds at first.
LEMMA SessionsInit == Init => SessionsInv
<1>. SUFFICES ASSUME Init PROVE SessionsInv  OBVIOUS
<1>1. Framed(du) /\ Right(du)  BY InitDuRight DEF Init
<1>2. Telling  BY DEF Init, Telling, TellFields
<1>. QED  BY <1>1, <1>2 DEF SessionsInv

\* Every step keeps the invariant, and ends the session of a controller that has finished.
LEMMA SessionsStep == SessionsInv /\ [Next]_vars => SessionsInv' /\ (FinishedStep \/ UNCHANGED vars)
<1>. SUFFICES ASSUME SessionsInv, [Next]_vars PROVE SessionsInv' /\ (FinishedStep \/ UNCHANGED vars)
  OBVIOUS
<1>1. ASSUME NEW c \in Controllers, Main(c) PROVE SessionsInv' /\ FinishedStep
  BY <1>1, ImageCheckEnds, RequestsEnd, DownloadCompletedEnds, DownloadStartEnds, ResumeEnds,
     RebootEnds DEF Main
<1>2. CASE Thread  BY <1>2, ThreadEnds
<1>3. CASE Timer  BY <1>3, TimerFiresEnds, TimerRunsEnds DEF Timer
<1>4. CASE \E i \in Announced : ThreadAnnounced(i)  BY <1>4, AnnouncedEnds
<1>5. CASE Restart  BY <1>5, RestartEnds
<1>6. CASE UNCHANGED vars  BY <1>6 DEF vars, SessionsInv, Telling
<1>. QED  BY <1>1, <1>2, <1>3, <1>4, <1>5, <1>6 DEF Next

\* Where an application starts the downloads, an image is staged only after it has done so,
\* in whatever order the handlers, the thread and the timers run: if a session that ended is
\* deleted before its controller does more (Quick; otherwise a session that begins while the
\* last one is deleted could take its place).
THEOREM DownloadsAreInitiated == ASSUME Quick PROVE Spec => []InitiatedBeforeStaged
<1>1. Spec => []SessionsInv
  <2>1. SessionsInv /\ [Next]_vars => SessionsInv'  BY SessionsStep
  <2>. QED  BY SessionsInit, <2>1, PTL DEF Spec
<1>2. SessionsInv => InitiatedBeforeStaged
  <2>. SUFFICES ASSUME SessionsInv, Interactive, NEW c \in Controllers,
                       Queued("stage", c) # {} \/ du.sessions[c].file # None
                PROVE  du.sessions[c].initiated
    BY DEF InitiatedBeforeStaged
  <2>1. Initiated(du)  BY DEF SessionsInv, Right
  <2>2. CASE Queued("stage", c) # {}
    <3>1. PICK k \in DOMAIN du.queue : du.queue[k].type = "stage" /\ du.queue[k].ctl = c
      BY <2>2 DEF Queued
    <3>2. k \in 1 .. Len(du.queue)
      <4>1. PICK S : du.queue \in Seq(S)  BY DEF SessionsInv, Framed, IsQueue
      <4>. QED  BY <4>1, <3>1, LenProperties
    <3>. QED  BY <2>1, <3>1, <3>2 DEF Initiated, StageOk
  <2>. QED  BY <2>1, <2>2 DEF Initiated
<1>. QED  BY <1>1, <1>2, PTL

\* When a controller has finished its download, reboots or is paired again, its session ends,
\* except one that it resumed after a restart: whatever the preferences, and whether or not the
\* thread is quick.
THEOREM FinishedAreEnded == Spec => FinishedEnds
<1>1. Spec => []SessionsInv
  <2>1. SessionsInv /\ [Next]_vars => SessionsInv'  BY SessionsStep
  <2>. QED  BY SessionsInit, <2>1, PTL DEF Spec
<1>2. SessionsInv /\ [Next]_vars =>
        [\A c \in Controllers :
            /\ ctl[c].image # None /\ ctl'[c].image = None
            /\ begins' = begins /\ restarts' = restarts
            /\ c \in Resume => restarts = 0
            => ~Live(c)']_vars
  BY SessionsStep DEF FinishedStep
<1>. QED  BY <1>1, <1>2, PTL DEF Spec, FinishedEnds

-----------------------------------------------------------------------------
(* Voice and the downloads in the foreground, for any number of images that *)
(* a controller wants: the counts are then those of another image, but the  *)
(* flag of the voice object is not.                                         *)

\* The flag is set while a download is in the foreground; a session that is to be deleted,
\* or was, does not download.
VoiceRight(d) ==
    /\ d.voice \in BOOLEAN /\ (d.voice <=> Foreground(d))
    /\ \A c \in Controllers : d.sessions[c].downloading \in BOOLEAN /\ d.sessions[c].background \in BOOLEAN
    /\ \A c \in Controllers : d.sessions[c].image = None \/ Gone(d, c) => ~d.sessions[c].downloading

\* A session that is as it was, for voice.
VoiceSame(d, e, o) ==
    /\ e.sessions[o].image = d.sessions[o].image
    /\ e.sessions[o].downloading = d.sessions[o].downloading
    /\ e.sessions[o].background = d.sessions[o].background
    /\ Gone(e, o) => Gone(d, o)

\* Downloads of others in the foreground.
OtherForeground(d, c) == \E o \in Controllers \ {c} : d.sessions[o].downloading /\ ~d.sessions[o].background

\* One session changes, and the flag with it.
LEMMA OneVoice ==
    ASSUME NEW d, VoiceRight(d), NEW c \in Controllers, NEW e, e.voice \in BOOLEAN,
           \A o \in Controllers : o # c => VoiceSame(d, e, o),
           e.sessions[c].downloading \in BOOLEAN, e.sessions[c].background \in BOOLEAN,
           e.sessions[c].image = None \/ Gone(e, c) => ~e.sessions[c].downloading,
           e.voice <=> \/ e.sessions[c].downloading /\ ~e.sessions[c].background
                       \/ OtherForeground(d, c)
    PROVE  VoiceRight(e)
<1>1. \A o \in Controllers : o # c =>
        /\ e.sessions[o].downloading \in BOOLEAN /\ e.sessions[o].background \in BOOLEAN
        /\ e.sessions[o].image = None \/ Gone(e, o) => ~e.sessions[o].downloading
        /\ (e.sessions[o].downloading /\ ~e.sessions[o].background
              <=> d.sessions[o].downloading /\ ~d.sessions[o].background)
  BY DEF VoiceRight, VoiceSame
<1>2. Foreground(e) <=> \/ e.sessions[c].downloading /\ ~e.sessions[c].background
                        \/ OtherForeground(d, c)
  BY <1>1 DEF Foreground, OtherForeground
<1>. QED  BY <1>1, <1>2 DEF VoiceRight

\* What the flag says of others, when one session is not in the foreground, and when it is.
LEMMA OthersVoice ==
    ASSUME NEW d, VoiceRight(d), NEW c \in Controllers
    PROVE  d.voice <=> \/ d.sessions[c].downloading /\ ~d.sessions[c].background
                       \/ OtherForeground(d, c)
BY DEF VoiceRight, Foreground, OtherForeground

\* No session changes, for voice.
LEMMA NoneVoice ==
    ASSUME NEW d, VoiceRight(d), NEW e, e.voice = d.voice, \A o \in Controllers : VoiceSame(d, e, o)
    PROVE  VoiceRight(e)
BY DEF VoiceRight, VoiceSame, Foreground

\* A session put back, changed or not, with the rest of du that no session is about.
LEMMA PutVoice ==
    ASSUME NEW d, Framed(d), VoiceRight(d), NEW c \in Controllers, NEW s, NEW e,
           e.sessions = [d.sessions EXCEPT ![c] = s], e.queue = d.queue, e.voice = d.voice,
           s.image = d.sessions[c].image, s.downloading = d.sessions[c].downloading,
           s.background = d.sessions[c].background
    PROVE  VoiceRight(e)
<1>1. \A o \in Controllers : e.sessions[o] = IF o = c THEN s ELSE d.sessions[o]
  BY DEF Framed
<1>2. \A o \in Controllers : VoiceSame(d, e, o)
  BY <1>1 DEF VoiceSame, Gone
<1>. QED  BY <1>2, NoneVoice

\* Putting the timer off.
LEMMA RearmVoice ==
    ASSUME NEW d, Framed(d), VoiceRight(d), NEW c \in Controllers PROVE VoiceRight(Rearm(d, c))
<1>. DEFINE s == [d.sessions[c] EXCEPT !.tag = "armed"]
            e == [d EXCEPT !.sessions[c] = s]
<1>1. /\ s.image = d.sessions[c].image /\ s.downloading = d.sessions[c].downloading
      /\ s.background = d.sessions[c].background
  BY DEF Framed, SessionFields
<1>2. e.sessions = [d.sessions EXCEPT ![c] = s] /\ e.queue = d.queue /\ e.voice = d.voice
  BY DEF Framed, DuFields
<1>3. Rearm(d, c) = d \/ Rearm(d, c) = e  BY DEF Rearm
<1>. HIDE DEF s, e
<1>4. VoiceRight(e)  BY <1>1, <1>2, PutVoice
<1>. QED  BY <1>3, <1>4

\* The end of a download: the flag is left to the others.
LEMMA DownloadCompleteVoice ==
    ASSUME NEW d, Framed(d), VoiceRight(d), NEW c \in Controllers
    PROVE  LET e == DownloadComplete(d, c) IN VoiceRight(e) /\ ~e.sessions[c].downloading
<1>. DEFINE others == {o \in Controllers \ {c} : d.sessions[o].downloading /\ ~d.sessions[o].background}
            s == [d.sessions[c] EXCEPT !.downloading = FALSE]
            e == [d EXCEPT !.sessions[c] = s]
            t == [s EXCEPT !.background = Background]
            g == [d EXCEPT !.sessions[c] = t, !.voice = @ /\ others # {}]
<1>1. others # {} <=> OtherForeground(d, c)  BY DEF OtherForeground
<1>. HIDE DEF others
<1>2. DownloadComplete(d, c) = IF ~d.sessions[c].downloading THEN d ELSE IF d.sessions[c].background THEN e ELSE g
  <2>1. DOMAIN d = DuFields /\ DOMAIN d.sessions = Controllers  BY DEF Framed
  <2>. QED  BY <2>1 DEF DownloadComplete, DuFields, others
<1>3. /\ s.image = d.sessions[c].image /\ s.downloading = FALSE /\ s.background = d.sessions[c].background
      /\ t.image = d.sessions[c].image /\ t.downloading = FALSE /\ t.background = Background
  BY DEF Framed, SessionFields
<1>4. /\ e.sessions = [d.sessions EXCEPT ![c] = s] /\ e.queue = d.queue /\ e.voice = d.voice
      /\ g.sessions = [d.sessions EXCEPT ![c] = t] /\ g.queue = d.queue /\ g.voice = (d.voice /\ others # {})
  BY DEF Framed, DuFields
<1>. HIDE DEF s, t, e, g
<1>5. CASE ~d.sessions[c].downloading  BY <1>2, <1>5
<1>6. CASE d.sessions[c].downloading /\ d.sessions[c].background
  <2>1. \A o \in Controllers : e.sessions[o] = IF o = c THEN s ELSE d.sessions[o]  BY <1>4 DEF Framed
  <2>2. \A o \in Controllers : o # c => VoiceSame(d, e, o)  BY <1>4, <2>1 DEF VoiceSame, Gone
  <2>3. e.voice \in BOOLEAN /\ (e.voice <=> OtherForeground(d, c))
    BY <1>4, <1>6, OthersVoice DEF VoiceRight
  <2>4. /\ e.sessions[c].downloading = FALSE /\ e.sessions[c].downloading \in BOOLEAN
        /\ e.sessions[c].background \in BOOLEAN
        /\ e.voice <=> (e.sessions[c].downloading /\ ~e.sessions[c].background) \/ OtherForeground(d, c)
    BY <1>3, <2>1, <2>3 DEF VoiceRight
  <2>5. VoiceRight(e)  BY <2>2, <2>3, <2>4, OneVoice
  <2>. QED  BY <1>2, <1>3, <1>6, <2>4, <2>5
<1>7. CASE d.sessions[c].downloading /\ ~d.sessions[c].background
  <2>1. \A o \in Controllers : g.sessions[o] = IF o = c THEN t ELSE d.sessions[o]  BY <1>4 DEF Framed
  <2>2. \A o \in Controllers : o # c => VoiceSame(d, g, o)  BY <1>4, <2>1 DEF VoiceSame, Gone
  <2>3. g.voice \in BOOLEAN /\ (g.voice <=> OtherForeground(d, c))
    BY <1>1, <1>4, <1>7, OthersVoice DEF VoiceRight
  <2>4. Background \in BOOLEAN  BY PreferencesAssumption
  <2>5. /\ g.sessions[c].downloading = FALSE /\ g.sessions[c].downloading \in BOOLEAN
        /\ g.sessions[c].background \in BOOLEAN
        /\ g.voice <=> (g.sessions[c].downloading /\ ~g.sessions[c].background) \/ OtherForeground(d, c)
    BY <1>3, <2>1, <2>3, <2>4
  <2>6. VoiceRight(g)  BY <2>2, <2>3, <2>5, OneVoice
  <2>. QED  BY <1>2, <1>3, <1>7, <2>5, <2>6
<1>8. d.sessions[c].downloading \in BOOLEAN /\ d.sessions[c].background \in BOOLEAN  BY DEF VoiceRight
<1>. QED  BY <1>5, <1>6, <1>7, <1>8

\* The end of a session: it downloads no more when the thread is asked to delete it.
LEMMA EndSessionVoice ==
    ASSUME NEW d, Framed(d), VoiceRight(d), NEW c \in Controllers, NEW i
    PROVE  VoiceRight(EndSession(d, c, i))
<1>. DEFINE e == DownloadComplete(d, c)
            f == [e EXCEPT !.active = IF d.sessions[c].waiting THEN @ ELSE LessOne(@),
                           !.count = @ - 1, !.readers[i] = @ - 1]
            m == UnstageMsg(f, c, i)
            g == [f EXCEPT !.queue = Append(@, m)]
<1>1. EndSession(d, c, i) = d \/ EndSession(d, c, i) = g  BY DEF EndSession
<1>2. Framed(e) /\ VoiceRight(e) /\ ~e.sessions[c].downloading
  BY DownloadCompleteLeaves, DownloadCompleteVoice DEF Leaves
<1>3. m.type = "unstage" /\ m.ctl = c  BY DEF UnstageMsg, StageMsg
<1>. HIDE DEF e, m
<1>4. DOMAIN f = DuFields /\ f.sessions = e.sessions /\ f.queue = e.queue /\ f.voice = e.voice
  BY <1>2 DEF Framed, DuFields
<1>. HIDE DEF f
<1>5. g.sessions = e.sessions /\ g.queue = Append(e.queue, m) /\ g.voice = e.voice
  BY <1>4 DEF DuFields
<1>. HIDE DEF g
<1>6. \A o \in Controllers : o # c => VoiceSame(e, g, o)
  <2>. SUFFICES ASSUME NEW o \in Controllers, o # c, Gone(g, o) PROVE Gone(e, o)
    BY <1>5 DEF VoiceSame
  <2>. DEFINE n == Len(e.queue)
  <2>1. /\ n \in Nat /\ Len(g.queue) = n + 1 /\ g.queue[n + 1] = m
        /\ \A k \in 1 .. n : g.queue[k] = e.queue[k]
    BY <1>2, <1>5, QueueAppend DEF Framed
  <2>2. PICK k \in 1 .. n + 1 : g.queue[k].type = "unstage" /\ g.queue[k].ctl = o
    BY <2>1 DEF Gone
  <2>3. k \in 1 .. n
    <3>1. k # n + 1  BY <1>3, <2>1, <2>2
    <3>. QED  BY <2>1, <3>1
  <2>. QED  BY <2>1, <2>2, <2>3 DEF Gone
<1>7. /\ g.voice \in BOOLEAN /\ g.sessions[c].downloading \in BOOLEAN /\ g.sessions[c].background \in BOOLEAN
      /\ ~g.sessions[c].downloading
  BY <1>2, <1>5 DEF VoiceRight
<1>8. g.voice <=> (g.sessions[c].downloading /\ ~g.sessions[c].background) \/ OtherForeground(e, c)
  BY <1>2, <1>5, OthersVoice
<1>9. VoiceRight(g)  BY <1>2, <1>6, <1>7, <1>8, OneVoice
<1>. QED  BY <1>1, <1>9

\* The start of one: it is in the foreground if the last one was, or the user asked for it.
LEMMA BeginVoice ==
    ASSUME Quick, Framed(du), VoiceRight(du),
           NEW c \in Controllers, NEW i \in Images, NEW manual \in BOOLEAN, NEW ready \in BOOLEAN,
           Settled(c), Begin(c, i, manual, ready)
    PROVE  VoiceRight(du')
<1>. DEFINE a == Acquired(c, i)
            n == Len(du.queue)
<1>1. i # None /\ Background \in BOOLEAN  BY ControllersAssumption, PreferencesAssumption DEF None
<1>2. n \in Nat /\ DOMAIN du.queue = 1 .. n
  <2>1. PICK S : du.queue \in Seq(S)  BY DEF Framed, IsQueue
  <2>. QED  BY <2>1, LenProperties
<1>3. ~Gone(du, c)  BY <1>2 DEF Settled, Queued, Gone
<1>4. Framed(a) /\ VoiceRight(a) /\ a.queue = du.queue /\ a.sessions[c].image # None
  <2>1. CASE Exists(c)
    BY <2>1 DEF Acquired, Exists
  <2>2. CASE ~Exists(c)
    <3>. DEFINE s == NewSession(i)
    <3>1. a = [du EXCEPT !.count = @ + 1, !.active = @ + 1, !.readers[i] = @ + 1, !.sessions[c] = s]
      BY <2>2 DEF Acquired
    <3>2. /\ DOMAIN s = SessionFields /\ s.image = i /\ s.downloading = FALSE /\ s.background = Background
      BY DEF NewSession, SessionFields
    <3>. HIDE DEF s
    <3>3. /\ DOMAIN a = DuFields /\ a.sessions = [du.sessions EXCEPT ![c] = s]
          /\ a.queue = du.queue /\ a.voice = du.voice
      BY <3>1 DEF Framed, DuFields
    <3>. HIDE DEF a
    <3>4. /\ DOMAIN a.sessions = Controllers /\ a.sessions[c] = s
          /\ \A o \in Controllers : o # c => a.sessions[o] = du.sessions[o]
      BY <3>3 DEF Framed
    <3>5. Framed(a)  BY <3>2, <3>3, <3>4 DEF Framed
    <3>6. \A o \in Controllers : o # c => VoiceSame(du, a, o)  BY <3>3, <3>4 DEF VoiceSame, Gone
    <3>7. ~du.sessions[c].downloading  BY <2>2 DEF VoiceRight, Exists
    <3>8. /\ a.voice \in BOOLEAN /\ a.sessions[c].downloading \in BOOLEAN
          /\ a.sessions[c].background \in BOOLEAN /\ ~a.sessions[c].downloading
      BY <1>1, <3>2, <3>3, <3>4 DEF VoiceRight
    <3>9. a.voice <=> (a.sessions[c].downloading /\ ~a.sessions[c].background) \/ OtherForeground(du, c)
      BY <3>3, <3>7, <3>8, OthersVoice
    <3>10. VoiceRight(a)  BY <3>6, <3>8, <3>9, OneVoice
    <3>. QED  BY <1>1, <3>2, <3>3, <3>4, <3>5, <3>10
  <2>. QED  BY <2>1, <2>2
<1>5. CASE du' = du  BY <1>5
<1>6. CASE du' = Released(a, i)
  <2>. HIDE DEF a
  <2>1. du'.sessions = a.sessions /\ du'.queue = a.queue /\ du'.voice = a.voice
    BY <1>4, <1>6 DEF Released, Framed, DuFields
  <2>2. \A o \in Controllers : VoiceSame(a, du', o)  BY <2>1 DEF VoiceSame, Gone
  <2>. QED  BY <1>4, <2>1, <2>2, NoneVoice
<1>7. CASE du' = Started(a, c, i, manual)
  <2>. HIDE DEF a
  <2>. DEFINE m == StageMsg(a, c, i)
              timed == c \notin Resume
              back == a.sessions[c].background /\ ~manual
              s == [a.sessions[c] EXCEPT !.tag = IF timed THEN "armed" ELSE @,
                                         !.param = IF timed THEN i ELSE @,
                                         !.background = back,
                                         !.downloading = TRUE]
  <2>1. s.image = a.sessions[c].image /\ s.downloading = TRUE /\ s.background = back
    BY <1>4 DEF Framed, SessionFields
  <2>2. m.type = "stage" /\ m.ctl = c  BY DEF StageMsg
  <2>3. /\ du'.queue = Append(a.queue, m) /\ du'.voice = (a.voice \/ ~back)
        /\ du'.sessions = [a.sessions EXCEPT ![c] = s]
    BY <1>4, <1>7 DEF Started, Framed, DuFields
  <2>. HIDE DEF m, s
  <2>4. /\ du'.sessions[c] = s /\ \A o \in Controllers : o # c => du'.sessions[o] = a.sessions[o]
    BY <1>4, <2>3 DEF Framed
  <2>5. PICK d1 : d1 = du'  OBVIOUS
  <2>6. \A o \in Controllers : Gone(d1, o) => Gone(a, o)
    <3>1. /\ IsQueue(du.queue) /\ d1.queue = Append(du.queue, m)  BY <1>4, <2>3, <2>5 DEF Framed
    <3>2. /\ Len(d1.queue) = n + 1 /\ d1.queue[n + 1] = m
          /\ \A k \in 1 .. n : d1.queue[k] = du.queue[k]
      BY <3>1, QueueAppend
    <3>3. ASSUME NEW o \in Controllers, NEW k \in 1 .. n + 1, d1.queue[k].type = "unstage", d1.queue[k].ctl = o
          PROVE  Gone(a, o)
      <4>1. k # n + 1  BY <2>2, <3>2, <3>3
      <4>2. k \in 1 .. n  BY <1>2, <4>1
      <4>. QED  BY <1>4, <3>2, <3>3, <4>2 DEF Gone
    <3>. QED  BY <3>2, <3>3 DEF Gone
  <2>7. \A o \in Controllers : o # c => VoiceSame(a, d1, o)  BY <2>4, <2>5, <2>6 DEF VoiceSame
  <2>8. ~Gone(d1, c) /\ d1.sessions[c].image # None
    BY <1>3, <1>4, <2>1, <2>4, <2>5, <2>6 DEF Gone
  <2>9. a.voice \in BOOLEAN /\ a.sessions[c].background \in BOOLEAN /\ a.sessions[c].downloading \in BOOLEAN
    BY <1>4 DEF VoiceRight
  <2>10. /\ d1.voice \in BOOLEAN /\ d1.sessions[c].downloading = TRUE /\ d1.sessions[c].background \in BOOLEAN
         /\ d1.sessions[c].background = back /\ d1.voice = (a.voice \/ ~back)
    BY <2>1, <2>3, <2>4, <2>5, <2>9
  <2>11. d1.voice <=> (d1.sessions[c].downloading /\ ~d1.sessions[c].background) \/ OtherForeground(a, c)
    <3>1. a.voice <=> (a.sessions[c].downloading /\ ~a.sessions[c].background) \/ OtherForeground(a, c)
      BY <1>4, OthersVoice
    <3>. QED  BY <2>9, <2>10, <3>1
  <2>12. d1.sessions[c].downloading \in BOOLEAN  BY <2>10
  <2>. HIDE DEF back
  <2>13. VoiceRight(d1)
    <3>1. VoiceRight(a)  BY <1>4
    <3>2. d1.voice \in BOOLEAN /\ d1.sessions[c].background \in BOOLEAN  BY <2>10
    <3>3. d1.sessions[c].image = None \/ Gone(d1, c) => ~d1.sessions[c].downloading  BY <2>8
    <3>. QED  BY ONLY <2>7, <2>11, <2>12, <3>1, <3>2, <3>3, OneVoice
  <2>. QED  BY <2>5, <2>13
<1>. QED  BY <1>5, <1>6, <1>7 DEF Begin

\* A request for data or for the time to load.
LEMMA RequestsVoice ==
    ASSUME Framed(du), VoiceRight(du), NEW c \in Controllers, NEW flag \in BOOLEAN,
           DataRequest(c, flag) \/ LoadRequest(c)
    PROVE  VoiceRight(du')
<1>. DEFINE d == Rearm(du, c)
            s == [d.sessions[c] EXCEPT !.waiting = TRUE]
<1>1. Framed(d) /\ VoiceRight(d)  BY RearmLeaves, RearmVoice DEF Leaves
<1>2. CASE du' = d  BY <1>1, <1>2
<1>3. CASE LoadRequest(c)
  <2>. DEFINE b == DownloadComplete(du, c)
  <2>1. du' = Rearm(b, c)  BY <1>3 DEF LoadRequest
  <2>2. Framed(b) /\ VoiceRight(b)  BY DownloadCompleteLeaves, DownloadCompleteVoice DEF Leaves
  <2>. HIDE DEF b
  <2>. QED  BY <2>1, <2>2, RearmVoice
<1>4. CASE du' = [d EXCEPT !.sessions[c].waiting = TRUE, !.active = LessOne(@)]
  <2>. HIDE DEF d
  <2>1. /\ s.image = d.sessions[c].image /\ s.downloading = d.sessions[c].downloading
        /\ s.background = d.sessions[c].background
    BY <1>1 DEF Framed, SessionFields
  <2>2. du'.sessions = [d.sessions EXCEPT ![c] = s] /\ du'.queue = d.queue /\ du'.voice = d.voice
    BY <1>1, <1>4 DEF Framed, DuFields
  <2>. HIDE DEF s
  <2>. QED  BY <1>1, <2>1, <2>2, PutVoice
<1>. QED  BY <1>2, <1>3, <1>4 DEF DataRequest

\* The main loop dispatches a timer ...
LEMMA TimerFiresVoice ==
    ASSUME Framed(du), VoiceRight(du), TimerFires
    PROVE  VoiceRight(du')
<1>1. CASE \E c \in Controllers : du' = [du EXCEPT !.sessions[c].tag = "fired"]
  <2>1. PICK c \in Controllers : du' = [du EXCEPT !.sessions[c].tag = "fired"]  BY <1>1
  <2>. DEFINE s == [du.sessions[c] EXCEPT !.tag = "fired"]
  <2>2. /\ s.image = du.sessions[c].image /\ s.downloading = du.sessions[c].downloading
        /\ s.background = du.sessions[c].background
    BY DEF Framed, SessionFields
  <2>3. du'.sessions = [du.sessions EXCEPT ![c] = s] /\ du'.queue = du.queue /\ du'.voice = du.voice
    BY <2>1 DEF Framed, DuFields
  <2>. HIDE DEF s
  <2>. QED  BY <2>2, <2>3, PutVoice
<1>2. CASE \E t \in du.stray : du' = [du EXCEPT !.stray = @ \ {t}]
  <2>1. du'.sessions = du.sessions /\ du'.queue = du.queue /\ du'.voice = du.voice
    BY <1>2 DEF Framed, DuFields
  <2>2. \A o \in Controllers : VoiceSame(du, du', o)  BY <2>1 DEF VoiceSame, Gone
  <2>. QED  BY <2>1, <2>2, NoneVoice
<1>. QED  BY <1>1, <1>2 DEF TimerFires

\* ... and its callback runs, for a session or for what it makes of one that is gone.
LEMMA TimerRunsVoice ==
    ASSUME Framed(du), VoiceRight(du), TimerRuns
    PROVE  VoiceRight(du')
<1>1. PICK c \in Controllers :
         IF Exists(c) THEN du' = TimedOut(c, firing.image)
         ELSE du' = [du EXCEPT !.sessions[c] = Phantom]
  BY DEF TimerRuns
<1>2. CASE Exists(c)
  <2>. DEFINE d == EndSession(du, c, firing.image)
              s == [d.sessions[c] EXCEPT !.tag = "none"]
  <2>1. Framed(d) /\ VoiceRight(d)  BY EndSessionDeletes, EndSessionVoice DEF Deletes
  <2>2. /\ s.image = d.sessions[c].image /\ s.downloading = d.sessions[c].downloading
        /\ s.background = d.sessions[c].background
    BY <2>1 DEF Framed, SessionFields
  <2>3. /\ du'.sessions = [d.sessions EXCEPT ![c] = s] /\ du'.queue = d.queue /\ du'.voice = d.voice
    <3>1. PICK strays : du' = [d EXCEPT !.sessions[c].tag = "none", !.stray = strays]
      BY <1>1, <1>2, <2>1 DEF TimedOut, Framed, DuFields
    <3>. HIDE DEF d
    <3>. QED  BY <2>1, <3>1 DEF Framed, DuFields
  <2>. HIDE DEF d, s
  <2>. QED  BY <2>1, <2>2, <2>3, PutVoice
<1>3. CASE ~Exists(c)
  <2>. DEFINE s == Phantom
  <2>1. s.downloading = FALSE /\ s.background = FALSE /\ s.image = 0
    BY DEF Phantom, NewSession
  <2>. HIDE DEF s
  <2>2. du'.sessions = [du.sessions EXCEPT ![c] = s] /\ du'.queue = du.queue /\ du'.voice = du.voice
    BY <1>1, <1>3 DEF Framed, DuFields, s
  <2>3. \A o \in Controllers : du'.sessions[o] = IF o = c THEN s ELSE du.sessions[o]
    BY <2>2 DEF Framed
  <2>4. \A o \in Controllers : o # c => VoiceSame(du, du', o)  BY <2>2, <2>3 DEF VoiceSame, Gone
  <2>5. ~du.sessions[c].downloading  BY <1>3 DEF VoiceRight, Exists
  <2>6. du'.voice <=> (du'.sessions[c].downloading /\ ~du'.sessions[c].background) \/ OtherForeground(du, c)
    BY <2>1, <2>2, <2>3, <2>5, OthersVoice
  <2>7. /\ du'.voice \in BOOLEAN /\ du'.sessions[c].downloading \in BOOLEAN
        /\ du'.sessions[c].background \in BOOLEAN /\ ~du'.sessions[c].downloading
    BY <2>1, <2>2, <2>3 DEF VoiceRight
  <2>. QED  BY <2>4, <2>6, <2>7, OneVoice
<1>. QED  BY <1>2, <1>3

\* The thread opens a file, or deletes a session that did not download.
LEMMA ThreadVoice ==
    ASSUME Framed(du), VoiceRight(du), Thread
    PROVE  VoiceRight(du')
<1>. DEFINE m == Head(du.queue)
            n == Len(du.queue) - 1
            d == [du EXCEPT !.queue = Tail(du.queue)]
<1>1. du.queue # <<>> /\ (m.type = "stage" \/ m.type = "unstage")
  BY DEF Thread, ThreadStage, ThreadUnstage, Taken
<1>2. /\ n \in Nat /\ n + 1 = Len(du.queue) /\ m = du.queue[1] /\ Len(Tail(du.queue)) = n
      /\ \A k \in 1 .. n : Tail(du.queue)[k] = du.queue[k + 1]
  <2>1. PICK S : du.queue \in Seq(S)  BY DEF Framed, IsQueue
  <2>2. /\ m = du.queue[1] /\ Len(Tail(du.queue)) = Len(du.queue) - 1
        /\ \A k \in 1 .. Len(Tail(du.queue)) : Tail(du.queue)[k] = du.queue[k + 1]
        /\ Len(du.queue) \in Nat /\ Len(du.queue) # 0
    BY <1>1, <2>1, HeadTailProperties, LenProperties, EmptySeq
  <2>. QED  BY <2>2
<1>3. d.queue = Tail(du.queue) /\ d.sessions = du.sessions /\ d.voice = du.voice /\ DOMAIN d = DuFields
  BY DEF Framed, DuFields
<1>4. \A o \in Controllers : Gone(d, o) => Gone(du, o)
  <2>. SUFFICES ASSUME NEW o \in Controllers, NEW k \in 1 .. n, d.queue[k].type = "unstage", d.queue[k].ctl = o
                PROVE  Gone(du, o)
    BY <1>2, <1>3 DEF Gone
  <2>1. k + 1 \in 1 .. Len(du.queue) /\ d.queue[k] = du.queue[k + 1]  BY <1>2, <1>3
  <2>. QED  BY <2>1 DEF Gone
<1>5. \A o \in Controllers : m.type = "unstage" /\ o = m.ctl => Gone(du, o)
  <2>1. 1 \in 1 .. Len(du.queue)  BY <1>2
  <2>. QED  BY <1>2, <2>1 DEF Gone
<1>. HIDE DEF m, n, d
<1>6. CASE du'.queue = d.queue /\ du'.voice = du.voice /\ du'.sessions = du.sessions
  <2>1. \A o \in Controllers : VoiceSame(du, du', o)  BY <1>4, <1>6 DEF VoiceSame, Gone
  <2>. QED  BY <1>6, <2>1, NoneVoice
<1>7. ASSUME NEW x, du'.queue = d.queue, du'.voice = du.voice,
             du'.sessions = [du.sessions EXCEPT ![m.ctl].file = x]
      PROVE  VoiceRight(du')
  <2>1. \A o \in Controllers : /\ du'.sessions[o].image = du.sessions[o].image
                               /\ du'.sessions[o].downloading = du.sessions[o].downloading
                               /\ du'.sessions[o].background = du.sessions[o].background
    BY <1>7 DEF Framed, SessionFields
  <2>2. \A o \in Controllers : VoiceSame(du, du', o)  BY <1>4, <1>7, <2>1 DEF VoiceSame, Gone
  <2>. QED  BY <1>7, <2>2, NoneVoice
<1>8. CASE /\ m.type = "unstage" /\ du'.queue = d.queue /\ du'.voice = du.voice
           /\ du'.sessions = [du.sessions EXCEPT ![m.ctl] = NoSession]
  <2>1. CASE m.ctl \in Controllers
    <3>. DEFINE c == m.ctl
    <3>1. NoSession.downloading = FALSE /\ NoSession.background \in BOOLEAN
      BY PreferencesAssumption DEF NoSession, NewSession
    <3>2. \A o \in Controllers : du'.sessions[o] = IF o = c THEN NoSession ELSE du.sessions[o]
      BY <1>8 DEF Framed
    <3>3. \A o \in Controllers : o # c => VoiceSame(du, du', o)  BY <1>4, <1>8, <3>2 DEF VoiceSame, Gone
    <3>4. ~du.sessions[c].downloading  BY <1>5, <1>8, <2>1 DEF VoiceRight
    <3>5. /\ du'.voice \in BOOLEAN /\ du'.sessions[c].downloading \in BOOLEAN
          /\ du'.sessions[c].background \in BOOLEAN /\ ~du'.sessions[c].downloading
      BY <1>8, <2>1, <3>1, <3>2 DEF VoiceRight
    <3>6. du'.voice <=> (du'.sessions[c].downloading /\ ~du'.sessions[c].background) \/ OtherForeground(du, c)
      BY <1>8, <2>1, <3>4, <3>5, OthersVoice
    <3>7. c \in Controllers  BY <2>1
    <3>. HIDE DEF c
    <3>. QED  BY <3>3, <3>5, <3>6, <3>7, OneVoice
  <2>2. CASE m.ctl \notin Controllers
    <3>1. \A o \in Controllers : du'.sessions[o] = du.sessions[o]  BY <1>8, <2>2 DEF Framed
    <3>2. \A o \in Controllers : VoiceSame(du, du', o)  BY <1>4, <1>8, <3>1 DEF VoiceSame, Gone
    <3>. QED  BY <1>8, <3>2, NoneVoice
  <2>. QED  BY <2>1, <2>2
<1>9. CASE ThreadStage
  <2>1. m.type = "stage"  BY <1>9 DEF ThreadStage, Taken, m
  <2>2. CASE Exists(m.ctl)
    <3>1. PICK x : du' = [d EXCEPT !.sessions[m.ctl].file = x]  BY <1>9, <2>2 DEF ThreadStage, d, m
    <3>2. du'.queue = d.queue /\ du'.voice = du.voice /\ du'.sessions = [du.sessions EXCEPT ![m.ctl].file = x]
      BY <1>3, <3>1 DEF DuFields
    <3>. QED  BY <1>7, <3>2
  <2>3. CASE ~Exists(m.ctl)
    <3>1. du' = d  BY <1>9, <2>3 DEF ThreadStage, d, m
    <3>. QED  BY <1>3, <1>6, <3>1
  <2>. QED  BY <2>2, <2>3
<1>10. CASE ThreadUnstage
  <2>1. m.type = "unstage" /\ du' = [d EXCEPT !.sessions[m.ctl] = NoSession]
    BY <1>10, <1>3 DEF ThreadUnstage, Taken, Framed, DuFields, d, m
  <2>2. du'.queue = d.queue /\ du'.voice = du.voice /\ du'.sessions = [du.sessions EXCEPT ![m.ctl] = NoSession]
    BY <1>3, <2>1 DEF DuFields
  <2>. QED  BY <1>8, <2>1, <2>2
<1>. QED  BY <1>9, <1>10 DEF Thread

\* At a start nothing downloads.
LEMMA InitDuVoice == VoiceRight(InitDu)
<1>. DEFINE d == InitDu
<1>1. d.sessions = [c \in Controllers |-> NoSession] /\ d.queue = <<>> /\ d.voice = FALSE
  BY DEF InitDu
<1>2. NoSession.downloading = FALSE /\ NoSession.background \in BOOLEAN
  BY PreferencesAssumption DEF NoSession, NewSession
<1>3. Len(<<>>) = 0  BY EmptySeq
<1>. HIDE DEF d
<1>4. VoiceRight(d)  BY <1>1, <1>2, <1>3 DEF VoiceRight, Foreground, Gone
<1>. QED  BY <1>4 DEF d

\* Every step keeps the flag right.
LEMMA VoiceStep ==
    ASSUME Quick, ~Interactive, Framed(du), VoiceRight(du), [Next]_vars
    PROVE  VoiceRight(du')
<1>1. ASSUME NEW c \in Controllers, Main(c) PROVE VoiceRight(du')
  <2>1. ASSUME NEW i \in Images, NEW manual \in BOOLEAN, ImageCheck(c, i, manual) PROVE VoiceRight(du')
    <3>1. Settled(c) /\ \E ready \in BOOLEAN : Begin(c, i, manual, ready)  BY <2>1 DEF ImageCheck
    <3>. QED  BY <3>1, BeginVoice
  <2>2. ASSUME NEW flag \in BOOLEAN, ResumeSession(c, flag) PROVE VoiceRight(du')
    <3>1. PICK i \in Wants[c], ready \in BOOLEAN : Begin(c, i, flag, ready)  BY <2>2 DEF ResumeSession
    <3>2. i \in Images /\ Settled(c)  BY <2>2, ControllersAssumption DEF ResumeSession
    <3>. QED  BY <3>1, <3>2, BeginVoice
  <2>3. ASSUME NEW flag \in BOOLEAN, DownloadCompleted(c, flag) PROVE VoiceRight(du')
    <3>1. du' = du \/ \E i : du' = EndSession(du, c, i)  BY <2>3 DEF DownloadCompleted, Completed
    <3>. QED  BY <3>1, EndSessionVoice
  <2>4. CASE Reboot(c) \/ Unload(c)
    <3>1. \E i : du' = EndSession(du, c, i)  BY <2>4 DEF Reboot, Unload
    <3>. QED  BY <3>1, EndSessionVoice
  <2>5. ASSUME NEW flag \in BOOLEAN PROVE ~DownloadStart(c, flag)  BY DEF DownloadStart
  <2>6. TRUE \in BOOLEAN  OBVIOUS
  <2>. QED  BY <1>1, <2>1, <2>2, <2>3, <2>4, <2>5, <2>6, RequestsVoice DEF Main
<1>2. CASE Thread  BY <1>2, ThreadVoice
<1>3. CASE Timer  BY <1>3, TimerFiresVoice, TimerRunsVoice DEF Timer
<1>4. CASE \E i \in Announced : ThreadAnnounced(i)  BY <1>4 DEF ThreadAnnounced
<1>5. CASE Restart  BY <1>5, InitDuVoice DEF Restart
<1>6. CASE UNCHANGED vars  BY <1>6 DEF vars
<1>. QED  BY <1>1, <1>2, <1>3, <1>4, <1>5, <1>6 DEF Next

\* Voice is disabled exactly while a download is in the foreground, whichever images the
\* controllers want, announced again or not, and however their sessions overlay each other, end
\* and time out: if no application changes a download that is under way, and a session that ended
\* is deleted before its controller does more.
THEOREM VoiceIsOff == ASSUME Quick, ~Interactive PROVE Spec => []VoiceOffInForeground
<1>1. Init => SessionsInv /\ VoiceRight(du)
  BY SessionsInit, InitDuVoice DEF Init
<1>2. SessionsInv /\ VoiceRight(du) /\ [Next]_vars => (SessionsInv /\ VoiceRight(du))'
  BY SessionsStep, VoiceStep DEF SessionsInv
<1>3. VoiceRight(du) => VoiceOffInForeground
  BY DEF VoiceRight, VoiceOffInForeground, Foreground
<1>. QED  BY <1>1, <1>2, <1>3, PTL DEF Spec

===============================================================================
