----------------------------- MODULE Rf4ceProofs ------------------------------
(***************************************************************************)
(* What is proved of the components of an RF4CE network: key releases,     *)
(* find my remote, discovery, the tables of controllers, the IR codes and  *)
(* the attributes of the remotes, the milestones of their batteries, and   *)
(* how the remotes poll.                                                   *)
(* Each part states what it assumes of the constants, an inductive         *)
(* invariant, and its theorem last.                                        *)
(***************************************************************************)
EXTENDS KeyRelease, FindRemote, Discovery, ControllerSync, IrCodes, Rib, Battery, Polling,
        FiniteSetTheorems, WellFoundedInduction, SequenceTheorems, TLAPS

-----------------------------------------------------------------------------
(***************************************************************************)
(* No key stays down and no tag is stale, for every remote and any number  *)
(* of frames and validations, in every order of the main thread and the    *)
(* thread of the GLib loop.                                                *)
(***************************************************************************)

IsTimer(t) == t = [tag |-> t.tag, at |-> t.at]
Pending(t) == t.at \in {"armed", "runs"}

\* Between the press and its DOWN the former key is up; only a repeat is in the middle of
\* replacing the timer of a key that is down.
KeyInv ==
    /\ record = [key |-> record.key, tag |-> record.tag]
    /\ \A t \in timers : IsTimer(t)
    /\ held # NoKey => inFrame = "repeat" \/ \E t \in timers : Pending(t)
    /\ TagsNameTimers

\* A timer that goes from one place to the next keeps its tag, and the others are untouched.
LEMMA TimerMoves ==
    ASSUME KeyInv, NEW t \in timers, NEW at, timers' = (timers \ {t}) \cup {[t EXCEPT !.at = at]},
           UNCHANGED record
    PROVE  /\ \A u \in timers' : IsTimer(u)
           /\ TagsNameTimers'
           /\ \E u \in timers' : u.at = at
<1>1. t = [tag |-> t.tag, at |-> t.at]  BY DEF KeyInv, IsTimer
<1>2. [t EXCEPT !.at = at] = [tag |-> t.tag, at |-> at]  BY <1>1
<1>3. timers' = (timers \ {t}) \cup {[tag |-> t.tag, at |-> at]}  BY <1>2
<1>4. \A u \in timers' : IsTimer(u)
  BY <1>3 DEF KeyInv, IsTimer
<1>5. TagsNameTimers'
  <2> SUFFICES ASSUME record.tag # 0 PROVE \E v \in timers' : v.tag = record.tag
    BY DEF TagsNameTimers
  <2>1. PICK u \in timers : u.tag = record.tag
    BY DEF KeyInv, TagsNameTimers
  <2>2. CASE u = t
    <3>1. [tag |-> t.tag, at |-> at].tag = record.tag  BY <2>1, <2>2
    <3> QED  BY <3>1, <1>3
  <2>3. CASE u # t
    BY <2>1, <2>3, <1>3
  <2> QED  BY <2>2, <2>3
<1>6. \E u \in timers' : u.at = at
  BY <1>3
<1> QED  BY <1>4, <1>5, <1>6

\* Clearing the tag of the record leaves nothing to be named.
LEMMA TagCleared ==
    ASSUME KeyInv, record' = [record EXCEPT !.tag = 0]
    PROVE  /\ record' = [key |-> record'.key, tag |-> record'.tag]
           /\ TagsNameTimers'
<1>1. record = [key |-> record.key, tag |-> record.tag]  BY DEF KeyInv
<1>2. record' = [key |-> record.key, tag |-> 0]  BY <1>1
<1> QED  BY <1>2 DEF TagsNameTimers

\* A new timer is armed, and the record names it.
LEMMA TimerArmed ==
    ASSUME KeyInv, timers' = timers \cup {NewTimer}, NEW k,
           record' = [key |-> k, tag |-> Tag]
    PROVE  /\ \A t \in timers' : IsTimer(t)
           /\ record' = [key |-> record'.key, tag |-> record'.tag]
           /\ TagsNameTimers'
           /\ \E t \in timers' : Pending(t)
<1> DEFINE n == Tag
<1>1. NewTimer = [tag |-> n, at |-> "armed"]  BY DEF NewTimer
<1>2. record' = [key |-> k, tag |-> n]  OBVIOUS
<1> HIDE DEF n
<1> QED  BY <1>1, <1>2 DEF KeyInv, IsTimer, Pending, TagsNameTimers

\* Every step keeps the invariant.
LEMMA KeyStep == KeyInv /\ [KeyNext]_keyVars => KeyInv'
<1> SUFFICES ASSUME KeyInv, [KeyNext]_keyVars PROVE KeyInv'
  OBVIOUS
<1>1. ASSUME NEW k \in Keys, Pressed(k) PROVE KeyInv'
  <2>1. CASE record.tag # 0
    <3>1. held' = NoKey /\ record' = [record EXCEPT !.tag = 0] /\ timers' \subseteq timers
      BY <1>1, <2>1 DEF Pressed, Without
    <3> QED  BY <3>1, TagCleared DEF KeyInv
  <2>2. CASE record.tag = 0
    <3>1. UNCHANGED <<held, record, timers>> /\ inFrame = NoKey
      BY <1>1, <2>2 DEF Pressed, Frame
    <3> QED  BY <3>1 DEF KeyInv, TagsNameTimers, NoKey
  <2> QED  BY <2>1, <2>2
<1>2. CASE DownSent
  <2>1. inFrame # "repeat"  BY <1>2, KeysAssumption DEF DownSent
  <2>2. CASE UNCHANGED <<held, record, timers>>
    BY <2>1, <2>2 DEF KeyInv, TagsNameTimers
  <2>3. CASE timers' = timers \cup {NewTimer} /\ record' = [key |-> inFrame, tag |-> Tag]
    BY <2>3, TimerArmed DEF KeyInv
  <2> QED  BY <1>2, <2>2, <2>3 DEF DownSent
<1>3. CASE Repeated
  <2>1. record' = [record EXCEPT !.tag = 0] /\ timers' \subseteq timers /\ inFrame' = "repeat"
    BY <1>3 DEF Repeated, Without
  <2> QED  BY <2>1, TagCleared DEF KeyInv
<1>4. CASE Kicked
  <2>1. record' = [key |-> record.key, tag |-> Tag]
    <3>1. record = [key |-> record.key, tag |-> record.tag]  BY DEF KeyInv
    <3> QED  BY <3>1, <1>4 DEF Kicked
  <2> QED  BY <1>4, <2>1, TimerArmed DEF Kicked, KeyInv
<1>5. CASE Released
  <2>1. inFrame' = inFrame  BY <1>5 DEF Released
  <2>2. CASE UNCHANGED <<held, timers, record>>
    BY <2>1, <2>2 DEF KeyInv, TagsNameTimers
  <2>3. CASE held' = NoKey /\ timers' = Without(record.tag) /\ record' = [record EXCEPT !.tag = 0]
    <3>1. timers' \subseteq timers  BY <2>3 DEF Without
    <3> QED  BY <2>3, <3>1, TagCleared DEF KeyInv
  <2> QED  BY <1>5, <2>2, <2>3 DEF Released
<1>6. CASE ValidationChanges \/ UNCHANGED keyVars
  <2>1. UNCHANGED <<held, record, timers, inFrame>>
    BY <1>6 DEF ValidationChanges, keyVars
  <2> QED  BY <2>1 DEF KeyInv, TagsNameTimers
<1>7. ASSUME NEW t \in timers, TimerFires(t) PROVE KeyInv'
  <2>1. timers' = (timers \ {t}) \cup {[t EXCEPT !.at = "runs"]} /\ UNCHANGED record
    BY <1>7 DEF TimerFires
  <2>2. /\ \A u \in timers' : IsTimer(u)
        /\ TagsNameTimers'
        /\ \E u \in timers' : u.at = "runs"
    BY <2>1, TimerMoves
  <2> QED  BY <2>1, <2>2 DEF KeyInv, Pending
<1>8. ASSUME NEW t \in timers, TimerSends(t) PROVE KeyInv'
  <2>1. /\ timers' = (timers \ {t}) \cup {[t EXCEPT !.at = "sent"]} /\ UNCHANGED record
        /\ held' = NoKey
    BY <1>8 DEF TimerSends
  <2>2. (\A u \in timers' : IsTimer(u)) /\ TagsNameTimers'
    BY <2>1, TimerMoves
  <2> QED  BY <2>1, <2>2 DEF KeyInv
<1>9. ASSUME NEW t \in timers, TimerReturns(t) PROVE KeyInv'
  <2>1. /\ timers' = timers \ {t} /\ t.at = "sent" /\ UNCHANGED <<held, inFrame>>
        /\ record' = [record EXCEPT !.tag = 0]
    BY <1>9 DEF TimerReturns
  <2>2. \A u \in timers : Pending(u) => u \in timers'
    BY <2>1 DEF Pending
  <2> QED  BY <2>1, <2>2, TagCleared DEF KeyInv
<1> QED
  BY <1>1, <1>2, <1>3, <1>4, <1>5, <1>6, <1>7, <1>8, <1>9 DEF KeyNext

\* KeysSound: a key that is down is always about to come up by a timer, and the record names
\* a timer there is.
THEOREM NoKeyStaysDown == KeySpec => []KeysSound
<1>1. KeyInit => KeyInv
  BY DEF KeyInit, KeyInv, TagsNameTimers
<1>2. KeyInv => KeysSound
  BY DEF KeyInv, KeysSound, DownHasTimer, TagsNameTimers, Pending, NoKey
<1> QED  BY <1>1, <1>2, KeyStep, PTL DEF KeySpec

-----------------------------------------------------------------------------
(***************************************************************************)
(* A find my remote command ends, and ends once, for any remotes and any   *)
(* number of commands.                                                     *)
(***************************************************************************)

\* There is a natural number of commands.
FindAssumption == MaxCommands \in Nat

Handlers == [does : {"begin", "end"}, cmd : Nat]
Ways == {"user", "time", "other", "untold"}

FindTypes ==
    /\ number \in 0..MaxCommands /\ begins \subseteq Nat /\ ends \subseteq Nat
    /\ handlers \in Seq(Handlers) /\ ended \in [Numbers -> SUBSET Ways]

\* The pending command has a timer of its own, or a message of one.
EndComes ==
    \/ number \in begins \cup ends
    \/ \E k \in 1..Len(handlers) : handlers[k].cmd = number
PendingComes == pending # {} => EndComes

\* A command that has ended has ended in one way, and only the last may be pending.
ToldOnce ==
    \A n \in Numbers :
       /\ n < number \/ (n = number /\ pending = {}) => \E how \in Ways : ended[n] = {how}
       /\ n > number \/ (n = number /\ pending # {}) => ended[n] = {}

FindInv == FindTypes /\ PendingComes /\ ToldOnce /\ (pending # {} => number \in Numbers)

-----------------------------------------------------------------------------
(* The messages of the timers.                                             *)

\* A message is queued, and the others stay.
LEMMA HandlerQueued ==
    ASSUME NEW q \in Seq(Handlers), NEW m \in Handlers
    PROVE  /\ Append(q, m) \in Seq(Handlers)
           /\ \A k \in 1..Len(q) : k \in 1..Len(Append(q, m)) /\ Append(q, m)[k] = q[k]
           /\ \E k \in 1..Len(Append(q, m)) : Append(q, m)[k] = m
<1>1. /\ Append(q, m) \in Seq(Handlers) /\ Len(q) \in Nat /\ Len(Append(q, m)) = Len(q) + 1
      /\ Append(q, m)[Len(q) + 1] = m
      /\ \A k \in 1..Len(q) : k \in 1..Len(Append(q, m)) /\ Append(q, m)[k] = q[k]
  OBVIOUS
<1>2. Len(q) + 1 \in 1..Len(Append(q, m))
  BY <1>1
<1>. QED  BY <1>1, <1>2

\* The first message is taken, and the others stay.
LEMMA HandlerTaken ==
    ASSUME NEW q \in Seq(Handlers), q # <<>>
    PROVE  /\ Tail(q) \in Seq(Handlers) /\ Head(q) \in Handlers
           /\ \A k \in 1..Len(q) : q[k] = Head(q) \/ \E j \in 1..Len(Tail(q)) : Tail(q)[j] = q[k]
<1>1. /\ Tail(q) \in Seq(Handlers) /\ Head(q) \in Handlers /\ Head(q) = q[1]
      /\ Len(q) \in Nat /\ Len(Tail(q)) = Len(q) - 1
      /\ \A j \in 1..(Len(q) - 1) : Tail(q)[j] = q[j + 1]
  OBVIOUS
<1>2. ASSUME NEW k \in 1..Len(q), k # 1
      PROVE  \E j \in 1..Len(Tail(q)) : Tail(q)[j] = q[k]
  <2>1. k - 1 \in 1..(Len(q) - 1) /\ (k - 1) + 1 = k
    BY <1>1, <1>2
  <2>2. Tail(q)[k - 1] = q[k]
    BY <1>1, <2>1
  <2>. QED  BY <1>1, <2>1, <2>2
<1>. QED  BY <1>1, <1>2

-----------------------------------------------------------------------------
(* The steps.                                                              *)

\* A command begins: the last has ended.
LEMMA CommandInvariant ==
    ASSUME FindAssumption, FindInv, NEW rcus, ReverseCmd(rcus)
    PROVE  FindInv'
<1>1. /\ number < MaxCommands /\ pending = {} /\ rcus # {}
      /\ number' = number + 1 /\ pending' = rcus /\ begins' = begins \cup {number + 1}
      /\ UNCHANGED <<ends, handlers, ended>>
  BY DEF ReverseCmd
<1>2. number \in Nat /\ number <= MaxCommands /\ begins \subseteq Nat
  BY DEF FindInv, FindTypes, FindAssumption
<1>3. number' \in Numbers
  BY <1>1, <1>2 DEF Numbers, FindAssumption
<1>4. FindTypes'
  BY <1>1, <1>2 DEF FindInv, FindTypes, FindAssumption
<1>5. PendingComes'
  BY <1>1 DEF PendingComes, EndComes
<1>6. ToldOnce'
  <2>1. ASSUME NEW n \in Numbers, n < number + 1 PROVE n < number \/ n = number
    BY <1>2, <2>1 DEF Numbers
  <2>2. ASSUME NEW n \in Numbers, n >= number + 1 PROVE n > number
    BY <1>2, <2>2 DEF Numbers
  <2>3. ASSUME NEW n \in Numbers, n < number' PROVE \E how \in Ways : ended'[n] = {how}
    BY <1>1, <2>1, <2>3 DEF FindInv, ToldOnce
  <2>4. ASSUME NEW n \in Numbers, n > number' \/ n = number' PROVE ended'[n] = {}
    <3>1. n >= number + 1
      BY <1>1, <1>2, <2>4 DEF Numbers
    <3>. QED  BY <1>1, <2>2, <3>1 DEF FindInv, ToldOnce
  <2>. QED  BY <1>1, <2>3, <2>4 DEF ToldOnce
<1>. QED  BY <1>3, <1>4, <1>5, <1>6 DEF FindInv

\* A command ends in one way: what was pending is not, and its timers do not matter.
LEMMA EndInvariant ==
    ASSUME FindAssumption, FindInv, number' = number, begins' = begins, ends' \subseteq ends,
           handlers' \in Seq(Handlers), pending' = {}, NEW how \in Ways,
           IF pending = {} THEN ended' = ended ELSE EndsWith(how)
    PROVE  FindInv'
<1>1. FindTypes'
  <2>1. ended' \in [Numbers -> SUBSET Ways]
    BY DEF FindInv, FindTypes, EndsWith
  <2>. QED  BY <2>1 DEF FindInv, FindTypes
<1>2. PendingComes'
  BY DEF PendingComes
<1>3. ToldOnce'
  <2>1. CASE pending = {}
    BY <2>1 DEF FindInv, ToldOnce
  <2>2. CASE pending # {}
    <3>1. ended[number] = {} /\ number \in Numbers /\ ended' = [ended EXCEPT ![number] = @ \cup {how}]
      BY <2>2 DEF FindInv, ToldOnce, EndsWith
    <3>2. ended'[number] = {how} /\ \A n \in Numbers \ {number} : ended'[n] = ended[n]
      BY <3>1 DEF FindInv, FindTypes
    <3>3. \A n \in Numbers : n < number \/ n > number => n # number
      BY <3>1 DEF Numbers
    <3>. QED  BY <2>2, <3>2, <3>3 DEF FindInv, ToldOnce
  <2>. QED  BY <2>1, <2>2
<1>. QED  BY <1>1, <1>2, <1>3 DEF FindInv

\* A timer becomes its message, or a message the second timer, of the same command.
LEMMA TimerInvariant ==
    ASSUME FindInv, UNCHANGED <<pending, number, ended>>,
           begins' \subseteq Nat, ends' \subseteq Nat, handlers' \in Seq(Handlers),
           EndComes => EndComes'
    PROVE  FindInv'
<1>1. FindTypes' /\ ToldOnce'
  BY DEF FindInv, FindTypes, ToldOnce
<1>. QED  BY <1>1 DEF FindInv, PendingComes

\* A timer fires.
LEMMA FiresInvariant ==
    ASSUME FindInv, NEW n \in Numbers, BeginFires(n) \/ EndFires(n)
    PROVE  FindInv'
<1>1. PICK m \in Handlers :
         /\ handlers' = Append(handlers, m) /\ m.cmd = n
         /\ begins \ {n} \subseteq begins' /\ begins' \subseteq begins
         /\ ends \ {n} \subseteq ends' /\ ends' \subseteq ends
  <2>1. n \in Nat
    BY DEF Numbers
  <2>2. \A does \in {"begin", "end"} : [does |-> does, cmd |-> n] \in Handlers
    BY <2>1 DEF Handlers
  <2>. QED  BY <2>2 DEF BeginFires, EndFires
<1>2. UNCHANGED <<pending, number, ended>>
  BY DEF BeginFires, EndFires
<1>3. handlers \in Seq(Handlers) /\ begins \subseteq Nat /\ ends \subseteq Nat
  BY DEF FindInv, FindTypes
<1>4. /\ handlers' \in Seq(Handlers)
      /\ \A k \in 1..Len(handlers) : k \in 1..Len(handlers') /\ handlers'[k] = handlers[k]
      /\ \E k \in 1..Len(handlers') : handlers'[k].cmd = n
  BY <1>1, <1>3, HandlerQueued
<1>5. EndComes => EndComes'
  BY <1>1, <1>2, <1>4 DEF EndComes
<1>. QED  BY <1>1, <1>2, <1>3, <1>4, <1>5, TimerInvariant

\* The second timer starts.
LEMMA BeginEventInvariant ==
    ASSUME FindInv, BeginEvent
    PROVE  FindInv'
<1>1. /\ handlers # <<>> /\ handlers' = Tail(handlers)
      /\ ends' = ends \cup {Head(handlers).cmd}
      /\ UNCHANGED <<pending, begins, number, ended>>
  BY DEF BeginEvent, Handled
<1>2. handlers \in Seq(Handlers) /\ begins \subseteq Nat /\ ends \subseteq Nat
  BY DEF FindInv, FindTypes
<1>3. /\ handlers' \in Seq(Handlers) /\ Head(handlers) \in Handlers
      /\ \A k \in 1..Len(handlers) :
            handlers[k] = Head(handlers) \/ \E j \in 1..Len(handlers') : handlers'[j] = handlers[k]
  BY <1>1, <1>2, HandlerTaken
<1>4. EndComes => EndComes'
  <2>1. CASE number \in begins \cup ends
    BY <1>1, <2>1 DEF EndComes
  <2>2. CASE \E k \in 1..Len(handlers) : handlers[k].cmd = number
    <3>1. PICK k \in 1..Len(handlers) : handlers[k].cmd = number
      BY <2>2
    <3>2. CASE handlers[k] = Head(handlers)
      <4>1. number \in ends'
        BY <1>1, <3>1, <3>2
      <4>. QED  BY <1>1, <4>1 DEF EndComes
    <3>3. CASE \E j \in 1..Len(handlers') : handlers'[j] = handlers[k]
      BY <1>1, <3>1, <3>3 DEF EndComes
    <3>. QED  BY <1>3, <3>2, <3>3
  <2>. QED  BY <2>1, <2>2 DEF EndComes
<1>5. Head(handlers).cmd \in Nat
  BY <1>3 DEF Handlers
<1>. QED  BY <1>1, <1>2, <1>3, <1>4, <1>5, TimerInvariant

\* The command is over: its time, another's, or a key on a remote.
LEMMA OverInvariant ==
    ASSUME FindAssumption, FindInv, EndEvent \/ GhostCode
    PROVE  FindInv'
<1>1. handlers \in Seq(Handlers)
  BY DEF FindInv, FindTypes
<1>2. CASE EndEvent
  <2>1. handlers # <<>> /\ handlers' = Tail(handlers)
    BY <1>2 DEF EndEvent, Handled
  <2>2. handlers' \in Seq(Handlers)
    BY <1>1, <2>1, HandlerTaken
  <2>3. PICK how \in Ways : IF pending = {} THEN ended' = ended ELSE EndsWith(how)
    BY <1>2 DEF EndEvent, Ways
  <2>4. number' = number /\ begins' = begins /\ ends' = ends /\ pending' = {}
    BY <1>2 DEF EndEvent
  <2>. QED  BY <2>2, <2>3, <2>4, EndInvariant
<1>3. CASE GhostCode
  <2>1. "user" \in Ways /\ IF pending = {} THEN ended' = ended ELSE EndsWith("user")
    BY <1>3 DEF GhostCode, Ways
  <2>2. /\ number' = number /\ begins' = begins /\ ends' \subseteq ends /\ pending' = {}
        /\ handlers' = handlers
    BY <1>3 DEF GhostCode
  <2>. QED  BY <1>1, <2>1, <2>2, EndInvariant
<1>. QED  BY <1>2, <1>3

\* Each step keeps the invariant.
LEMMA FindStep ==
    ASSUME FindAssumption, FindInv, [FindNext]_findVars
    PROVE  FindInv'
<1>1. CASE LastUsed \/ AllRemotes \/ OneRemote
  BY <1>1, CommandInvariant DEF LastUsed, AllRemotes, OneRemote
<1>2. CASE BeginEvent
  BY <1>2, BeginEventInvariant
<1>3. CASE EndEvent \/ GhostCode
  BY <1>3, OverInvariant
<1>4. CASE \E n \in Numbers : BeginFires(n) \/ EndFires(n)
  BY <1>4, FiresInvariant
<1>5. ASSUME UNCHANGED <<pending, begins, ends, handlers, number, ended>> PROVE FindInv'
  BY <1>5 DEF FindInv, FindTypes, PendingComes, EndComes, ToldOnce
<1>6. CASE \E i \in 1 .. Cardinality(Finders) : Used(i) \/ Unpaired(i)
  BY <1>5, <1>6 DEF Used, Unpaired
<1>7. CASE UNCHANGED findVars
  BY <1>5, <1>7 DEF findVars
<1>. QED  BY <1>1, <1>2, <1>3, <1>4, <1>6, <1>7 DEF FindNext

\* What a command that is pending has on its way, and the ways in which commands ended.
LEMMA FindIsSound ==
    ASSUME FindAssumption, FindInv
    PROVE  FindSound
<1>1. PendingEnds
  <2>1. handlers \in Seq(Handlers)
    BY DEF FindInv, FindTypes
  <2>2. ASSUME NEW k \in 1..Len(handlers) PROVE handlers # <<>>
    BY <2>1
  <2>. QED  BY <2>2 DEF FindInv, PendingComes, EndComes, PendingEnds
<1>2. EndedOnce
  <2>1. ASSUME NEW n \in Numbers
        PROVE  Cardinality(ended[n]) <= 1 /\ (n < number => ended[n] # {})
    <3>1. ended[n] = {} \/ \E how \in Ways : ended[n] = {how}
      <4>1. n < number \/ n = number \/ n > number
        BY DEF Numbers, FindInv, FindTypes, FindAssumption
      <4>. QED  BY <4>1 DEF FindInv, ToldOnce
    <3>2. Cardinality(ended[n]) <= 1
      <4>1. CASE ended[n] = {}
        <5>1. Cardinality({}) = 0
          BY FS_EmptySet
        <5>. QED  BY <4>1, <5>1
      <4>2. CASE \E how \in Ways : ended[n] = {how}
        <5>1. PICK how \in Ways : ended[n] = {how}
          BY <4>2
        <5>2. Cardinality({how}) = 1
          BY FS_Singleton
        <5>. QED  BY <5>1, <5>2
      <4>. QED  BY <3>1, <4>1, <4>2
    <3>. QED  BY <3>2 DEF FindInv, ToldOnce
  <2>2. pending # {} => ended[number] = {}
    BY DEF FindInv, ToldOnce
  <2>. QED  BY <2>1, <2>2 DEF EndedOnce
<1>. QED  BY <1>1, <1>2 DEF FindSound

\* However the two timers of ctrlm_rf4ce_network.cpp, the keys of remotes and new commands are
\* ordered, a find my remote command has something that will end it, and ends only once.
THEOREM CommandsEndOnce ==
    ASSUME FindAssumption
    PROVE  FindSpec => []FindSound
<1>1. FindInit => FindInv
  <2>. SUFFICES ASSUME FindInit PROVE FindInv
    OBVIOUS
  <2>1. FindTypes
    BY DEF FindInit, FindTypes, FindAssumption, Numbers
  <2>2. ToldOnce
    BY DEF FindInit, ToldOnce, Numbers
  <2>. QED  BY <2>1, <2>2 DEF FindInit, FindInv, PendingComes
<1>2. FindInv /\ [FindNext]_findVars => FindInv'
  BY FindStep
<1>3. FindInv => FindSound
  BY FindIsSound
<1>. QED  BY <1>1, <1>2, <1>3, PTL DEF FindSpec

-----------------------------------------------------------------------------
(***************************************************************************)
(* One remote is screened at a time, a blackout does not last for want of a *)
(* timer, and the HAL does not wait for an answer that was given, for any  *)
(* remotes and any number of requests.                                     *)
(***************************************************************************)

\* The state's types.
HalPcs == {"idle", "check", "block", "waiting"}
HalResults == {"none", "pending", "respond", "ignore"}
Requests == [type : {"discovery", "pair", "reset"}, from : Remotes \cup {"nobody"},
             device : DeviceTypes, sync : BOOLEAN]
DiscoveryTypes ==
    /\ hal \in [pc : HalPcs, sync : BOOLEAN, result : HalResults, heard : BOOLEAN]
    /\ hq \in Seq(Requests)
    /\ deadlines \in [Kinds -> SUBSET (Remotes \cup {"nobody"})]
    /\ blackout \in [on : BOOLEAN, fails : Int, count : Int, timer : BOOLEAN]

\* The screen bind is that of one remote.
OneScreened == \A r, s \in deadlines["screen"] : r = s

\* A reset that the timer of the blackout has queued
ResetComes == \E k \in 1..Len(hq) : hq[k].type = "reset"
Timed == blackout.on => blackout.timer \/ blackout.count >= RebootThreshold \/ ResetComes

\* The HAL goes to wait, too, only before the result was written, but for the lost signal.
Unanswered == hal.pc \in {"block", "waiting"} /\ hal.heard => hal.result = "pending"

DiscoveryInv == DiscoveryTypes /\ OneScreened /\ Timed /\ Unanswered

-----------------------------------------------------------------------------
(* Discovery.                                                              *)

\* A message is queued: a reset that was there is still there.
LEMMA RequestQueued ==
    ASSUME NEW q \in Seq(Requests), NEW m \in Requests
    PROVE  /\ Append(q, m) \in Seq(Requests)
           /\ (m.type = "reset" \/ \E k \in 1..Len(q) : q[k].type = "reset")
                => \E k \in 1..Len(Append(q, m)) : Append(q, m)[k].type = "reset"
<1>1. /\ Append(q, m) \in Seq(Requests) /\ Len(q) \in Nat /\ Len(Append(q, m)) = Len(q) + 1
      /\ Append(q, m)[Len(q) + 1] = m
      /\ \A k \in 1..Len(q) : k \in 1..Len(Append(q, m)) /\ Append(q, m)[k] = q[k]
  OBVIOUS
<1>2. Len(q) + 1 \in 1..Len(Append(q, m))
  BY <1>1
<1>. QED  BY <1>1, <1>2

\* A message is taken: a reset that was there is still there, or is what was taken.
LEMMA RequestTaken ==
    ASSUME NEW q \in Seq(Requests), q # <<>>
    PROVE  /\ Tail(q) \in Seq(Requests) /\ Head(q) \in Requests
           /\ Head(q).type # "reset" /\ (\E k \in 1..Len(q) : q[k].type = "reset")
                => \E k \in 1..Len(Tail(q)) : Tail(q)[k].type = "reset"
<1>1. /\ Tail(q) \in Seq(Requests) /\ Head(q) \in Requests /\ Head(q) = q[1]
      /\ Len(q) \in Nat /\ Len(Tail(q)) = Len(q) - 1
      /\ \A j \in 1..(Len(q) - 1) : Tail(q)[j] = q[j + 1]
  OBVIOUS
<1>2. ASSUME Head(q).type # "reset", NEW k \in 1..Len(q), q[k].type = "reset"
      PROVE  \E j \in 1..Len(Tail(q)) : Tail(q)[j].type = "reset"
  <2>1. k # 1
    BY <1>1, <1>2
  <2>2. k - 1 \in 1..(Len(q) - 1) /\ (k - 1) + 1 = k
    BY <1>1, <2>1
  <2>3. Tail(q)[k - 1] = q[k]
    BY <1>1, <2>2
  <2>. QED  BY <1>1, <1>2, <2>2, <2>3
<1>. QED  BY <1>1, <1>2

\* The main queue thread delivers a result: who waits looks at it, and whose signal is lost
\* has not heard.
LEMMA ResultDelivered ==
    ASSUME DiscoveryInv, hq # <<>>, NEW answer \in {"respond", "ignore"}, hal' = Delivered(answer)
    PROVE  /\ hal' \in [pc : HalPcs, sync : BOOLEAN, result : HalResults, heard : BOOLEAN]
           /\ Unanswered'
<1>1. PICK p \in HalPcs, s \in BOOLEAN, x \in HalResults, h \in BOOLEAN :
        hal = [pc |-> p, sync |-> s, result |-> x, heard |-> h]
  BY DEF DiscoveryInv, DiscoveryTypes
<1>2. CASE ~Head(hq).sync
  <2>1. hal' = hal
    BY <1>2 DEF Delivered
  <2>. QED  BY <2>1 DEF DiscoveryInv, DiscoveryTypes, Unanswered
<1>3. CASE Head(hq).sync
  <2>. DEFINE b == p # "block"
              q == IF p = "waiting" THEN "check" ELSE p
  <2>1. hal' = [pc |-> q, sync |-> s, result |-> answer, heard |-> b]
    BY <1>1, <1>3 DEF Delivered
  <2>2. b \in BOOLEAN /\ q \in HalPcs /\ answer \in HalResults
    BY DEF HalPcs, HalResults
  <2>3. q # "waiting" /\ (q = "block" => ~b)
    OBVIOUS
  <2>. HIDE DEF b, q
  <2>4. hal' \in [pc : HalPcs, sync : BOOLEAN, result : HalResults, heard : BOOLEAN]
    BY <2>1, <2>2
  <2>5. hal'.pc = q /\ hal'.heard = b
    BY <2>1
  <2>6. Unanswered'
    BY <2>3, <2>5 DEF Unanswered
  <2>. QED  BY <2>4, <2>6
<1>. QED  BY <1>2, <1>3

\* A request is asked, by the thread of the HAL.
LEMMA AskInvariant ==
    ASSUME DiscoveryInv, NEW type \in {"discovery", "pair"}, NEW r \in Remotes,
           NEW device \in DeviceTypes, NEW sync \in BOOLEAN, Ask(type, r, device, sync)
    PROVE  DiscoveryInv'
<1>. DEFINE m == [type |-> type, from |-> r, device |-> device, sync |-> sync]
<1>1. m \in Requests
  BY DEF Requests
<1>2. hq' = Append(hq, m) /\ UNCHANGED <<deadlines, blackout>>
  BY DEF Ask
<1>3. hal' = [pc |-> IF sync THEN "check" ELSE "idle", sync |-> sync, result |-> "pending",
              heard |-> ~sync]
  BY DEF Ask
<1>. HIDE DEF m
<1>4. hq' \in Seq(Requests) /\ (ResetComes => ResetComes')
  BY <1>1, <1>2, RequestQueued DEF DiscoveryInv, DiscoveryTypes, ResetComes
<1>5. DiscoveryTypes'
  BY <1>2, <1>3, <1>4 DEF DiscoveryInv, DiscoveryTypes, HalPcs, HalResults
<1>6. OneScreened' /\ Timed'
  BY <1>2, <1>4 DEF DiscoveryInv, OneScreened, Timed
<1>7. Unanswered'
  BY <1>3 DEF Unanswered
<1>. QED  BY <1>5, <1>6, <1>7 DEF DiscoveryInv

\* The thread of the HAL looks at the result, and waits.
LEMMA HalInvariant ==
    ASSUME DiscoveryInv, CheckResult \/ Block
    PROVE  DiscoveryInv'
<1>1. PICK p \in HalPcs, s \in BOOLEAN, x \in HalResults, h \in BOOLEAN :
        hal = [pc |-> p, sync |-> s, result |-> x, heard |-> h]
  BY DEF DiscoveryInv, DiscoveryTypes
<1>2. UNCHANGED <<hq, deadlines, blackout>>
  BY DEF CheckResult, Block
<1>3. \/ hal' = NoRequest
      \/ x = "pending" /\ hal' = [pc |-> "block", sync |-> s, result |-> x, heard |-> h]
      \/ p = "block" /\ hal' = [pc |-> "waiting", sync |-> s, result |-> x, heard |-> h]
  BY <1>1 DEF CheckResult, Block
<1>4. hal' \in [pc : HalPcs, sync : BOOLEAN, result : HalResults, heard : BOOLEAN] /\ Unanswered'
  <2>1. CASE hal' = NoRequest
    BY <2>1 DEF NoRequest, HalPcs, HalResults, Unanswered
  <2>2. CASE x = "pending" /\ hal' = [pc |-> "block", sync |-> s, result |-> x, heard |-> h]
    BY <2>2 DEF HalPcs, Unanswered
  <2>3. CASE p = "block" /\ hal' = [pc |-> "waiting", sync |-> s, result |-> x, heard |-> h]
    BY <1>1, <2>3 DEF HalPcs, Unanswered, DiscoveryInv
  <2>. QED  BY <1>3, <2>1, <2>2, <2>3
<1>5. OneScreened' /\ Timed'
  BY <1>2 DEF DiscoveryInv, OneScreened, Timed, ResetComes
<1>. QED  BY <1>2, <1>4, <1>5 DEF DiscoveryInv, DiscoveryTypes

\* A message that is no reset is handled, with or without a result; the deadlines change as
\* the screen bind allows.
LEMMA HandledInvariant ==
    ASSUME DiscoveryInv, hq # <<>>, Head(hq).type # "reset", hq' = Tail(hq),
           hal' = hal \/ \E answer \in {"respond", "ignore"} : hal' = Delivered(answer),
           deadlines' \in [Kinds -> SUBSET (Remotes \cup {"nobody"})],
           OneScreened', UNCHANGED blackout
    PROVE  DiscoveryInv'
<1>1. hq' \in Seq(Requests) /\ (ResetComes => ResetComes')
  BY RequestTaken DEF DiscoveryInv, DiscoveryTypes, ResetComes
<1>2. /\ hal' \in [pc : HalPcs, sync : BOOLEAN, result : HalResults, heard : BOOLEAN]
      /\ Unanswered'
  <2>1. CASE hal' = hal
    BY <2>1 DEF DiscoveryInv, DiscoveryTypes, Unanswered
  <2>2. CASE \E answer \in {"respond", "ignore"} : hal' = Delivered(answer)
    BY <2>2, ResultDelivered
  <2>. QED  BY <2>1, <2>2
<1>3. DiscoveryTypes'
  BY <1>1, <1>2 DEF DiscoveryInv, DiscoveryTypes
<1>4. Timed'
  BY <1>1 DEF DiscoveryInv, Timed
<1>. QED  BY <1>2, <1>3, <1>4 DEF DiscoveryInv

\* A discovery that is decided
LEMMA DecidedInvariant ==
    ASSUME DiscoveryInv, DiscoveryAutobind \/ DiscoveryScreenBind \/ DiscoveryStb
    PROVE  DiscoveryInv'
<1>. DEFINE r == Head(hq).from
<1>1. hq # <<>> /\ Head(hq).type = "discovery" /\ hq' = Tail(hq) /\ UNCHANGED blackout
  BY DEF DiscoveryAutobind, DiscoveryScreenBind, DiscoveryStb, Deciding, DiscoveryAt
<1>2. r \in Remotes \cup {"nobody"}
  BY <1>1, RequestTaken DEF DiscoveryInv, DiscoveryTypes, Requests
<1>3. \E answer \in {"respond", "ignore"} : hal' = Delivered(answer)
  BY DEF DiscoveryAutobind, DiscoveryScreenBind, DiscoveryStb
<1>. HIDE DEF r
<1>4. deadlines' \in [Kinds -> SUBSET (Remotes \cup {"nobody"})] /\ OneScreened'
  <2>1. /\ \A k \in Kinds : deadlines[k] \subseteq Remotes \cup {"nobody"}
        /\ \A x \in Asb(r) : x \subseteq Remotes \cup {"nobody"}
    BY <1>2 DEF DiscoveryInv, DiscoveryTypes, Asb, Kinds
  <2>2. CASE DiscoveryAutobind
    <3>1. PICK x \in Asb(r), y \in {deadlines["autobind"], deadlines["autobind"] \cup {r}} :
            deadlines' = [deadlines EXCEPT !["asb"] = x, !["autobind"] = y]
      BY <2>2 DEF DiscoveryAutobind, r
    <3>2. y \subseteq Remotes \cup {"nobody"}
      BY <1>2, <2>1, <3>1 DEF Kinds
    <3>. QED  BY <2>1, <3>1, <3>2 DEF DiscoveryInv, DiscoveryTypes, OneScreened, Kinds
  <2>3. CASE DiscoveryScreenBind
    <3>. DEFINE y == IF ScreenAnswers(r) THEN deadlines["screen"] \cup {r} ELSE deadlines["screen"]
    <3>1. PICK x \in Asb(r) : deadlines' = [deadlines EXCEPT !["asb"] = x, !["screen"] = y]
      BY <2>3 DEF DiscoveryScreenBind, r
    <3>2. y \subseteq Remotes \cup {"nobody"}
      BY <1>2, <2>1 DEF Kinds
    <3>3. \A s, t \in y : s = t
      BY DEF ScreenAnswers, DiscoveryInv, OneScreened
    <3>. HIDE DEF y
    <3>. QED  BY <2>1, <3>1, <3>2, <3>3 DEF DiscoveryInv, DiscoveryTypes, OneScreened, Kinds
  <2>4. CASE DiscoveryStb
    <3>1. PICK x \in Asb(r) : deadlines' = [deadlines EXCEPT !["asb"] = x]
      BY <2>4 DEF DiscoveryStb, r
    <3>. QED  BY <2>1, <3>1 DEF DiscoveryInv, DiscoveryTypes, OneScreened, Kinds
  <2>. QED  BY <2>2, <2>3, <2>4
<1>. QED  BY <1>1, <1>3, <1>4, HandledInvariant

\* A discovery or a pair request that is dropped, refused or accepted
LEMMA PassedInvariant ==
    ASSUME DiscoveryInv,
           IgnoreRestricted \/ IgnoreDiscovery \/ PairInBlackout \/ IgnorePair \/ AcceptPair
    PROVE  DiscoveryInv'
<1>1. /\ hq # <<>> /\ Head(hq).type # "reset" /\ hq' = Tail(hq)
      /\ hal' = hal \/ \E answer \in {"respond", "ignore"} : hal' = Delivered(answer)
      /\ UNCHANGED <<deadlines, blackout>>
  BY DEF IgnoreRestricted, IgnoreDiscovery, PairInBlackout, IgnorePair, AcceptPair, PairAt
<1>2. OneScreened'
  BY <1>1 DEF DiscoveryInv, OneScreened
<1>. QED  BY <1>1, <1>2, HandledInvariant DEF DiscoveryInv, DiscoveryTypes

\* A deadline passes.
LEMMA ExpireInvariant ==
    ASSUME DiscoveryInv, NEW k \in Kinds, NEW r \in Remotes, Expire(k, r)
    PROVE  DiscoveryInv'
<1>1. /\ deadlines' = [deadlines EXCEPT ![k] = deadlines[k] \ {r}]
      /\ UNCHANGED <<hal, hq, modes, binding, blackout>>
  BY DEF Expire
<1>2. DiscoveryTypes' /\ OneScreened'
  BY <1>1 DEF DiscoveryInv, DiscoveryTypes, OneScreened, Kinds
<1>3. Timed' /\ Unanswered'
  BY <1>1 DEF DiscoveryInv, Timed, ResetComes, Unanswered
<1>. QED  BY <1>2, <1>3 DEF DiscoveryInv

\* The binding ends, in time, with success or not; the blackout begins with its timer.
LEMMA BindingInvariant ==
    ASSUME DiscoveryInv, BindingExpires \/ BindSucceeds \/ BindFails \/ ModesChange,
           FailThreshold \in Int
    PROVE  DiscoveryInv'
<1>1. UNCHANGED <<hal, hq, deadlines>>
  BY DEF BindingExpires, BindSucceeds, BindFails, ModesChange
<1>2. PICK o \in BOOLEAN, f \in Int, c \in Int, t \in BOOLEAN :
        blackout = [on |-> o, fails |-> f, count |-> c, timer |-> t]
  BY DEF DiscoveryInv, DiscoveryTypes
<1>3. \/ \E g \in Int : blackout' = [on |-> o, fails |-> g, count |-> c, timer |-> t]
      \/ blackout' = [on |-> TRUE, fails |-> f + 1, count |-> c + 1, timer |-> TRUE]
  <2>1. CASE BindingExpires \/ ModesChange
    BY <1>2, <2>1 DEF BindingExpires, ModesChange
  <2>2. CASE BindSucceeds
    <3>1. blackout' = [on |-> o, fails |-> 0, count |-> c, timer |-> t]
      BY <1>2, <2>2 DEF BindSucceeds
    <3>. QED  BY <3>1
  <2>3. CASE BindFails
    <3>1. CASE f + 1 < FailThreshold \/ o
      <4>1. blackout' = [on |-> o, fails |-> IF f < FailThreshold THEN f + 1 ELSE f,
                         count |-> c, timer |-> t]
        BY <1>2, <2>3, <3>1 DEF BindFails
      <4>2. (IF f < FailThreshold THEN f + 1 ELSE f) \in Int
        OBVIOUS
      <4>. QED  BY <4>1, <4>2
    <3>2. CASE ~(f + 1 < FailThreshold \/ o)
      BY <1>2, <2>3, <3>2 DEF BindFails
    <3>. QED  BY <3>1, <3>2
  <2>. QED  BY <2>1, <2>2, <2>3
<1>4. blackout' \in [on : BOOLEAN, fails : Int, count : Int, timer : BOOLEAN]
  <2>1. ASSUME NEW g \in Int, blackout' = [on |-> o, fails |-> g, count |-> c, timer |-> t]
        PROVE  blackout' \in [on : BOOLEAN, fails : Int, count : Int, timer : BOOLEAN]
    BY <2>1
  <2>2. CASE blackout' = [on |-> TRUE, fails |-> f + 1, count |-> c + 1, timer |-> TRUE]
    BY <2>2
  <2>. QED  BY <1>3, <2>1, <2>2
<1>5. Timed'
  BY <1>1, <1>2, <1>3 DEF DiscoveryInv, Timed, ResetComes
<1>6. OneScreened' /\ Unanswered'
  BY <1>1 DEF DiscoveryInv, OneScreened, Unanswered
<1>. QED  BY <1>1, <1>4, <1>5, <1>6 DEF DiscoveryInv, DiscoveryTypes

\* The timer of the blackout queues its reset, and the reset ends the blackout.
LEMMA BlackoutInvariant ==
    ASSUME DiscoveryInv, BlackoutTimer \/ BlackoutReset
    PROVE  DiscoveryInv'
<1>. DEFINE m == [type |-> "reset", from |-> "nobody", device |-> "other", sync |-> FALSE]
<1>1. UNCHANGED <<hal, deadlines>>
  BY DEF BlackoutTimer, BlackoutReset
<1>2. PICK o \in BOOLEAN, f \in Int, c \in Int, t \in BOOLEAN :
        blackout = [on |-> o, fails |-> f, count |-> c, timer |-> t]
  BY DEF DiscoveryInv, DiscoveryTypes
<1>3. m \in Requests /\ m.type = "reset"
  BY DEF Requests, DeviceTypes
<1>4. /\ hq' \in Seq(Requests)
      /\ blackout' \in [on : BOOLEAN, fails : Int, count : Int, timer : BOOLEAN]
      /\ Timed'
  <2>1. CASE BlackoutTimer
    <3>1. hq' = Append(hq, m) /\ blackout' = [on |-> o, fails |-> f, count |-> c, timer |-> FALSE]
      BY <1>2, <2>1 DEF BlackoutTimer
    <3>. HIDE DEF m
    <3>2. hq' \in Seq(Requests) /\ ResetComes'
      BY <1>3, <3>1, RequestQueued DEF DiscoveryInv, DiscoveryTypes, ResetComes
    <3>. QED  BY <3>1, <3>2 DEF Timed
  <2>2. CASE BlackoutReset
    <3>. DEFINE b == IF c >= RebootThreshold THEN o ELSE FALSE
    <3>1. /\ hq # <<>> /\ hq' = Tail(hq)
          /\ blackout' = [on |-> b, fails |-> 0, count |-> c, timer |-> t]
      BY <1>2, <2>2 DEF BlackoutReset
    <3>2. hq' \in Seq(Requests)
      BY <3>1, RequestTaken DEF DiscoveryInv, DiscoveryTypes
    <3>3. b \in BOOLEAN /\ (b => c >= RebootThreshold)
      OBVIOUS
    <3>. HIDE DEF b
    <3>4. blackout' \in [on : BOOLEAN, fails : Int, count : Int, timer : BOOLEAN]
      BY <3>1, <3>3
    <3>5. Timed'
      BY <3>1, <3>3 DEF Timed
    <3>. QED  BY <3>2, <3>4, <3>5
  <2>. QED  BY <2>1, <2>2
<1>5. OneScreened' /\ Unanswered'
  BY <1>1 DEF DiscoveryInv, OneScreened, Unanswered
<1>. QED  BY <1>1, <1>4, <1>5 DEF DiscoveryInv, DiscoveryTypes

\* The threshold of failures is a number; of the other constants nothing is assumed.
DiscoveryAssumption == FailThreshold \in Int

\* Every step keeps the invariant.
LEMMA DiscoveryStep == DiscoveryAssumption /\ DiscoveryInv /\ [DiscoveryNext]_discoveryVars => DiscoveryInv'
<1>. SUFFICES ASSUME DiscoveryAssumption, DiscoveryInv, [DiscoveryNext]_discoveryVars
              PROVE  DiscoveryInv'
  OBVIOUS
<1>1. ASSUME NEW r \in Remotes, NEW sync \in BOOLEAN, NEW device \in DeviceTypes,
             IndDiscovery(r, device, sync)
      PROVE  DiscoveryInv'
  BY <1>1, AskInvariant DEF IndDiscovery
<1>2. ASSUME NEW r \in Remotes, NEW sync \in BOOLEAN, IndPair(r, sync)
      PROVE  DiscoveryInv'
  <2>1. "stb" \in DeviceTypes
    BY DEF DeviceTypes
  <2>. QED  BY <1>2, <2>1, AskInvariant DEF IndPair
<1>3. CASE CheckResult \/ Block
  BY <1>3, HalInvariant
<1>4. CASE DiscoveryAutobind \/ DiscoveryScreenBind \/ DiscoveryStb
  BY <1>4, DecidedInvariant
<1>5. CASE IgnoreRestricted \/ IgnoreDiscovery \/ PairInBlackout \/ IgnorePair \/ AcceptPair
  BY <1>5, PassedInvariant
<1>6. ASSUME NEW k \in Kinds, NEW r \in Remotes, Expire(k, r) PROVE DiscoveryInv'
  BY <1>6, ExpireInvariant
<1>7. CASE BindingExpires \/ BindSucceeds \/ BindFails \/ ModesChange
  BY <1>7, BindingInvariant DEF DiscoveryAssumption
<1>8. CASE BlackoutTimer \/ BlackoutReset
  BY <1>8, BlackoutInvariant
<1>9. CASE UNCHANGED discoveryVars
  BY <1>9 DEF discoveryVars, DiscoveryInv, DiscoveryTypes, OneScreened, Timed, ResetComes, Unanswered
<1>. QED  BY <1>1, <1>2, <1>3, <1>4, <1>5, <1>6, <1>7, <1>8, <1>9 DEF DiscoveryNext

\* DiscoverySound: one remote at a time is in a screen bind, a blackout has its timer or its
\* reset on the way, and the HAL waits for an answered request only if its signal was lost.
THEOREM DiscoveriesExclude == ASSUME DiscoveryAssumption PROVE DiscoverySpec => []DiscoverySound
<1>1. DiscoveryInit => DiscoveryInv
  BY DEF DiscoveryInit, DiscoveryInv, DiscoveryTypes, OneScreened, Timed, Unanswered, NoRequest,
         Kinds, HalPcs, HalResults
<1>2. DiscoveryInv => DiscoverySound
  <2>. SUFFICES ASSUME DiscoveryInv PROVE DiscoverySound
    OBVIOUS
  <2>1. ScreenExclusive
    <3>1. CASE deadlines["screen"] = {}
      BY <3>1, FS_EmptySet DEF ScreenExclusive
    <3>2. CASE deadlines["screen"] # {}
      <4>1. PICK r \in deadlines["screen"] : TRUE
        BY <3>2
      <4>2. deadlines["screen"] = {r}
        BY <4>1 DEF DiscoveryInv, OneScreened
      <4>3. Cardinality({r}) = 1
        BY FS_Singleton
      <4>. QED  BY <4>2, <4>3 DEF ScreenExclusive
    <3>. QED  BY <3>1, <3>2
  <2>2. BlackoutTimed
    <3>1. DOMAIN hq = 1..Len(hq)
      BY DEF DiscoveryInv, DiscoveryTypes
    <3>. QED  BY <3>1 DEF DiscoveryInv, Timed, ResetComes, BlackoutTimed
  <2>3. HalNotForgotten
    BY DEF DiscoveryInv, Unanswered, HalNotForgotten
  <2>. QED  BY <2>1, <2>2, <2>3 DEF DiscoverySound
<1>3. DiscoveryInv /\ [DiscoveryNext]_discoveryVars => DiscoveryInv'
  BY DiscoveryStep
<1>. QED  BY <1>1, <1>2, <1>3, PTL DEF DiscoverySpec

-----------------------------------------------------------------------------
(***************************************************************************)
(* The controllers, the database and the pairing table of the HAL agree    *)
(* after each start, for any remotes that have identifiers enough, any     *)
(* number of writes under way, of ends and of older databases.             *)
(***************************************************************************)

\* There are identifiers enough for the remotes, counted from 1; the program has 254, the HAL
\* has room for fewer.
SyncAssumption ==
    /\ \E n \in Nat : Ids = 1 .. n
    /\ IsFiniteSet(Addresses) /\ NoOne \notin Addresses
    /\ Cardinality(Addresses) <= Cardinality(Ids)

Whos == Addresses \cup {NoOne}
Rows == Ids \X Whos
Lists == SUBSET (Ids \X Addresses)
Starts == [pc : {"load", "list", "first", "second", "runs"}, at : Nat, list : Lists,
           synced : BOOLEAN, clash : BOOLEAN]
SyncTypes ==
    /\ controllers \in [Ids -> [who : Whos, bound : BOOLEAN]]
    /\ stored \in [Ids -> Whos] /\ older \in [Ids -> Whos] /\ unwritten \in Seq(Rows)
    /\ table \in [Addresses -> Ids \cup {0}]
    /\ versions \subseteq Addresses /\ proven \subseteq versions
    /\ start \in Starts

\* A database has no remote twice, and neither has any that the queued writes make of it
\* on the way to the last.
OneHolder(db) == \A c, d \in Ids : db[c] = db[d] /\ db[c] # NoOne => c = d
RowPut(db, w) == [db EXCEPT ![w[1]] = w[2]]
Leads(db, q, last) ==
    \E f \in [0 .. Len(q) -> [Ids -> Whos]] :
        /\ f[0] = db /\ f[Len(q)] = last
        /\ \A i \in 1 .. Len(q) : f[i] = RowPut(f[i - 1], q[i])
        /\ \A i \in 0 .. Len(q) : OneHolder(f[i])

\* The controllers: none that is bound is nobody, none is there twice; and what the database
\* has in the end.
Somebody(t, c) == t[c].who # NoOne
Known(t, a) == \E c \in Ids : t[c].who = a
Proper(t) ==
    /\ \A c \in Ids : ~Somebody(t, c) => ~t[c].bound
    /\ \A c, d \in Ids : t[c].who = t[d].who /\ Somebody(t, c) => c = d
BoundTable(t) == [c \in Ids |-> IF t[c].bound THEN t[c].who ELSE NoOne]

\* The controllers that are held, or those below n, are in the HAL under their identifiers.
InHal(t, ofHal) == \A c \in Ids : Somebody(t, c) => ofHal[t[c].who] = c

\* In the first pass the list is what the HAL has, but for the controllers that are done.
FirstRight(t, ofHal, list, n) ==
    /\ \A a \in Addresses : ofHal[a] # 0 <=> \E e \in list : e[2] = a
    /\ \A e, f \in list : e[2] = f[2] => e = f
    /\ \A c \in Ids : Somebody(t, c) =>
          IF c < n THEN ofHal[t[c].who] = c
          ELSE ofHal[t[c].who] = 0 \/ <<ofHal[t[c].who], t[c].who>> \in list

\* In the second what the HAL has is a controller, or is still in the list.
SecondRight(t, ofHal, list) ==
    /\ InHal(t, ofHal)
    /\ \A a \in Addresses : ofHal[a] # 0 => Known(t, a) \/ \E e \in list : e[2] = a

\* Then both have the same, and what was validated is bound.
RunsRight(t, ofHal, done) ==
    /\ InHal(t, ofHal)
    /\ \A a \in Addresses : ofHal[a] # 0 =>
          \E c \in Ids : t[c].who = a /\ (a \in done => t[c].bound)

\* The inductive invariant.
Right ==
    /\ start.pc = "first" => FirstRight(controllers, table, start.list, start.at)
    /\ start.pc = "second" /\ ~start.clash => SecondRight(controllers, table, start.list)
    /\ start.pc = "runs" /\ start.synced /\ ~start.clash => RunsRight(controllers, table, proven)
    /\ start.pc \in {"load", "list", "first"} => ~start.clash
    /\ start.pc # "runs" => ~start.synced
    /\ start.pc \in {"list", "first", "second"} =>
          \A c \in Ids : Somebody(controllers, c) => controllers[c].bound
Writes ==
    /\ start.pc = "load" => unwritten = <<>> /\ OneHolder(stored)
    /\ start.pc # "load" => Leads(stored, unwritten, BoundTable(controllers))
SyncInv == SyncTypes /\ OneHolder(older) /\ Proper(controllers) /\ Right /\ Writes

-----------------------------------------------------------------------------
\* The lowest of some identifiers is one of them, and none is lower.
LEMMA LowestOf ==
    ASSUME NEW S, S \subseteq Nat, S # {}
    PROVE  Lowest(S) \in S /\ \A d \in S : Lowest(S) <= d
<1>. DEFINE R == {p \in Nat \X Nat : p[1] < p[2]}
<1>1. IsWellFoundedOn(R, Nat)  BY NatLessThanWellFounded DEF OpToRel
<1>2. \A x, y \in Nat : x < y <=> <<x, y>> \in R  OBVIOUS
<1>. HIDE DEF R
<1>3. PICK x \in S : \A y \in S : ~(<<y, x>> \in R)  BY <1>1, WFMin
<1>4. \A y \in S : ~(y < x)  BY <1>2, <1>3
<1>5. \A y \in S : x <= y  BY <1>4
<1>. QED  BY <1>5 DEF Lowest

\* What the assumption says of the identifiers.
LEMMA IdsAre ==
    ASSUME SyncAssumption
    PROVE  /\ Ids \subseteq Nat \ {0} /\ IsFiniteSet(Ids) /\ Cardinality(Ids) \in Nat
           /\ Ids = 1 .. Cardinality(Ids)
<1>1. PICK n \in Nat : Ids = 1 .. n  BY DEF SyncAssumption
<1>2. IsFiniteSet(1 .. n) /\ Cardinality(1 .. n) = (IF 1 > n THEN 0 ELSE n - 1 + 1)
  BY FS_Interval
<1>3. Cardinality(Ids) = n  BY <1>1, <1>2
<1>. QED  BY <1>1, <1>2, <1>3

\* A queue that is empty leads nowhere.
LEMMA LeadsNowhere ==
    ASSUME NEW db \in [Ids -> Whos], OneHolder(db)
    PROVE  Leads(db, <<>>, db)
<1>. DEFINE f == [i \in 0 .. 0 |-> db]
<1>1. f \in [0 .. 0 -> [Ids -> Whos]] /\ f[0] = db /\ \A i \in 0 .. 0 : OneHolder(f[i])
  OBVIOUS
<1>2. Len(<<>>) = 0 /\ 1 .. 0 = {}  OBVIOUS
<1>. HIDE DEF f
<1>. QED  BY <1>1, <1>2 DEF Leads

\* The first database and the last are among those on the way.
LEMMA LeadsEnds ==
    ASSUME NEW db, NEW q \in Seq(Rows), NEW last, Leads(db, q, last)
    PROVE  /\ db \in [Ids -> Whos] /\ OneHolder(db)
           /\ last \in [Ids -> Whos] /\ OneHolder(last)
           /\ q = <<>> => last = db
<1>1. Len(q) \in Nat /\ 0 \in 0 .. Len(q) /\ Len(q) \in 0 .. Len(q)  BY LenProperties
<1>2. q = <<>> => Len(q) = 0  OBVIOUS
<1>. QED  BY <1>1, <1>2 DEF Leads

\* One more write leads one step further.
LEMMA LeadsOn ==
    ASSUME NEW db, NEW q \in Seq(Rows), NEW last, Leads(db, q, last),
           NEW w \in Rows, OneHolder(RowPut(last, w))
    PROVE  Append(q, w) \in Seq(Rows) /\ Leads(db, Append(q, w), RowPut(last, w))
<1>1. PICK f \in [0 .. Len(q) -> [Ids -> Whos]] :
        /\ f[0] = db /\ f[Len(q)] = last
        /\ \A i \in 1 .. Len(q) : f[i] = RowPut(f[i - 1], q[i])
        /\ \A i \in 0 .. Len(q) : OneHolder(f[i])
  BY DEF Leads
<1>. DEFINE n == Len(q)  p == Append(q, w)  new == RowPut(last, w)
            g == [i \in 0 .. n + 1 |-> IF i <= n THEN f[i] ELSE new]
<1>2. n \in Nat /\ p \in Seq(Rows) /\ Len(p) = n + 1 /\ p[n + 1] = w
      /\ \A i \in 1 .. n : p[i] = q[i]
  BY LenProperties, AppendProperties
<1>3. last \in [Ids -> Whos]  BY LeadsEnds
<1>4. new \in [Ids -> Whos]  BY <1>3 DEF RowPut, Rows
<1>. HIDE DEF n, p, new
<1>5. g \in [0 .. n + 1 -> [Ids -> Whos]]  BY <1>1, <1>2, <1>4 DEF n
<1>6. g[0] = db /\ g[n + 1] = new  BY <1>1, <1>2
<1>7. \A i \in 0 .. n : g[i] = f[i]  BY <1>2
<1>8. \A i \in 1 .. n + 1 : g[i] = RowPut(g[i - 1], p[i])
  <2>. TAKE i \in 1 .. n + 1
  <2>1. CASE i = n + 1
    <3>1. g[i - 1] = last  BY <2>1, <1>1, <1>2, <1>7 DEF n
    <3>. QED  BY <2>1, <3>1, <1>2, <1>6 DEF new
  <2>2. CASE i # n + 1
    <3>1. i \in 1 .. n /\ i \in 0 .. n /\ i - 1 \in 0 .. n  BY <2>2, <1>2
    <3>2. g[i] = f[i] /\ g[i - 1] = f[i - 1] /\ p[i] = q[i]  BY <3>1, <1>2, <1>7
    <3>3. f[i] = RowPut(f[i - 1], q[i])  BY <3>1, <1>1 DEF n
    <3>. QED  BY <3>2, <3>3
  <2>. QED  BY <2>1, <2>2
<1>9. \A i \in 0 .. n + 1 : OneHolder(g[i])
  <2>. TAKE i \in 0 .. n + 1
  <2>1. CASE i = n + 1  BY <2>1, <1>6 DEF new
  <2>2. CASE i # n + 1
    <3>1. i \in 0 .. n  BY <2>2, <1>2
    <3>. QED  BY <3>1, <1>1, <1>7 DEF n
  <2>. QED  BY <2>1, <2>2
<1>. HIDE DEF g
<1>10. Leads(db, p, new)  BY <1>2, <1>5, <1>6, <1>8, <1>9 DEF Leads
<1>. QED  BY <1>2, <1>10 DEF p, new

\* When the first write is done, the others lead to the same.
LEMMA LeadsTail ==
    ASSUME NEW db, NEW q \in Seq(Rows), NEW last, Leads(db, q, last), q # <<>>
    PROVE  Tail(q) \in Seq(Rows) /\ Leads(RowPut(db, Head(q)), Tail(q), last)
<1>1. PICK f \in [0 .. Len(q) -> [Ids -> Whos]] :
        /\ f[0] = db /\ f[Len(q)] = last
        /\ \A i \in 1 .. Len(q) : f[i] = RowPut(f[i - 1], q[i])
        /\ \A i \in 0 .. Len(q) : OneHolder(f[i])
  BY DEF Leads
<1>. DEFINE n == Len(q)  p == Tail(q)  g == [i \in 0 .. n - 1 |-> f[i + 1]]
<1>2. n \in Nat /\ n > 0 /\ p \in Seq(Rows) /\ Len(p) = n - 1 /\ Head(q) = q[1]
      /\ \A i \in 1 .. n - 1 : p[i] = q[i + 1]
  BY LenProperties, HeadTailProperties, EmptySeq
<1>. HIDE DEF n, p
<1>3. g \in [0 .. n - 1 -> [Ids -> Whos]]
  <2>1. \A i \in 0 .. n - 1 : i + 1 \in 0 .. n  BY <1>2
  <2>. QED  BY <1>1, <2>1 DEF n
<1>4. g[0] = RowPut(db, Head(q)) /\ g[n - 1] = last
  <2>1. 1 \in 1 .. n /\ 0 \in 0 .. n - 1 /\ n - 1 \in 0 .. n - 1 /\ n - 1 + 1 = n /\ 1 - 1 = 0
    BY <1>2
  <2>2. g[0] = f[1] /\ g[n - 1] = f[n]  BY <2>1
  <2>3. f[1] = RowPut(f[0], q[1])  BY <1>1, <2>1 DEF n
  <2>. QED  BY <2>2, <2>3, <1>1, <1>2 DEF n
<1>5. \A i \in 1 .. n - 1 : g[i] = RowPut(g[i - 1], p[i])
  <2>. TAKE i \in 1 .. n - 1
  <2>1. i + 1 \in 1 .. n /\ i \in 0 .. n - 1 /\ i - 1 \in 0 .. n - 1 /\ i + 1 - 1 = i
        /\ i - 1 + 1 = i
    BY <1>2
  <2>2. g[i] = f[i + 1] /\ g[i - 1] = f[i]  BY <2>1
  <2>3. f[i + 1] = RowPut(f[i], q[i + 1])  BY <1>1, <2>1 DEF n
  <2>. QED  BY <2>2, <2>3, <1>2
<1>6. \A i \in 0 .. n - 1 : OneHolder(g[i])
  <2>. TAKE i \in 0 .. n - 1
  <2>1. i + 1 \in 0 .. n /\ g[i] = f[i + 1]  BY <1>2
  <2>. QED  BY <1>1, <2>1 DEF n
<1>. HIDE DEF g
<1>7. Leads(RowPut(db, Head(q)), p, last)  BY <1>2, <1>3, <1>4, <1>5, <1>6 DEF Leads
<1>. QED  BY <1>2, <1>7 DEF p

\* To delete every entry leads to the empty database.
LEMMA LeadsReset ==
    ASSUME SyncAssumption, NEW db, NEW q \in Seq(Rows), NEW last, Leads(db, q, last)
    PROVE  LET p == q \o [i \in 1 .. Cardinality(Ids) |-> <<i, NoOne>>] IN
           p \in Seq(Rows) /\ Leads(db, p, [c \in Ids |-> NoOne])
<1>1. PICK f \in [0 .. Len(q) -> [Ids -> Whos]] :
        /\ f[0] = db /\ f[Len(q)] = last
        /\ \A i \in 1 .. Len(q) : f[i] = RowPut(f[i - 1], q[i])
        /\ \A i \in 0 .. Len(q) : OneHolder(f[i])
  BY DEF Leads
<1>. DEFINE k == Cardinality(Ids)  r == [i \in 1 .. k |-> <<i, NoOne>>]  n == Len(q)  p == q \o r
            some(j) == [c \in Ids |-> IF c <= j THEN NoOne ELSE last[c]]
            g == [i \in 0 .. n + k |-> IF i <= n THEN f[i] ELSE some(i - n)]
<1>2. k \in Nat /\ Ids = 1 .. k  BY IdsAre
<1>3. last \in [Ids -> Whos] /\ OneHolder(last)  BY LeadsEnds
<1>. HIDE DEF k
<1>4. r \in Seq(Rows) /\ Len(r) = k /\ \A i \in 1 .. k : r[i] = <<i, NoOne>>
  <2>1. \A i \in 1 .. k : <<i, NoOne>> \in Rows  BY <1>2 DEF Rows, Whos
  <2>2. r \in [1 .. k -> Rows]  BY <2>1
  <2>3. r \in Seq(Rows)  BY <2>2, <1>2, SeqDef
  <2>4. DOMAIN r = 1 .. k  OBVIOUS
  <2>5. Len(r) = k  BY <2>3, <2>4, <1>2, LenProperties
  <2>. QED  BY <2>3, <2>5
<1>. HIDE DEF r
<1>5. n \in Nat /\ p \in Seq(Rows) /\ Len(p) = n + k
      /\ (\A i \in 1 .. n : p[i] = q[i]) /\ \A i \in n + 1 .. n + k : p[i] = <<i - n, NoOne>>
  <2>1. n \in Nat  BY LenProperties
  <2>2. p \in Seq(Rows) /\ Len(p) = n + k
        /\ \A i \in 1 .. n + k : p[i] = IF i <= n THEN q[i] ELSE r[i - n]
    BY <1>4, ConcatProperties
  <2>. HIDE DEF p, n
  <2>3. \A i \in 1 .. n : p[i] = q[i]  BY <2>1, <2>2, <1>2
  <2>4. \A i \in n + 1 .. n + k : i \in 1 .. n + k /\ ~(i <= n) /\ i - n \in 1 .. k
    BY <2>1, <1>2
  <2>. QED  BY <2>1, <2>2, <2>3, <2>4, <1>4
<1>. HIDE DEF n, p
<1>6. \A j \in Nat : some(j) \in [Ids -> Whos] /\ OneHolder(some(j))
  <2>. TAKE j \in Nat
  <2>1. some(j) \in [Ids -> Whos]  BY <1>3 DEF Whos
  <2>2. OneHolder(some(j))  BY <1>3 DEF OneHolder
  <2>. QED  BY <2>1, <2>2
<1>7. \A j \in Nat : j + 1 <= k => some(j + 1) = RowPut(some(j), <<j + 1, NoOne>>)
  <2>. TAKE j \in Nat
  <2>. HAVE j + 1 <= k
  <2>1. j + 1 \in Ids  BY <1>2
  <2>2. \A c \in Ids : c <= j + 1 <=> (c = j + 1 \/ c <= j)  BY <1>2
  <2>. QED  BY <2>1, <2>2 DEF RowPut
<1>8. some(0) = last
  <2>1. \A c \in Ids : ~(c <= 0)  BY <1>2
  <2>. QED  BY <2>1, <1>3
<1>9. some(k) = [c \in Ids |-> NoOne]  BY <1>2
<1>. HIDE DEF some
<1>10. g \in [0 .. n + k -> [Ids -> Whos]]
  <2>1. \A i \in 0 .. n + k : IF i <= n THEN i \in 0 .. n ELSE i - n \in Nat  BY <1>2, <1>5
  <2>2. \A i \in 0 .. n + k : (IF i <= n THEN f[i] ELSE some(i - n)) \in [Ids -> Whos]
    BY <2>1, <1>1, <1>6 DEF n
  <2>. QED  BY <2>2
<1>11. \A i \in 0 .. n : i \in 0 .. n + k /\ g[i] = f[i]  BY <1>2, <1>5
<1>12. \A j \in 0 .. k : n + j \in 0 .. n + k /\ g[n + j] = some(j)
  <2>. TAKE j \in 0 .. k
  <2>1. n + j \in 0 .. n + k /\ n + j - n = j  BY <1>2, <1>5
  <2>2. CASE j = 0
    <3>1. n + j = n /\ n \in 0 .. n  BY <2>2, <1>5
    <3>2. g[n] = f[n]  BY <3>1, <1>11
    <3>3. f[n] = last  BY <1>1 DEF n
    <3>. QED  BY <3>1, <3>2, <3>3, <2>1, <2>2, <1>8
  <2>3. CASE j # 0
    <3>1. ~(n + j <= n)  BY <2>3, <1>5
    <3>. QED  BY <3>1, <2>1
  <2>. QED  BY <2>2, <2>3
<1>. HIDE DEF g
<1>13. g[0] = db /\ g[n + k] = [c \in Ids |-> NoOne]
  <2>1. 0 \in 0 .. n /\ k \in 0 .. k  BY <1>2, <1>5
  <2>. QED  BY <2>1, <1>1, <1>9, <1>11, <1>12
<1>14. \A i \in 1 .. n + k : g[i] = RowPut(g[i - 1], p[i])
  <2>. TAKE i \in 1 .. n + k
  <2>1. CASE i <= n
    <3>1. i \in 0 .. n /\ i - 1 \in 0 .. n /\ i \in 1 .. n  BY <2>1, <1>5
    <3>2. f[i] = RowPut(f[i - 1], q[i])  BY <3>1, <1>1 DEF n
    <3>. QED  BY <3>1, <3>2, <1>5, <1>11
  <2>2. CASE ~(i <= n)
    <3>. DEFINE j == i - 1 - n
    <3>1. j \in Nat /\ j + 1 \in 0 .. k /\ j \in 0 .. k /\ j + 1 <= k /\ i = n + (j + 1)
          /\ i - 1 = n + j /\ i \in n + 1 .. n + k /\ i - n = j + 1
      BY <2>2, <1>2, <1>5
    <3>2. p[i] = <<j + 1, NoOne>>  BY <3>1, <1>5
    <3>. HIDE DEF j
    <3>3. g[n + (j + 1)] = some(j + 1) /\ g[n + j] = some(j)  BY <3>1, <1>12
    <3>. QED  BY <3>1, <3>2, <3>3, <1>7
  <2>. QED  BY <2>1, <2>2
<1>15. \A i \in 0 .. n + k : OneHolder(g[i])
  <2>. TAKE i \in 0 .. n + k
  <2>1. CASE i <= n
    <3>1. i \in 0 .. n  BY <2>1, <1>5
    <3>. QED  BY <3>1, <1>1, <1>11 DEF n
  <2>2. CASE ~(i <= n)
    <3>1. i - n \in 0 .. k /\ i - n \in Nat /\ n + (i - n) = i  BY <2>2, <1>2, <1>5
    <3>2. g[i] = some(i - n)  BY <3>1, <1>12
    <3>. QED  BY <3>1, <3>2, <1>6
  <2>. QED  BY <2>1, <2>2
<1>16. Leads(db, p, [c \in Ids |-> NoOne])
  BY <1>5, <1>10, <1>13, <1>14, <1>15 DEF Leads
<1>. QED  BY <1>5, <1>16 DEF p, r, k

-----------------------------------------------------------------------------
Places == [Ids -> [who : Whos, bound : BOOLEAN]]

\* A place is nobody's exactly if nobody is held there.
LEMMA NobodyIsNone ==
    ASSUME NEW t \in Places, Proper(t)
    PROVE  /\ None \in [who : Whos, bound : BOOLEAN]
           /\ \A c \in Ids : t[c] = None <=> ~Somebody(t, c)
           /\ \A c \in Ids : Somebody(t, c) => t[c].who \in Addresses
<1>1. \A x \in [who : Whos, bound : BOOLEAN] : x = None <=> x.who = NoOne /\ ~x.bound
  BY DEF None
<1>. QED  BY <1>1 DEF Places, Proper, Somebody, None, Whos

\* Where a place is free, the lowest is assigned.
LEMMA AssignsFree ==
    ASSUME SyncAssumption, NEW t, \E c \in Ids : t[c] = None
    PROVE  /\ IdAssign(t) \in Ids /\ t[IdAssign(t)] = None
           /\ \A c \in Ids : t[c] = None => IdAssign(t) <= c
<1>. DEFINE S == {c \in Ids : t[c] = None}
<1>1. S \subseteq Nat /\ S # {}  BY IdsAre
<1>2. Lowest(S) \in S /\ \A d \in S : Lowest(S) <= d  BY <1>1, LowestOf
<1>. QED  BY <1>2 DEF IdAssign

\* While a remote is not a controller, some place is free: there are identifiers enough.
LEMMA PlaceIsFree ==
    ASSUME SyncAssumption, NEW t \in Places, Proper(t), NEW a \in Addresses, ~Known(t, a)
    PROVE  \E c \in Ids : t[c] = None
<1>. SUFFICES ASSUME \A c \in Ids : t[c] # None PROVE FALSE  OBVIOUS
<1>. DEFINE T == Addresses \ {a}  f == [c \in Ids |-> t[c].who]
<1>1. \A c \in Ids : Somebody(t, c) /\ t[c].who \in T  BY NobodyIsNone DEF Known
<1>2. f \in Injection(Ids, T)
  <2>1. f \in [Ids -> T]  BY <1>1
  <2>2. \A c, d \in Ids : f[c] = f[d] => c = d  BY <1>1 DEF Proper
  <2>. QED  BY <2>1, <2>2 DEF Injection, IsInjective
<1>3. IsFiniteSet(T) /\ Cardinality(T) = Cardinality(Addresses) - 1
      /\ Cardinality(Addresses) \in Nat
  BY FS_RemoveElement, FS_CardinalityType DEF SyncAssumption
<1>4. Cardinality(Ids) <= Cardinality(T)
  <2>1. Injection(Ids, T) # {}  BY <1>2
  <2>. HIDE DEF f, T
  <2>. QED  BY <2>1, <1>3, FS_Injection
<1>. QED  BY <1>3, <1>4, IdsAre DEF SyncAssumption

\* Who comes to a place is somebody who has no other.
Fits(t, c, x) ==
    /\ x \in [who : Whos, bound : BOOLEAN] /\ (x.bound => x.who # NoOne)
    /\ x.who # NoOne => \A d \in Ids : d # c => t[d].who # x.who
Row(c, x) == <<c, IF x.bound THEN x.who ELSE NoOne>>

\* A controller that is put in its place is in the database as it is held.
LEMMA PlaceKeeps ==
    ASSUME NEW t \in Places, Proper(t), NEW c \in Ids, NEW x, Fits(t, c, x)
    PROVE  /\ [t EXCEPT ![c] = x] \in Places /\ Proper([t EXCEPT ![c] = x])
           /\ Row(c, x) \in Rows
           /\ BoundTable([t EXCEPT ![c] = x]) = RowPut(BoundTable(t), Row(c, x))
<1>. DEFINE u == [t EXCEPT ![c] = x]
<1>1. u \in Places  BY DEF Places, Fits
<1>2. \A d \in Ids : u[d] = IF d = c THEN x ELSE t[d]  BY DEF Places
<1>3. Proper(u)
  <2>. HIDE DEF u
  <2>1. \A d \in Ids : ~Somebody(u, d) => ~u[d].bound  BY <1>2 DEF Proper, Somebody, Fits
  <2>2. \A d, e \in Ids : u[d].who = u[e].who /\ Somebody(u, d) => d = e
    BY <1>2 DEF Proper, Somebody, Fits
  <2>. QED  BY <2>1, <2>2 DEF Proper
<1>4. Row(c, x) \in Rows  BY DEF Row, Rows, Fits, Whos
<1>5. BoundTable(u) = RowPut(BoundTable(t), Row(c, x))
  <2>. HIDE DEF u
  <2>1. Row(c, x)[1] = c /\ Row(c, x)[2] = (IF x.bound THEN x.who ELSE NoOne)  BY DEF Row
  <2>. QED  BY <2>1, <1>2 DEF BoundTable, RowPut
<1>. QED  BY <1>1, <1>3, <1>4, <1>5

\* What is bound has no remote twice.
LEMMA BoundOnce ==
    ASSUME NEW t \in Places, Proper(t)
    PROVE  BoundTable(t) \in [Ids -> Whos] /\ OneHolder(BoundTable(t))
BY DEF Places, Proper, Somebody, BoundTable, OneHolder, Whos

\* A place that changes is written, and the writes lead to what is bound.
LEMMA PlaceIsWritten ==
    ASSUME NEW t \in Places, Proper(t), NEW db, NEW q \in Seq(Rows), Leads(db, q, BoundTable(t)),
           NEW c \in Ids, NEW x, Fits(t, c, x)
    PROVE  /\ Append(q, Row(c, x)) \in Seq(Rows)
           /\ Leads(db, Append(q, Row(c, x)), BoundTable([t EXCEPT ![c] = x]))
<1>1. /\ [t EXCEPT ![c] = x] \in Places /\ Proper([t EXCEPT ![c] = x])
      /\ Row(c, x) \in Rows
      /\ BoundTable([t EXCEPT ![c] = x]) = RowPut(BoundTable(t), Row(c, x))
  BY PlaceKeeps
<1>2. OneHolder(RowPut(BoundTable(t), Row(c, x)))  BY <1>1, BoundOnce
<1>3. /\ Append(q, Row(c, x)) \in Seq(Rows)
      /\ Leads(db, Append(q, Row(c, x)), RowPut(BoundTable(t), Row(c, x)))
  BY <1>1, <1>2, LeadsOn
<1>. QED  BY <1>1, <1>3

\* The invariant has the program in a state that is proper, with writes that lead to it.
LEMMA InvHas ==
    ASSUME SyncInv
    PROVE  /\ controllers \in Places /\ Proper(controllers) /\ unwritten \in Seq(Rows)
           /\ SyncUsed = {c \in Ids : Somebody(controllers, c)}
           /\ \A c \in Ids : controllers[c] = None <=> ~Somebody(controllers, c)
           /\ \A c \in Ids : Somebody(controllers, c) => controllers[c].who \in Addresses
           /\ start.pc # "load" => Leads(stored, unwritten, BoundTable(controllers))
<1>1. controllers \in Places /\ Proper(controllers) /\ unwritten \in Seq(Rows)
  BY DEF SyncInv, SyncTypes, Places
<1>2. start.pc # "load" => Leads(stored, unwritten, BoundTable(controllers))
  BY DEF SyncInv, Writes
<1>. QED  BY <1>1, <1>2, NobodyIsNone DEF SyncUsed

\* One write, and one more.
LEMMA WriteAppends ==
    ASSUME NEW q \in Seq(Rows), NEW v \in Rows, NEW w \in Rows
    PROVE  q \o <<v>> = Append(q, v) /\ q \o <<v, w>> = Append(Append(q, v), w)
OBVIOUS

-----------------------------------------------------------------------------
\* The start: what is in the database is bound.
LEMMA LoadKeeps == ASSUME SyncAssumption, SyncInv, ControllersLoad PROVE SyncInv'
<1>1. /\ start.pc = "load" /\ start' = [start EXCEPT !.pc = "list"]
      /\ controllers' = [c \in Ids |-> [who |-> stored[c], bound |-> stored[c] # NoOne]]
      /\ older' = stored
      /\ UNCHANGED <<stored, unwritten, table, versions, proven>>
  BY DEF ControllersLoad
<1>2. SyncTypes /\ unwritten = <<>> /\ OneHolder(stored) /\ ~start.clash /\ ~start.synced
  BY <1>1 DEF SyncInv, Writes, Right
<1>3. /\ start' \in Starts /\ start'.pc = "list" /\ start'.clash = start.clash
      /\ start'.synced = start.synced
  BY <1>1, <1>2 DEF SyncTypes, Starts
<1>4. /\ controllers' \in Places
      /\ \A c \in Ids : controllers'[c].who = stored[c]
                        /\ controllers'[c].bound = (stored[c] # NoOne)
  BY <1>1, <1>2 DEF SyncTypes, Places
<1>5. SyncTypes'  BY <1>1, <1>2, <1>3, <1>4 DEF SyncTypes, Places
<1>6. Proper(controllers')  BY <1>2, <1>4 DEF Proper, Somebody, OneHolder
<1>7. BoundTable(controllers') = stored  BY <1>2, <1>4 DEF BoundTable, SyncTypes
<1>8. Leads(stored', unwritten', BoundTable(controllers'))
  BY <1>1, <1>2, <1>7, LeadsNowhere DEF SyncTypes
<1>9. Writes'  BY <1>3, <1>8 DEF Writes
<1>10. Right'  BY <1>2, <1>3, <1>4 DEF Right, Somebody
<1>11. OneHolder(older)'  BY <1>1, <1>2 DEF OneHolder
<1>. QED  BY <1>5, <1>6, <1>9, <1>10, <1>11 DEF SyncInv, Proper, Somebody

\* The list of the HAL is what it has.
LEMMA ListKeeps == ASSUME SyncAssumption, SyncInv, ControllerList PROVE SyncInv'
<1>. DEFINE list == {<<table[a], a>> : a \in {b \in Addresses : table[b] # 0}}
<1>1. /\ start.pc = "list"
      /\ \/ start' = [start EXCEPT !.pc = "first", !.at = 1, !.list = list]
         \/ start' = [start EXCEPT !.pc = "runs"]
      /\ UNCHANGED <<controllers, stored, older, unwritten, table, versions, proven>>
  BY DEF ControllerList
<1>2. /\ SyncTypes /\ ~start.clash /\ ~start.synced
      /\ \A c \in Ids : Somebody(controllers, c) => controllers[c].bound
  BY <1>1 DEF SyncInv, Right
<1>3. list \in Lists /\ (\A e, f \in list : e[2] = f[2] => e = f)
      /\ (\A a \in Addresses : table[a] # 0 <=> \E e \in list : e[2] = a)
      /\ (\A a \in Addresses : table[a] # 0 => <<table[a], a>> \in list)
  <2>1. \A a \in Addresses : table[a] # 0 => table[a] \in Ids  BY <1>2 DEF SyncTypes
  <2>2. \A a \in Addresses : table[a] # 0 => <<table[a], a>> \in list  OBVIOUS
  <2>3. \A e \in list : \E a \in Addresses : table[a] # 0 /\ e = <<table[a], a>>  OBVIOUS
  <2>4. \A e \in list : e[2] \in Addresses /\ table[e[2]] # 0 /\ e = <<table[e[2]], e[2]>>
    BY <2>3
  <2>. HIDE DEF list
  <2>5. \A e \in list : e \in Ids \X Addresses  BY <2>1, <2>4
  <2>6. list \in Lists  BY <2>5 DEF Lists
  <2>7. \A a \in Addresses : table[a] # 0 => \E e \in list : e[2] = a  BY <2>2
  <2>. QED  BY <2>2, <2>4, <2>6, <2>7
<1>. HIDE DEF list
<1>4. start' \in Starts /\ start'.clash = start.clash /\ start'.synced = start.synced
  <2>1. start \in Starts  BY <1>2 DEF SyncTypes
  <2>2. CASE start' = [start EXCEPT !.pc = "runs"]  BY <2>1, <2>2 DEF Starts
  <2>3. CASE start' = [start EXCEPT !.pc = "first", !.at = 1, !.list = list]
    BY <2>1, <2>3, <1>3 DEF Starts
  <2>. QED  BY <2>2, <2>3, <1>1
<1>5. SyncTypes'  BY <1>1, <1>2, <1>4 DEF SyncTypes
<1>6. OneHolder(older)' /\ Proper(controllers)' /\ Writes'
  BY <1>1, <1>2 DEF SyncInv, OneHolder, Proper, Somebody, Writes, SyncTypes, Starts
<1>7. Right'
  <2>1. CASE start' = [start EXCEPT !.pc = "runs"]
    <3>1. start'.pc = "runs" /\ start'.synced = start.synced  BY <2>1, <1>2 DEF SyncTypes, Starts
    <3>2. ~start.synced  BY <1>1 DEF SyncInv, Right
    <3>. QED  BY <3>1, <3>2 DEF Right
  <2>2. CASE start' = [start EXCEPT !.pc = "first", !.at = 1, !.list = list]
    <3>1. start'.pc = "first" /\ start'.at = 1 /\ start'.list = list
      BY <2>2, <1>2 DEF SyncTypes, Starts
    <3>2. \A c \in Ids : ~(c < 1)  BY IdsAre
    <3>3. FirstRight(controllers, table, list, 1)  BY <1>3, <3>2, InvHas DEF FirstRight
    <3>. QED  BY <3>1, <3>3, <1>1, <1>2, <1>4 DEF Right, Somebody
  <2>. QED  BY <2>1, <2>2, <1>1
<1>. QED  BY <1>5, <1>6, <1>7 DEF SyncInv

\* A controller that is done in the first pass is gone, is the one the HAL has, or has the place
\* the HAL is told of.
LEMMA ReconcileKeeps == ASSUME SyncAssumption, SyncInv, Reconcile PROVE SyncInv'
<1>. DEFINE c == Lowest(Unseen)
            a == controllers[c].who
            gone == [controllers EXCEPT ![c] = None]
            free == IdAssign(gone)
            stays == UNCHANGED <<controllers, unwritten, table>>
            goes == /\ \A e \in start.list : e[2] # a
                    /\ controllers' = gone /\ Write(<< <<c, NoOne>> >>) /\ UNCHANGED table
            moves == /\ \E d \in Ids \ {c} : <<d, a>> \in start.list
                     /\ controllers' = [controllers EXCEPT ![c] = None,
                                                           ![free] = [who |-> a, bound |-> TRUE]]
                     /\ Write(<< <<c, NoOne>>, <<free, a>> >>)
                     /\ table' = [table EXCEPT ![a] = free]
<1>1. /\ start.pc = "first" /\ Unseen # {}
      /\ goes \/ (<<c, a>> \in start.list /\ stays) \/ moves
      /\ start' = [start EXCEPT !.at = c + 1]
      /\ UNCHANGED <<stored, older, versions, proven>>
  BY DEF Reconcile
<1>2. /\ SyncTypes /\ ~start.clash /\ ~start.synced /\ Proper(controllers)
      /\ \A d \in Ids : Somebody(controllers, d) => controllers[d].bound
      /\ FirstRight(controllers, table, start.list, start.at)
  BY <1>1 DEF SyncInv, Right
<1>3. controllers \in Places /\ SyncUsed = {d \in Ids : Somebody(controllers, d)}
      /\ unwritten \in Seq(Rows) /\ Leads(stored, unwritten, BoundTable(controllers))
  BY <1>1, InvHas
<1>4. /\ c \in Ids /\ c \in Nat /\ Somebody(controllers, c) /\ c >= start.at /\ start.at \in Nat
      /\ \A d \in Ids : Somebody(controllers, d) /\ d < c + 1 => d = c \/ d < start.at
      /\ a \in Addresses
  <2>1. Unseen \subseteq Nat  BY <1>3, IdsAre DEF Unseen
  <2>2. c \in Unseen /\ \A d \in Unseen : c <= d  BY <2>1, <1>1, LowestOf
  <2>3. c \in Ids /\ Somebody(controllers, c) /\ c >= start.at  BY <2>2, <1>3 DEF Unseen
  <2>4. \A d \in Ids : Somebody(controllers, d) /\ d < c + 1 => d = c \/ d < start.at
    <3>. TAKE d \in Ids
    <3>. HAVE Somebody(controllers, d) /\ d < c + 1
    <3>1. d \in Nat /\ c \in Nat /\ start.at \in Nat
      BY <2>3, <1>2, IdsAre DEF SyncTypes, Starts
    <3>2. d >= start.at => d \in Unseen  BY <1>3 DEF Unseen
    <3>. QED  BY <3>1, <3>2, <2>2
  <2>. QED  BY <2>3, <2>4, <1>2, IdsAre, InvHas DEF SyncTypes, Starts
<1>. HIDE DEF c, a, gone, free, stays, goes, moves
<1>5. start' \in Starts /\ start'.pc = "first" /\ start'.at = c + 1 /\ start'.list = start.list
      /\ start'.clash = start.clash /\ start'.synced = start.synced
  <2>1. start \in Starts /\ start' = [start EXCEPT !.at = c + 1] /\ c + 1 \in Nat
        /\ start.pc = "first"
    BY <1>1, <1>2, <1>4 DEF SyncTypes
  <2>. QED  BY <2>1 DEF Starts
<1>6. /\ None \in [who : Whos, bound : BOOLEAN] /\ ~None.bound /\ None.who = NoOne
      /\ Fits(controllers, c, None) /\ Row(c, None) = <<c, NoOne>>
  BY DEF None, Fits, Row, Whos
<1>7. /\ gone \in Places /\ Proper(gone) /\ Row(c, None) \in Rows
      /\ Append(unwritten, <<c, NoOne>>) \in Seq(Rows)
      /\ Leads(stored, Append(unwritten, <<c, NoOne>>), BoundTable(gone))
      /\ \A d \in Ids : gone[d] = IF d = c THEN None ELSE controllers[d]
  <2>1. gone = [controllers EXCEPT ![c] = None]  BY DEF gone
  <2>2. gone \in Places /\ Proper(gone) /\ Row(c, None) \in Rows
    BY <2>1, <1>2, <1>3, <1>4, <1>6, PlaceKeeps
  <2>3. /\ Append(unwritten, Row(c, None)) \in Seq(Rows)
        /\ Leads(stored, Append(unwritten, Row(c, None)), BoundTable(gone))
    BY <2>1, <1>2, <1>3, <1>4, <1>6, PlaceIsWritten
  <2>4. \A d \in Ids : gone[d] = IF d = c THEN None ELSE controllers[d]
    BY <2>1, <1>3 DEF Places
  <2>. QED  BY <2>2, <2>3, <2>4, <1>6
<1>8. /\ controllers' \in Places /\ Proper(controllers') /\ unwritten' \in Seq(Rows)
      /\ Leads(stored, unwritten', BoundTable(controllers'))
      /\ table' \in [Addresses -> Ids \cup {0}]
      /\ \A d \in Ids : Somebody(controllers', d) => controllers'[d].bound
      /\ FirstRight(controllers', table', start.list, c + 1)
  <2>1. CASE goes
    <3>1. controllers' = gone /\ unwritten' = unwritten \o << <<c, NoOne>> >> /\ table' = table
      BY <2>1 DEF Write, goes
    <3>2. unwritten' = Append(unwritten, <<c, NoOne>>)
      BY <3>1, <1>3, <1>6, <1>7, WriteAppends
    <3>3. \A d \in Ids : Somebody(gone, d) =>
             d # c /\ gone[d] = controllers[d] /\ Somebody(controllers, d)
      BY <1>6, <1>7 DEF Somebody
    <3>4. FirstRight(gone, table, start.list, c + 1)
      <4>1. \A d \in Ids : Somebody(gone, d) =>
               IF d < c + 1 THEN table[gone[d].who] = d
               ELSE table[gone[d].who] = 0 \/ <<table[gone[d].who], gone[d].who>> \in start.list
        <5>. TAKE d \in Ids
        <5>. HAVE Somebody(gone, d)
        <5>1. d < c + 1 => d < start.at  BY <3>3, <1>4
        <5>2. ~(d < c + 1) => ~(d < start.at)  BY <1>4, IdsAre
        <5>. QED  BY <5>1, <5>2, <3>3, <1>2 DEF FirstRight
      <4>. QED  BY <4>1, <1>2 DEF FirstRight
    <3>. QED  BY <3>1, <3>2, <3>3, <3>4, <1>2, <1>7 DEF SyncTypes
  <2>2. CASE <<c, a>> \in start.list /\ stays
    <3>1. controllers' = controllers /\ unwritten' = unwritten /\ table' = table  BY <2>2 DEF stays
    <3>2. FirstRight(controllers, table, start.list, c + 1)
      <4>1. table[a] = c
        <5>1. PICK e \in start.list : e = <<c, a>>  BY <2>2
        <5>2. table[a] # 0  BY <5>1, <1>2, <1>4 DEF FirstRight
        <5>3. <<table[a], a>> \in start.list
          <6>1. c >= start.at => ~(c < start.at)  BY <1>4
          <6>. QED  BY <6>1, <5>2, <1>2, <1>4 DEF FirstRight, a
        <5>4. <<table[a], a>> = <<c, a>>  BY <5>3, <2>2, <1>2 DEF FirstRight
        <5>. QED  BY <5>4
      <4>2. \A d \in Ids : Somebody(controllers, d) =>
               IF d < c + 1 THEN table[controllers[d].who] = d
               ELSE \/ table[controllers[d].who] = 0
                    \/ <<table[controllers[d].who], controllers[d].who>> \in start.list
        <5>. TAKE d \in Ids
        <5>. HAVE Somebody(controllers, d)
        <5>1. d < c + 1 => d = c \/ d < start.at  BY <1>4
        <5>2. ~(d < c + 1) => ~(d < start.at)  BY <1>4, IdsAre
        <5>. QED  BY <5>1, <5>2, <4>1, <1>2 DEF FirstRight, a
      <4>. QED  BY <4>2, <1>2 DEF FirstRight
    <3>. QED  BY <3>1, <3>2, <1>2, <1>3 DEF SyncTypes
  <2>3. CASE moves
    <3>1. /\ controllers' = [controllers EXCEPT ![c] = None,
                                                ![free] = [who |-> a, bound |-> TRUE]]
          /\ unwritten' = unwritten \o << <<c, NoOne>>, <<free, a>> >>
          /\ table' = [table EXCEPT ![a] = free]
          /\ \E d \in Ids \ {c} : <<d, a>> \in start.list
      BY <2>3 DEF Write, moves
    <3>. DEFINE x == [who |-> a, bound |-> TRUE]
    <3>2. x \in [who : Whos, bound : BOOLEAN] /\ x.bound /\ x.who = a /\ a # NoOne
      BY <1>4 DEF Whos, SyncAssumption
    <3>. HIDE DEF x
    <3>3. /\ free \in Ids /\ gone[free] = None /\ free <= c /\ free \in Nat
      <4>1. gone[c] = None  BY <1>4, <1>7
      <4>2. free \in Ids /\ gone[free] = None /\ free <= c
        BY <4>1, <1>4, AssignsFree DEF free
      <4>. QED  BY <4>2, IdsAre
    <3>4. \A d \in Ids : gone[d].who # a
      BY <1>2, <1>4, <1>6, <1>7, <3>2 DEF Proper, Somebody, a
    <3>5. Fits(gone, free, x) /\ Row(free, x) = <<free, a>>
      BY <3>2, <3>4 DEF Fits, Row
    <3>6. controllers' = [gone EXCEPT ![free] = x]
      BY <3>1, <1>3, <1>4, <3>3 DEF gone, x, Places
    <3>7. /\ controllers' \in Places /\ Proper(controllers') /\ <<free, a>> \in Rows
          /\ LET p == Append(Append(unwritten, <<c, NoOne>>), <<free, a>>) IN
             p \in Seq(Rows) /\ Leads(stored, p, BoundTable(controllers'))
      <4>. DEFINE q == Append(unwritten, <<c, NoOne>>)
      <4>1. q \in Seq(Rows) /\ Leads(stored, q, BoundTable(gone))  BY <1>7
      <4>. HIDE DEF q
      <4>2. controllers' \in Places /\ Proper(controllers') /\ Row(free, x) \in Rows
        BY <3>3, <3>5, <3>6, <1>7, PlaceKeeps
      <4>3. /\ Append(q, Row(free, x)) \in Seq(Rows)
            /\ Leads(stored, Append(q, Row(free, x)), BoundTable(controllers'))
        BY <4>1, <3>3, <3>5, <3>6, <1>7, PlaceIsWritten
      <4>. QED  BY <4>2, <4>3, <3>5 DEF q
    <3>8. unwritten' = Append(Append(unwritten, <<c, NoOne>>), <<free, a>>)
      <4>1. unwritten \in Seq(Rows) /\ <<c, NoOne>> \in Rows /\ <<free, a>> \in Rows
        BY <3>7, <1>3, <1>6, <1>7
      <4>. QED  BY <3>1, <4>1, WriteAppends
    <3>9. \A d \in Ids : controllers'[d] = IF d = free THEN x ELSE gone[d]
      BY <3>6, <1>7, <3>3 DEF Places
    <3>10. \A d \in Ids : Somebody(controllers', d) /\ d # free =>
              /\ d # c /\ controllers'[d] = controllers[d] /\ Somebody(controllers, d)
              /\ controllers[d].who # a
      BY <3>4, <3>9, <1>6, <1>7 DEF Somebody
    <3>11. /\ table' \in [Addresses -> Ids \cup {0}] /\ table'[a] = free
           /\ \A b \in Addresses : b # a => table'[b] = table[b]
      BY <3>1, <3>3, <1>2, <1>4 DEF SyncTypes
    <3>12. FirstRight(controllers', table', start.list, c + 1)
      <4>1. \A d \in Ids : Somebody(controllers', d) =>
               IF d < c + 1 THEN table'[controllers'[d].who] = d
               ELSE \/ table'[controllers'[d].who] = 0
                    \/ <<table'[controllers'[d].who], controllers'[d].who>> \in start.list
        <5>. TAKE d \in Ids
        <5>. HAVE Somebody(controllers', d)
        <5>1. CASE d = free
          <6>1. controllers'[d].who = a  BY <5>1, <3>2, <3>9
          <6>2. d < c + 1  BY <5>1, <3>3, <1>4
          <6>. QED  BY <6>1, <6>2, <5>1, <3>11
        <5>2. CASE d # free
          <6>1. /\ d # c /\ controllers'[d] = controllers[d] /\ Somebody(controllers, d)
                /\ controllers[d].who # a
            BY <5>2, <3>10
          <6>2. controllers[d].who \in Addresses  BY <6>1, InvHas
          <6>3. table'[controllers'[d].who] = table[controllers[d].who]  BY <6>1, <6>2, <3>11
          <6>4. d < c + 1 => d < start.at  BY <6>1, <1>4
          <6>5. ~(d < c + 1) => ~(d < start.at)  BY <1>4, IdsAre
          <6>. QED  BY <6>1, <6>3, <6>4, <6>5, <1>2 DEF FirstRight
        <5>. QED  BY <5>1, <5>2
      <4>2. \A b \in Addresses : table'[b] # 0 <=> \E e \in start.list : e[2] = b
        <5>1. \E e \in start.list : e[2] = a  BY <3>1
        <5>2. free # 0  BY <3>3, IdsAre
        <5>. QED  BY <5>1, <5>2, <3>11, <1>2 DEF FirstRight
      <4>3. \A e, f \in start.list : e[2] = f[2] => e = f  BY <1>2 DEF FirstRight
      <4>. QED  BY <4>1, <4>2, <4>3 DEF FirstRight
    <3>13. \A d \in Ids : Somebody(controllers', d) => controllers'[d].bound
      BY <3>2, <3>9, <3>10, <1>2
    <3>. QED  BY <3>7, <3>8, <3>11, <3>12, <3>13
  <2>. QED  BY <2>1, <2>2, <2>3, <1>1
<1>9. SyncTypes'
  BY <1>1, <1>2, <1>5, <1>8 DEF SyncTypes, Places
<1>10. Right'  BY <1>2, <1>5, <1>8 DEF Right
<1>11. Writes'  BY <1>1, <1>5, <1>8 DEF Writes
<1>12. OneHolder(older)'  BY <1>1 DEF SyncInv, OneHolder
<1>. QED  BY <1>8, <1>9, <1>10, <1>11, <1>12 DEF SyncInv

\* The first pass is over when every controller is done.
LEMMA SecondPassKeeps == ASSUME SyncAssumption, SyncInv, SecondPass PROVE SyncInv'
<1>1. /\ start.pc = "first" /\ Unseen = {} /\ start' = [start EXCEPT !.pc = "second"]
      /\ UNCHANGED <<controllers, stored, older, unwritten, table, versions, proven>>
  BY DEF SecondPass
<1>2. /\ SyncTypes /\ FirstRight(controllers, table, start.list, start.at) /\ ~start.synced
      /\ \A c \in Ids : Somebody(controllers, c) => controllers[c].bound
  BY <1>1 DEF SyncInv, Right
<1>3. start' \in Starts /\ start'.pc = "second" /\ start'.list = start.list
      /\ start'.synced = start.synced
  BY <1>1, <1>2 DEF SyncTypes, Starts
<1>4. SyncTypes'  BY <1>1, <1>2, <1>3 DEF SyncTypes
<1>5. OneHolder(older)' /\ Proper(controllers)' /\ Writes'
  BY <1>1, <1>3 DEF SyncInv, OneHolder, Proper, Somebody, Writes
<1>6. \A c \in Ids : Somebody(controllers, c) => c < start.at
  <2>. TAKE c \in Ids
  <2>. HAVE Somebody(controllers, c)
  <2>1. c \in Nat /\ start.at \in Nat  BY <1>2, IdsAre DEF SyncTypes, Starts
  <2>2. ~(c >= start.at)  BY <1>1, InvHas DEF Unseen
  <2>. QED  BY <2>1, <2>2
<1>7. SecondRight(controllers, table, start.list)
  BY <1>2, <1>6 DEF FirstRight, SecondRight, InHal
<1>8. Right'
  <2>1. SecondRight(controllers', table', start'.list)  BY <1>1, <1>3, <1>7
  <2>2. \A c \in Ids : Somebody(controllers', c) => controllers'[c].bound  BY <1>1, <1>2
  <2>. QED  BY <2>1, <2>2, <1>2, <1>3 DEF Right
<1>. QED  BY <1>4, <1>5, <1>8 DEF SyncInv

\* The second is over when the list is empty.
LEMMA InitCompleteKeeps == ASSUME SyncAssumption, SyncInv, HalInitComplete PROVE SyncInv'
<1>1. /\ start.pc = "second" /\ start.list = {}
      /\ start' = [start EXCEPT !.pc = "runs", !.synced = TRUE]
      /\ UNCHANGED <<controllers, stored, older, unwritten, table, versions, proven>>
  BY DEF HalInitComplete
<1>2. /\ SyncTypes /\ (~start.clash => SecondRight(controllers, table, {})) 
      /\ \A c \in Ids : Somebody(controllers, c) => controllers[c].bound
  BY <1>1 DEF SyncInv, Right
<1>3. start' \in Starts /\ start'.pc = "runs" /\ start'.clash = start.clash
  BY <1>1, <1>2 DEF SyncTypes, Starts
<1>4. SyncTypes'  BY <1>1, <1>2, <1>3 DEF SyncTypes
<1>5. OneHolder(older)' /\ Proper(controllers)' /\ Writes'
  BY <1>1, <1>3 DEF SyncInv, OneHolder, Proper, Somebody, Writes
<1>6. ~start.clash => RunsRight(controllers, table, proven)
  <2>. SUFFICES ASSUME ~start.clash PROVE RunsRight(controllers, table, proven)  OBVIOUS
  <2>1. SecondRight(controllers, table, {})  BY <1>2
  <2>2. \A a \in Addresses : table[a] # 0 => \E c \in Ids : controllers[c].who = a
    BY <2>1 DEF SecondRight, Known
  <2>3. \A c \in Ids : controllers[c].who \in Addresses => controllers[c].bound
    BY <1>2 DEF Somebody, SyncAssumption
  <2>. QED  BY <2>1, <2>2, <2>3 DEF SecondRight, RunsRight
<1>7. Right'
  <2>1. ~start'.clash => RunsRight(controllers', table', proven')  BY <1>1, <1>3, <1>6
  <2>. QED  BY <2>1, <1>3 DEF Right
<1>. QED  BY <1>4, <1>5, <1>7 DEF SyncInv

\* A finite set with two elements has more than one.
LEMMA TwoAreMore ==
    ASSUME NEW S, IsFiniteSet(S), NEW g \in S, NEW h \in S, g # h
    PROVE  Cardinality(S) > 1
<1>1. IsFiniteSet({g}) /\ Cardinality({g}) = 1  BY FS_Singleton
<1>. DEFINE G == {g}  H == G \cup {h}
<1>2. h \notin G /\ H \in SUBSET S  OBVIOUS
<1>3. IsFiniteSet(H) /\ Cardinality(H) = Cardinality(G) + 1
  <2>. HIDE DEF G
  <2>. QED  BY <1>1, <1>2, FS_AddElement DEF G
<1>. HIDE DEF H
<1>4. Cardinality(H) <= Cardinality(S)  BY <1>2, FS_Subset
<1>5. Cardinality(S) \in Nat  BY FS_CardinalityType
<1>. QED  BY <1>1, <1>3, <1>4, <1>5

\* What the HAL may unpair has its type; and it is the remote that is meant, if no other has
\* the identifier.
LEMMA UnpairedTypes ==
    ASSUME NEW t \in [Addresses -> Ids \cup {0}], NEW c, NEW u \in SyncUnpaired(t, c)
    PROVE  /\ u \in [Addresses -> Ids \cup {0}]
           /\ \E a \in Addresses : t[a] = c /\ u = [t EXCEPT ![a] = 0]
<1>1. PICK b \in Addresses : t[b] = c /\ u = [a \in Addresses |-> IF a = b THEN 0 ELSE t[a]]
  BY DEF SyncUnpaired
<1>2. u = [t EXCEPT ![b] = 0]  BY <1>1
<1>. QED  BY <1>1, <1>2

\* An identifier that only one remote is paired under is unpaired there.
LEMMA UnpairsOne ==
    ASSUME IsFiniteSet(Addresses), NEW t \in [Addresses -> Ids \cup {0}], NEW a \in Addresses,
           t[a] # 0, ~(Cardinality(SyncUnpaired(t, t[a])) > 1),
           NEW u \in SyncUnpaired(t, t[a])
    PROVE  u = [t EXCEPT ![a] = 0]
<1>. DEFINE B == {b \in Addresses : t[b] = t[a]}
            zero(b) == [d \in Addresses |-> IF d = b THEN 0 ELSE t[d]]
            S == {zero(b) : b \in B}
            f == [b \in B |-> zero(b)]
<1>1. SyncUnpaired(t, t[a]) = S  BY DEF SyncUnpaired
<1>2. IsFiniteSet(S)
  <2>1. IsFiniteSet(B)  BY FS_Subset
  <2>2. f \in Surjection(B, S)
    <3>1. f \in [B -> S]  OBVIOUS
    <3>2. \A y \in S : \E x \in B : f[x] = y  OBVIOUS
    <3>. HIDE DEF f, B, S
    <3>. QED  BY <3>1, <3>2 DEF Surjection
  <2>. HIDE DEF f, B, S
  <2>. QED  BY <2>1, <2>2, FS_Surjection
<1>3. PICK b \in B : u = zero(b)  BY <1>1
<1>4. b = a
  <2>. SUFFICES ASSUME b # a PROVE FALSE  OBVIOUS
  <2>1. zero(a) \in S /\ zero(b) \in S  OBVIOUS
  <2>2. zero(a)[a] = 0 /\ zero(b)[a] = t[a]  BY <1>3
  <2>3. zero(a) # zero(b)  BY <2>2
  <2>. HIDE DEF S, zero
  <2>4. Cardinality(S) > 1  BY <1>2, <2>1, <2>3, TwoAreMore
  <2>. QED  BY <2>4, <1>1
<1>. QED  BY <1>3, <1>4

\* A remote that only the HAL knows is bound, or is unpaired.
LEMMA ImportKeeps == ASSUME SyncAssumption, SyncInv, Import PROVE SyncInv'
<1>1. PICK e \in start.list :
        LET a == e[2]
            c == IdAssign(controllers)
            imported == [table EXCEPT ![a] = c]
        IN  /\ start' = [start EXCEPT !.list = @ \ {e},
                 !.clash = @ \/ (KnownAs(a) = {} /\ a \notin versions
                                 /\ Cardinality(SyncUnpaired(imported, c)) > 1)]
            /\ IF KnownAs(a) # {}
               THEN UNCHANGED <<controllers, unwritten, table, versions, proven>>
               ELSE IF a \in versions
               THEN /\ controllers' = [controllers EXCEPT ![c] = [who |-> a, bound |-> TRUE]]
                    /\ Write(<< <<c, a>> >>) /\ table' = imported
                    /\ UNCHANGED <<versions, proven>>
               ELSE /\ Unpair(imported, c) /\ Write(<< <<c, NoOne>> >>)
                    /\ versions' = {b \in versions : table'[b] # 0}
                    /\ proven' = {b \in proven : table'[b] # 0}
                    /\ UNCHANGED controllers
  BY DEF Import
<1>2. start.pc = "second" /\ UNCHANGED <<stored, older>>  BY DEF Import
<1>. DEFINE a == e[2]  c == IdAssign(controllers)  imported == [table EXCEPT ![a] = c]
            clash == start.clash \/ (KnownAs(a) = {} /\ a \notin versions
                                     /\ Cardinality(SyncUnpaired(imported, c)) > 1)
            rest == start.list \ {e}
<1>3. /\ SyncTypes /\ Proper(controllers) /\ controllers \in Places /\ unwritten \in Seq(Rows)
      /\ Leads(stored, unwritten, BoundTable(controllers)) /\ ~start.synced
      /\ \A d \in Ids : Somebody(controllers, d) => controllers[d].bound
      /\ ~start.clash => SecondRight(controllers, table, start.list)
  BY <1>2, InvHas DEF SyncInv, Right
<1>4. a \in Addresses /\ e \in Ids \X Addresses /\ rest \in Lists /\ clash \in BOOLEAN
  <2>1. start.list \in Lists /\ start.clash \in BOOLEAN  BY <1>3 DEF SyncTypes, Starts
  <2>. QED  BY <2>1 DEF Lists
<1>5. KnownAs(a) # {} <=> Known(controllers, a)  BY DEF KnownAs, Known
<1>. HIDE DEF a, c, imported, clash, rest
<1>6. start' = [start EXCEPT !.list = rest, !.clash = clash]
  BY <1>1 DEF a, c, imported, clash, rest
<1>7. start' \in Starts /\ start'.pc = "second" /\ start'.list = rest /\ start'.clash = clash
      /\ start'.synced = start.synced
  <2>1. start \in Starts  BY <1>3 DEF SyncTypes
  <2>. QED  BY <2>1, <1>2, <1>4, <1>6 DEF Starts
<1>8. \A f \in start.list : f[2] # a => f \in rest  BY DEF rest, a
<1>9. /\ controllers' \in Places /\ Proper(controllers') /\ unwritten' \in Seq(Rows)
      /\ Leads(stored, unwritten', BoundTable(controllers'))
      /\ table' \in [Addresses -> Ids \cup {0}]
      /\ versions' \subseteq Addresses /\ proven' \subseteq versions'
      /\ \A d \in Ids : Somebody(controllers', d) => controllers'[d].bound
      /\ ~clash => SecondRight(controllers', table', rest)
  <2>1. CASE KnownAs(a) # {}
    <3>1. UNCHANGED <<controllers, unwritten, table, versions, proven>>
      BY <1>1, <2>1 DEF a
    <3>2. ~clash => SecondRight(controllers, table, rest)
      <4>. SUFFICES ASSUME ~clash PROVE SecondRight(controllers, table, rest)  OBVIOUS
      <4>1. SecondRight(controllers, table, start.list)  BY <1>3 DEF clash
      <4>2. \A b \in Addresses : table[b] # 0 => Known(controllers, b) \/ \E f \in rest : f[2] = b
        BY <4>1, <2>1, <1>5, <1>8 DEF SecondRight
      <4>. QED  BY <4>1, <4>2 DEF SecondRight
    <3>. QED  BY <3>1, <3>2, <1>3 DEF SyncTypes
  <2>2. CASE KnownAs(a) = {}
    <3>1. ~Known(controllers, a)  BY <2>2, <1>5
    <3>2. /\ c \in Ids /\ controllers[c] = None /\ c # 0
      <4>1. \E d \in Ids : controllers[d] = None  BY <3>1, <1>3, <1>4, PlaceIsFree
      <4>. QED  BY <4>1, AssignsFree, IdsAre DEF c
    <3>3. /\ imported \in [Addresses -> Ids \cup {0}] /\ imported[a] = c
          /\ \A b \in Addresses : b # a => imported[b] = table[b]
      BY <3>2, <1>3, <1>4 DEF imported, SyncTypes
    <3>4. CASE a \in versions
      <4>1. /\ controllers' = [controllers EXCEPT ![c] = [who |-> a, bound |-> TRUE]]
            /\ unwritten' = unwritten \o << <<c, a>> >> /\ table' = imported
            /\ UNCHANGED <<versions, proven>>
        BY <1>1, <2>2, <3>4 DEF a, c, imported, Write
      <4>. DEFINE x == [who |-> a, bound |-> TRUE]
      <4>2. x.who = a /\ x.bound /\ Fits(controllers, c, x) /\ Row(c, x) = <<c, a>>
        BY <3>1, <1>4 DEF Fits, Row, Known, Whos, SyncAssumption
      <4>. HIDE DEF x
      <4>3. /\ controllers' = [controllers EXCEPT ![c] = x]
            /\ \A d \in Ids : controllers'[d] = IF d = c THEN x ELSE controllers[d]
        BY <4>1, <1>3 DEF x, Places
      <4>4. controllers' \in Places /\ Proper(controllers') /\ Row(c, x) \in Rows
        BY <4>2, <4>3, <3>2, <1>3, PlaceKeeps
      <4>5. unwritten' = Append(unwritten, Row(c, x))
        BY <4>1, <4>2, <4>4, <1>3, WriteAppends
      <4>6. unwritten' \in Seq(Rows) /\ Leads(stored, unwritten', BoundTable(controllers'))
        BY <4>2, <4>3, <4>5, <3>2, <1>3, PlaceIsWritten
      <4>7. ~clash => SecondRight(controllers', table', rest)
        <5>. SUFFICES ASSUME ~clash PROVE SecondRight(controllers', table', rest)  OBVIOUS
        <5>1. SecondRight(controllers, table, start.list)  BY <1>3 DEF clash
        <5>2. InHal(controllers', table')
          <6>. SUFFICES ASSUME NEW d \in Ids, Somebody(controllers', d)
                        PROVE  table'[controllers'[d].who] = d
            BY DEF InHal
          <6>1. CASE d = c  BY <6>1, <4>1, <4>2, <4>3, <3>3
          <6>2. CASE d # c
            <7>1. controllers'[d] = controllers[d] /\ Somebody(controllers, d)
                  /\ controllers[d].who # a /\ controllers[d].who \in Addresses
              BY <6>2, <4>3, <3>1, InvHas DEF Somebody, Known
            <7>2. table[controllers[d].who] = d  BY <7>1, <5>1 DEF SecondRight, InHal
            <7>. QED  BY <7>1, <7>2, <4>1, <3>3
          <6>. QED  BY <6>1, <6>2
        <5>3. \A b \in Addresses :
                 table'[b] # 0 => Known(controllers', b) \/ \E f \in rest : f[2] = b
          <6>. SUFFICES ASSUME NEW b \in Addresses, table'[b] # 0
                        PROVE  Known(controllers', b) \/ \E f \in rest : f[2] = b
            OBVIOUS
          <6>1. CASE b = a  BY <6>1, <4>2, <4>3, <3>2 DEF Known
          <6>2. CASE b # a
            <7>1. table[b] # 0  BY <6>2, <4>1, <3>3
            <7>2. Known(controllers, b) => Known(controllers', b)
              BY <4>3, <3>2, <1>4 DEF Known, None, SyncAssumption
            <7>3. Known(controllers, b) \/ \E f \in start.list : f[2] = b
              BY <7>1, <5>1 DEF SecondRight
            <7>. QED  BY <7>2, <7>3, <6>2, <1>8
          <6>. QED  BY <6>1, <6>2
        <5>. QED  BY <5>2, <5>3 DEF SecondRight
      <4>8. \A d \in Ids : Somebody(controllers', d) => controllers'[d].bound
        BY <4>2, <4>3, <1>3 DEF Somebody
      <4>. QED  BY <4>1, <4>4, <4>6, <4>7, <4>8, <3>3, <1>3 DEF SyncTypes
    <3>5. CASE a \notin versions
      <4>1. /\ Unpair(imported, c) /\ unwritten' = unwritten \o << <<c, NoOne>> >>
            /\ versions' = {b \in versions : table'[b] # 0}
            /\ proven' = {b \in proven : table'[b] # 0}
            /\ UNCHANGED controllers
        BY <1>1, <2>2, <3>5 DEF a, c, imported, Write
      <4>2. /\ Fits(controllers, c, None) /\ Row(c, None) = <<c, NoOne>>
            /\ controllers' = [controllers EXCEPT ![c] = None]
        BY <4>1, <3>2, <1>3 DEF Fits, Row, None, Whos, Places
      <4>3. controllers' \in Places /\ Proper(controllers') /\ Row(c, None) \in Rows
        BY <4>2, <3>2, <1>3, PlaceKeeps
      <4>4. unwritten' = Append(unwritten, Row(c, None))
        BY <4>1, <4>2, <4>3, <1>3, WriteAppends
      <4>5. unwritten' \in Seq(Rows) /\ Leads(stored, unwritten', BoundTable(controllers'))
        BY <4>2, <4>4, <3>2, <1>3, PlaceIsWritten
      <4>6. SyncUnpaired(imported, c) # {}
        <5>1. a \in {b \in Addresses : imported[b] = c}  BY <3>3, <1>4
        <5>2. [b \in Addresses |-> IF b = a THEN 0 ELSE imported[b]] \in SyncUnpaired(imported, c)
          BY <5>1 DEF SyncUnpaired
        <5>. QED  BY <5>2
      <4>7. table' \in SyncUnpaired(imported, c)  BY <4>1, <4>6 DEF Unpair
      <4>8. table' \in [Addresses -> Ids \cup {0}]  BY <4>7, <3>3, UnpairedTypes
      <4>9. ~clash => SecondRight(controllers', table', rest)
        <5>. SUFFICES ASSUME ~clash PROVE SecondRight(controllers', table', rest)  OBVIOUS
        <5>1. SecondRight(controllers, table, start.list)  BY <1>3 DEF clash
        <5>2. ~(Cardinality(SyncUnpaired(imported, c)) > 1)  BY <2>2, <3>5 DEF clash
        <5>3. table' = [imported EXCEPT ![a] = 0]
          BY <5>2, <4>7, <3>2, <3>3, <1>4, UnpairsOne DEF SyncAssumption
        <5>4. /\ table'[a] = 0 /\ \A b \in Addresses : b # a => table'[b] = table[b]
          BY <5>3, <3>3, <1>4
        <5>5. InHal(controllers', table')
          <6>. SUFFICES ASSUME NEW d \in Ids, Somebody(controllers, d)
                        PROVE  table'[controllers[d].who] = d
            BY <4>1 DEF InHal
          <6>1. controllers[d].who # a /\ controllers[d].who \in Addresses
            BY <3>1, InvHas DEF Known
          <6>2. table[controllers[d].who] = d  BY <5>1 DEF SecondRight, InHal
          <6>. QED  BY <6>1, <6>2, <5>4
        <5>6. \A b \in Addresses :
                 table'[b] # 0 => Known(controllers', b) \/ \E f \in rest : f[2] = b
          BY <5>1, <5>4, <4>1, <1>8 DEF SecondRight
        <5>. QED  BY <5>5, <5>6 DEF SecondRight
      <4>. QED  BY <4>1, <4>3, <4>5, <4>8, <4>9, <1>3 DEF SyncTypes
    <3>. QED  BY <3>4, <3>5
  <2>. QED  BY <2>1, <2>2
<1>10. SyncTypes'  BY <1>2, <1>3, <1>7, <1>9 DEF SyncTypes, Places
<1>11. Right'  BY <1>3, <1>7, <1>9 DEF Right
<1>12. Writes'  BY <1>2, <1>7, <1>9 DEF Writes
<1>13. OneHolder(older)'  BY <1>2 DEF SyncInv, OneHolder
<1>. QED  BY <1>9, <1>10, <1>11, <1>12, <1>13 DEF SyncInv

\* What a step has to keep while the program runs.
Agreed == start.synced /\ ~start.clash
\* While the program runs, a step keeps the invariant if it keeps these.
LEMMA RunsKeeps ==
    ASSUME SyncInv, start.pc = "runs", UNCHANGED <<stored, older, start>>,
           controllers' \in Places, Proper(controllers'), unwritten' \in Seq(Rows),
           table' \in [Addresses -> Ids \cup {0}], versions' \subseteq Addresses,
           proven' \subseteq versions',
           Leads(stored, unwritten', BoundTable(controllers')),
           Agreed => RunsRight(controllers', table', proven')
    PROVE  SyncInv'
<1>1. SyncTypes'  BY DEF SyncInv, SyncTypes, Places
<1>2. Right'  BY DEF Agreed, Right
<1>3. Writes'  BY DEF Writes
<1>4. OneHolder(older)'  BY DEF SyncInv, OneHolder
<1>. QED  BY <1>1, <1>2, <1>3, <1>4 DEF SyncInv

\* A remote that pairs takes a free place, and is not known to be validated.
LEMMA SyncPairedKeeps ==
    ASSUME SyncAssumption, SyncInv, NEW a \in Addresses, SyncPaired(a)
    PROVE  SyncInv'
<1>. DEFINE c == IdAssign(controllers)  x == [who |-> a, bound |-> FALSE]
<1>1. /\ start.pc = "runs" /\ KnownAs(a) = {} /\ \E d \in Ids : controllers[d] = None
      /\ controllers' = [controllers EXCEPT ![c] = x]
      /\ table' = [b \in Addresses |-> IF b = a THEN c ELSE IF table[b] = c THEN 0 ELSE table[b]]
      /\ versions' = versions \ {a} /\ proven' = proven \ {a}
      /\ UNCHANGED <<stored, older, unwritten, start>>
  BY DEF SyncPaired, Runs
<1>2. /\ SyncTypes /\ Proper(controllers) /\ controllers \in Places /\ unwritten \in Seq(Rows)
      /\ Leads(stored, unwritten, BoundTable(controllers))
      /\ Agreed => RunsRight(controllers, table, proven)
  BY <1>1, InvHas DEF SyncInv, Right, Agreed
<1>3. c \in Ids /\ controllers[c] = None  BY <1>1, AssignsFree
<1>4. ~Known(controllers, a)  BY <1>1 DEF KnownAs, Known
<1>. HIDE DEF c, x
<1>5. x.who = a /\ ~x.bound /\ Fits(controllers, c, x) /\ Row(c, x) = <<c, NoOne>>
  BY <1>4 DEF x, Fits, Row, Known, Whos
<1>6. /\ controllers' \in Places /\ Proper(controllers')
      /\ BoundTable(controllers') = RowPut(BoundTable(controllers), <<c, NoOne>>)
      /\ \A d \in Ids : controllers'[d] = IF d = c THEN x ELSE controllers[d]
  <2>1. controllers' = [controllers EXCEPT ![c] = x]  BY <1>1
  <2>2. /\ controllers' \in Places /\ Proper(controllers')
        /\ BoundTable(controllers') = RowPut(BoundTable(controllers), Row(c, x))
    BY <2>1, <1>2, <1>3, <1>5, PlaceKeeps
  <2>3. \A d \in Ids : controllers'[d] = IF d = c THEN x ELSE controllers[d]
    BY <2>1, <1>2 DEF Places
  <2>. QED  BY <2>2, <2>3, <1>5
<1>7. BoundTable(controllers') = BoundTable(controllers)
  <2>1. BoundTable(controllers)[c] = NoOne  BY <1>3 DEF BoundTable, None
  <2>. QED  BY <2>1, <1>3, <1>6 DEF RowPut, BoundTable
<1>8. table' \in [Addresses -> Ids \cup {0}]  BY <1>1, <1>2, <1>3 DEF SyncTypes
<1>9. Agreed => RunsRight(controllers', table', proven')
  <2>. SUFFICES ASSUME Agreed PROVE RunsRight(controllers', table', proven')  OBVIOUS
  <2>1. RunsRight(controllers, table, proven)  BY <1>2
  <2>2. InHal(controllers', table')
    <3>. SUFFICES ASSUME NEW d \in Ids, Somebody(controllers', d)
                  PROVE  table'[controllers'[d].who] = d
      BY DEF InHal
    <3>1. CASE d = c  BY <3>1, <1>1, <1>5, <1>6
    <3>2. CASE d # c
      <4>1. controllers'[d] = controllers[d] /\ Somebody(controllers, d)
            /\ controllers[d].who # a /\ controllers[d].who \in Addresses
        BY <3>2, <1>4, <1>6, InvHas DEF Somebody, Known
      <4>2. table[controllers[d].who] = d  BY <4>1, <2>1 DEF RunsRight, InHal
      <4>. QED  BY <4>1, <4>2, <3>2, <1>1
    <3>. QED  BY <3>1, <3>2
  <2>3. \A b \in Addresses : table'[b] # 0 =>
           \E d \in Ids : controllers'[d].who = b /\ (b \in proven' => controllers'[d].bound)
    <3>. SUFFICES ASSUME NEW b \in Addresses, table'[b] # 0
                  PROVE  \E d \in Ids : controllers'[d].who = b
                                        /\ (b \in proven' => controllers'[d].bound)
      OBVIOUS
    <3>1. CASE b = a
      <4>1. a \notin proven'  BY <1>1
      <4>2. controllers'[c].who = a  BY <1>3, <1>5, <1>6
      <4>. QED  BY <3>1, <4>1, <4>2, <1>3
    <3>2. CASE b # a
      <4>1. table[b] # 0  BY <3>2, <1>1
      <4>2. PICK d \in Ids : controllers[d].who = b /\ (b \in proven => controllers[d].bound)
        BY <4>1, <2>1 DEF RunsRight
      <4>3. d # c  BY <4>2, <1>3 DEF None, SyncAssumption
      <4>4. controllers'[d] = controllers[d] /\ proven' \subseteq proven  BY <4>3, <1>1, <1>6
      <4>. QED  BY <4>2, <4>4
    <3>. QED  BY <3>1, <3>2
  <2>. QED  BY <2>2, <2>3 DEF RunsRight
<1>10. versions' \subseteq Addresses /\ proven' \subseteq versions'
  BY <1>1, <1>2 DEF SyncTypes
<1>. QED  BY <1>1, <1>2, <1>6, <1>7, <1>8, <1>9, <1>10, RunsKeeps

\* A controller exports its versions.
LEMMA ExportKeeps ==
    ASSUME SyncAssumption, SyncInv, NEW c \in Ids, RibExport(c)
    PROVE  SyncInv'
<1>1. /\ start.pc = "runs" /\ Somebody(controllers, c)
      /\ versions' = versions \cup {controllers[c].who}
      /\ UNCHANGED <<controllers, stored, older, unwritten, table, proven, start>>
  BY InvHas DEF RibExport
<1>2. /\ SyncTypes /\ Proper(controllers) /\ controllers \in Places /\ unwritten \in Seq(Rows)
      /\ Leads(stored, unwritten, BoundTable(controllers))
      /\ Agreed => RunsRight(controllers, table, proven)
  BY <1>1, InvHas DEF SyncInv, Right, Agreed
<1>3. controllers[c].who \in Addresses  BY <1>1, InvHas
<1>4. versions' \subseteq Addresses /\ proven' \subseteq versions'
      /\ table' \in [Addresses -> Ids \cup {0}]
  BY <1>1, <1>2, <1>3 DEF SyncTypes
<1>5. /\ controllers' = controllers /\ unwritten' = unwritten /\ table' = table
      /\ proven' = proven
  BY <1>1
<1>. QED  BY <1>1, <1>2, <1>4, <1>5, RunsKeeps

\* A controller that is validated is bound, and written.
LEMMA SyncValidatedKeeps ==
    ASSUME SyncAssumption, SyncInv, NEW c \in Ids, SyncValidated(c)
    PROVE  SyncInv'
<1>. DEFINE a == controllers[c].who  x == [who |-> a, bound |-> TRUE]
<1>1. /\ start.pc = "runs" /\ Somebody(controllers, c)
      /\ controllers' = [controllers EXCEPT ![c].bound = TRUE]
      /\ unwritten' = unwritten \o << <<c, a>> >>
      /\ versions' = versions \cup {a} /\ proven' = proven \cup {a}
      /\ UNCHANGED <<stored, older, table, start>>
  BY InvHas DEF SyncValidated, Runs, Write
<1>2. /\ SyncTypes /\ Proper(controllers) /\ controllers \in Places /\ unwritten \in Seq(Rows)
      /\ Leads(stored, unwritten, BoundTable(controllers))
      /\ Agreed => RunsRight(controllers, table, proven)
  BY <1>1, InvHas DEF SyncInv, Right, Agreed
<1>3. a \in Addresses /\ a # NoOne  BY <1>1, InvHas DEF SyncAssumption
<1>4. controllers' = [controllers EXCEPT ![c] = x]
  <2>1. controllers[c] \in [who : Whos, bound : BOOLEAN]  BY <1>2 DEF Places
  <2>. DEFINE y == [controllers[c] EXCEPT !.bound = TRUE]
  <2>2. y \in [who : Whos, bound : BOOLEAN] /\ y.who = a /\ y.bound = TRUE  BY <2>1
  <2>3. x \in [who : Whos, bound : BOOLEAN] /\ x.who = a /\ x.bound = TRUE
    BY <1>3 DEF Whos
  <2>4. y = x
    <3>. HIDE DEF x, y, a
    <3>. QED  BY <2>2, <2>3
  <2>5. controllers' = [controllers EXCEPT ![c] = [controllers[c] EXCEPT !.bound = TRUE]]
    BY <1>1
  <2>. QED  BY <2>4, <2>5
<1>5. \A d \in Ids : d # c => controllers[d].who # a  BY <1>1, <1>2 DEF Proper
<1>. HIDE DEF a, x
<1>6. x.who = a /\ x.bound /\ Fits(controllers, c, x) /\ Row(c, x) = <<c, a>>
  BY <1>3, <1>5 DEF x, Fits, Row, Whos
<1>7. /\ controllers' \in Places /\ Proper(controllers') /\ Row(c, x) \in Rows
      /\ \A d \in Ids : controllers'[d] = IF d = c THEN x ELSE controllers[d]
  BY <1>2, <1>4, <1>6, PlaceKeeps DEF Places
<1>8. unwritten' = Append(unwritten, Row(c, x))  BY <1>1, <1>2, <1>6, <1>7, WriteAppends
<1>9. unwritten' \in Seq(Rows) /\ Leads(stored, unwritten', BoundTable(controllers'))
  BY <1>2, <1>4, <1>6, <1>8, PlaceIsWritten
<1>10. Agreed => RunsRight(controllers', table', proven')
  <2>. SUFFICES ASSUME Agreed PROVE RunsRight(controllers', table', proven')  OBVIOUS
  <2>1. RunsRight(controllers, table, proven) /\ table' = table  BY <1>1, <1>2
  <2>2. \A d \in Ids : controllers'[d].who = controllers[d].who  BY <1>6, <1>7 DEF a
  <2>3. InHal(controllers', table')  BY <2>1, <2>2 DEF RunsRight, InHal, Somebody
  <2>4. \A b \in Addresses : table'[b] # 0 =>
           \E d \in Ids : controllers'[d].who = b /\ (b \in proven' => controllers'[d].bound)
    <3>. SUFFICES ASSUME NEW b \in Addresses, table[b] # 0
                  PROVE  \E d \in Ids : controllers'[d].who = b
                                        /\ (b \in proven' => controllers'[d].bound)
      BY <2>1
    <3>1. CASE b = a  BY <3>1, <1>6, <1>7
    <3>2. CASE b # a
      <4>1. PICK d \in Ids : controllers[d].who = b /\ (b \in proven => controllers[d].bound)
        BY <2>1 DEF RunsRight
      <4>2. d # c  BY <4>1, <3>2 DEF a
      <4>. QED  BY <4>1, <4>2, <3>2, <1>1, <1>7
    <3>. QED  BY <3>1, <3>2
  <2>. QED  BY <2>3, <2>4 DEF RunsRight
<1>11. versions' \subseteq Addresses /\ proven' \subseteq versions'
       /\ table' \in [Addresses -> Ids \cup {0}]
  BY <1>1, <1>2, <1>3 DEF SyncTypes
<1>. QED  BY <1>1, <1>7, <1>9, <1>10, <1>11, RunsKeeps

\* A controller that is unbound goes, and the HAL forgets the remote that had its identifier.
LEMMA SyncUnbindKeeps ==
    ASSUME SyncAssumption, SyncInv, NEW c \in Ids, Unbind(c)
    PROVE  SyncInv'
<1>1. /\ start.pc = "runs" /\ Somebody(controllers, c)
      /\ controllers' = [controllers EXCEPT ![c] = None]
      /\ Unpair(table, c) /\ unwritten' = unwritten \o << <<c, NoOne>> >>
      /\ versions' = {b \in versions : table'[b] # 0}
      /\ proven' = {b \in proven : table'[b] # 0}
      /\ UNCHANGED <<stored, older, start>>
  BY InvHas DEF Unbind, Runs, Write
<1>2. /\ SyncTypes /\ Proper(controllers) /\ controllers \in Places /\ unwritten \in Seq(Rows)
      /\ Leads(stored, unwritten, BoundTable(controllers))
      /\ Agreed => RunsRight(controllers, table, proven)
  BY <1>1, InvHas DEF SyncInv, Right, Agreed
<1>3. Fits(controllers, c, None) /\ Row(c, None) = <<c, NoOne>> /\ None.who = NoOne
  BY DEF Fits, Row, None, Whos
<1>4. /\ controllers' \in Places /\ Proper(controllers') /\ Row(c, None) \in Rows
      /\ \A d \in Ids : controllers'[d] = IF d = c THEN None ELSE controllers[d]
  BY <1>1, <1>2, <1>3, PlaceKeeps DEF Places
<1>5. unwritten' = Append(unwritten, Row(c, None))  BY <1>1, <1>2, <1>3, <1>4, WriteAppends
<1>6. unwritten' \in Seq(Rows) /\ Leads(stored, unwritten', BoundTable(controllers'))
  <2>1. controllers' = [controllers EXCEPT ![c] = None]  BY <1>1
  <2>2. /\ Append(unwritten, Row(c, None)) \in Seq(Rows)
        /\ Leads(stored, Append(unwritten, Row(c, None)), BoundTable(controllers'))
    BY <2>1, <1>2, <1>3, PlaceIsWritten
  <2>. QED  BY <2>2, <1>5
<1>7. table \in [Addresses -> Ids \cup {0}]  BY <1>2 DEF SyncTypes
<1>8. \/ table' = table /\ \A b \in Addresses : table[b] # c
      \/ \E b \in Addresses : table[b] = c /\ table' = [table EXCEPT ![b] = 0]
  <2>1. CASE table' \in SyncUnpaired(table, c)  BY <2>1, <1>7, UnpairedTypes
  <2>2. CASE SyncUnpaired(table, c) = {} /\ table' = table
    <3>1. \A b \in Addresses : table[b] # c
      <4>. SUFFICES ASSUME NEW b \in Addresses, table[b] = c PROVE FALSE  OBVIOUS
      <4>1. [d \in Addresses |-> IF d = b THEN 0 ELSE table[d]] \in SyncUnpaired(table, c)
        BY DEF SyncUnpaired
      <4>. QED  BY <4>1, <2>2
    <3>. QED  BY <3>1, <2>2
  <2>. QED  BY <2>1, <2>2, <1>1 DEF Unpair
<1>9. table' \in [Addresses -> Ids \cup {0}]  BY <1>7, <1>8
<1>10. Agreed => RunsRight(controllers', table', proven')
  <2>. SUFFICES ASSUME Agreed PROVE RunsRight(controllers', table', proven')  OBVIOUS
  <2>. DEFINE a == controllers[c].who
  <2>1. RunsRight(controllers, table, proven)  BY <1>2
  <2>2. a \in Addresses /\ table[a] = c  BY <2>1, <1>1, InvHas DEF RunsRight, InHal
  <2>3. \A b \in Addresses : table[b] = c => b = a
    <3>. SUFFICES ASSUME NEW b \in Addresses, table[b] = c PROVE b = a  OBVIOUS
    <3>1. c # 0  BY IdsAre
    <3>2. PICK d \in Ids : controllers[d].who = b  BY <3>1, <2>1 DEF RunsRight
    <3>3. table[b] = d  BY <3>2, <2>1 DEF RunsRight, InHal, Somebody, SyncAssumption
    <3>. QED  BY <3>2, <3>3
  <2>4. table' = [table EXCEPT ![a] = 0]  BY <2>2, <2>3, <1>8
  <2>5. table'[a] = 0 /\ \A b \in Addresses : b # a => table'[b] = table[b]
    BY <2>2, <2>4, <1>7
  <2>6. \A d \in Ids : d # c => controllers[d].who # a  BY <1>1, <1>2 DEF Proper
  <2>. HIDE DEF a
  <2>7. \A d \in Ids : Somebody(controllers', d) =>
           /\ d # c /\ controllers'[d] = controllers[d] /\ controllers[d].who \in Addresses
           /\ Somebody(controllers, d) /\ controllers[d].who # a
    BY <2>6, <1>3, <1>4, InvHas DEF Somebody
  <2>8. InHal(controllers', table')
    <3>. SUFFICES ASSUME NEW d \in Ids, Somebody(controllers', d)
                  PROVE  table'[controllers'[d].who] = d
      BY DEF InHal
    <3>1. table[controllers[d].who] = d  BY <2>1, <2>7 DEF RunsRight, InHal
    <3>. QED  BY <3>1, <2>5, <2>7
  <2>9. \A b \in Addresses : table'[b] # 0 =>
           \E d \in Ids : controllers'[d].who = b /\ (b \in proven' => controllers'[d].bound)
    <3>. SUFFICES ASSUME NEW b \in Addresses, table'[b] # 0
                  PROVE  \E d \in Ids : controllers'[d].who = b
                                        /\ (b \in proven' => controllers'[d].bound)
      OBVIOUS
    <3>1. b # a /\ table[b] # 0  BY <2>5
    <3>2. PICK d \in Ids : controllers[d].who = b /\ (b \in proven => controllers[d].bound)
      BY <3>1, <2>1 DEF RunsRight
    <3>3. d # c  BY <3>1, <3>2 DEF a
    <3>. QED  BY <3>2, <3>3, <1>1, <1>4
  <2>. QED  BY <2>8, <2>9 DEF RunsRight
<1>11. versions' \subseteq Addresses /\ proven' \subseteq versions'
  BY <1>1, <1>2 DEF SyncTypes
<1>. QED  BY <1>1, <1>4, <1>6, <1>9, <1>10, <1>11, RunsKeeps

\* A reset empties everything.
LEMMA ResetKeeps == ASSUME SyncAssumption, SyncInv, FactoryReset PROVE SyncInv'
<1>1. /\ start.pc = "runs" /\ controllers' = [c \in Ids |-> None]
      /\ table' = [a \in Addresses |-> 0]
      /\ unwritten' = unwritten \o [i \in 1 .. Cardinality(Ids) |-> <<i, NoOne>>]
      /\ versions' = {} /\ proven' = {}
      /\ UNCHANGED <<stored, older, start>>
  BY DEF FactoryReset, Runs, Write
<1>2. unwritten \in Seq(Rows) /\ Leads(stored, unwritten, BoundTable(controllers))
  BY <1>1, InvHas
<1>3. unwritten' \in Seq(Rows) /\ Leads(stored, unwritten', [c \in Ids |-> NoOne])
  BY <1>1, <1>2, LeadsReset
<1>4. BoundTable(controllers') = [c \in Ids |-> NoOne]  BY <1>1 DEF BoundTable, None
<1>5. controllers' \in Places /\ Proper(controllers')
  BY <1>1 DEF Places, Proper, Somebody, None, Whos
<1>6. RunsRight(controllers', table', proven')
  BY <1>1 DEF RunsRight, InHal, Somebody, None
<1>7. /\ table' \in [Addresses -> Ids \cup {0}] /\ versions' \subseteq Addresses
      /\ proven' \subseteq versions'
  BY <1>1
<1>. QED  BY <1>1, <1>3, <1>4, <1>5, <1>6, <1>7, RunsKeeps

\* The thread of the database writes what waits longest.
LEMMA SyncDatabaseKeeps == ASSUME SyncAssumption, SyncInv, DatabaseWrite PROVE SyncInv'
<1>1. /\ unwritten # <<>> /\ stored' = RowPut(stored, Head(unwritten))
      /\ unwritten' = Tail(unwritten)
      /\ UNCHANGED <<controllers, older, table, versions, proven, start>>
  BY DEF DatabaseWrite, RowPut
<1>2. start.pc # "load"  BY <1>1 DEF SyncInv, Writes
<1>3. SyncTypes /\ Leads(stored, unwritten, BoundTable(controllers))
  BY <1>2, InvHas DEF SyncInv
<1>4. unwritten' \in Seq(Rows) /\ Leads(stored', unwritten', BoundTable(controllers))
  BY <1>1, <1>3, LeadsTail DEF SyncTypes
<1>5. stored' \in [Ids -> Whos]  BY <1>4, LeadsEnds
<1>6. SyncTypes'  BY <1>1, <1>3, <1>4, <1>5 DEF SyncTypes
<1>7. Writes'  BY <1>1, <1>2, <1>4 DEF Writes
<1>8. Right' /\ OneHolder(older)' /\ Proper(controllers)'
  BY <1>1 DEF SyncInv, Right, OneHolder, Proper, Somebody
<1>. QED  BY <1>6, <1>7, <1>8 DEF SyncInv

\* The program ends, and starts with the database there is or an older one.
LEMMA EndKeeps == ASSUME SyncAssumption, SyncInv, End PROVE SyncInv'
<1>1. /\ controllers' = [c \in Ids |-> None] /\ unwritten' = <<>>
      /\ start' = [pc |-> "load", at |-> 1, list |-> {}, synced |-> FALSE, clash |-> FALSE]
      /\ stored' = stored \/ stored' = older
      /\ UNCHANGED <<older, table, versions, proven>>
  BY DEF End
<1>2. SyncTypes /\ OneHolder(older)  BY DEF SyncInv
<1>3. OneHolder(stored)
  <2>1. CASE start.pc = "load"  BY <2>1 DEF SyncInv, Writes
  <2>2. CASE start.pc # "load"  BY <2>2, <1>2, InvHas, LeadsEnds DEF SyncTypes
  <2>. QED  BY <2>1, <2>2
<1>4. start' \in Starts /\ start'.pc = "load" /\ ~start'.clash /\ ~start'.synced
  BY <1>1 DEF Starts, Lists
<1>5. controllers' \in Places /\ Proper(controllers')
  BY <1>1 DEF Places, Proper, Somebody, None, Whos
<1>6. stored' \in [Ids -> Whos] /\ OneHolder(stored')  BY <1>1, <1>2, <1>3 DEF SyncTypes
<1>7. unwritten' \in Seq(Rows)  BY <1>1
<1>8. SyncTypes'  BY <1>1, <1>2, <1>4, <1>5, <1>6, <1>7 DEF SyncTypes, Places
<1>9. Writes'  BY <1>1, <1>4, <1>6 DEF Writes
<1>10. Right'  BY <1>4 DEF Right
<1>11. OneHolder(older)'  BY <1>1, <1>2 DEF OneHolder
<1>. QED  BY <1>5, <1>8, <1>9, <1>10, <1>11 DEF SyncInv

\* It holds in the first states.
LEMMA SyncStart == ASSUME SyncAssumption, SyncInit PROVE SyncInv
<1>1. controllers \in Places /\ Proper(controllers)
  BY DEF SyncInit, Places, Proper, Somebody, None, Whos
<1>2. start \in Starts /\ start.pc = "load" /\ ~start.clash /\ ~start.synced
  BY DEF SyncInit, Starts, Lists
<1>3. /\ stored \in [Ids -> Whos] /\ older = stored /\ OneHolder(stored)
      /\ unwritten = <<>> /\ unwritten \in Seq(Rows)
  BY DEF SyncInit, Empty, OneHolder, Whos
<1>4. SyncTypes  BY <1>1, <1>2, <1>3 DEF SyncInit, SyncTypes, Places
<1>5. Right /\ Writes  BY <1>2, <1>3 DEF Right, Writes
<1>. QED  BY <1>1, <1>3, <1>4, <1>5 DEF SyncInv

\* The invariant gives what is claimed of the tables.
LEMMA SyncIsSound == ASSUME SyncAssumption, SyncInv PROVE SyncSound
<1>1. \A a \in Addresses : KnownAs(a) = {} \/ \E c \in Ids : KnownAs(a) = {c}
  BY DEF SyncInv, Proper, Somebody, KnownAs, SyncAssumption
<1>2. OneEach
  <2>. SUFFICES ASSUME NEW a \in Addresses PROVE Cardinality(KnownAs(a)) <= 1  BY DEF OneEach
  <2>1. CASE KnownAs(a) = {}  BY <2>1, FS_EmptySet
  <2>2. CASE \E c \in Ids : KnownAs(a) = {c}
    <3>1. PICK c \in Ids : KnownAs(a) = {c}  BY <2>2
    <3>. QED  BY <3>1, FS_Singleton
  <2>. QED  BY <2>1, <2>2, <1>1
<1>3. ASSUME start.pc = "runs", start.synced, ~start.clash
      PROVE  RunsRight(controllers, table, proven)
  BY <1>3 DEF SyncInv, Right
<1>4. TablesAgree
  <2>. SUFFICES ASSUME RunsRight(controllers, table, proven), NEW a \in Addresses
                PROVE  KnownAs(a) = IF table[a] = 0 THEN {} ELSE {table[a]}
    BY <1>3 DEF TablesAgree
  <2>1. \A c \in KnownAs(a) : table[a] = c
    BY DEF KnownAs, RunsRight, InHal, Somebody, SyncAssumption
  <2>2. table[a] # 0 => KnownAs(a) # {}  BY DEF KnownAs, RunsRight
  <2>3. 0 \notin Ids  BY IdsAre
  <2>4. KnownAs(a) \subseteq Ids  BY DEF KnownAs
  <2>. QED  BY <2>1, <2>2, <2>3, <2>4
<1>5. ProvenAreBound
  <2>. SUFFICES ASSUME RunsRight(controllers, table, proven), NEW a \in proven, table[a] # 0
                PROVE  \E c \in KnownAs(a) : controllers[c].bound
    BY <1>3 DEF ProvenAreBound
  <2>1. a \in Addresses  BY DEF SyncInv, SyncTypes
  <2>. QED  BY <2>1 DEF RunsRight, KnownAs
<1>. QED  BY <1>2, <1>4, <1>5 DEF SyncSound

\* Every step keeps it.
LEMMA SyncStep == ASSUME SyncAssumption, SyncInv, [SyncNext]_syncVars PROVE SyncInv'
<1>1. CASE SyncNext
  <2>1. CASE ControllersLoad  BY <2>1, LoadKeeps
  <2>2. CASE ControllerList  BY <2>2, ListKeeps
  <2>3. CASE Reconcile  BY <2>3, ReconcileKeeps
  <2>4. CASE SecondPass  BY <2>4, SecondPassKeeps
  <2>5. CASE Import  BY <2>5, ImportKeeps
  <2>6. CASE HalInitComplete  BY <2>6, InitCompleteKeeps
  <2>7. CASE \E a \in Addresses : SyncPaired(a)  BY <2>7, SyncPairedKeeps
  <2>8. CASE \E c \in Ids : RibExport(c)  BY <2>8, ExportKeeps
  <2>9. CASE \E c \in Ids : SyncValidated(c)  BY <2>9, SyncValidatedKeeps
  <2>10. CASE \E c \in Ids : Unbind(c)  BY <2>10, SyncUnbindKeeps
  <2>11. CASE FactoryReset  BY <2>11, ResetKeeps
  <2>12. CASE DatabaseWrite  BY <2>12, SyncDatabaseKeeps
  <2>13. CASE End  BY <2>13, EndKeeps
  <2>. QED
    BY <1>1, <2>1, <2>2, <2>3, <2>4, <2>5, <2>6, <2>7, <2>8, <2>9, <2>10, <2>11, <2>12, <2>13
    DEF SyncNext
<1>2. CASE UNCHANGED syncVars
  BY <1>2 DEF syncVars, SyncInv, SyncTypes, Proper, Somebody, Right, Writes, OneHolder
<1>. QED  BY <1>1, <1>2

\* The controllers, the database and the pairing table of the HAL agree after each start,
\* whatever was lost between two steps and however old the database (hal_init_complete): no
\* remote is a controller twice, the controllers are those that are paired, under their own
\* identifiers, and a remote that was validated is bound.
THEOREM TablesAreMended == ASSUME SyncAssumption PROVE SyncSpec => []SyncSound
<1>1. SyncInit => SyncInv  BY SyncStart
<1>2. SyncInv /\ [SyncNext]_syncVars => SyncInv'  BY SyncStep
<1>3. SyncInv => SyncSound  BY SyncIsSound
<1>. QED  BY <1>1, <1>2, <1>3, PTL DEF SyncSpec

-----------------------------------------------------------------------------
(***************************************************************************)
(* A remote downloads the codes that its devices were given last, for any  *)
(* keys and codes, in every order of writes and downloads.                 *)
(***************************************************************************)

\* The state's types.
Codes == [device : Devices \cup {"none"}, key : IrKeys \cup {"none"}, set : Nat, flags : Nat]
IrTypes ==
    /\ slots \in [Slots -> Codes] /\ irTable \in [Slots -> Codes]
    /\ current \in [Devices -> Nat]
    /\ resets \in Nat /\ codes \in Nat /\ writes \in Nat /\ boots \in Nat

\* The slots of a device have its current codes, and so have those that the devices share
\* by favour; the input slot is the TV's.
OwnCurrent(db, cur) ==
    /\ \A d \in Devices, k \in Power :
           Has(db, Own(d, k)) => db[Own(d, k)].device = d /\ db[Own(d, k)].set = cur[d]
    /\ Has(db, Common("volume")) =>
           /\ db[Common("volume")].device \in Devices
           /\ db[Common("volume")].set = cur[db[Common("volume")].device]
    /\ Has(db, Common("input")) =>
           db[Common("input")].device = "tv" /\ db[Common("input")].set = cur["tv"]

\* The shared power slots have the codes of a device that has some, if there is one.
CommonCurrent(db, cur) ==
    /\ \A k \in Power : Has(db, Common(k)) =>
           db[Common(k)].device \in Devices /\ db[Common(k)].set = cur[db[Common(k)].device]
    /\ \A k \in {"on", "off"} :
           Has(db, Common(k)) <=>
               \E d \in Devices : Has(db, Own(d, k)) \/ Has(db, Own(d, "toggle"))

IrInv ==
    /\ IrTypes
    /\ writes = 0 /\ boots = 0 => OwnCurrent(slots, current) /\ CommonCurrent(slots, current)
    /\ EndsDownload

\* A set of codes has codes for the keys there are.
IrAssumption == KeySets \subseteq SUBSET IrKeys

-----------------------------------------------------------------------------
(* The slots.                                                              *)

\* A slot is a power slot of a device, or one that the devices share.
LEMMA SlotIsOne ==
    /\ \A d \in Devices, k \in Power : Own(d, k) \in Slots
    /\ \A k \in IrKeys : Common(k) \in Slots
    /\ \A s \in Slots : (\E d \in Devices, k \in Power : s = Own(d, k)) \/ \E k \in IrKeys : s = Common(k)
    /\ \A d \in Devices, k \in Power, e \in Devices, l \in Power :
           Own(d, k) = Own(e, l) => d = e /\ k = l
    /\ \A d \in Devices, k \in Power, l \in IrKeys : Own(d, k) # Common(l)
    /\ \A k, l \in IrKeys : Common(k) = Common(l) => k = l
    /\ Power \subseteq IrKeys /\ "volume" \in IrKeys \ Power /\ "input" \in IrKeys \ Power
BY DEF Slots, Own, Common, Devices, Power, IrKeys

\* An entry is no empty slot.
LEMMA EntryIsCode ==
    ASSUME NEW device \in Devices, NEW key \in IrKeys, NEW set \in Nat
    PROVE  /\ Entry(device, key, set) \in Codes /\ Entry(device, key, set) # NoCodes
           /\ Entry(device, key, set).device = device /\ Entry(device, key, set).set = set
           /\ NoCodes \in Codes
BY DEF Entry, Codes, NoCodes, Devices

\* The codes of a device are taken out: what stays is the other's.
LEMMA EmptiedIsRight ==
    ASSUME NEW db \in [Slots -> Codes], NEW device \in Devices, NEW cur \in [Devices -> Nat],
           NEW n \in Nat
    PROVE  /\ Emptied(db, device) \in [Slots -> Codes]
           /\ OwnCurrent(db, cur) => OwnCurrent(Emptied(db, device), [cur EXCEPT ![device] = n])
<1>. DEFINE new == Emptied(db, device)
            then == [cur EXCEPT ![device] = n]
<1>1. /\ new \in [Slots -> Codes]
      /\ \A s \in Slots : new[s] = IF \/ s[1] = device
                                      \/ s = Common("volume") /\ db[s].device = device
                                      \/ s = Common("input") /\ device = "tv"
                                   THEN NoCodes ELSE db[s]
  BY EntryIsCode DEF Emptied, Codes, NoCodes
<1>2. \A d \in Devices, k \in Power : new[Own(d, k)] = IF d = device THEN NoCodes ELSE db[Own(d, k)]
  <2>1. \A d \in Devices, k \in Power : Own(d, k)[1] = d
    BY DEF Own
  <2>. QED  BY <1>1, <2>1, SlotIsOne
<1>3. \A k \in IrKeys : Common(k)[1] # device
  BY DEF Common, Devices
<1>4. /\ new[Common("volume")] = IF db[Common("volume")].device = device THEN NoCodes
                                 ELSE db[Common("volume")]
      /\ new[Common("input")] = IF device = "tv" THEN NoCodes ELSE db[Common("input")]
  BY <1>1, <1>3, SlotIsOne
<1>5. then[device] = n /\ \A d \in Devices : d # device => then[d] = cur[d]
  OBVIOUS
<1>. HIDE DEF new, then
<1>6. ASSUME OwnCurrent(db, cur) PROVE OwnCurrent(new, then)
  <2>1. \A d \in Devices, k \in Power : Has(new, Own(d, k)) =>
            new[Own(d, k)].device = d /\ new[Own(d, k)].set = then[d]
    BY <1>2, <1>5, <1>6 DEF OwnCurrent, Has
  <2>2. Has(new, Common("volume")) =>
           /\ new[Common("volume")].device \in Devices
           /\ new[Common("volume")].set = then[new[Common("volume")].device]
    BY <1>4, <1>5, <1>6 DEF OwnCurrent, Has
  <2>3. Has(new, Common("input")) =>
           new[Common("input")].device = "tv" /\ new[Common("input")].set = then["tv"]
    <3>1. "tv" \in Devices
      BY DEF Devices
    <3>. QED  BY <1>4, <1>5, <1>6, <3>1 DEF OwnCurrent, Has
  <2>. QED  BY <2>1, <2>2, <2>3 DEF OwnCurrent
<1>. QED  BY <1>1, <1>6 DEF new, then

\* New codes are put into the slots of their device and its shared ones.
LEMMA PutIsRight ==
    ASSUME NEW db \in [Slots -> Codes], NEW device \in Devices, NEW keys \in SUBSET IrKeys,
           NEW set \in Nat, NEW cur \in [Devices -> Nat], cur[device] = set
    PROVE  /\ Put(db, device, keys, set) \in [Slots -> Codes]
           /\ OwnCurrent(db, cur) => OwnCurrent(Put(db, device, keys, set), cur)
<1>. DEFINE new == Put(db, device, keys, set)
            Taken(s) == \E k \in keys : s = SlotOf(device, k) /\ Takes(db, device, k)
            e(s) == Entry(device, CHOOSE k \in keys : s = SlotOf(device, k), set)
<1>1. \A s \in Slots : Taken(s) =>
          e(s) \in Codes /\ e(s) # NoCodes /\ e(s).device = device /\ e(s).set = set
  <2>1. \A s : Taken(s) => (CHOOSE k \in keys : s = SlotOf(device, k)) \in keys
    OBVIOUS
  <2>2. \A k \in keys : k \in IrKeys
    OBVIOUS
  <2>. QED  BY <2>1, <2>2, EntryIsCode
<1>2. \A s \in Slots : new[s] = IF Taken(s) THEN e(s) ELSE db[s]
  BY DEF Put
<1>3. new \in [Slots -> Codes]
  <2>1. \A s \in Slots : (IF Taken(s) THEN e(s) ELSE db[s]) \in Codes
    BY <1>1
  <2>2. new = [s \in Slots |-> IF Taken(s) THEN e(s) ELSE db[s]]
    BY DEF Put
  <2>. HIDE DEF Taken, e, new
  <2>. QED  BY <2>1, <2>2
<1>4. \A d \in Devices, k \in Power : Taken(Own(d, k)) => d = device
  BY SlotIsOne DEF SlotOf
<1>5. Taken(Common("input")) => device = "tv"
  <2>1. \A k \in keys : Common("input") = SlotOf(device, k) => k = "input"
    BY SlotIsOne DEF SlotOf
  <2>. QED  BY <2>1 DEF Takes, Devices
<1>. HIDE DEF Taken, e, new
<1>6. ASSUME OwnCurrent(db, cur) PROVE OwnCurrent(new, cur)
  <2>1. \A d \in Devices, k \in Power : Has(new, Own(d, k)) =>
            new[Own(d, k)].device = d /\ new[Own(d, k)].set = cur[d]
    BY <1>1, <1>2, <1>6, <1>4, SlotIsOne DEF OwnCurrent, Has
  <2>2. Has(new, Common("volume")) =>
           /\ new[Common("volume")].device \in Devices
           /\ new[Common("volume")].set = cur[new[Common("volume")].device]
    BY <1>1, <1>2, <1>6, SlotIsOne DEF OwnCurrent, Has
  <2>3. Has(new, Common("input")) =>
           new[Common("input")].device = "tv" /\ new[Common("input")].set = cur["tv"]
    BY <1>1, <1>2, <1>6, <1>5, SlotIsOne DEF OwnCurrent, Has
  <2>. QED  BY <2>1, <2>2, <2>3 DEF OwnCurrent
<1>. QED  BY <1>3, <1>6 DEF new

\* A shared power slot takes the codes of a slot of its order, if one has some.
LEMMA FirstIsThere ==
    ASSUME NEW db \in [Slots -> Codes], NEW k \in Power
    PROVE  /\ \/ FirstThere(db, PowerOrder(k)) = NoCodes
              \/ \E d \in Devices, l \in {k, "toggle"} :
                    Has(db, Own(d, l)) /\ FirstThere(db, PowerOrder(k)) = db[Own(d, l)]
           /\ (FirstThere(db, PowerOrder(k)) = NoCodes) <=>
                 \A d \in Devices : ~Has(db, Own(d, k)) /\ ~Has(db, Own(d, "toggle"))
<1>. DEFINE order == PowerOrder(k)
            S == {i \in DOMAIN order : Has(db, order[i])}
<1>1. \A i \in DOMAIN order : \E d \in Devices, l \in {k, "toggle"} : order[i] = Own(d, l)
  <2>1. CASE k = "toggle"
    BY <2>1 DEF PowerOrder, Devices
  <2>2. CASE k # "toggle"
    BY <2>2 DEF PowerOrder, Devices
  <2>. QED  BY <2>1, <2>2
<1>2. \A d \in Devices, l \in {k, "toggle"} : \E i \in DOMAIN order : order[i] = Own(d, l)
  <2>1. CASE k = "toggle"
    <3>1. /\ order = <<Own("tv", "toggle"), Own("avr", "toggle")>> /\ DOMAIN order = 1..2
          /\ 1 \in 1..2 /\ 2 \in 1..2
      BY <2>1 DEF PowerOrder
    <3>2. order[1] = Own("tv", "toggle") /\ order[2] = Own("avr", "toggle")
      BY <3>1
    <3>. HIDE DEF order
    <3>. QED  BY <2>1, <3>1, <3>2 DEF Devices
  <2>2. CASE k # "toggle"
    <3>1. /\ order = <<Own("avr", k), Own("avr", "toggle"), Own("tv", k), Own("tv", "toggle")>>
          /\ DOMAIN order = 1..4 /\ 1 \in 1..4 /\ 2 \in 1..4 /\ 3 \in 1..4 /\ 4 \in 1..4
      BY <2>2 DEF PowerOrder
    <3>2. /\ order[1] = Own("avr", k) /\ order[2] = Own("avr", "toggle")
          /\ order[3] = Own("tv", k) /\ order[4] = Own("tv", "toggle")
      BY <3>1
    <3>. HIDE DEF order
    <3>. QED  BY <3>1, <3>2 DEF Devices
  <2>. QED  BY <2>1, <2>2
<1>3. S # {} => \E i \in S : \A j \in S : i <= j
  <2>1. DOMAIN order \subseteq 1..4
    BY DEF PowerOrder
  <2>2. S \subseteq 1..4
    BY <2>1
  <2>. HIDE DEF S
  <2>3. ASSUME S # {} PROVE \E i \in S : \A j \in S : i <= j
    <3>1. \A i \in S : i = 1 \/ i = 2 \/ i = 3 \/ i = 4
      BY <2>2
    <3>2. CASE 1 \in S
      BY <3>1, <3>2
    <3>3. CASE 1 \notin S /\ 2 \in S
      BY <3>1, <3>3
    <3>4. CASE 1 \notin S /\ 2 \notin S /\ 3 \in S
      BY <3>1, <3>4
    <3>5. CASE 1 \notin S /\ 2 \notin S /\ 3 \notin S /\ 4 \in S
      BY <3>1, <3>5
    <3>. QED  BY <2>3, <3>1, <3>2, <3>3, <3>4, <3>5
  <2>. QED  BY <2>3
<1>4. FirstThere(db, order) =
          IF S = {} THEN NoCodes ELSE db[order[CHOOSE i \in S : \A j \in S : i <= j]]
  BY DEF FirstThere
<1>5. S # {} => (CHOOSE i \in S : \A j \in S : i <= j) \in S
  BY <1>3
<1>6. S # {} => \E i \in S : FirstThere(db, order) = db[order[i]]
  BY <1>4, <1>5
<1>7. \A i \in S : i \in DOMAIN order /\ Has(db, order[i])
  OBVIOUS
<1>8. (S = {}) <=> \A d \in Devices, l \in {k, "toggle"} : ~Has(db, Own(d, l))
  BY <1>1, <1>2
<1>9. S = {} => FirstThere(db, order) = NoCodes
  BY <1>4
<1>. HIDE DEF S, order
<1>10. S # {} => \E d \in Devices, l \in {k, "toggle"} :
                    Has(db, Own(d, l)) /\ FirstThere(db, order) = db[Own(d, l)]
  BY <1>1, <1>6, <1>7
<1>11. S # {} => FirstThere(db, order) # NoCodes
  BY <1>10 DEF Has
<1>. QED  BY <1>8, <1>9, <1>10, <1>11 DEF order

\* The shared power slots are given to one of the devices.
LEMMA FixedIsRight ==
    ASSUME NEW db \in [Slots -> Codes], NEW cur \in [Devices -> Nat]
    PROVE  /\ FixCommon(db) \in [Slots -> Codes]
           /\ OwnCurrent(db, cur) =>
                 OwnCurrent(FixCommon(db), cur) /\ CommonCurrent(FixCommon(db), cur)
<1>. DEFINE new == FixCommon(db)
            First(k) == FirstThere(db, PowerOrder(k))
            Of(k) == IF First(k) = NoCodes \/ k = "toggle" THEN First(k)
                     ELSE [First(k) EXCEPT !.flags = IF OneToggle(db) THEN 79 ELSE 0]
<1>1. \A k \in Power : First(k) \in Codes
  <2>1. \A k \in Power, l \in Power, d \in Devices : db[Own(d, l)] \in Codes
    BY SlotIsOne
  <2>2. "toggle" \in Power /\ NoCodes \in Codes
    BY DEF Power, Codes, NoCodes
  <2>3. ASSUME NEW k \in Power PROVE First(k) \in Codes
    <3>1. \/ First(k) = NoCodes
          \/ \E d \in Devices, l \in {k, "toggle"} : First(k) = db[Own(d, l)]
      BY FirstIsThere
    <3>. HIDE DEF First
    <3>. QED  BY <2>1, <2>2, <3>1
  <2>. QED  BY <2>3
<1>2. \A k \in Power :
          /\ Of(k) \in Codes /\ (First(k) = NoCodes => Of(k) = NoCodes)
          /\ First(k).device \in Devices => Of(k) # NoCodes
          /\ Of(k).device = First(k).device /\ Of(k).set = First(k).set
  <2>1. ASSUME NEW k \in Power, First(k) # NoCodes, k # "toggle"
        PROVE  /\ Of(k) \in Codes /\ (First(k).device \in Devices => Of(k) # NoCodes)
               /\ Of(k).device = First(k).device /\ Of(k).set = First(k).set
    <3>1. PICK c \in Codes : c = First(k)
      BY <1>1
    <3>2. PICK f \in Nat : f = IF OneToggle(db) THEN 79 ELSE 0
      OBVIOUS
    <3>3. Of(k) = [c EXCEPT !.flags = f]
      BY <2>1, <3>1, <3>2
    <3>. HIDE DEF Of, First
    <3>. QED  BY <3>1, <3>3 DEF Codes, NoCodes, Devices
  <2>2. ASSUME NEW k \in Power, First(k) = NoCodes \/ k = "toggle" PROVE Of(k) = First(k)
    BY <2>2
  <2>3. NoCodes.device \notin Devices
    BY DEF NoCodes, Devices
  <2>. HIDE DEF Of, First
  <2>. QED  BY <1>1, <2>1, <2>2, <2>3
<1>3. /\ \A d \in Devices, k \in Power : new[Own(d, k)] = db[Own(d, k)]
      /\ \A k \in Power : new[Common(k)] = Of(k)
      /\ new[Common("volume")] = db[Common("volume")]
      /\ new[Common("input")] = db[Common("input")]
  <2>1. \A d \in Devices, k \in Power : Own(d, k)[1] # "any"
    BY DEF Own, Devices
  <2>2. \A k \in IrKeys : Common(k)[1] = "any" /\ Common(k)[2] = k
    BY DEF Common
  <2>3. \A s \in Slots : new[s] = IF s[1] # "any" \/ s[2] \notin Power THEN db[s] ELSE Of(s[2])
    BY DEF FixCommon
  <2>. HIDE DEF new, Of, First
  <2>. QED  BY <2>1, <2>2, <2>3, SlotIsOne
<1>4. new \in [Slots -> Codes]
  <2>1. new = [s \in Slots |-> IF s[1] # "any" \/ s[2] \notin Power THEN db[s] ELSE Of(s[2])]
    BY DEF FixCommon
  <2>2. \A s \in Slots : (IF s[1] # "any" \/ s[2] \notin Power THEN db[s] ELSE Of(s[2])) \in Codes
    BY <1>2
  <2>. HIDE DEF new, Of
  <2>. QED  BY <2>1, <2>2
<1>. HIDE DEF new, Of
<1>5. OwnCurrent(db, cur) => OwnCurrent(new, cur)
  BY <1>3 DEF OwnCurrent, Has
<1>6. ASSUME OwnCurrent(db, cur) PROVE CommonCurrent(new, cur)
  <2>1. "toggle" \in Power /\ \A k \in {"on", "off"} : k \in Power
    BY DEF Power
  <2>2. ASSUME NEW k \in Power, Has(new, Common(k))
        PROVE  new[Common(k)].device \in Devices /\ new[Common(k)].set = cur[new[Common(k)].device]
    <3>1. First(k) # NoCodes /\ new[Common(k)].device = First(k).device
          /\ new[Common(k)].set = First(k).set
      BY <1>2, <1>3, <2>2 DEF Has
    <3>2. PICK d \in Devices, l \in {k, "toggle"} : Has(db, Own(d, l)) /\ First(k) = db[Own(d, l)]
      BY <3>1, FirstIsThere
    <3>3. l \in Power
      BY <2>1
    <3>4. First(k).device = d /\ First(k).set = cur[d]
      BY <1>6, <3>2, <3>3 DEF OwnCurrent
    <3>. HIDE DEF First
    <3>. QED  BY <3>1, <3>4
  <2>3. ASSUME NEW k \in {"on", "off"}
        PROVE  Has(new, Common(k)) <=>
                   \E d \in Devices : Has(new, Own(d, k)) \/ Has(new, Own(d, "toggle"))
    <3>1. Has(new, Common(k)) <=> First(k) # NoCodes
      <4>1. First(k) # NoCodes => First(k).device \in Devices
        <5>1. First(k) # NoCodes => \E d \in Devices, l \in {k, "toggle"} :
                                       Has(db, Own(d, l)) /\ First(k) = db[Own(d, l)]
          BY <2>1, FirstIsThere
        <5>2. \A d \in Devices, l \in {k, "toggle"} : Has(db, Own(d, l)) => db[Own(d, l)].device = d
          BY <1>6, <2>1 DEF OwnCurrent
        <5>. HIDE DEF First
        <5>. QED  BY <5>1, <5>2
      <4>2. k \in Power
        BY <2>1
      <4>. HIDE DEF First
      <4>. QED  BY <1>2, <1>3, <4>1, <4>2 DEF Has
    <3>2. (First(k) = NoCodes) <=>
              \A d \in Devices : ~Has(db, Own(d, k)) /\ ~Has(db, Own(d, "toggle"))
      BY <2>1, FirstIsThere
    <3>3. \A d \in Devices : (Has(new, Own(d, k)) <=> Has(db, Own(d, k)))
                             /\ (Has(new, Own(d, "toggle")) <=> Has(db, Own(d, "toggle")))
      BY <1>3, <2>1 DEF Has
    <3>. HIDE DEF First
    <3>. QED  BY <3>1, <3>2, <3>3
  <2>. QED  BY <2>2, <2>3 DEF CommonCurrent
<1>. QED  BY <1>4, <1>5, <1>6 DEF new

\* Without a code every slot is right.
LEMMA EmptyIsRight ==
    ASSUME NEW cur
    PROVE  NoSlots \in [Slots -> Codes] /\ OwnCurrent(NoSlots, cur) /\ CommonCurrent(NoSlots, cur)
<1>1. NoSlots \in [Slots -> Codes] /\ \A s \in Slots : ~Has(NoSlots, s)
  BY DEF NoSlots, Has, Codes, NoCodes
<1>2. /\ \A d \in Devices, k \in Power : ~Has(NoSlots, Own(d, k))
      /\ \A k \in IrKeys : ~Has(NoSlots, Common(k))
  BY <1>1, SlotIsOne
<1>3. Power \subseteq IrKeys /\ "volume" \in IrKeys /\ "input" \in IrKeys /\ "toggle" \in Power
      /\ \A k \in {"on", "off"} : k \in Power
  BY DEF Power, IrKeys
<1>. QED  BY <1>1, <1>2, <1>3 DEF OwnCurrent, CommonCurrent

-----------------------------------------------------------------------------
(* The steps.                                                              *)

\* What the table of the database has are codes.
LEMMA StoredIsTyped ==
    ASSUME NEW t \in [Slots -> Codes], NEW db \in [Slots -> Codes]
    PROVE  Stored(t, db) \in [Slots -> Codes]
BY DEF Stored

\* The clients set and clear codes.
LEMMA ClientsKeep ==
    ASSUME IrAssumption, IrInv,
           \/ \E device \in Devices, keys \in KeySets : SetCode(device, keys)
           \/ \E device \in Devices : SetNothing(device)
           \/ ClearCodes
    PROVE  IrInv'
<1>1. UNCHANGED <<resets, writes, boots>> /\ codes' = codes + 1 /\ (asked' => asked)
  <2>1. ASSUME NEW device \in Devices, NEW keys \in KeySets, SetCode(device, keys)
        PROVE  UNCHANGED <<resets, writes, boots>> /\ codes' = codes + 1 /\ (asked' => asked)
    BY <2>1, Zenon DEF SetCode, Told
  <2>2. ASSUME NEW device \in Devices, SetNothing(device)
        PROVE  UNCHANGED <<resets, writes, boots>> /\ codes' = codes + 1 /\ (asked' => asked)
    BY <2>2, Zenon DEF SetNothing
  <2>3. CASE ClearCodes
    BY <2>3, Zenon DEF ClearCodes, Told
  <2>. QED  BY <2>1, <2>2, <2>3, Zenon
<1>2. EndsDownload'
  BY <1>1 DEF IrInv, EndsDownload
<1>3. /\ slots \in [Slots -> Codes] /\ irTable \in [Slots -> Codes]
      /\ current \in [Devices -> Nat] /\ codes + 1 \in Nat /\ 0 \in Nat
  BY DEF IrInv, IrTypes
<1>. DEFINE Kept == /\ slots' \in [Slots -> Codes] /\ irTable' \in [Slots -> Codes]
                    /\ current' \in [Devices -> Nat]
                    /\ OwnCurrent(slots, current) =>
                           OwnCurrent(slots', current') /\ CommonCurrent(slots', current')
<1>4. ASSUME NEW device \in Devices, NEW keys \in KeySets, SetCode(device, keys)
      PROVE  Kept
  <2>. DEFINE n == codes + 1
              cur == [current EXCEPT ![device] = n]
              gone == Emptied(slots, device)
              put == Put(gone, device, keys, n)
              new == FixCommon(put)
  <2>1. slots' = new /\ irTable' = Stored(irTable, new) /\ current' = cur
    BY <1>4 DEF SetCode
  <2>2. n \in Nat /\ keys \in SUBSET IrKeys /\ cur \in [Devices -> Nat] /\ cur[device] = n
    BY <1>3 DEF IrAssumption
  <2>. HIDE DEF n, cur
  <2>3. gone \in [Slots -> Codes] /\ (OwnCurrent(slots, current) => OwnCurrent(gone, cur))
    BY <1>3, <2>2, EmptiedIsRight DEF cur
  <2>. HIDE DEF gone
  <2>4. put \in [Slots -> Codes] /\ (OwnCurrent(gone, cur) => OwnCurrent(put, cur))
    BY <2>2, <2>3, PutIsRight
  <2>. HIDE DEF put
  <2>5. /\ new \in [Slots -> Codes]
        /\ OwnCurrent(put, cur) => OwnCurrent(new, cur) /\ CommonCurrent(new, cur)
    BY <2>2, <2>4, FixedIsRight
  <2>. HIDE DEF new
  <2>. QED  BY <1>3, <2>1, <2>2, <2>3, <2>4, <2>5, StoredIsTyped
<1>5. ASSUME NEW device \in Devices, SetNothing(device)
      PROVE  Kept
  <2>. DEFINE cur == [current EXCEPT ![device] = 0]
              gone == Emptied(slots, device)
              new == FixCommon(gone)
  <2>1. slots' = new /\ irTable' = irTable /\ current' = cur
    BY <1>5 DEF SetNothing
  <2>2. cur \in [Devices -> Nat]
    BY <1>3
  <2>3. gone \in [Slots -> Codes] /\ (OwnCurrent(slots, current) => OwnCurrent(gone, cur))
    BY <1>3, EmptiedIsRight
  <2>. HIDE DEF gone, cur
  <2>4. /\ new \in [Slots -> Codes]
        /\ OwnCurrent(gone, cur) => OwnCurrent(new, cur) /\ CommonCurrent(new, cur)
    BY <2>2, <2>3, FixedIsRight
  <2>. HIDE DEF new
  <2>. QED  BY <1>3, <2>1, <2>2, <2>3, <2>4
<1>6. ASSUME ClearCodes
      PROVE  Kept
  <2>1. slots' = NoSlots /\ irTable' = Stored(irTable, NoSlots) /\ current' = [d \in Devices |-> 0]
    BY <1>6 DEF ClearCodes
  <2>2. [d \in Devices |-> 0] \in [Devices -> Nat]
    OBVIOUS
  <2>. QED  BY <1>3, <2>1, <2>2, EmptyIsRight, StoredIsTyped
<1>. HIDE DEF Kept
<1>7. Kept
  BY <1>4, <1>5, <1>6, Zenon
<1>. QED  BY <1>1, <1>2, <1>3, <1>7 DEF IrInv, IrTypes, Kept

\* A slot is written by its number.
LEMMA IrWritesKeep ==
    ASSUME IrInv,
           \E s \in WrittenSlots : WriteDefault(s) \/ \E device \in Devices : WriteSlot(s, device, "on")
    PROVE  IrInv'
<1>1. PICK s \in WrittenSlots : WriteDefault(s) \/ \E device \in Devices : WriteSlot(s, device, "on")
  OBVIOUS
<1>2. /\ writes' = writes + 1 /\ UNCHANGED <<current, resets, codes, boots>>
      /\ asked' => asked
  BY <1>1, Zenon DEF WriteSlot, WriteDefault
<1>3. EndsDownload' /\ writes' # 0 /\ writes' \in Nat
  BY <1>2 DEF IrInv, IrTypes, EndsDownload
<1>4. /\ slots \in [Slots -> Codes] /\ irTable \in [Slots -> Codes]
  BY DEF IrInv, IrTypes
<1>5. NoCodes \in Codes /\ \A device \in Devices : Entry(device, "on", 0) \in Codes
  <2>1. "on" \in IrKeys /\ 0 \in Nat
    BY DEF IrKeys
  <2>. QED  BY <2>1, EntryIsCode DEF NoCodes, Codes
<1>6. slots' \in [Slots -> Codes]
  <2>1. slots' = slots \/ \E new \in Codes : slots' = [slots EXCEPT ![s] = new]
    BY <1>1, <1>5, Zenon DEF WriteSlot, WriteDefault
  <2>. QED  BY <1>4, <2>1
<1>7. irTable' \in [Slots -> Codes]
  <2>1. irTable' = irTable \/ irTable' = [irTable EXCEPT ![s] = slots'[s]]
    BY <1>1, Zenon DEF WriteSlot, WriteDefault
  <2>. QED  BY <1>4, <1>6, <2>1
<1>. QED  BY <1>2, <1>3, <1>6, <1>7 DEF IrInv, IrTypes

\* The remote asks, the timer runs out, the program starts.
LEMMA DownloadKeeps ==
    ASSUME IrInv, Asks \/ DownloadReset \/ Boot
    PROVE  IrInv'
<1>1. CASE Asks \/ DownloadReset
  BY <1>1 DEF Asks, DownloadReset, IrInv, IrTypes, EndsDownload
<1>2. CASE Boot
  BY <1>2 DEF Boot, IrInv, IrTypes, EndsDownload
<1>. QED  BY <1>1, <1>2

\* IrSound: what a remote can download is what its devices were given last, its power keys have a
\* code when either device has one, and it is told to download for a limited time.
THEOREM CodesAreCurrent ==
    ASSUME IrAssumption
    PROVE  IrSpec => []IrSound
<1>1. IrInit => IrInv
  BY EmptyIsRight DEF IrInit, IrInv, IrTypes, EndsDownload
<1>2. IrInv /\ [IrNext]_irVars => IrInv'
  <2>1. IrInv /\ UNCHANGED irVars => IrInv'
    BY DEF irVars, IrInv, IrTypes, EndsDownload
  <2>. QED  BY <2>1, ClientsKeep, IrWritesKeep, DownloadKeeps DEF IrNext
<1>3. IrInv => IrSound
  <2>. SUFFICES ASSUME IrInv PROVE IrSound
    OBVIOUS
  <2>1. OnlyCurrent
    <3>1. ASSUME writes = 0, boots = 0, NEW s \in Slots, Has(slots, s)
          PROVE  slots[s].set = current[slots[s].device]
      <4>1. OwnCurrent(slots, current) /\ CommonCurrent(slots, current)
        BY <3>1 DEF IrInv
      <4>2. CASE \E d \in Devices, k \in Power : s = Own(d, k)
        BY <3>1, <4>1, <4>2 DEF OwnCurrent
      <4>3. CASE \E k \in Power : s = Common(k)
        BY <3>1, <4>1, <4>3 DEF CommonCurrent
      <4>4. CASE s = Common("volume") \/ s = Common("input")
        BY <3>1, <4>1, <4>4 DEF OwnCurrent
      <4>5. IrKeys = Power \cup {"volume", "input"}
        BY DEF IrKeys, Power
      <4>. QED  BY <4>2, <4>3, <4>4, <4>5, SlotIsOne
    <3>. QED  BY <3>1 DEF OnlyCurrent
  <2>2. PowerServed
    BY DEF IrInv, CommonCurrent, PowerServed
  <2>. QED  BY <2>1, <2>2 DEF IrInv, IrSound
<1>. QED  BY <1>1, <1>2, <1>3, PTL DEF IrSpec

-----------------------------------------------------------------------------
(***************************************************************************)
(* What the database and the HAL keep of an attribute is the value it has, *)
(* or is on its way, for any values, any number of writes, jobs and        *)
(* restarts.                                                               *)
(***************************************************************************)

\* The values, the jobs and what a name has in the table of the remote.
Vals == RibValues \cup {0}
RibJobs == [op : {"create", "attr", "put"}, attr : attrs, value : Vals]
Cells == {<<>>} \cup ({a.reads : a \in attrs} \X Vals)
RibTables == [there : {TRUE}, of : [Columns -> Cells]]

RibTypes ==
    /\ attrs \in Followed
    /\ value \in [attrs -> Vals] /\ exported \in [attrs -> Vals]
    /\ jobs \in Seq(RibJobs)
    /\ entry \in {NoTable} \cup RibTables
    /\ result \in {"none", "pending", "success"} /\ imports \in BOOLEAN
    /\ starts \in Nat

\* What a table has of an attribute, that reads back as x.
HasValue(e, a, x) == e.of[a.reads] = <<a.reads, x>> \/ (e.of[a.reads] = <<>> /\ x = 0)

\* With no job left the table has the value; else the last job writes it, into a table that is
\* there or is made before.
LastWrites(q, e, a, x) ==
    LET j == q[Len(q)] IN
    /\ j.op = (IF a.how = "held" THEN "attr" ELSE "put")
    /\ j.op = "put" => j.value = x
    /\ e.there \/ \E i \in 1 .. Len(q) : i # Len(q) /\ q[i].op = "create"
ValueKept(q, e, a, x) == IF q = <<>> THEN e.there /\ HasValue(e, a, x) ELSE LastWrites(q, e, a, x)

\* The inductive invariant: it speaks of the attributes that are followed alone, those followed
\* together share a name.
Alone(a) == attrs = {a}
RibInv ==
    /\ RibTypes
    /\ result = "success" => ~imports
    /\ \A a \in attrs :
          Alone(a) /\ result = "success" /\ a.how # "memory" => ValueKept(jobs, entry, a, value[a])
    /\ HalHasIt

-----------------------------------------------------------------------------
\* What the table of attributes says of one that is followed alone, and of all.
Fine(a) ==
    /\ a.how \in {"held", "guarded", "memory"}
    /\ a.kept = (a.how # "memory")
    /\ a.column = a.reads
\* The attributes that are followed are kept in a column of their own, or share one.
LEMMA FollowedFacts ==
    ASSUME NEW S \in Followed
    PROVE  /\ \/ \E a \in S : S = {a} /\ Fine(a) /\ a # VoiceStatistics
              \/ S = {AudioProfiles, VoiceStatistics}
           /\ \A a \in S : a = UptimePrivacy \/ a \in NetworkWide => ~a.exports
           /\ \A a \in NetworkWide : a.how = "memory"
           /\ AudioProfiles.column = VoiceStatistics.column /\ AudioProfiles # VoiceStatistics
<1>1. \A c : Fine(Held(c)) /\ Held(c).column = c /\ Held(c).reads = c
             /\ Held(c).exports = FALSE
  BY DEF Held, Fine
<1>2. \A c, b : Fine(Guarded(c, b)) /\ Guarded(c, b).column = c /\ Guarded(c, b).reads = c
                /\ Guarded(c, b).exports = FALSE
  BY DEF Held, Guarded, Fine
<1>3. \A c, b : Fine(InMemory(c, b)) /\ InMemory(c, b).column = c /\ InMemory(c, b).reads = c
                /\ InMemory(c, b).exports = FALSE /\ InMemory(c, b).how = "memory"
  BY DEF Held, InMemory, Fine
<1>4. \A a \in NetworkWide : Fine(a) /\ a.column = a.reads /\ ~a.exports /\ a.how = "memory"
  BY <1>3 DEF NetworkWide, Utterance, Encryption, DataRetry, CsmaBackoff, DataBackoff, CheckInterval
<1>5. ~UptimePrivacy.exports
  BY <1>2 DEF UptimePrivacy
<1>6. /\ VoiceStatistics.column = "audio_profiles" /\ VoiceStatistics.reads = "voice_statistics"
      /\ AudioProfiles.column = "audio_profiles" /\ AudioProfiles.reads = "audio_profiles"
  BY DEF VoiceStatistics, AudioProfiles, Held
<1>. DEFINE T == {SoftwareVersion, DspVersion, HardwareVersion, BuildId, ProductName, BatteryStatus,
         IrdbStatus, Capabilities, FirmwareUpdated, RebootDiagnostics, MemoryStatistics,
         LastCheckin, MfgTestResult, PollingMethods, HeartbeatPolling, MacPolling, Privacy,
         FarFieldMetrics, DspMetrics, UptimePrivacy, IrRfStatus, CommandStatus, CommandLength,
         DownloadRate, Encryption}
<1>7. \A a \in T : Fine(a)
  <2>1. /\ Fine(SoftwareVersion) /\ Fine(HardwareVersion) /\ Fine(ProductName)
        /\ Fine(IrdbStatus) /\ Fine(Capabilities)
    BY DEF Held, Fine, SoftwareVersion, HardwareVersion, ProductName, IrdbStatus, Capabilities
  <2>2. Fine(DspVersion) /\ Fine(BuildId) /\ Fine(BatteryStatus)
    BY <1>1 DEF DspVersion, BuildId, BatteryStatus
  <2>3. /\ Fine(FirmwareUpdated) /\ Fine(RebootDiagnostics) /\ Fine(MemoryStatistics)
        /\ Fine(LastCheckin) /\ Fine(MfgTestResult) /\ Fine(PollingMethods)
        /\ Fine(HeartbeatPolling) /\ Fine(MacPolling) /\ Fine(Privacy)
        /\ Fine(FarFieldMetrics) /\ Fine(DspMetrics) /\ Fine(UptimePrivacy)
    BY <1>2 DEF FirmwareUpdated, RebootDiagnostics, MemoryStatistics, LastCheckin, MfgTestResult,
                PollingMethods, HeartbeatPolling, MacPolling, Privacy, FarFieldMetrics, DspMetrics,
                UptimePrivacy
  <2>4. /\ Fine(IrRfStatus) /\ Fine(CommandStatus) /\ Fine(CommandLength)
        /\ Fine(DownloadRate) /\ Fine(Encryption)
    BY <1>3 DEF IrRfStatus, CommandStatus, CommandLength, DownloadRate, Encryption
  <2>. QED  BY <2>1, <2>2, <2>3, <2>4
<1>8. S \in {{a} : a \in NetworkWide \cup T} \cup {{AudioProfiles, VoiceStatistics}}
  BY DEF Followed
<1>. HIDE DEF T
<1>9. VoiceStatistics.column # VoiceStatistics.reads /\ AudioProfiles # VoiceStatistics
  BY <1>6
<1>10. CASE S = {AudioProfiles, VoiceStatistics}
  <2>1. ~AudioProfiles.exports /\ ~VoiceStatistics.exports
    BY DEF AudioProfiles, VoiceStatistics, Held
  <2>. QED  BY <1>4, <1>6, <1>9, <1>10, <2>1
<1>11. ASSUME NEW a \in NetworkWide \cup T, S = {a}
       PROVE  a \in S /\ Fine(a) /\ a # VoiceStatistics
              /\ \A b \in S : b = UptimePrivacy \/ b \in NetworkWide => ~b.exports
  <2>1. Fine(a)
    BY <1>4, <1>7
  <2>2. a # VoiceStatistics
    BY <1>9, <2>1 DEF Fine
  <2>. QED  BY <1>4, <1>5, <1>11, <2>1, <2>2
<1>. QED  BY <1>4, <1>6, <1>8, <1>9, <1>10, <1>11

\* An attribute that is followed alone is the only one.
LEMMA AloneFacts ==
    ASSUME attrs \in Followed, NEW a \in attrs, Alone(a)
    PROVE  Fine(a) /\ a # VoiceStatistics /\ Columns = {a.reads} /\ VoiceStatistics \notin attrs
<1>1. AudioProfiles # VoiceStatistics
  BY FollowedFacts
<1>2. \E b \in attrs : attrs = {b} /\ Fine(b) /\ b # VoiceStatistics
  BY <1>1, FollowedFacts DEF Alone
<1>3. Fine(a) /\ a # VoiceStatistics
  BY <1>2 DEF Alone
<1>. QED  BY <1>3 DEF Alone, Columns, Fine

-----------------------------------------------------------------------------
(* Writes.                                                                 *)

\* A job that writes the value comes last; a value that did not change is on its way still.
LEMMA AddedKeeps ==
    ASSUME NEW S, NEW q \in Seq(S), NEW m \in S, NEW e, NEW a, NEW x, NEW y, ValueKept(q, e, a, x),
           m.op = (IF a.how = "held" THEN "attr" ELSE "put"), m.op = "put" => m.value = y
    PROVE  ValueKept(q \o <<m>>, e, a, y)
<1>. DEFINE p == q \o <<m>>
            n == Len(q)
<1>1. /\ n \in Nat /\ Len(p) = n + 1 /\ p[n + 1] = m /\ \A i \in 1 .. n : p[i] = q[i]
      /\ p \in Seq(S)
  OBVIOUS
<1>2. (q = <<>> => n = 0) /\ (q # <<>> => n \in 1 .. n)
  OBVIOUS
<1>. HIDE DEF p, n
<1>3. p # <<>> /\ \A i \in 1 .. n : i # Len(p) /\ i \in 1 .. Len(p)
  BY <1>1
<1>4. e.there \/ \E i \in 1 .. Len(p) : i # Len(p) /\ p[i].op = "create"
  <2>1. CASE q = <<>>
    BY <2>1 DEF ValueKept
  <2>2. CASE q # <<>> /\ ~e.there
    <3>1. PICK i \in 1 .. n : q[i].op = "create"
      BY <2>2 DEF ValueKept, LastWrites, n
    <3>. QED  BY <1>1, <1>3, <3>1
  <2>. QED  BY <2>1, <2>2
<1>5. p[Len(p)] = m
  BY <1>1
<1>6. ValueKept(p, e, a, y)
  BY <1>3, <1>4, <1>5 DEF ValueKept, LastWrites
<1>. QED  BY <1>6 DEF p

\* A value that is set is written by the last job of its attribute.
LEMMA SetKeeps ==
    ASSUME RibInv, NEW a \in attrs, NEW v \in RibValues, Set(a, v)
    PROVE  RibInv'
<1>1. /\ value' = [value EXCEPT ![a] = v]
      /\ jobs' = IF v = value[a] THEN jobs ELSE jobs \o Queued(a, v)
      /\ exported' = IF a.exports THEN [exported EXCEPT ![a] = v] ELSE exported
      /\ UNCHANGED <<attrs, entry, result, imports, unread, starts>>
  BY DEF Set
<1>2. attrs \in Followed /\ value \in [attrs -> Vals] /\ exported \in [attrs -> Vals] /\ jobs \in Seq(RibJobs)
  BY DEF RibInv, RibTypes
<1>3. v \in Vals
  BY DEF Vals
<1>4. /\ value' \in [attrs -> Vals] /\ value'[a] = v /\ exported' \in [attrs -> Vals]
      /\ \A b \in attrs : b # a => value'[b] = value[b] /\ exported'[b] = exported[b]
      /\ a.exports => exported'[a] = v
  BY <1>1, <1>2, <1>3
<1>5. Queued(a, v) = <<>> \/ \E m \in RibJobs : Queued(a, v) = <<m>>
  <2>1. Job("attr", a, 0) \in RibJobs /\ Job("put", a, v) \in RibJobs
    BY <1>3 DEF Job, RibJobs, Vals
  <2>. QED  BY <2>1 DEF Queued
<1>6. jobs' \in Seq(RibJobs)
  <2>1. \A m \in RibJobs : jobs \o <<m>> \in Seq(RibJobs)
    BY <1>2
  <2>2. jobs \o <<>> = jobs
    BY <1>2
  <2>3. CASE Queued(a, v) = <<>>
    BY <1>1, <1>2, <2>2, <2>3
  <2>4. CASE \E m \in RibJobs : Queued(a, v) = <<m>>
    BY <1>1, <1>2, <2>1, <2>4
  <2>. QED  BY <1>5, <2>3, <2>4
<1>7. RibTypes'
  BY <1>1, <1>4, <1>6 DEF RibInv, RibTypes, RibJobs, Vals, Cells, RibTables, Columns
<1>8. HalHasIt'
  <2>1. ASSUME NEW b \in attrs, starts = 0, b.exports PROVE exported'[b] = value'[b]
    <3>1. exported[b] = value[b]
      BY <2>1 DEF RibInv, HalHasIt
    <3>2. CASE b = a
      <4>1. a.exports
        BY <2>1, <3>2
      <4>. QED  BY <1>4, <3>2, <4>1
    <3>3. CASE b # a
      BY <1>4, <3>1, <3>3
    <3>. QED  BY <3>2, <3>3
  <2>. QED  BY <1>1, <2>1 DEF HalHasIt
<1>9. ASSUME NEW b \in attrs, Alone(b), result = "success", b.how # "memory"
      PROVE  ValueKept(jobs', entry', b, value'[b])
  <2>1. ValueKept(jobs, entry, b, value[b]) /\ b = a /\ ~imports
    BY <1>9 DEF RibInv, Alone
  <2>2. CASE v = value[a]
    BY <1>1, <1>4, <2>1, <2>2
  <2>3. CASE v # value[a]
    <3>1. b.how \in {"held", "guarded"}
      BY <1>2, <1>9, AloneFacts DEF Fine
    <3>. DEFINE m == IF a.how = "held" THEN Job("attr", a, 0) ELSE Job("put", a, v)
    <3>2. /\ m \in RibJobs /\ m.op = (IF a.how = "held" THEN "attr" ELSE "put") /\ (m.op = "put" => m.value = v)
      BY <1>3 DEF Job, RibJobs, Vals
    <3>3. Queued(a, v) = <<m>>
      BY <1>9, <2>1, <3>1 DEF Queued
    <3>. HIDE DEF m
    <3>4. ValueKept(jobs \o <<m>>, entry, b, v)
      BY <1>2, <2>1, <3>2, AddedKeeps
    <3>. QED  BY <1>1, <1>4, <2>1, <2>3, <3>3, <3>4
  <2>. QED  BY <2>2, <2>3
<1>. QED  BY <1>1, <1>7, <1>8, <1>9 DEF RibInv, Alone

\* The attributes of the network are not kept.
LEMMA NetworkSetKeeps ==
    ASSUME RibInv, NEW a \in attrs, NEW v \in RibValues, NetworkSets(a, v)
    PROVE  RibInv'
<1>1. /\ a \in NetworkWide /\ value' = [value EXCEPT ![a] = v]
      /\ UNCHANGED <<attrs, entry, jobs, exported, result, imports, starts>>
  BY DEF NetworkSets
<1>2. attrs \in Followed /\ value \in [attrs -> Vals] /\ v \in Vals
  BY DEF RibInv, RibTypes, Vals
<1>3. a.how = "memory" /\ ~a.exports
  BY <1>1, <1>2, FollowedFacts
<1>4. value' \in [attrs -> Vals] /\ \A b \in attrs : b # a => value'[b] = value[b]
  BY <1>1, <1>2
<1>5. RibTypes'
  BY <1>1, <1>4 DEF RibInv, RibTypes, RibJobs, Vals, Cells, RibTables, Columns
<1>6. HalHasIt'
  BY <1>1, <1>3, <1>4 DEF RibInv, HalHasIt
<1>7. ASSUME NEW b \in attrs, Alone(b), result = "success", b.how # "memory"
      PROVE  ValueKept(jobs', entry', b, value'[b])
  BY <1>1, <1>3, <1>7 DEF Alone
<1>. QED  BY <1>1, <1>5, <1>6, <1>7 DEF RibInv, Alone

-----------------------------------------------------------------------------
(* The life of the remote.                                                 *)

\* The table is made and everything is stored: the last job writes the attribute.
LEMMA RibValidatedKeeps ==
    ASSUME RibInv, Validated
    PROVE  RibInv'
<1>1. /\ result = "pending" /\ result' = "success"
      /\ jobs' = jobs \o StoreJobs
      /\ value' = [a \in attrs |-> AtValidation(a)]
      /\ exported' = [a \in attrs |-> IF a.exports THEN value[a] ELSE exported[a]]
      /\ imports' = FALSE
      /\ UNCHANGED <<attrs, entry, starts>>
  BY DEF Validated
<1>2. attrs \in Followed /\ value \in [attrs -> Vals] /\ exported \in [attrs -> Vals] /\ jobs \in Seq(RibJobs)
  BY DEF RibInv, RibTypes
<1>. DEFINE first == CHOOSE a \in attrs : TRUE
            made == Job("create", first, 0)
<1>3. attrs # {}
  BY <1>2, FollowedFacts
<1>4. first \in attrs /\ made \in RibJobs /\ made.op = "create"
  BY <1>3 DEF Job, RibJobs, Vals
<1>5. StoreJobs = <<made>> \o KeptJobs
  BY DEF StoreJobs
<1>6. \A a \in attrs : AtValidation(a) \in Vals
  BY <1>2 DEF AtValidation, Vals
<1>7. Order \in Seq(attrs)
  <2>1. CASE VoiceStatistics \in attrs
    <3>1. AudioProfiles \in attrs
      BY <1>2, <2>1, FollowedFacts
    <3>. QED  BY <2>1, <3>1 DEF Order
  <2>2. CASE VoiceStatistics \notin attrs
    BY <1>4, <2>2 DEF Order
  <2>. QED  BY <2>1, <2>2
<1>. HIDE DEF first, made
<1>8. KeptJobs \in Seq(RibJobs)
  <2>1. \A a \in attrs : Job(IF a.how = "held" THEN "attr" ELSE "put", a, AtValidation(a)) \in RibJobs
    BY <1>6 DEF Job, RibJobs
  <2>2. \A i \in 1 .. Len(Order) : Order[i] \in attrs
    BY <1>7
  <2>3. Len(Order) \in Nat
    BY <1>7
  <2>. HIDE DEF Order
  <2>4. KeptJobs \in [1 .. Len(Order) -> RibJobs]
    BY <2>1, <2>2 DEF KeptJobs
  <2>. QED  BY <2>3, <2>4
<1>9. jobs' \in Seq(RibJobs)
  BY <1>1, <1>2, <1>4, <1>5, <1>8
<1>10. value' \in [attrs -> Vals] /\ exported' \in [attrs -> Vals]
  BY <1>1, <1>2, <1>6
<1>11. RibTypes'
  BY <1>1, <1>9, <1>10 DEF RibInv, RibTypes, RibJobs, Vals, Cells, RibTables, Columns
<1>12. HalHasIt'
  <2>1. ASSUME NEW a \in attrs, a.exports PROVE exported'[a] = value'[a]
    <3>1. a # UptimePrivacy
      BY <1>2, <2>1, FollowedFacts
    <3>. QED  BY <1>1, <2>1, <3>1 DEF AtValidation
  <2>. QED  BY <1>1, <2>1 DEF HalHasIt
<1>13. ASSUME NEW a \in attrs, Alone(a), a.how # "memory"
       PROVE  ValueKept(jobs', entry', a, value'[a])
  <2>1. Fine(a) /\ VoiceStatistics \notin attrs /\ attrs = {a}
    BY <1>2, <1>13, AloneFacts DEF Alone
  <2>2. Order = <<a>>
    <3>1. a.kept
      BY <1>13, <2>1 DEF Fine
    <3>2. (CHOOSE b \in attrs : TRUE) = a
      BY <2>1
    <3>. QED  BY <2>1, <3>1, <3>2 DEF Order
  <2>. DEFINE m == Job(IF a.how = "held" THEN "attr" ELSE "put", a, AtValidation(a))
  <2>3. /\ m \in RibJobs /\ m.op = (IF a.how = "held" THEN "attr" ELSE "put") /\ (m.op = "put" => m.value = AtValidation(a))
    BY <1>6 DEF Job, RibJobs
  <2>4. KeptJobs = <<m>>
    <3>1. Len(Order) = 1 /\ Order[1] = a
      BY <2>2
    <3>2. KeptJobs = [i \in 1 .. 1 |-> m]
      BY <3>1 DEF KeptJobs
    <3>. HIDE DEF m
    <3>. QED  BY <2>3, <3>2
  <2>. HIDE DEF m
  <2>. DEFINE p == jobs \o (<<made>> \o <<m>>)
              n == Len(jobs)
  <2>5. /\ n \in Nat /\ Len(p) = n + 2 /\ p[n + 1] = made /\ p[n + 2] = m
    BY <1>2, <1>4, <2>3
  <2>6. jobs' = p
    BY <1>1, <1>5, <2>4
  <2>. HIDE DEF p, n
  <2>7. p # <<>> /\ n + 1 \in 1 .. Len(p) /\ n + 1 # Len(p)
    <3>1. 1 .. Len(p) # {}
      BY <2>5
    <3>. QED  BY <2>5, <3>1
  <2>8. p[Len(p)] = m
    BY <2>5
  <2>9. \E i \in 1 .. Len(p) : i # Len(p) /\ p[i].op = "create"
    BY <1>4, <2>5, <2>7
  <2>10. LastWrites(p, entry', a, AtValidation(a))
    BY <2>3, <2>8, <2>9 DEF LastWrites
  <2>. QED  BY <1>1, <2>6, <2>7, <2>10 DEF ValueKept
<1>. QED  BY <1>1, <1>11, <1>12, <1>13 DEF RibInv, Alone

\* The database thread takes the first job.
LEMMA DatabaseRunsKeeps ==
    ASSUME RibInv, DatabaseRuns
    PROVE  RibInv'
<1>. DEFINE j == Head(jobs)
            v == IF j.op = "attr" THEN value[j.attr] ELSE j.value
            n == Len(jobs)
            empty == [c \in Columns |-> <<>>]
<1>1. /\ jobs # <<>> /\ jobs' = Tail(jobs)
      /\ entry' = IF j.op = "create"
                  THEN IF entry.there THEN entry ELSE [there |-> TRUE, of |-> empty]
                  ELSE IF entry.there THEN [entry EXCEPT !.of[j.attr.column] = <<j.attr.reads, v>>] ELSE entry
      /\ UNCHANGED <<attrs, value, exported, result, imports, starts>>
  BY DEF DatabaseRuns
<1>2. /\ attrs \in Followed /\ value \in [attrs -> Vals] /\ jobs \in Seq(RibJobs)
      /\ entry \in {NoTable} \cup RibTables
  BY DEF RibInv, RibTypes
<1>3. j \in RibJobs /\ jobs' \in Seq(RibJobs) /\ j = jobs[1] /\ n \in Nat \ {0}
      /\ Len(jobs') = n - 1 /\ \A i \in 1 .. Len(jobs') : jobs'[i] = jobs[i + 1]
  BY <1>1, <1>2
<1>4. j.attr \in attrs /\ v \in Vals /\ j.op \in {"create", "attr", "put"}
  BY <1>2, <1>3 DEF RibJobs
<1>5. empty \in [Columns -> Cells] /\ \A c \in Columns : empty[c] = <<>>
  BY DEF Cells
<1>6. (entry.there => entry \in RibTables) /\ (~entry.there => entry = NoTable)
  <2>1. CASE entry \in RibTables
    BY <2>1 DEF RibTables
  <2>2. CASE entry = NoTable
    BY <2>2 DEF NoTable
  <2>. QED  BY <1>2, <2>1, <2>2
<1>. DEFINE row == [entry.of EXCEPT ![j.attr.column] = <<j.attr.reads, v>>]
<1>7. entry.there => row \in [Columns -> Cells] /\ row[j.attr.column] = <<j.attr.reads, v>>
  BY <1>4, <1>6 DEF RibTables, Cells, Columns
<1>8. entry' = IF j.op = "create"
               THEN IF entry.there THEN entry ELSE [there |-> TRUE, of |-> empty]
               ELSE IF entry.there THEN [entry EXCEPT !.of = row] ELSE entry
  BY <1>1
<1>9. j.op = "attr" => v = value[j.attr]
  OBVIOUS
<1>9a. j.op # "attr" => v = j.value
  OBVIOUS
<1>. HIDE DEF j, v, n, empty, row
<1>10. /\ entry' \in {NoTable} \cup RibTables
       /\ (j.op = "create" => entry'.there) /\ (entry.there => entry'.there)
       /\ j.op = "create" /\ ~entry.there => entry'.of = empty
       /\ j.op = "create" /\ entry.there => entry' = entry
       /\ j.op # "create" /\ entry.there => entry'.of = row
  <2>1. CASE j.op = "create" /\ ~entry.there
    <3>1. entry' = [there |-> TRUE, of |-> empty]
      BY <1>8, <2>1
    <3>. QED  BY <1>5, <2>1, <3>1 DEF RibTables
  <2>2. CASE j.op # "create" /\ entry.there
    <3>1. entry' = [entry EXCEPT !.of = row]
      BY <1>8, <2>2
    <3>2. entry' \in RibTables /\ entry'.of = row /\ entry'.there
      BY <1>6, <1>7, <2>2, <3>1 DEF RibTables
    <3>. QED  BY <2>2, <3>2
  <2>3. CASE entry' = entry /\ (j.op = "create" <=> entry.there)
    BY <1>2, <2>3
  <2>. QED  BY <1>8, <2>1, <2>2, <2>3
<1>11. RibTypes'
  BY <1>1, <1>3, <1>10 DEF RibInv, RibTypes, RibJobs, Vals, Cells, RibTables, Columns
<1>12. HalHasIt'
  BY <1>1 DEF RibInv, HalHasIt
<1>13. ASSUME NEW a \in attrs, Alone(a), result = "success", a.how # "memory"
       PROVE  ValueKept(jobs', entry', a, value'[a])
  <2>1. ValueKept(jobs, entry, a, value[a]) /\ attrs = {a} /\ a.column = a.reads
    BY <1>2, <1>13, AloneFacts DEF RibInv, Alone, Fine
  <2>2. LastWrites(jobs, entry, a, value[a])
    BY <1>1, <2>1 DEF ValueKept
  <2>3. j.attr = a
    BY <1>4, <2>1
  <2>4. CASE n = 1
    <3>1. jobs' = <<>> /\ jobs[Len(jobs)] = j
      BY <1>3, <2>4 DEF n
    <3>2. ~\E i \in 1 .. Len(jobs) : i # Len(jobs) /\ jobs[i].op = "create"
      BY <2>4 DEF n
    <3>3. entry.there /\ j.op # "create" /\ (j.op = "put" => j.value = value[a]) /\ j.op \in {"attr", "put"}
      BY <2>2, <3>1, <3>2 DEF LastWrites
    <3>4. v = value[a]
      BY <1>9, <1>9a, <2>3, <3>3
    <3>5. entry'.there /\ entry'.of[a.reads] = <<a.reads, value[a]>>
      BY <1>7, <1>10, <2>1, <2>3, <3>3, <3>4
    <3>. QED  BY <1>1, <3>1, <3>5 DEF ValueKept, HasValue
  <2>5. CASE n # 1
    <3>1. /\ Len(jobs') \in 1 .. Len(jobs') /\ jobs'[Len(jobs')] = jobs[Len(jobs)]
          /\ Len(jobs') = n - 1 /\ n = Len(jobs)
      <4>1. n - 1 \in 1 .. (n - 1) /\ (n - 1) + 1 = n
        BY <1>3, <2>5
      <4>. QED  BY <1>3, <4>1 DEF n
    <3>2. jobs' # <<>>
      BY <1>3, <3>1
    <3>3. entry'.there \/ \E i \in 1 .. Len(jobs') : i # Len(jobs') /\ jobs'[i].op = "create"
      <4>1. CASE entry.there \/ j.op = "create"
        BY <1>10, <4>1
      <4>2. CASE ~entry.there /\ j.op # "create"
        <5>1. PICK i \in 1 .. Len(jobs) : i # Len(jobs) /\ jobs[i].op = "create"
          BY <2>2, <4>2 DEF LastWrites
        <5>2. i # 1
          BY <1>3, <4>2, <5>1
        <5>3. i - 1 \in 1 .. Len(jobs') /\ i - 1 # Len(jobs') /\ (i - 1) + 1 = i
          BY <1>3, <3>1, <5>1, <5>2
        <5>. DEFINE k == i - 1
        <5>4. k \in 1 .. Len(jobs') /\ k # Len(jobs') /\ jobs'[k].op = "create"
          BY <1>3, <5>1, <5>3
        <5>. HIDE DEF k
        <5>. QED  BY <5>4
      <4>. QED  BY <4>1, <4>2
    <3>. QED  BY <1>1, <2>2, <3>1, <3>2, <3>3 DEF ValueKept, LastWrites
  <2>. QED  BY <2>4, <2>5
<1>. QED  BY <1>1, <1>11, <1>12, <1>13 DEF RibInv, Alone

\* What a table says of an attribute that is followed alone reads back so.
LEMMA LoadedHas ==
    ASSUME RibTypes, NEW a \in attrs, Alone(a), a.how # "memory", entry.there
    PROVE  /\ HasValue(entry, a, Loaded(a))
           /\ \A x : HasValue(entry, a, x) => Loaded(a) = x
<1>1. Fine(a) /\ Columns = {a.reads} /\ attrs = {a}
  BY AloneFacts DEF RibTypes, Alone
<1>2. entry \in RibTables
  <2>1. CASE entry = NoTable
    BY <2>1 DEF NoTable
  <2>. QED  BY <2>1 DEF RibTypes
<1>. DEFINE e == entry.of[a.reads]
<1>3. e \in Cells
  BY <1>1, <1>2 DEF RibTables
<1>4. Loaded(a) = IF e = <<>> \/ (e # <<>> /\ e[1] # a.reads) THEN 0 ELSE e[2]
  BY DEF Loaded
<1>5. e = <<>> \/ \E x \in Vals : e = <<a.reads, x>>
  BY <1>1, <1>3 DEF Cells
<1>6. \A x : <<a.reads, x>> # <<>> /\ <<a.reads, x>>[1] = a.reads /\ <<a.reads, x>>[2] = x
  OBVIOUS
<1>. HIDE DEF e
<1>7. CASE e = <<>>
  BY <1>4, <1>6, <1>7 DEF HasValue, e
<1>8. ASSUME NEW x \in Vals, e = <<a.reads, x>>
      PROVE  HasValue(entry, a, Loaded(a)) /\ \A y : HasValue(entry, a, y) => Loaded(a) = y
  <2>1. Loaded(a) = x /\ e # <<>>
    BY <1>4, <1>6, <1>8
  <2>2. ASSUME NEW y, HasValue(entry, a, y) PROVE y = x
    <3>1. <<a.reads, y>> = <<a.reads, x>>
      BY <1>8, <2>1, <2>2 DEF HasValue, e
    <3>. QED  BY <3>1
  <2>. QED  BY <1>8, <2>1, <2>2 DEF HasValue, e
<1>. QED  BY <1>5, <1>7, <1>8

\* What waits is lost, and what the table has is read back.
LEMMA RibRestartKeeps ==
    ASSUME RibInv, Restart
    PROVE  RibInv'
<1>1. /\ starts' = starts + 1 /\ jobs' = <<>> /\ imports' = FALSE
      /\ result' = IF entry.there THEN "success" ELSE "none"
      /\ value' = [a \in attrs |-> Loaded(a)]
      /\ UNCHANGED <<attrs, entry, exported>>
  BY DEF Restart
<1>2. RibTypes
  BY DEF RibInv
<1>3. \A a \in attrs : Loaded(a) \in Vals
  <2>. SUFFICES ASSUME NEW a \in attrs PROVE Loaded(a) \in Vals
    OBVIOUS
  <2>. DEFINE e == IF entry.there THEN entry.of[a.reads] ELSE <<>>
  <2>1. e \in Cells
    <3>1. CASE entry.there
      <4>1. entry # NoTable
        BY <3>1 DEF NoTable
      <4>2. entry \in RibTables
        BY <1>2, <4>1 DEF RibTypes
      <4>. QED  BY <3>1, <4>2 DEF RibTables, Columns
    <3>2. CASE ~entry.there
      BY <3>2 DEF Cells
    <3>. QED  BY <3>1, <3>2
  <2>2. Loaded(a) = IF a.how = "memory" \/ e = <<>> \/ (e # <<>> /\ e[1] # a.reads) THEN 0 ELSE e[2]
    BY DEF Loaded
  <2>. HIDE DEF e
  <2>3. e = <<>> \/ e[2] \in Vals
    BY <2>1 DEF Cells
  <2>. QED  BY <2>2, <2>3 DEF Vals
<1>4. value' \in [attrs -> Vals] /\ \A a \in attrs : value'[a] = Loaded(a)
  BY <1>1, <1>3
<1>5. starts' \in Nat /\ starts' # 0 /\ jobs' \in Seq(RibJobs)
  BY <1>1, <1>2 DEF RibTypes
<1>6. RibTypes'
  BY <1>1, <1>2, <1>4, <1>5 DEF RibTypes, RibJobs, Vals, Cells, RibTables, Columns
<1>7. HalHasIt'
  BY <1>5 DEF HalHasIt
<1>8. ASSUME NEW a \in attrs, Alone(a), result' = "success", a.how # "memory"
      PROVE  ValueKept(jobs', entry', a, value'[a])
  <2>1. entry.there
    BY <1>1, <1>8
  <2>2. HasValue(entry, a, Loaded(a))
    BY <1>2, <1>8, <2>1, LoadedHas
  <2>. QED  BY <1>1, <1>4, <2>1, <2>2 DEF ValueKept
<1>. QED  BY <1>1, <1>6, <1>7, <1>8 DEF RibInv, Alone

\* The invariant says what the run checks.
LEMMA RibInvIsSound ==
    ASSUME RibInv
    PROVE  RibSound
<1>1. ASSUME NEW a \in attrs, \A b \in attrs \ {a} : b.column # a.column,
             a.how # "memory", result = "success", jobs = <<>>
      PROVE  Loaded(a) = value[a]
  <2>1. Alone(a)
    <3>1. CASE attrs = {AudioProfiles, VoiceStatistics}
      <4>1. AudioProfiles.column = VoiceStatistics.column /\ AudioProfiles # VoiceStatistics
        BY FollowedFacts DEF RibInv, RibTypes
      <4>. QED  BY <1>1, <3>1, <4>1
    <3>. QED  BY <3>1, FollowedFacts DEF RibInv, RibTypes, Alone
  <2>2. entry.there /\ HasValue(entry, a, value[a])
    BY <1>1, <2>1 DEF RibInv, ValueKept
  <2>. QED  BY <1>1, <2>1, <2>2, LoadedHas DEF RibInv
<1>. QED  BY <1>1 DEF RibInv, RibSound, CaughtUp, Survives

\* Every step keeps the invariant.
LEMMA RibStep ==
    ASSUME RibInv, [RibNext]_ribVars
    PROVE  RibInv'
<1>1. ASSUME NEW a \in attrs, NEW v \in RibValues,
             RemoteSets(a, v) \/ BoxSets(a, v) \/ ImportSets(a, v) \/ NetworkSets(a, v)
      PROVE  RibInv'
  BY <1>1, SetKeeps, NetworkSetKeeps DEF RemoteSets, BoxSets, ImportSets
<1>2. CASE RemoteAsks \/ BoxAsks
  <2>1. UNCHANGED <<attrs, value, entry, jobs, exported, result, imports, starts>>
    BY <1>2 DEF RemoteAsks, BoxAsks
  <2>. QED  BY <2>1 DEF RibInv, RibTypes, RibJobs, Vals, Cells, RibTables, Columns, HalHasIt, Alone
<1>3. ASSUME NEW byImport \in BOOLEAN, Paired(byImport) PROVE RibInv'
  <2>1. /\ result' = "pending" /\ imports' \in BOOLEAN
        /\ UNCHANGED <<attrs, value, entry, jobs, exported, starts>>
    BY <1>3 DEF Paired
  <2>. QED  BY <2>1 DEF RibInv, RibTypes, RibJobs, Vals, Cells, RibTables, Columns, HalHasIt, Alone
<1>4. CASE Validated
  BY <1>4, RibValidatedKeeps
<1>5. CASE DatabaseRuns
  BY <1>5, DatabaseRunsKeeps
<1>6. CASE Restart
  BY <1>6, RibRestartKeeps
<1>7. CASE UNCHANGED ribVars
  BY <1>7 DEF ribVars, RibInv, RibTypes, RibJobs, Vals, Cells, RibTables, Columns, HalHasIt, Alone
<1>. QED  BY <1>1, <1>2, <1>3, <1>4, <1>5, <1>6, <1>7 DEF RibNext

\* Once the database thread has caught up a start reads back what memory has, and until the
\* program ends the HAL has what it is handed, for any values and however many writes,
\* validations and restarts (ctrlm_rf4ce_controller.cpp, write_rib, validation_result_set).
THEOREM ValuesAreKept ==
    RibSpec => []RibSound
<1>1. RibInit => RibInv
  <2>. SUFFICES ASSUME RibInit PROVE RibInv
    OBVIOUS
  <2>1. /\ attrs \in Followed /\ value = [a \in attrs |-> 0] /\ exported = value /\ jobs = <<>>
        /\ entry = NoTable /\ result = "none" /\ imports = FALSE /\ starts = 0
    BY DEF RibInit
  <2>2. value \in [attrs -> Vals] /\ exported \in [attrs -> Vals]
    BY <2>1 DEF Vals
  <2>3. jobs \in Seq(RibJobs)
    BY <2>1
  <2>4. RibTypes
    BY <2>1, <2>2, <2>3 DEF RibTypes
  <2>. QED  BY <2>1, <2>4 DEF RibInv, HalHasIt
<1>2. RibInv /\ [RibNext]_ribVars => RibInv'
  BY RibStep
<1>3. RibInv => RibSound
  BY RibInvIsSound
<1>. QED  BY <1>1, <1>2, <1>3, PTL DEF RibSpec

-----------------------------------------------------------------------------
(***************************************************************************)
(* The milestones of a battery are in order, due and kept, for any voltages *)
(* and any table of levels that falls.                                     *)
(***************************************************************************)

\* A table falls with the percentages it is for, as each of the tables does.
BatteryAssumption ==
    /\ Volts \subseteq Int /\ Sags \subseteq Int
    /\ Levels \in [1 .. 5 -> Int] /\ \A i \in 1 .. 4 : Levels[i + 1] <= Levels[i]

\* The state's types: a report, the milestones, and the table of them.
Reports == [unloaded : Int, loaded : Int, time : Nat]
Milestones == [first : BOOLEAN, changed : Nat, at : [1 .. 5 -> Nat], jumps : Nat, decline : BOOLEAN, good : Reports]
Tables == [status : Seq(Reports), miles : Seq(Milestones), jumps : Nat]
BatteryTypes ==
    /\ status \in Reports /\ miles \in Milestones /\ disk \in [there : BOOLEAN, has : Tables]
    /\ batteryJobs \in Seq({"create", "status", "miles", "jumps"})
    /\ reports \in Nat /\ restarts \in Nat /\ early \in BOOLEAN

\* The milestones are right: those of the properties, of milestones noted until a report.
InOrder(m) ==
    /\ \A i \in 1 .. 4 : m.at[i + 1] # 0 => m.at[i] # 0 /\ m.at[i] <= m.at[i + 1]
    /\ \A i \in 1 .. 5 : m.at[i] # 0 => m.at[i] >= m.changed
AreDue(m) == m.good.time # 0 /\ m.changed # 0 => \A i \in Fallen(m.good.unloaded) : m.at[i] # 0
Declined(m) == \A i \in 1 .. 4 : m.at[i] # 0 /\ m.at[i] = m.at[i + 1] /\ m.at[i] # m.changed => m.decline
MilesRight(m, time) ==
    InOrder(m) /\ AreDue(m) /\ Declined(m) /\ m.changed <= time /\ \A i \in 1 .. 5 : m.at[i] <= time

\* What the milestones have is what the table has, unless it is going to be written.
TableHas(m, has) ==
    IF has.miles = <<>> THEN m.changed = 0 /\ m.at = NoMilestones.at /\ m.decline = FALSE
    ELSE m.changed = has.miles[1].changed /\ m.at = has.miles[1].at /\ m.decline = has.miles[1].decline

\* The table is there, or will be first; what it does not have will be written.
Written(name) == \E i \in 1 .. Len(batteryJobs) : batteryJobs[i] = name
TableMade ==
    /\ disk.there \/ (disk.has = EmptyTable /\ batteryJobs # <<>> /\ batteryJobs[1] = "create")
    /\ Written("miles") \/ TableHas(miles, disk.has)
    /\ Written("miles") \/ Written("jumps") \/ miles.jumps = disk.has.jumps

\* Before the remote is validated there is no table, and nothing to write to it.
TableComes ==
    /\ batteryJobs = <<>> /\ disk = [there |-> FALSE, has |-> EmptyTable]
    /\ miles.jumps = 0 /\ TableHas(miles, EmptyTable)

\* What the table has, or will have.
Coming == IF stage = "valid" THEN TableMade ELSE TableComes

\* The inductive invariant.
BatteryInv ==
    /\ BatteryTypes
    /\ MilesRight(miles, reports)
    /\ disk.has.miles # <<>> => MilesRight(disk.has.miles[1], reports)
    /\ EventIsLast
    /\ ~early => Coming

-----------------------------------------------------------------------------
(* A report.                                                               *)

\* The voltage that has fallen to a milestone has fallen to those above it.
LEMMA FallenAbove ==
    ASSUME BatteryAssumption, NEW v \in Int
    PROVE  Fallen(v) \in SUBSET (1 .. 5) /\ \A i \in 1 .. 4 : i + 1 \in Fallen(v) => i \in Fallen(v)
BY DEF BatteryAssumption, Fallen

\* The lowest of some milestones.
LEMMA LowestIs ==
    ASSUME NEW S \in SUBSET (1 .. 5), S # {}
    PROVE  LowestLevel(S) \in S /\ \A j \in S : j <= LowestLevel(S)
<1>1. \E i \in S : \A j \in S : j <= i
  <2>1. CASE 5 \in S
    BY <2>1
  <2>2. CASE 5 \notin S /\ 4 \in S
    BY <2>2
  <2>3. CASE 5 \notin S /\ 4 \notin S /\ 3 \in S
    BY <2>3
  <2>4. CASE 5 \notin S /\ 4 \notin S /\ 3 \notin S /\ 2 \in S
    BY <2>4
  <2>5. CASE 5 \notin S /\ 4 \notin S /\ 3 \notin S /\ 2 \notin S
    <3>1. PICK k \in S : TRUE
      OBVIOUS
    <3>2. k = 1 /\ \A j \in S : j = 1
      BY <2>5
    <3>. QED  BY <3>1, <3>2
  <2>. QED  BY <2>1, <2>2, <2>3, <2>4, <2>5
<1>. QED  BY <1>1 DEF LowestLevel

\* The lowest of some milestones is that one.
LEMMA LowestUnique ==
    ASSUME NEW S \in SUBSET (1 .. 5), NEW i \in S, \A j \in S : j <= i
    PROVE  LowestLevel(S) = i
<1>1. LowestLevel(S) \in S /\ \A j \in S : j <= LowestLevel(S)
  BY LowestIs
<1>2. LowestLevel(S) \in 1 .. 5 /\ i \in 1 .. 5
  BY <1>1
<1>. QED  BY <1>1, <1>2

\* What a report makes of milestones.
MarkedAs(m, new, changed, S) ==
    /\ new \in Milestones
    /\ new.first = m.first /\ new.changed = m.changed /\ new.jumps = m.jumps
    /\ \A i \in 1 .. 5 : new.at[i] = IF i \in S THEN new.good.time ELSE m.at[i]
    /\ m.decline => new.decline
    /\ ~changed /\ Cardinality(S) > 1 => new.decline

\* A report is noted by it.
LEMMA MarkedIs ==
    ASSUME NEW m \in Milestones, NEW r \in Reports, NEW changed \in BOOLEAN
    PROVE  MarkedAs(m, Marked(m, r, changed), changed, Reached(m, r)) /\ Marked(m, r, changed).good = r
<1>. DEFINE S == Reached(m, r)
            at == [i \in 1 .. 5 |-> IF i \in S THEN r.time ELSE m.at[i]]
            decline == m.decline \/ (~changed /\ Cardinality(S) > 1)
            new == [m EXCEPT !.at = at, !.decline = decline, !.good = r]
<1>1. at \in [1 .. 5 -> Nat] /\ decline \in BOOLEAN /\ (m.decline => decline)
      /\ (~changed /\ Cardinality(S) > 1 => decline)
      /\ \A i \in 1 .. 5 : at[i] = IF i \in S THEN r.time ELSE m.at[i]
  BY DEF Milestones, Reports
<1>2. Marked(m, r, changed) = new
  BY DEF Marked
<1>. HIDE DEF at, decline, S
<1>3. new \in Milestones /\ new.first = m.first /\ new.changed = m.changed /\ new.jumps = m.jumps
      /\ new.at = at /\ new.decline = decline /\ new.good = r
  BY <1>1 DEF Milestones
<1>. HIDE DEF new
<1>. QED  BY <1>1, <1>2, <1>3 DEF MarkedAs, S

\* Two of some milestones.
LEMMA TwoOf ==
    ASSUME NEW S \in SUBSET (1 .. 5), NEW i \in S, NEW j \in S, i # j
    PROVE  Cardinality(S) > 1
<1>1. IsFiniteSet(1 .. 5)
  <2>1. ASSUME NEW a \in Int, NEW b \in Int PROVE IsFiniteSet(a .. b)
    BY FS_Interval
  <2>2. 1 \in Int /\ 5 \in Int
    OBVIOUS
  <2>. QED  BY <2>1, <2>2
<1>2. IsFiniteSet(S) /\ IsFiniteSet(S \ {i}) /\ Cardinality(S) \in Nat /\ Cardinality(S \ {i}) \in Nat
  BY <1>1, FS_Subset, FS_CardinalityType
<1>3. Cardinality(S \ {i}) = Cardinality(S) - 1
  BY <1>2, FS_RemoveElement
<1>4. Cardinality(S \ {i}) # 0
  BY <1>2, FS_EmptySet
<1>. QED  BY <1>2, <1>3, <1>4

\* The milestones that a report reaches are lower than those that were reached before.
LEMMA ReachedIs ==
    ASSUME BatteryAssumption, NEW m \in Milestones, NEW r \in Reports, InOrder(m)
    PROVE  /\ Reached(m, r) \in SUBSET (1 .. 5)
           /\ \A i \in Reached(m, r) : m.at[i] = 0 /\ \A j \in 1 .. 5 : m.at[j] # 0 => j < i
           /\ \A i \in 1 .. 4 : i + 1 \in Reached(m, r) => i \in Reached(m, r) \/ m.at[i] # 0
           /\ \A i \in Fallen(r.unloaded) : i \in Reached(m, r) \/ m.at[i] # 0
<1>1. Fallen(r.unloaded) \in SUBSET (1 .. 5) /\ \A i \in 1 .. 4 : i + 1 \in Fallen(r.unloaded) => i \in Fallen(r.unloaded)
  BY FallenAbove DEF Reports
<1>2. Reached(m, r) = {i \in Fallen(r.unloaded) : m.at[i] = 0 /\ \A j \in (i + 1) .. 5 : m.at[j] = 0}
  BY DEF Reached
<1>. DEFINE at == m.at
<1>3. at \in [1 .. 5 -> Nat]
  BY DEF Milestones
\* A milestone that was not reached has none below it that was.
<1>4. ASSUME NEW i \in 1 .. 5, at[i] = 0 PROVE \A j \in (i + 1) .. 5 : at[j] = 0
  BY <1>3, <1>4 DEF InOrder
<1>5. Reached(m, r) = {i \in Fallen(r.unloaded) : at[i] = 0}
  BY <1>1, <1>2, <1>4
<1>6. ASSUME NEW i \in Reached(m, r), NEW j \in 1 .. 5, at[j] # 0 PROVE j < i
  BY <1>1, <1>2, <1>3, <1>6
<1>. QED  BY <1>1, <1>5, <1>6

\* Milestones stay right as a report is noted.
LEMMA MarkedRight ==
    ASSUME BatteryAssumption, NEW m \in Milestones, NEW r \in Reports, NEW changed \in BOOLEAN,
           InOrder(m), Declined(m), m.changed <= r.time, \A i \in 1 .. 5 : m.at[i] < r.time, r.time # 0,
           changed => m.changed = r.time
    PROVE  MilesRight(Marked(m, r, changed), r.time)
<1>. DEFINE n == Marked(m, r, changed)
            S == Reached(m, r)
<1>1. /\ n \in Milestones /\ n.changed = m.changed /\ n.good = r
      /\ \A i \in 1 .. 5 : n.at[i] = IF i \in S THEN r.time ELSE m.at[i]
      /\ m.decline => n.decline
      /\ ~changed /\ Cardinality(S) > 1 => n.decline
  BY MarkedIs DEF MarkedAs
<1>2. /\ S \in SUBSET (1 .. 5)
      /\ \A i \in S : m.at[i] = 0 /\ \A j \in 1 .. 5 : m.at[j] # 0 => j < i
      /\ \A i \in 1 .. 4 : i + 1 \in S => i \in S \/ m.at[i] # 0
      /\ \A i \in Fallen(r.unloaded) : i \in S \/ m.at[i] # 0
  BY ReachedIs
<1>3. Fallen(r.unloaded) \in SUBSET (1 .. 5)
  BY FallenAbove DEF Reports
<1>. HIDE DEF n, S
<1>. DEFINE at == m.at
            late == n.at
            time == r.time
<1>4. at \in [1 .. 5 -> Nat] /\ late \in [1 .. 5 -> Nat] /\ time \in Nat /\ m.changed \in Nat
  BY <1>1 DEF Milestones, Reports
<1>5. \A i \in 1 .. 5 : at[i] < time /\ late[i] = IF i \in S THEN time ELSE at[i]
  BY <1>1
<1>6. InOrder(n)
  <2>1. ASSUME NEW i \in 1 .. 4, late[i + 1] # 0 PROVE late[i] # 0 /\ late[i] <= late[i + 1]
    <3>1. i \in 1 .. 5 /\ i + 1 \in 1 .. 5 /\ i < i + 1
      OBVIOUS
    <3>2. CASE i + 1 \in S
      BY <1>2, <1>4, <1>5, <3>1, <3>2
    <3>3. CASE i + 1 \notin S
      <4>1. at[i + 1] # 0 /\ at[i] # 0 /\ at[i] <= at[i + 1] /\ late[i + 1] = at[i + 1]
        BY <1>4, <1>5, <2>1, <3>1, <3>3 DEF InOrder
      <4>2. i \notin S
        BY <1>2, <3>1, <4>1
      <4>. QED  BY <1>5, <3>1, <4>1, <4>2
    <3>. QED  BY <3>2, <3>3
  <2>2. ASSUME NEW i \in 1 .. 5, late[i] # 0 PROVE late[i] >= n.changed
    BY <1>1, <1>4, <1>5, <2>2 DEF InOrder
  <2>. QED  BY <2>1, <2>2 DEF InOrder
<1>7. AreDue(n)
  <2>1. ASSUME NEW i \in Fallen(r.unloaded) PROVE late[i] # 0
    BY <1>2, <1>3, <1>5, <2>1
  <2>. QED  BY <1>1, <2>1 DEF AreDue
<1>8. Declined(n)
  <2>1. ASSUME NEW i \in 1 .. 4, late[i] # 0, late[i] = late[i + 1], late[i] # n.changed PROVE n.decline
    <3>1. i \in 1 .. 5 /\ i + 1 \in 1 .. 5 /\ i # i + 1
      OBVIOUS
    <3>2. CASE i \in S /\ i + 1 \in S
      <4>1. late[i] = time /\ ~changed
        BY <1>1, <1>5, <2>1, <3>1, <3>2
      <4>2. Cardinality(S) > 1
        BY <1>2, <3>1, <3>2, TwoOf
      <4>. QED  BY <1>1, <4>1, <4>2
    <3>3. CASE i \notin S /\ i + 1 \notin S
      BY <1>1, <1>5, <2>1, <3>1, <3>3 DEF Declined
    <3>4. CASE ~(i \in S /\ i + 1 \in S) /\ ~(i \notin S /\ i + 1 \notin S)
      <4>1. late[i] # late[i + 1]
        BY <1>4, <1>5, <3>1, <3>4
      <4>. QED  BY <2>1, <4>1
    <3>. QED  BY <3>2, <3>3, <3>4
  <2>. QED  BY <2>1 DEF Declined
<1>9. n.changed <= time /\ \A i \in 1 .. 5 : late[i] <= time
  BY <1>1, <1>4, <1>5
<1>. QED  BY <1>6, <1>7, <1>8, <1>9 DEF MilesRight, n

\* What a report does to the milestones: it is noted, or counted as a jump, or left.
NotedFrom(base, r, changed, importing) ==
    /\ \/ base = miles /\ ~changed
       \/ base = Renewed(miles, r) /\ changed
    /\ miles' = Marked(base, r, changed)
    /\ batteryJobs' = batteryJobs \o (IF importing THEN <<>> ELSE <<"status">>) \o (IF importing THEN <<>> ELSE <<"miles">>)
    /\ LET event == IF importing THEN NoEvent
                    ELSE IF Reached(base, r) # {} THEN LowestLevel(Reached(base, r))
                    ELSE IF changed THEN Replaced ELSE NoEvent
       IN  news' = IF event = NoEvent THEN news ELSE [event |-> event, report |-> r.time]

\* A report is noted, or counts a jump, or only its status is kept.
LEMMA ReportDoes ==
    ASSUME BatteryAssumption, NEW u \in Volts, NEW sag \in Sags, Report(u, sag), BatteryTypes
    PROVE  \E r \in Reports, importing \in BOOLEAN :
              /\ status' = r /\ r.time = reports + 1 /\ reports' = reports + 1 /\ importing = (stage = "imported")
              /\ early' = (early \/ stage # "valid") /\ UNCHANGED <<stage, disk, restarts>>
              /\ \/ \E base, changed : changed \in BOOLEAN /\ NotedFrom(base, r, changed, importing)
                 \/ /\ miles' = [miles EXCEPT !.jumps = miles.jumps + 1] /\ news' = news
                    /\ batteryJobs' = batteryJobs \o (IF importing THEN <<>> ELSE <<"status">>)
                                      \o (IF importing THEN <<>> ELSE <<"jumps">>)
                 \/ /\ miles' = miles /\ news' = news
                    /\ batteryJobs' = batteryJobs \o (IF importing THEN <<>> ELSE <<"status">>) \o <<>>
<1>. DEFINE r == [unloaded |-> u, loaded |-> u - sag, time |-> reports + 1]
            importing == stage = "imported"
            done == Updated(status, r, importing)
            rise == r.unloaded > miles.good.unloaded \/ r.loaded > miles.good.loaded
            changed == miles.first \/ (rise /\ IsBatteriesChanged(r.unloaded, status.unloaded))
            jump == rise /\ IsLargeVoltageJump(r.unloaded, status.unloaded)
            base == IF changed THEN Renewed(miles, r) ELSE miles
<1>1. r \in Reports /\ r.time = reports + 1
  BY DEF BatteryAssumption, BatteryTypes, Reports
<1>2. /\ status' = r /\ reports' = reports + 1 /\ miles' = done.miles
      /\ news' = (IF done.event = NoEvent THEN news ELSE [event |-> done.event, report |-> r.time])
      /\ batteryJobs' = batteryJobs \o (IF importing THEN <<>> ELSE <<"status">>) \o done.jobs
      /\ early' = (early \/ stage # "valid") /\ UNCHANGED <<stage, disk, restarts>>
  BY DEF Report
<1>3. changed \in BOOLEAN /\ importing \in BOOLEAN
  BY DEF BatteryTypes, Milestones
<1>4. CASE changed \/ ~rise
  <2>1. done = [miles |-> Marked(base, r, changed),
                event |-> IF importing THEN NoEvent
                          ELSE IF Reached(base, r) # {} THEN LowestLevel(Reached(base, r))
                          ELSE IF changed THEN Replaced ELSE NoEvent,
                jobs |-> IF importing THEN <<>> ELSE <<"miles">>]
    BY <1>4 DEF Updated
  <2>2. \/ base = miles /\ ~changed
        \/ base = Renewed(miles, r) /\ changed
    OBVIOUS
  <2>. HIDE DEF changed, base, r, importing, done
  <2>3. NotedFrom(base, r, changed, importing)
    BY <1>2, <2>1, <2>2 DEF NotedFrom
  <2>. QED  BY <1>1, <1>2, <1>3, <2>3 DEF importing
<1>5. CASE ~changed /\ rise /\ jump
  <2>1. done = [miles |-> [miles EXCEPT !.jumps = miles.jumps + 1], event |-> NoEvent,
                jobs |-> IF importing THEN <<>> ELSE <<"jumps">>]
    BY <1>5 DEF Updated
  <2>. HIDE DEF changed, base, r, importing, done
  <2>. QED  BY <1>1, <1>2, <1>3, <2>1 DEF importing
<1>6. CASE ~changed /\ rise /\ ~jump
  <2>1. done = [miles |-> miles, event |-> NoEvent, jobs |-> <<>>]
    BY <1>6 DEF Updated
  <2>. HIDE DEF changed, base, r, importing, done
  <2>. QED  BY <1>1, <1>2, <1>3, <2>1 DEF importing
<1>. QED  BY <1>4, <1>5, <1>6

\* The milestones of new batteries.
LEMMA RenewedIs ==
    ASSUME NEW m \in Milestones, NEW r \in Reports
    PROVE  /\ Renewed(m, r) \in Milestones /\ Renewed(m, r).changed = r.time
           /\ \A i \in 1 .. 5 : Renewed(m, r).at[i] = 0
<1>. DEFINE at == [i \in 1 .. 5 |-> 0]
            n == [m EXCEPT !.first = FALSE, !.changed = r.time, !.at = at, !.jumps = 0, !.decline = FALSE]
<1>1. at \in [1 .. 5 -> Nat] /\ \A i \in 1 .. 5 : at[i] = 0
  OBVIOUS
<1>2. Renewed(m, r) = n /\ r.time \in Nat
  BY DEF Renewed, Reports
<1>. HIDE DEF at
<1>3. n \in Milestones /\ n.changed = r.time /\ n.at = at
  BY <1>1, <1>2 DEF Milestones
<1>. QED  BY <1>1, <1>2, <1>3

LastFor(m) ==
    LET S == {i \in 1 .. 5 : m.at[i] # 0} IN
    IF S # {} THEN LowestLevel(S) ELSE IF m.changed # 0 THEN Replaced ELSE NoEvent

\* The event that was last is that of the milestones.
LEMMA LastIs == LastBatteryEvent = LastFor(miles)
BY DEF LastBatteryEvent, LastFor

\* A report leaves the milestones right, and tells the event.
LEMMA NotedKeeps ==
    ASSUME BatteryAssumption, BatteryTypes, MilesRight(miles, reports), NEW r \in Reports, r.time = reports + 1,
           NEW base, NEW changed \in BOOLEAN, NEW importing \in BOOLEAN, NotedFrom(base, r, changed, importing)
    PROVE  /\ miles' \in Milestones /\ MilesRight(miles', r.time)
           /\ ~importing /\ news.event = LastFor(miles) => news'.event = LastFor(miles')
<1>1. base \in Milestones /\ InOrder(base) /\ Declined(base) /\ base.changed <= r.time
      /\ (changed => base.changed = r.time) /\ (changed => \A i \in 1 .. 5 : base.at[i] = 0)
      /\ (~changed => base = miles) /\ \A i \in 1 .. 5 : base.at[i] < r.time
  <2>1. CASE base = miles /\ ~changed
    <3>1. miles.at \in [1 .. 5 -> Nat] /\ miles.changed \in Nat /\ reports \in Nat
      BY DEF BatteryTypes, Milestones
    <3>2. miles \in Milestones /\ base = miles /\ r.time = reports + 1
      BY <2>1 DEF BatteryTypes
    <3>3. InOrder(miles) /\ Declined(miles) /\ miles.changed <= reports /\ \A i \in 1 .. 5 : miles.at[i] <= reports
      BY DEF MilesRight
    <3>4. miles.changed <= r.time  BY <3>1, <3>2, <3>3
    <3>5. \A i \in 1 .. 5 : miles.at[i] < r.time
      <4>. TAKE i \in 1 .. 5
      <4>1. miles.at[i] \in Nat /\ miles.at[i] <= reports  BY <3>1, <3>3
      <4>. QED  BY <4>1, <3>1, <3>2
    <3>. QED  BY <2>1, <3>2, <3>3, <3>4, <3>5
  <2>2. CASE base = Renewed(miles, r) /\ changed
    <3>1. base \in Milestones /\ base.changed = r.time /\ \A i \in 1 .. 5 : base.at[i] = 0
      BY <2>2, RenewedIs DEF BatteryTypes
    <3>2. r.time > 0 /\ r.time \in Nat
      BY DEF BatteryTypes
    <3>3. InOrder(base) /\ Declined(base)
      BY <3>1 DEF InOrder, Declined
    <3>. QED  BY <2>2, <3>1, <3>2, <3>3
  <2>. QED  BY <2>1, <2>2 DEF NotedFrom
<1>2. r.time # 0 /\ r.time \in Nat
  BY DEF BatteryTypes
<1>3. MilesRight(Marked(base, r, changed), r.time)
  BY <1>1, <1>2, MarkedRight
<1>. DEFINE S == Reached(base, r)
            T == {i \in 1 .. 5 : miles'.at[i] # 0}
<1>4. /\ miles' \in Milestones /\ miles'.changed = base.changed
      /\ \A i \in 1 .. 5 : miles'.at[i] = IF i \in S THEN r.time ELSE base.at[i]
      /\ miles' = Marked(base, r, changed)
  BY <1>1, MarkedIs DEF NotedFrom, MarkedAs
<1>5. /\ S \in SUBSET (1 .. 5)
      /\ \A i \in S : base.at[i] = 0 /\ \A j \in 1 .. 5 : base.at[j] # 0 => j < i
  BY <1>1, ReachedIs
<1>6. ASSUME ~importing, news.event = LastFor(miles) PROVE news'.event = LastFor(miles')
  <2>1. LastFor(miles') = IF T # {} THEN LowestLevel(T) ELSE IF miles'.changed # 0 THEN Replaced ELSE NoEvent
    BY DEF LastFor
  <2>2. CASE S # {}
    <3>. DEFINE e == LowestLevel(S)
    <3>1. e \in S /\ \A j \in S : j <= e
      BY <1>5, <2>2, LowestIs
    <3>2. news' = IF e = NoEvent THEN news ELSE [event |-> e, report |-> r.time]
      BY <1>6, <2>2 DEF NotedFrom
    <3>. HIDE DEF e, S
    <3>3. e \in 1 .. 5 /\ e # NoEvent
      BY <1>5, <3>1 DEF NoEvent
    <3>4. T \in SUBSET (1 .. 5) /\ e \in T /\ \A j \in T : j <= e
      <4>1. ASSUME NEW j \in T PROVE j <= e
        <5>1. j \in 1 .. 5 /\ (j \in S \/ base.at[j] # 0)
          BY <1>4, <4>1
        <5>. QED  BY <1>5, <3>1, <3>3, <5>1
      <4>. QED  BY <1>2, <1>4, <3>1, <3>3, <4>1
    <3>. HIDE DEF T
    <3>5. LowestLevel(T) = e
      BY <3>4, LowestUnique
    <3>. QED  BY <2>1, <3>2, <3>3, <3>4, <3>5
  <2>3. CASE S = {} /\ changed
    <3>1. news' = [event |-> Replaced, report |-> r.time]
      BY <1>6, <2>3 DEF NotedFrom, NoEvent, Replaced
    <3>2. T = {} /\ miles'.changed # 0
      BY <1>1, <1>2, <1>4, <2>3
    <3>. QED  BY <2>1, <3>1, <3>2
  <2>4. CASE S = {} /\ ~changed
    <3>1. news' = news
      BY <1>6, <2>4 DEF NotedFrom
    <3>2. T = {i \in 1 .. 5 : miles.at[i] # 0} /\ miles'.changed = miles.changed
      BY <1>1, <1>4, <2>4
    <3>. QED  BY <1>6, <2>1, <3>1, <3>2 DEF LastFor
  <2>. QED  BY <2>2, <2>3, <2>4
<1>. QED  BY <1>3, <1>4, <1>6

-----------------------------------------------------------------------------
(* The database thread.                                                    *)

\* Two jobs that come are done after the others.
LEMMA JobsCome ==
    ASSUME NEW M, NEW q \in Seq(M), NEW a \in M, NEW b \in M
    PROVE  /\ q \o <<a>> \o <<b>> \in Seq(M)
           /\ \A x : (\E i \in 1 .. Len(q \o <<a>> \o <<b>>) : (q \o <<a>> \o <<b>>)[i] = x)
                     <=> (\E i \in 1 .. Len(q) : q[i] = x) \/ x = a \/ x = b
           /\ q # <<>> => (q \o <<a>> \o <<b>>)[1] = q[1]
           /\ q \o <<a>> \o <<b>> # <<>>
<1>. DEFINE p == q \o <<a>> \o <<b>>
            n == Len(q)
<1>1. n \in Nat /\ p \in Seq(M) /\ Len(p) = n + 2 /\ p[n + 1] = a /\ p[n + 2] = b /\ \A i \in 1 .. n : p[i] = q[i]
  OBVIOUS
<1>2. q # <<>> => 1 \in 1 .. n
  OBVIOUS
<1>3. p # <<>>
  OBVIOUS
<1>. HIDE DEF p
<1>4. \A i \in 1 .. Len(p) : i \in 1 .. n \/ i = n + 1 \/ i = n + 2
  BY <1>1
<1>5. n + 1 \in 1 .. Len(p) /\ n + 2 \in 1 .. Len(p) /\ \A i \in 1 .. n : i \in 1 .. Len(p)
  BY <1>1
<1>6. ASSUME NEW x PROVE (\E i \in 1 .. Len(p) : p[i] = x) <=> (\E i \in 1 .. n : q[i] = x) \/ x = a \/ x = b
  BY <1>1, <1>4, <1>5
<1>. QED  BY <1>1, <1>2, <1>3, <1>6 DEF p

\* A job is done, the others are left.
LEMMA JobDone ==
    ASSUME NEW M, NEW q \in Seq(M), q # <<>>
    PROVE  /\ Tail(q) \in Seq(M) /\ Head(q) \in M /\ Head(q) = q[1]
           /\ \A x : (\E i \in 1 .. Len(q) : q[i] = x) => x = Head(q) \/ \E i \in 1 .. Len(Tail(q)) : Tail(q)[i] = x
<1>1. /\ Tail(q) \in Seq(M) /\ Len(Tail(q)) = Len(q) - 1 /\ Len(q) \in Nat /\ Head(q) = q[1] /\ Head(q) \in M
      /\ \A i \in 1 .. Len(Tail(q)) : Tail(q)[i] = q[i + 1]
  OBVIOUS
<1>2. ASSUME NEW i \in 1 .. Len(q), i # 1 PROVE i - 1 \in 1 .. Len(Tail(q)) /\ Tail(q)[i - 1] = q[i]
  <2>1. i - 1 \in 1 .. Len(Tail(q)) /\ (i - 1) + 1 = i
    BY <1>1, <1>2
  <2>. QED  BY <1>1, <2>1
<1>. QED  BY <1>1, <1>2

-----------------------------------------------------------------------------
(* The steps.                                                              *)

\* The jobs that write to the table.
Jobs == {"create", "status", "miles", "jumps"}

\* What is right until a report is right until the next.
LEMMA RightLater ==
    ASSUME NEW m \in Milestones, NEW k \in Nat, MilesRight(m, k)
    PROVE  MilesRight(m, k + 1)
<1>1. m.at \in [1 .. 5 -> Nat] /\ m.changed \in Nat
  BY DEF Milestones
<1>2. InOrder(m) /\ AreDue(m) /\ Declined(m) /\ m.changed <= k /\ \A i \in 1 .. 5 : m.at[i] <= k
  BY DEF MilesRight
<1>3. \A n \in Nat : n <= k => n <= k + 1
  OBVIOUS
<1>4. \A i \in 1 .. 5 : m.at[i] \in Nat
  BY <1>1
<1>. QED  BY <1>1, <1>2, <1>3, <1>4 DEF MilesRight

\* A report.
LEMMA ReportKeeps ==
    ASSUME BatteryAssumption, BatteryInv, NEW u \in Volts, NEW sag \in Sags, Report(u, sag)
    PROVE  BatteryInv'
<1>. BatteryTypes /\ MilesRight(miles, reports)
  BY DEF BatteryInv
<1>1. PICK r \in Reports, importing \in BOOLEAN :
          /\ status' = r /\ r.time = reports + 1 /\ reports' = reports + 1 /\ importing = (stage = "imported")
          /\ early' = (early \/ stage # "valid") /\ UNCHANGED <<stage, disk, restarts>>
          /\ \/ \E base, changed : changed \in BOOLEAN /\ NotedFrom(base, r, changed, importing)
             \/ /\ miles' = [miles EXCEPT !.jumps = miles.jumps + 1] /\ news' = news
                /\ batteryJobs' = batteryJobs \o (IF importing THEN <<>> ELSE <<"status">>)
                                  \o (IF importing THEN <<>> ELSE <<"jumps">>)
             \/ /\ miles' = miles /\ news' = news
                /\ batteryJobs' = batteryJobs \o (IF importing THEN <<>> ELSE <<"status">>) \o <<>>
  BY ReportDoes
<1>2. early' \in BOOLEAN /\ (early' = FALSE => ~early /\ stage = "valid" /\ ~importing)
  BY <1>1 DEF BatteryTypes
<1>3. disk.has.miles # <<>> => MilesRight(disk.has.miles[1], reports')
  <2>1. ASSUME NEW m \in Milestones, MilesRight(m, reports) PROVE MilesRight(m, reports')
    <3>1. reports \in Nat /\ reports' = reports + 1
      BY <1>1 DEF BatteryTypes
    <3>. QED  BY <2>1, <3>1, RightLater
  <2>2. disk.has.miles \in Seq(Milestones) /\ (disk.has.miles # <<>> => disk.has.miles[1] \in Milestones)
    BY DEF BatteryTypes, Tables
  <2>. QED  BY <2>1, <2>2 DEF BatteryInv
\* The jobs that come.
<1>4. ASSUME NEW name \in Jobs, batteryJobs' = batteryJobs \o (IF importing THEN <<>> ELSE <<"status">>)
                                               \o (IF importing THEN <<>> ELSE <<name>>)
      PROVE  /\ batteryJobs' \in Seq(Jobs)
             /\ ~importing => /\ Written(name)' /\ batteryJobs' # <<>>
                              /\ Written("miles") => Written("miles")'
                              /\ Written("jumps") => Written("jumps")'
                              /\ batteryJobs # <<>> => batteryJobs'[1] = batteryJobs[1]
  <2>1. batteryJobs \in Seq(Jobs) /\ "status" \in Jobs
    BY DEF BatteryTypes, Jobs
  <2>2. CASE importing
    BY <1>4, <2>1, <2>2
  <2>3. CASE ~importing
    <3>1. batteryJobs' = batteryJobs \o <<"status">> \o <<name>>
      BY <1>4, <2>3
    <3>. DEFINE p == batteryJobs \o <<"status">> \o <<name>>
    <3>2. /\ p \in Seq(Jobs)
          /\ \A x : (\E i \in 1 .. Len(p) : p[i] = x)
                    <=> (\E i \in 1 .. Len(batteryJobs) : batteryJobs[i] = x) \/ x = "status" \/ x = name
          /\ batteryJobs # <<>> => p[1] = batteryJobs[1]
          /\ p # <<>>
      BY <2>1, JobsCome
    <3>3. batteryJobs' = p
      BY <3>1
    <3>. HIDE DEF p
    <3>4. \A x : Written(x)' <=> Written(x) \/ x = "status" \/ x = name
      BY <3>2, <3>3 DEF Written
    <3>. QED  BY <3>2, <3>3, <3>4
  <2>. QED  BY <2>2, <2>3
<1>5. CASE \E base, changed : changed \in BOOLEAN /\ NotedFrom(base, r, changed, importing)
  <2>1. PICK base : \E changed : changed \in BOOLEAN /\ NotedFrom(base, r, changed, importing)
    BY <1>5
  <2>2. PICK changed : changed \in BOOLEAN /\ NotedFrom(base, r, changed, importing)
    BY <2>1
  <2>3. /\ miles' \in Milestones /\ MilesRight(miles', r.time)
        /\ ~importing /\ news.event = LastFor(miles) => news'.event = LastFor(miles')
    BY <1>1, <2>2, NotedKeeps
  <2>4. batteryJobs' = batteryJobs \o (IF importing THEN <<>> ELSE <<"status">>) \o (IF importing THEN <<>> ELSE <<"miles">>)
    BY <2>2 DEF NotedFrom
  <2>5. /\ batteryJobs' \in Seq(Jobs)
        /\ ~importing => /\ Written("miles")' /\ batteryJobs' # <<>>
                         /\ batteryJobs # <<>> => batteryJobs'[1] = batteryJobs[1]
    BY <1>4, <2>4 DEF Jobs
  <2>6. EventIsLast'
    <3>1. LastBatteryEvent' = LastFor(miles')
      BY DEF LastBatteryEvent, LastFor
    <3>. QED  BY <1>1, <1>2, <2>3, <3>1, LastIs DEF BatteryInv, EventIsLast
  <2>7. ~early' => Coming'
    BY <1>1, <1>2, <2>5 DEF BatteryInv, Coming, TableMade
  <2>8. BatteryTypes'
    BY <1>1, <1>2, <2>3, <2>5 DEF BatteryTypes, Jobs
  <2>. QED  BY <1>1, <1>3, <2>3, <2>6, <2>7, <2>8 DEF BatteryInv
<1>6. CASE \/ /\ miles' = [miles EXCEPT !.jumps = miles.jumps + 1] /\ news' = news
              /\ batteryJobs' = batteryJobs \o (IF importing THEN <<>> ELSE <<"status">>)
                                \o (IF importing THEN <<>> ELSE <<"jumps">>)
           \/ /\ miles' = miles /\ news' = news
              /\ batteryJobs' = batteryJobs \o (IF importing THEN <<>> ELSE <<"status">>) \o <<>>
  <2>1. /\ miles' \in Milestones /\ miles'.changed = miles.changed /\ miles'.at = miles.at
        /\ miles'.decline = miles.decline /\ miles'.good = miles.good
    <3>1. miles \in Milestones /\ miles.jumps + 1 \in Nat
      BY DEF BatteryTypes, Milestones
    <3>2. CASE miles' = miles
      BY <3>1, <3>2
    <3>3. CASE miles' = [miles EXCEPT !.jumps = miles.jumps + 1]
      <4>. DEFINE x == miles.jumps + 1
      <4>1. x \in Nat /\ miles' = [miles EXCEPT !.jumps = x]
        BY <3>1, <3>3
      <4>. HIDE DEF x
      <4>. QED  BY <3>1, <4>1 DEF Milestones
    <3>. QED  BY <1>6, <3>2, <3>3
  <2>2. /\ batteryJobs' \in Seq(Jobs)
        /\ ~importing => /\ batteryJobs' # <<>> /\ (Written("miles") => Written("miles")')
                         /\ Written("jumps") => Written("jumps")'
                         /\ batteryJobs # <<>> => batteryJobs'[1] = batteryJobs[1]
                         /\ Written("jumps")' \/ miles'.jumps = miles.jumps
    <3>1. CASE batteryJobs' = batteryJobs \o (IF importing THEN <<>> ELSE <<"status">>) \o (IF importing THEN <<>> ELSE <<"jumps">>)
      BY <1>4, <3>1 DEF Jobs
    <3>2. CASE miles' = miles /\ batteryJobs' = batteryJobs \o (IF importing THEN <<>> ELSE <<"status">>) \o <<>>
      <4>1. batteryJobs \in Seq(Jobs) /\ "status" \in Jobs
        BY DEF BatteryTypes, Jobs
      <4>2. CASE importing
        BY <3>2, <4>1, <4>2
      <4>3. CASE ~importing
        <5>1. batteryJobs' = Append(batteryJobs, "status")
          BY <3>2, <4>1, <4>3
        <5>. HIDE DEF Jobs
        <5>2. /\ batteryJobs' \in Seq(Jobs) /\ Len(batteryJobs') = Len(batteryJobs) + 1 /\ Len(batteryJobs) \in Nat
              /\ \A i \in 1 .. Len(batteryJobs) : batteryJobs'[i] = batteryJobs[i]
              /\ batteryJobs' # <<>> /\ (batteryJobs # <<>> => 1 \in 1 .. Len(batteryJobs))
          BY <4>1, <5>1
        <5>3. \A i \in 1 .. Len(batteryJobs) : i \in 1 .. Len(batteryJobs')
          BY <5>2
        <5>. QED  BY <3>2, <5>2, <5>3 DEF Written
      <4>. QED  BY <4>2, <4>3
    <3>. QED  BY <1>6, <3>1, <3>2
  <2>3. MilesRight(miles', reports')
    <3>1. miles \in Milestones /\ reports \in Nat /\ reports' = reports + 1 /\ MilesRight(miles, reports)
      BY <1>1 DEF BatteryTypes, BatteryInv
    <3>2. MilesRight(miles, reports')
      BY <3>1, RightLater
    <3>. QED  BY <2>1, <3>2 DEF MilesRight, InOrder, AreDue, Declined
  <2>4. EventIsLast'
    <3>1. LastBatteryEvent' = LastBatteryEvent
      BY <2>1 DEF LastBatteryEvent
    <3>. QED  BY <1>1, <1>2, <1>6, <3>1 DEF BatteryInv, EventIsLast
  <2>5. ~early' => Coming'
    <3>1. TableHas(miles, disk.has) => TableHas(miles', disk.has)
      BY <2>1 DEF TableHas
    <3>. QED  BY <1>1, <1>2, <2>2, <3>1 DEF BatteryInv, Coming, TableMade
  <2>6. BatteryTypes'
    BY <1>1, <1>2, <2>1, <2>2 DEF BatteryTypes, Jobs
  <2>. QED  BY <1>1, <1>3, <2>3, <2>4, <2>5, <2>6 DEF BatteryInv
<1>. QED  BY <1>1, <1>5, <1>6

\* The validation, by which the table comes.
LEMMA ValidatedKeeps == BatteryInv /\ BatteryValidated => BatteryInv'
<1>. SUFFICES ASSUME BatteryInv, BatteryValidated PROVE BatteryInv'
  OBVIOUS
<1>1. /\ stage # "valid" /\ stage' = "valid" /\ batteryJobs' = batteryJobs \o <<"create", "status">>
      /\ UNCHANGED <<status, miles, news, disk, reports, restarts, early>>
  BY DEF BatteryValidated
<1>2. BatteryTypes'
  BY <1>1 DEF BatteryInv, BatteryTypes
<1>3. ~early => Coming'
  <2>1. ASSUME ~early PROVE TableMade'
    <3>1. batteryJobs = <<>> /\ disk.has = EmptyTable /\ miles.jumps = 0 /\ TableHas(miles, EmptyTable)
      BY <1>1, <2>1 DEF BatteryInv, Coming, TableComes
    <3>2. batteryJobs' # <<>> /\ batteryJobs'[1] = "create"
      BY <1>1, <3>1
    <3>. QED  BY <1>1, <3>1, <3>2 DEF TableMade, EmptyTable
  <2>. QED  BY <1>1, <2>1 DEF Coming
<1>. QED  BY <1>1, <1>2, <1>3 DEF BatteryInv, EventIsLast, LastBatteryEvent

\* What the database thread has written.
LEMMA TableWritesKeep == BatteryInv /\ DatabaseWrites => BatteryInv'
<1>. SUFFICES ASSUME BatteryInv, DatabaseWrites PROVE BatteryInv'
  OBVIOUS
<1>. BatteryTypes
  BY DEF BatteryInv
<1>. DEFINE job == Head(batteryJobs)
<1>1. /\ batteryJobs # <<>> /\ batteryJobs' = Tail(batteryJobs)
      /\ UNCHANGED <<stage, status, miles, news, reports, restarts, early>>
  BY DEF DatabaseWrites
<1>2. /\ batteryJobs' \in Seq(Jobs) /\ job \in Jobs /\ job = batteryJobs[1]
      /\ \A x : Written(x) => x = job \/ Written(x)'
  <2>1. batteryJobs \in Seq(Jobs)
    BY DEF BatteryTypes, Jobs
  <2>. QED  BY <1>1, <2>1, JobDone DEF Written
<1>3. \/ job = "create" /\ ~disk.there /\ disk' = [there |-> TRUE, has |-> EmptyTable]
      \/ job = "create" /\ disk.there /\ disk' = disk
      \/ job = "status" /\ disk.there /\ disk' = [disk EXCEPT !.has.status = <<status>>]
      \/ job = "miles" /\ disk.there /\ disk' = [disk EXCEPT !.has.miles = <<miles>>, !.has.jumps = miles.jumps]
      \/ job = "jumps" /\ disk.there /\ disk' = [disk EXCEPT !.has.jumps = miles.jumps]
      \/ job # "create" /\ ~disk.there /\ disk' = disk
  BY <1>2 DEF DatabaseWrites, Jobs
<1>. HIDE DEF job
<1>4. /\ disk' \in [there : BOOLEAN, has : Tables] /\ (disk.there => disk'.there)
      /\ job = "create" => disk'.there
      /\ job = "miles" /\ disk.there => disk'.has.miles = <<miles>> /\ disk'.has.jumps = miles.jumps
      /\ job = "jumps" /\ disk.there => disk'.has.jumps = miles.jumps /\ disk'.has.miles = disk.has.miles
      /\ job = "status" /\ disk.there => disk'.has.jumps = disk.has.jumps /\ disk'.has.miles = disk.has.miles
      /\ job = "create" /\ ~disk.there => disk'.has = EmptyTable
      /\ job = "create" /\ disk.there => disk' = disk
      /\ disk'.has.miles \in {disk.has.miles, <<miles>>, <<>>}
  <2>1. <<status>> \in Seq(Reports) /\ <<miles>> \in Seq(Milestones) /\ miles.jumps \in Nat
    BY DEF BatteryTypes, Milestones
  <2>2. EmptyTable \in Tables /\ EmptyTable.miles = <<>>
    BY DEF EmptyTable, Tables
  <2>3. CASE job = "create" /\ ~disk.there /\ disk' = [there |-> TRUE, has |-> EmptyTable]
    BY <2>2, <2>3
  <2>4. CASE job = "status" /\ disk.there /\ disk' = [disk EXCEPT !.has.status = <<status>>]
    <3>. DEFINE x == <<status>>
    <3>. HIDE DEF x
    <3>1. disk' = [disk EXCEPT !.has.status = x] /\ x \in Seq(Reports)
      BY <2>1, <2>4 DEF x
    <3>. QED  BY <2>4, <3>1 DEF BatteryTypes, Tables
  <2>5. CASE job = "miles" /\ disk.there /\ disk' = [disk EXCEPT !.has.miles = <<miles>>, !.has.jumps = miles.jumps]
    <3>. DEFINE x == <<miles>>
    <3>. HIDE DEF x
    <3>1. disk' = [disk EXCEPT !.has.miles = x, !.has.jumps = miles.jumps] /\ x \in Seq(Milestones)
      BY <2>1, <2>5 DEF x
    <3>2. disk' \in [there : BOOLEAN, has : Tables] /\ disk'.there = disk.there /\ disk'.has.miles = x
          /\ disk'.has.jumps = miles.jumps
      BY <2>1, <3>1 DEF BatteryTypes, Tables
    <3>. QED  BY <2>5, <3>2 DEF x
  <2>6. CASE job = "jumps" /\ disk.there /\ disk' = [disk EXCEPT !.has.jumps = miles.jumps]
    BY <2>1, <2>6 DEF BatteryTypes, Tables
  <2>7. CASE \/ job = "create" /\ disk.there /\ disk' = disk
             \/ job # "create" /\ ~disk.there /\ disk' = disk
    BY <2>7 DEF BatteryTypes
  <2>. QED  BY <1>3, <2>3, <2>4, <2>5, <2>6, <2>7
<1>5. BatteryTypes'
  BY <1>1, <1>2, <1>4 DEF BatteryTypes, Jobs
<1>6. disk'.has.miles # <<>> => MilesRight(disk'.has.miles[1], reports')
  <2>1. CASE disk'.has.miles = <<miles>>
    <3>1. <<miles>>[1] = miles
      OBVIOUS
    <3>. QED  BY <1>1, <2>1, <3>1 DEF BatteryInv
  <2>2. CASE disk'.has.miles = disk.has.miles
    BY <1>1, <2>2 DEF BatteryInv
  <2>. QED  BY <1>4, <2>1, <2>2
<1>7. ~early => Coming'
  <2>1. ASSUME ~early PROVE stage = "valid" /\ TableMade'
    <3>1. stage = "valid" /\ TableMade
      BY <1>1, <2>1 DEF BatteryInv, Coming, TableComes
    <3>2. disk'.there
      BY <1>2, <1>4, <3>1 DEF TableMade
    <3>3. ~disk.there => job = "create" /\ disk.has = EmptyTable
      BY <1>2, <3>1 DEF TableMade
    <3>4. Written("miles")' \/ TableHas(miles, disk'.has)
      <4>1. CASE job = "miles"
        <5>1. disk'.has.miles = <<miles>> /\ <<miles>> # <<>> /\ <<miles>>[1] = miles
          BY <1>4, <3>3, <4>1
        <5>. QED  BY <5>1 DEF TableHas
      <4>2. CASE job # "miles"
        <5>1. disk'.has.miles = disk.has.miles
          BY <1>2, <1>4, <3>3, <4>2 DEF Jobs
        <5>. QED  BY <1>2, <3>1, <4>2, <5>1 DEF TableMade, TableHas
      <4>. QED  BY <4>1, <4>2
    <3>5. Written("miles")' \/ Written("jumps")' \/ miles.jumps = disk'.has.jumps
      <4>1. CASE job = "miles" \/ job = "jumps"
        BY <1>4, <3>3, <4>1
      <4>2. CASE job # "miles" /\ job # "jumps"
        <5>1. disk'.has.jumps = disk.has.jumps
          BY <1>2, <1>4, <3>3, <4>2 DEF Jobs
        <5>. QED  BY <1>2, <3>1, <4>2, <5>1 DEF TableMade
      <4>. QED  BY <4>1, <4>2
    <3>. QED  BY <1>1, <3>1, <3>2, <3>4, <3>5 DEF TableMade
  <2>. QED  BY <1>1, <2>1 DEF Coming
<1>. QED  BY <1>1, <1>5, <1>6, <1>7 DEF BatteryInv, EventIsLast, LastBatteryEvent

\* What a start reads.
LEMMA LoadedIs ==
    ASSUME BatteryInv
    PROVE  /\ LoadedStatus \in Reports /\ LoadedMilestones \in Milestones
           /\ MilesRight(LoadedMilestones, reports)
           /\ TableHas(LoadedMilestones, disk.has) /\ LoadedMilestones.jumps = disk.has.jumps
<1>. BatteryTypes
  BY DEF BatteryInv
<1>1. LoadedStatus \in Reports
  <2>1. disk.has.status \in Seq(Reports) /\ NoStatus \in Reports
    BY DEF BatteryTypes, Tables, NoStatus, Reports
  <2>2. disk.has.status # <<>> => disk.has.status[1] \in Reports
    BY <2>1
  <2>. QED  BY <2>1, <2>2 DEF LoadedStatus
<1>. DEFINE none == [NoMilestones EXCEPT !.good = LoadedStatus]
            m == IF disk.has.miles # <<>> THEN disk.has.miles[1] ELSE none
            n == LoadedMilestones
<1>2. none \in Milestones /\ none.changed = 0 /\ none.at = NoMilestones.at /\ none.decline = FALSE
      /\ \A i \in 1 .. 5 : none.at[i] = 0
  BY <1>1 DEF NoMilestones, Milestones, Reports
<1>3. disk.has.jumps \in Nat /\ disk.has.miles \in Seq(Milestones) /\ reports \in Nat
  BY DEF BatteryTypes, Tables
<1>4. disk.has.miles # <<>> => disk.has.miles[1] \in Milestones
  BY <1>3
<1>. DEFINE first == LoadedStatus.time = 0
<1>5. n = [m EXCEPT !.first = first, !.jumps = disk.has.jumps] /\ first \in BOOLEAN
  BY DEF LoadedMilestones
<1>. HIDE DEF none, first, n
<1>6. m \in Milestones /\ (disk.has.miles = <<>> => m = none) /\ (disk.has.miles # <<>> => m = disk.has.miles[1])
  BY <1>2, <1>4
<1>7. MilesRight(m, reports)
  <2>1. CASE disk.has.miles = <<>>
    <3>1. MilesRight(none, reports)
      BY <1>2, <1>3 DEF MilesRight, InOrder, AreDue, Declined
    <3>. QED  BY <1>6, <2>1, <3>1
  <2>2. CASE disk.has.miles # <<>>
    BY <1>6, <2>2 DEF BatteryInv
  <2>. QED  BY <2>1, <2>2
<1>. HIDE DEF m
<1>8. /\ n \in Milestones /\ n.changed = m.changed /\ n.at = m.at /\ n.decline = m.decline /\ n.good = m.good
      /\ n.jumps = disk.has.jumps
  BY <1>3, <1>5, <1>6 DEF Milestones
<1>9. MilesRight(n, reports)
  BY <1>7, <1>8 DEF MilesRight, InOrder, AreDue, Declined
<1>10. TableHas(n, disk.has)
  BY <1>2, <1>6, <1>8 DEF TableHas
<1>. QED  BY <1>1, <1>8, <1>9, <1>10 DEF n

\* The program starts again.
LEMMA StartsKeep == BatteryInv /\ BatteryRestart => BatteryInv'
<1>. SUFFICES ASSUME BatteryInv, BatteryRestart PROVE BatteryInv'
  OBVIOUS
<1>1. /\ restarts' = restarts + 1 /\ disk.there /\ stage' = "valid" /\ batteryJobs' = <<>>
      /\ status' = LoadedStatus /\ miles' = LoadedMilestones /\ UNCHANGED <<disk, reports, early>>
  BY DEF BatteryRestart
<1>2. BatteryTypes'
  BY <1>1, LoadedIs DEF BatteryInv, BatteryTypes
<1>3. EventIsLast'
  BY <1>1 DEF BatteryInv, BatteryTypes, EventIsLast
<1>4. Coming'
  BY <1>1, LoadedIs DEF Coming, TableMade
<1>. QED  BY <1>1, <1>2, <1>3, <1>4, LoadedIs DEF BatteryInv

\* The milestones of the battery are told, kept and in order, whatever is reported, on every
\* table that falls with its percentages (battery_status_updated, db_store, db_load).
THEOREM MilestonesHold == ASSUME BatteryAssumption PROVE BatterySpec => []BatterySound
<1>1. BatteryInit => BatteryInv
  <2>. SUFFICES ASSUME BatteryInit PROVE BatteryInv
    OBVIOUS
  <2>1. /\ stage \in {"imported", "pending"} /\ status = NoStatus /\ miles = NoMilestones /\ news = NoNews
        /\ batteryJobs = <<>> /\ disk = [there |-> FALSE, has |-> EmptyTable]
        /\ reports = 0 /\ restarts = 0 /\ early = FALSE
    BY DEF BatteryInit
  <2>2. NoStatus \in Reports /\ EmptyTable \in Tables
    BY DEF NoStatus, Reports, EmptyTable, Tables
  <2>3. /\ NoMilestones \in Milestones /\ NoMilestones.changed = 0 /\ NoMilestones.jumps = 0
        /\ NoMilestones.decline = FALSE /\ \A i \in 1 .. 5 : NoMilestones.at[i] = 0
    BY <2>2 DEF NoMilestones, Milestones
  <2>4. BatteryTypes
    <3>1. <<>> \in Seq({"create", "status", "miles", "jumps"})
      OBVIOUS
    <3>. QED  BY <2>1, <2>2, <2>3, <3>1 DEF BatteryTypes
  <2>5. MilesRight(miles, reports)
    BY <2>1, <2>3 DEF MilesRight, InOrder, AreDue, Declined
  <2>6. disk.has.miles = <<>> /\ EmptyTable.miles = <<>>
    BY <2>1 DEF EmptyTable
  <2>7. LastBatteryEvent = NoEvent
    <3>1. {i \in 1 .. 5 : miles.at[i] # 0} = {}
      BY <2>1, <2>3
    <3>. QED  BY <2>1, <2>3, <3>1 DEF LastBatteryEvent
  <2>8. EventIsLast
    BY <2>1, <2>7 DEF EventIsLast, NoNews
  <2>9. Coming
    BY <2>1, <2>3, <2>6 DEF Coming, TableComes, TableHas
  <2>. QED  BY <2>4, <2>5, <2>6, <2>8, <2>9 DEF BatteryInv
<1>2. BatteryInv /\ [BatteryNext]_batteryVars => BatteryInv'
  <2>1. BatteryInv /\ UNCHANGED batteryVars => BatteryInv'
    BY DEF batteryVars, BatteryInv, BatteryTypes, EventIsLast, LastBatteryEvent, Coming, TableMade, TableComes, Written
  <2>. QED  BY <2>1, ReportKeeps, ValidatedKeeps, TableWritesKeep, StartsKeep DEF BatteryNext
<1>3. BatteryInv => BatterySound
  <2>. SUFFICES ASSUME BatteryInv PROVE BatterySound
    OBVIOUS
  <2>1. BatteryTypes /\ MilesRight(miles, reports) /\ EventIsLast
    BY DEF BatteryInv
  <2>2. MilesInOrder
    <3>1. \A i \in 1 .. 4 : i \in 1 .. 5
      OBVIOUS
    <3>. QED  BY <2>1, <3>1 DEF MilesInOrder, MilesRight, InOrder
  <2>3. MarksAreDue /\ DeclineNoted
    BY <2>1 DEF MarksAreDue, DeclineNoted, MilesRight, AreDue, Declined
  <2>4. MilestonesSurvive
    <3>1. ASSUME stage = "valid", batteryJobs = <<>>, ~early PROVE Marks(LoadedMilestones) = Marks(miles)
      <4>1. \A x : ~Written(x)
        <5>1. \A i \in 1 .. Len(<<>>) : FALSE
          OBVIOUS
        <5>. QED  BY <3>1, <5>1 DEF Written
      <4>2. TableHas(miles, disk.has) /\ miles.jumps = disk.has.jumps
        BY <3>1, <4>1 DEF BatteryInv, Coming, TableMade
      <4>3. TableHas(LoadedMilestones, disk.has) /\ LoadedMilestones.jumps = disk.has.jumps
        BY LoadedIs
      <4>. HIDE DEF LoadedMilestones
      <4>. QED  BY <4>2, <4>3 DEF TableHas, Marks
    <3>. QED  BY <3>1 DEF MilestonesSurvive
  <2>. QED  BY <2>1, <2>2, <2>3, <2>4 DEF BatterySound
<1>. QED  BY <1>1, <1>2, <1>3, PTL DEF BatterySpec

-----------------------------------------------------------------------------
(***************************************************************************)
(* Actions leave in their order, a remote knows how to poll or is told,    *)
(* and its uptime is stored in time, for any remotes, configurations and   *)
(* intervals, and any number of actions, heartbeats and starts.            *)
(***************************************************************************)

\* What is counted is saved at intervals.
PollAssumption ==
    /\ IsFiniteSet(Polled) /\ HbToSave \in Nat \ {0} /\ HbLimit \in Int
    /\ Gaps \subseteq Nat

ActionKinds == {"alert", "configuration", "poll_configuration", "ota", "reboot", "metrics",
          "irrf_status", "none"}
Letters ==
    {m \in [does : {"push", "notify"}, to : SUBSET Polled, action : ActionKinds] :
        m.does = "notify" => m.action = "none"}
Acts == [action : ActionKinds, n : Nat]
Ups == [last : Nat, start : Nat, uptime : Int, privacy : Int, since : Nat]
SavedUps == [last : Nat, start : Nat, uptime : Int, privacy : Int]

PollTypes ==
    /\ DOMAIN pollHeld \subseteq Polled
    /\ DOMAIN inDb = DOMAIN pollHeld /\ DOMAIN up = DOMAIN pollHeld
    /\ DOMAIN box = Polled /\ mail \in Seq(Letters) /\ polls \in [Polled -> Seq(Acts)]
    /\ now \in Nat

\* The actions of a remote are in order, and are numbered by those before them.
Before(a, b) ==
    Priority(a.action) < Priority(b.action) \/ (Priority(a.action) = Priority(b.action) /\ a.n < b.n)
Ordered(q) == \A i, j \in 1 .. Len(q) : i < j => Before(q[i], q[j])
Numbered(q) == \A i \in 1 .. Len(q) : q[i].n < Len(q)

\* What a queue has.
Among(x, q) == \E i \in 1 .. Len(q) : q[i] = x
Notifies(q) == \E m \in Letters : Among(m, q) /\ m.does = "notify"
AsksIn(q, r) == \E m \in Letters : Among(m, q) /\ r \in m.to /\ m.action = "poll_configuration"
ToldBy(q) == \E b \in Acts : Among(b, q) /\ b.action = "poll_configuration"

\* A remote whose copy is h, which read b, when those in T were told or missed it.
KnowsOf(r, h, b, T, q, p, c) ==
    /\ h = c \/ Notifies(q)
    /\ b \in {Nothing, h} \/ r \in T \/ AsksIn(q, r) \/ ToldBy(p)

\* What is counted for a remote, and saved of it.
TimesOf(u, d, t) ==
    /\ u \in Ups /\ d \in SavedUps /\ u.last <= t
    /\ u.since < HbToSave /\ u.last - d.last = u.since
    /\ d.privacy <= d.uptime /\ u.privacy <= u.uptime

PollInv ==
    /\ PollTypes
    /\ \A r \in Polled : Ordered(polls[r]) /\ Numbered(polls[r])
    /\ \A r \in DOMAIN pollHeld :
          KnowsOf(r, pollHeld[r], box[r], pollTold \cup missed, mail, polls[r], Copy(conf))
    /\ \A r \in DOMAIN pollHeld : inDb[r] = [copy |-> pollHeld[r], up |-> inDb[r].up]
    /\ \A r \in DOMAIN pollHeld : TimesOf(up[r], inDb[r].up, now)
    /\ \A r \in Polled \ DOMAIN pollHeld : box[r] = Nothing

-----------------------------------------------------------------------------
\* What an appended, a concatenated and a shortened queue has.
LEMMA AmongAppend ==
    ASSUME NEW S, NEW q \in Seq(S), NEW x \in S
    PROVE  /\ Append(q, x) \in Seq(S) /\ Among(x, Append(q, x))
           /\ \A y : Among(y, q) => Among(y, Append(q, x))
<1>1. /\ Append(q, x) \in Seq(S) /\ Len(Append(q, x)) = Len(q) + 1 /\ Len(q) \in Nat
      /\ \A i \in 1 .. Len(q) : Append(q, x)[i] = q[i]
      /\ Append(q, x)[Len(q) + 1] = x
  BY AppendProperties, LenProperties
<1>2. Len(q) + 1 \in 1 .. Len(q) + 1 /\ \A i \in 1 .. Len(q) : i \in 1 .. Len(q) + 1  BY <1>1
<1>. QED  BY <1>1, <1>2 DEF Among

\* What two queues have together.
LEMMA AmongConcat ==
    ASSUME NEW S, NEW p \in Seq(S), NEW q \in Seq(S)
    PROVE  /\ p \o q \in Seq(S)
           /\ \A y : Among(y, p) \/ Among(y, q) => Among(y, p \o q)
<1>1. /\ p \o q \in Seq(S) /\ Len(p \o q) = Len(p) + Len(q) /\ Len(p) \in Nat /\ Len(q) \in Nat
      /\ \A i \in 1 .. Len(p) + Len(q) : (p \o q)[i] = IF i <= Len(p) THEN p[i] ELSE q[i - Len(p)]
  BY ConcatProperties, LenProperties
<1>2. \A i \in 1 .. Len(p) : i \in 1 .. Len(p) + Len(q) /\ (p \o q)[i] = p[i]  BY <1>1
<1>3. \A i \in 1 .. Len(q) :
         /\ i + Len(p) \in 1 .. Len(p) + Len(q) /\ ~(i + Len(p) <= Len(p))
         /\ i + Len(p) - Len(p) = i
  BY <1>1
<1>4. \A i \in 1 .. Len(q) : (p \o q)[i + Len(p)] = q[i]  BY <1>1, <1>3
<1>. QED  BY <1>1, <1>2, <1>3, <1>4 DEF Among

\* What is left when the first is taken.
LEMMA AmongTail ==
    ASSUME NEW S, NEW q \in Seq(S), q # <<>>
    PROVE  /\ Tail(q) \in Seq(S) /\ Head(q) \in S /\ Len(Tail(q)) = Len(q) - 1
           /\ \A y : Among(y, q) => y = Head(q) \/ Among(y, Tail(q))
           /\ \A i \in 1 .. Len(q) - 1 : Tail(q)[i] = q[i + 1]
<1>1. /\ Tail(q) \in Seq(S) /\ Head(q) \in S /\ Head(q) = q[1] /\ Len(Tail(q)) = Len(q) - 1
      /\ \A i \in 1 .. Len(Tail(q)) : Tail(q)[i] = q[i + 1]
      /\ Len(q) \in Nat /\ Len(q) > 0
  BY HeadTailProperties, LenProperties, EmptySeq
<1>2. \A i \in 1 .. Len(q) : i = 1 \/ (i - 1 \in 1 .. Len(q) - 1 /\ i - 1 + 1 = i)  BY <1>1
<1>3. \A i \in 1 .. Len(q) : i = 1 \/ (i - 1 \in 1 .. Len(Tail(q)) /\ Tail(q)[i - 1] = q[i])
  BY <1>1, <1>2
<1>. QED  BY <1>1, <1>3 DEF Among

\* A queue that has more tells the more.
LEMMA KnowsMore ==
    ASSUME NEW r, NEW h, NEW b, NEW T, NEW q, NEW p, NEW c,
           KnowsOf(r, h, b, T, q, p, c),
           NEW U, NEW u, NEW v,
           r \in T => r \in U, Notifies(q) => Notifies(u),
           AsksIn(q, r) => r \in U \/ AsksIn(u, r) \/ ToldBy(v),
           ToldBy(p) => r \in U \/ ToldBy(v)
    PROVE  KnowsOf(r, h, b, U, u, v, c)
BY DEF KnowsOf

\* The lowest of some numbers is there, and none is lower.
LEMMA LowestThere ==
    ASSUME NEW S, S \subseteq Nat, S # {}
    PROVE  Min(S) \in S /\ \A d \in S : Min(S) <= d
<1>. DEFINE R == {p \in Nat \X Nat : p[1] < p[2]}
<1>1. IsWellFoundedOn(R, Nat)  BY NatLessThanWellFounded DEF OpToRel
<1>2. \A x, y \in Nat : x < y <=> <<x, y>> \in R  OBVIOUS
<1>. HIDE DEF R
<1>3. PICK x \in S : \A y \in S : ~(<<y, x>> \in R)  BY <1>1, WFMin
<1>4. \A y \in S : ~(y < x)  BY <1>2, <1>3
<1>5. \A y \in S : x <= y  BY <1>4
<1>. QED  BY <1>5 DEF Min

\* A priority is a number.
LEMMA PriorityType == \A a : Priority(a) \in Nat
BY DEF Priority

\* What an element is inserted into.
LEMMA InsertedAt ==
    ASSUME NEW q \in Seq(Acts), NEW a \in Acts, NEW k \in 1 .. Len(q) + 1,
           NEW z, z = SubSeq(q, 1, k - 1) \o <<a>> \o SubSeq(q, k, Len(q))
    PROVE  /\ z \in Seq(Acts) /\ Len(z) = Len(q) + 1
           /\ \A i \in 1 .. Len(q) + 1 :
                 z[i] = IF i < k THEN q[i] ELSE IF i = k THEN a ELSE q[i - 1]
<1>. DEFINE n == Len(q)  u == SubSeq(q, 1, k - 1)  v == SubSeq(q, k, n)
            x == Append(u, a)  p == x \o v
<1>1. n \in Nat /\ (\A i \in 1 .. n : q[i] \in Acts) /\ k \in 1 .. n + 1
  BY LenProperties, ElementOfSeq
<1>2. u \in Seq(Acts) /\ Len(u) = k - 1 /\ \A i \in 1 .. k - 1 : u[i] = q[i]
  <2>1. 1 \in Int /\ k - 1 \in Int /\ \A i \in 1 .. k - 1 : q[i] \in Acts  BY <1>1
  <2>2. /\ u \in Seq(Acts) /\ Len(u) = IF 1 <= k - 1 THEN k - 1 - 1 + 1 ELSE 0
        /\ \A i \in 1 .. k - 1 - 1 + 1 : u[i] = q[1 + i - 1]
    BY <2>1, SubSeqProperties
  <2>. HIDE DEF u
  <2>3. \A i \in 1 .. k - 1 : i \in 1 .. k - 1 - 1 + 1 /\ 1 + i - 1 = i  BY <1>1
  <2>. QED  BY <1>1, <2>2, <2>3
<1>3. v \in Seq(Acts) /\ Len(v) = n + 1 - k /\ \A i \in 1 .. n + 1 - k : v[i] = q[k + i - 1]
  <2>1. n \in Int /\ k \in Int /\ \A i \in k .. n : q[i] \in Acts  BY <1>1
  <2>2. /\ v \in Seq(Acts) /\ Len(v) = IF k <= n THEN n - k + 1 ELSE 0
        /\ \A i \in 1 .. n - k + 1 : v[i] = q[k + i - 1]
    BY <2>1, SubSeqProperties
  <2>. HIDE DEF v
  <2>3. \A i \in 1 .. n + 1 - k : i \in 1 .. n - k + 1  BY <1>1
  <2>. QED  BY <1>1, <2>2, <2>3
<1>4. z = p
  BY <1>2, AppendIsConcat
<1>. HIDE DEF u, v
<1>5. /\ x \in Seq(Acts) /\ Len(x) = Len(u) + 1 /\ x[Len(u) + 1] = a
      /\ \A i \in 1 .. Len(u) : x[i] = u[i]
  BY <1>2, AppendProperties
<1>. HIDE DEF x
<1>6. x \in Seq(Acts) /\ Len(x) = k /\ x[k] = a /\ \A i \in 1 .. k - 1 : x[i] = q[i]
  <2>1. Len(u) + 1 = k  BY <1>1, <1>2
  <2>. QED  BY <1>2, <1>5, <2>1
<1>7. /\ p \in Seq(Acts) /\ Len(p) = Len(x) + Len(v)
      /\ \A i \in 1 .. Len(x) + Len(v) : p[i] = IF i <= Len(x) THEN x[i] ELSE v[i - Len(x)]
  BY <1>3, <1>6, ConcatProperties
<1>. HIDE DEF p
<1>8. Len(x) + Len(v) = n + 1  BY <1>1, <1>3, <1>6
<1>9. \A i \in 1 .. n + 1 : p[i] = IF i <= k THEN x[i] ELSE v[i - k]
  BY <1>6, <1>7, <1>8
<1>10. \A i \in 1 .. n + 1 : p[i] = IF i < k THEN q[i] ELSE IF i = k THEN a ELSE q[i - 1]
  <2>. TAKE i \in 1 .. n + 1
  <2>1. CASE i < k
    <3>1. i <= k /\ i \in 1 .. k - 1  BY <2>1, <1>1
    <3>. QED  BY <3>1, <2>1, <1>6, <1>9
  <2>2. CASE i = k
    <3>1. i <= k /\ ~(i < k)  BY <2>2, <1>1
    <3>. QED  BY <3>1, <2>2, <1>6, <1>9
  <2>3. CASE ~(i < k) /\ i # k
    <3>1. ~(i <= k) /\ i - k \in 1 .. n + 1 - k /\ k + (i - k) - 1 = i - 1  BY <2>3, <1>1
    <3>2. p[i] = v[i - k] /\ v[i - k] = q[k + (i - k) - 1]  BY <3>1, <1>3, <1>9
    <3>. QED  BY <3>1, <3>2, <2>3
  <2>. QED  BY <2>1, <2>2, <2>3
<1>. QED  BY <1>4, <1>7, <1>8, <1>10 DEF n

\* An action is put where it is in order, and no other is lost.
LEMMA QueuedKeeps ==
    ASSUME NEW q \in Seq(Acts), Ordered(q), Numbered(q), NEW kind \in ActionKinds
    PROVE  LET a == [action |-> kind, n |-> Len(q)]
               p == PollQueued(q, a)
           IN  /\ p \in Seq(Acts) /\ Ordered(p) /\ Numbered(p)
               /\ Among(a, p) /\ \A y : Among(y, q) => Among(y, p)
<1>. DEFINE n == Len(q)  a == [action |-> kind, n |-> n]
            S == {i \in 1 .. n + 1 : i <= n => Priority(q[i].action) > Priority(a.action)}
            k == Min(S)
            p == SubSeq(q, 1, k - 1) \o <<a>> \o SubSeq(q, k, n)
<1>1. n \in Nat /\ \A i \in 1 .. n : q[i] \in Acts  BY LenProperties, ElementOfSeq
<1>2. k \in S /\ \A i \in S : k <= i
  <2>1. S \subseteq Nat /\ n + 1 \in S  BY <1>1
  <2>. HIDE DEF S
  <2>. QED  BY <2>1, LowestThere
<1>3. /\ k \in 1 .. n + 1
      /\ k <= n => Priority(q[k].action) > Priority(a.action)
      /\ \A i \in 1 .. k - 1 : ~(Priority(q[i].action) > Priority(a.action))
  <2>1. k \in 1 .. n + 1 /\ (k <= n => Priority(q[k].action) > Priority(a.action))  BY <1>2
  <2>2. ASSUME NEW i \in 1 .. k - 1, Priority(q[i].action) > Priority(a.action) PROVE FALSE
    <3>1. i \in 1 .. n + 1 /\ i < k  BY <2>1, <1>1
    <3>2. i \in S  BY <3>1, <2>2
    <3>. QED  BY <3>1, <3>2, <1>2, <2>1, <1>1
  <2>. QED  BY <2>1, <2>2
<1>4. PollQueued(q, a) = p  BY DEF PollQueued, InsertAt, Turn
<1>5. a \in Acts /\ a.action = kind /\ a.n = n  BY <1>1 DEF Acts
<1>. HIDE DEF a, k, S, n
<1>6. /\ p \in Seq(Acts) /\ Len(p) = n + 1
      /\ \A i \in 1 .. n + 1 : p[i] = IF i < k THEN q[i] ELSE IF i = k THEN a ELSE q[i - 1]
  <2>1. k \in 1 .. Len(q) + 1 /\ p = SubSeq(q, 1, k - 1) \o <<a>> \o SubSeq(q, k, Len(q))
    BY <1>3 DEF n
  <2>. HIDE DEF p
  <2>. DEFINE Inserted(z, b, j) ==
                 /\ z \in Seq(Acts) /\ Len(z) = Len(q) + 1
                 /\ \A i \in 1 .. Len(q) + 1 :
                       z[i] = IF i < j THEN q[i] ELSE IF i = j THEN b ELSE q[i - 1]
  <2>2. \A b \in Acts : \A j \in 1 .. Len(q) + 1 : \A z :
           z = SubSeq(q, 1, j - 1) \o <<b>> \o SubSeq(q, j, Len(q)) => Inserted(z, b, j)
    BY InsertedAt
  <2>. HIDE DEF Inserted
  <2>3. Inserted(p, a, k)  BY <2>1, <2>2, <1>5
  <2>. QED  BY <2>3 DEF n, Inserted
<1>. HIDE DEF p
<1>7. \A i \in 1 .. n : q[i].n < n /\ q[i].n \in Nat  BY <1>1 DEF Numbered, Acts, n
<1>8. Numbered(p)
  <2>. SUFFICES ASSUME NEW i \in 1 .. n + 1 PROVE p[i].n < n + 1  BY <1>6 DEF Numbered
  <2>1. CASE i < k
    <3>1. i \in 1 .. n /\ p[i] = q[i]  BY <2>1, <1>1, <1>3, <1>6
    <3>. QED  BY <3>1, <1>1, <1>7
  <2>2. CASE i = k
    <3>1. p[i] = a  BY <2>2, <1>1, <1>3, <1>6
    <3>. QED  BY <3>1, <1>1, <1>5
  <2>3. CASE ~(i < k) /\ i # k
    <3>1. i - 1 \in 1 .. n /\ p[i] = q[i - 1]  BY <2>3, <1>1, <1>3, <1>6
    <3>. QED  BY <3>1, <1>1, <1>7
  <2>. QED  BY <2>1, <2>2, <2>3
<1>9. \A i, j \in 1 .. n : i < j => Before(q[i], q[j])  BY DEF Ordered, n
<1>10. \A i \in 1 .. n : i < k => Before(q[i], a)
  <2>. TAKE i \in 1 .. n
  <2>. HAVE i < k
  <2>1. i \in 1 .. k - 1  BY <1>1, <1>3
  <2>2. ~(Priority(q[i].action) > Priority(a.action)) /\ q[i].n < a.n  BY <2>1, <1>3, <1>5, <1>7
  <2>3. Priority(q[i].action) \in Nat /\ Priority(a.action) \in Nat  BY PriorityType
  <2>. QED  BY <2>2, <2>3 DEF Before
<1>11. \A i \in 1 .. n : k <= i => Before(a, q[i])
  <2>. TAKE i \in 1 .. n
  <2>. HAVE k <= i
  <2>1. k \in 1 .. n /\ Priority(q[k].action) > Priority(a.action)  BY <1>1, <1>3
  <2>2. Priority(q[k].action) \in Nat /\ Priority(a.action) \in Nat /\ Priority(q[i].action) \in Nat
    BY PriorityType
  <2>3. i = k \/ Before(q[k], q[i])  BY <2>1, <1>1, <1>3, <1>9
  <2>. QED  BY <2>1, <2>2, <2>3 DEF Before
<1>12. Ordered(p)
  <2>. SUFFICES ASSUME NEW i \in 1 .. n + 1, NEW j \in 1 .. n + 1, i < j
                PROVE  Before(p[i], p[j])
    BY <1>6 DEF Ordered
  <2>1. CASE j < k
    <3>1. i \in 1 .. n /\ j \in 1 .. n /\ p[i] = q[i] /\ p[j] = q[j]
      BY <2>1, <1>1, <1>3, <1>6
    <3>. QED  BY <3>1, <1>9
  <2>2. CASE j = k
    <3>1. i \in 1 .. n /\ i < k /\ p[i] = q[i] /\ p[j] = a  BY <2>2, <1>1, <1>3, <1>6
    <3>. QED  BY <3>1, <1>10
  <2>3. CASE ~(j < k) /\ j # k
    <3>1. j - 1 \in 1 .. n /\ p[j] = q[j - 1] /\ k <= j - 1  BY <2>3, <1>1, <1>3, <1>6
    <3>2. CASE i < k
      <4>1. i \in 1 .. n /\ p[i] = q[i] /\ i < j - 1  BY <3>1, <3>2, <1>1, <1>3, <1>6
      <4>. QED  BY <4>1, <3>1, <1>9
    <3>3. CASE i = k
      <4>1. p[i] = a  BY <3>3, <1>1, <1>3, <1>6
      <4>. QED  BY <4>1, <3>1, <1>11
    <3>4. CASE ~(i < k) /\ i # k
      <4>1. i - 1 \in 1 .. n /\ p[i] = q[i - 1] /\ i - 1 < j - 1  BY <3>4, <1>1, <1>3, <1>6
      <4>. QED  BY <4>1, <3>1, <1>9
    <3>. QED  BY <3>2, <3>3, <3>4
  <2>. QED  BY <2>1, <2>2, <2>3
<1>13. Among(a, p)  BY <1>3, <1>6 DEF Among
<1>14. \A y : Among(y, q) => Among(y, p)
  <2>. SUFFICES ASSUME NEW i \in 1 .. n PROVE Among(q[i], p)  BY DEF Among, n
  <2>1. CASE i < k
    <3>1. i \in 1 .. n + 1 /\ p[i] = q[i]  BY <2>1, <1>1, <1>6
    <3>. QED  BY <3>1, <1>6 DEF Among
  <2>2. CASE ~(i < k)
    <3>1. i + 1 \in 1 .. n + 1 /\ ~(i + 1 < k) /\ i + 1 # k /\ i + 1 - 1 = i
      BY <2>2, <1>1, <1>3
    <3>2. p[i + 1] = q[i]  BY <3>1, <1>6
    <3>. QED  BY <3>1, <3>2, <1>6 DEF Among
  <2>. QED  BY <2>1, <2>2
<1>. QED  BY <1>4, <1>6, <1>8, <1>12, <1>13, <1>14 DEF a, n

\* What is left when the first is taken is numbered again, in the same order.
LEMMA RenumberedKeeps ==
    ASSUME NEW q \in Seq(Acts), Ordered(q), q # <<>>
    PROVE  LET p == Renumbered(Tail(q)) IN
           /\ p \in Seq(Acts) /\ Ordered(p) /\ Numbered(p)
           /\ ToldBy(q) => Head(q).action = "poll_configuration" \/ ToldBy(p)
<1>. DEFINE s == Tail(q)  n == Len(s)
            low(i) == {j \in DOMAIN s : s[j].n < s[i].n}
            p == [i \in DOMAIN s |-> [s[i] EXCEPT !.n = Cardinality(low(i))]]
<1>1. /\ s \in Seq(Acts) /\ n = Len(q) - 1 /\ n \in Nat /\ DOMAIN s = 1 .. n
      /\ \A i \in 1 .. n : s[i] = q[i + 1] /\ s[i] \in Acts
      /\ \A y : Among(y, q) => y = Head(q) \/ Among(y, s)
  BY AmongTail, LenProperties, ElementOfSeq
<1>2. \A i, j \in 1 .. n : i < j => Before(s[i], s[j])
  <2>. TAKE i, j \in 1 .. n
  <2>. HAVE i < j
  <2>1. i + 1 \in 1 .. Len(q) /\ j + 1 \in 1 .. Len(q) /\ i + 1 < j + 1  BY <1>1
  <2>. QED  BY <2>1, <1>1 DEF Ordered
<1>. HIDE DEF s, n
<1>3. \A i \in 1 .. n :
         /\ IsFiniteSet(low(i)) /\ Cardinality(low(i)) \in Nat /\ Cardinality(low(i)) < n
  <2>. TAKE i \in 1 .. n
  <2>1. IsFiniteSet(1 .. n) /\ Cardinality(1 .. n) = n  BY <1>1, FS_Interval
  <2>2. low(i) \in SUBSET (1 .. n)  BY <1>1
  <2>3. i \notin low(i)  BY <1>1 DEF Acts
  <2>. HIDE DEF low
  <2>4. IsFiniteSet(low(i)) /\ Cardinality(low(i)) <= n /\ Cardinality(low(i)) # n
    BY <2>1, <2>2, <2>3, FS_Subset
  <2>5. Cardinality(low(i)) \in Nat  BY <2>4, FS_CardinalityType
  <2>6. \A c \in Nat : c <= n /\ c # n => c < n  BY <1>1
  <2>. QED  BY <2>4, <2>5, <2>6
<1>4. \A i, j \in 1 .. n : s[i].n < s[j].n => Cardinality(low(i)) < Cardinality(low(j))
  <2>. TAKE i, j \in 1 .. n
  <2>. HAVE s[i].n < s[j].n
  <2>1. \A m \in 1 .. n : s[m].n \in Nat  BY <1>1 DEF Acts
  <2>2. low(i) \in SUBSET low(j) /\ i \in low(j) /\ i \notin low(i)
    <3>1. \A m \in 1 .. n : m \in low(i) <=> s[m].n < s[i].n  BY <1>1
    <3>2. \A m \in 1 .. n : m \in low(j) <=> s[m].n < s[j].n  BY <1>1
    <3>3. \A m \in 1 .. n : s[m].n < s[i].n => s[m].n < s[j].n  BY <2>1
    <3>4. ~(s[i].n < s[i].n)  BY <2>1
    <3>5. low(i) \subseteq 1 .. n  BY <1>1
    <3>. HIDE DEF low
    <3>. QED  BY <3>1, <3>2, <3>3, <3>4, <3>5
  <2>3. IsFiniteSet(low(j)) /\ Cardinality(low(i)) \in Nat /\ Cardinality(low(j)) \in Nat
    BY <1>3
  <2>. HIDE DEF low
  <2>4. Cardinality(low(i)) <= Cardinality(low(j)) /\ Cardinality(low(i)) # Cardinality(low(j))
    BY <2>2, <2>3, FS_Subset
  <2>. QED  BY <2>3, <2>4
<1>. HIDE DEF low
<1>5. \A i \in 1 .. n :
         p[i] \in Acts /\ p[i].action = s[i].action /\ p[i].n = Cardinality(low(i))
  <2>. TAKE i \in 1 .. n
  <2>1. p[i] = [s[i] EXCEPT !.n = Cardinality(low(i))]  BY <1>1
  <2>2. s[i] \in Acts /\ Cardinality(low(i)) \in Nat  BY <1>1, <1>3
  <2>. QED  BY <2>1, <2>2 DEF Acts
<1>6. DOMAIN p = 1 .. n  BY <1>1
<1>7. p \in Seq(Acts) /\ Len(p) = n
  <2>1. p \in [1 .. n -> Acts]  BY <1>1, <1>5, <1>6
  <2>. HIDE DEF p
  <2>2. p \in Seq(Acts)  BY <2>1, <1>1, SeqDef
  <2>3. Len(p) = n  BY <2>2, <1>1, <1>6, LenProperties
  <2>. QED  BY <2>2, <2>3
<1>8. Renumbered(Tail(q)) = p  BY DEF Renumbered, s, low
<1>. HIDE DEF p
<1>9. Numbered(p)  BY <1>3, <1>5, <1>7 DEF Numbered
<1>10. Ordered(p)
  <2>. SUFFICES ASSUME NEW i \in 1 .. n, NEW j \in 1 .. n, i < j PROVE Before(p[i], p[j])
    BY <1>7 DEF Ordered
  <2>1. Before(s[i], s[j])  BY <1>2
  <2>2. s[i].n < s[j].n => p[i].n < p[j].n  BY <1>4, <1>5
  <2>3. p[i].action = s[i].action /\ p[j].action = s[j].action  BY <1>5
  <2>. QED  BY <2>1, <2>2, <2>3 DEF Before
<1>11. ToldBy(q) => Head(q).action = "poll_configuration" \/ ToldBy(p)
  <2>. SUFFICES ASSUME NEW b \in Acts, Among(b, s), b.action = "poll_configuration"
                PROVE  ToldBy(p)
    BY <1>1 DEF ToldBy
  <2>1. PICK i \in 1 .. n : s[i] = b  BY DEF Among, n
  <2>2. Among(p[i], p)  BY <1>7 DEF Among
  <2>. QED  BY <2>1, <2>2, <1>5 DEF ToldBy
<1>. QED  BY <1>7, <1>8, <1>9, <1>10, <1>11

-----------------------------------------------------------------------------
\* The sequence of a finite set has each of its elements.
LEMMA EachIsListed ==
    ASSUME NEW S, IsFiniteSet(S)
    PROVE  /\ SetToSeq(S) \in Seq(S)
           /\ \A x \in S : \E i \in 1 .. Len(SetToSeq(S)) : SetToSeq(S)[i] = x
<1>. DEFINE n == Cardinality(S)  f == SetToSeq(S)
<1>1. n \in Nat /\ ExistsBijection(1 .. n, S)  BY FS_CardinalityType
<1>2. \E g \in [1 .. n -> S] : IsInjective(g)
  BY <1>1 DEF ExistsBijection, Bijection, Injection
<1>3. f \in [1 .. n -> S] /\ IsInjective(f)  BY <1>2 DEF SetToSeq
<1>. HIDE DEF f, n
<1>4. f \in Seq(S) /\ Len(f) = n
  <2>1. f \in Seq(S)  BY <1>1, <1>3, SeqDef
  <2>. QED  BY <2>1, <1>1, <1>3, LenProperties
<1>5. f \in Injection(1 .. n, S)  BY <1>3 DEF Injection
<1>6. Cardinality(1 .. n) = Cardinality(S)  BY <1>1, FS_Interval DEF n
<1>7. f \in Surjection(1 .. n, S)  BY <1>5, <1>6, FS_Injection
<1>8. \A x \in S : \E i \in 1 .. n : f[i] = x  BY <1>7 DEF Surjection
<1>. QED  BY <1>4, <1>8 DEF f

\* What is posted is one of the letters.
LEMMA Posted ==
    ASSUME NEW to \in SUBSET Polled, NEW kind \in ActionKinds
    PROVE  /\ Action(to, kind) \in Letters
           /\ Action(to, kind).to = to /\ Action(to, kind).action = kind
           /\ Notify \in Letters /\ Notify.does = "notify"
BY DEF Action, Notify, Letters, ActionKinds

\* Each remote whose copy is replaced is told by an action of its own.
LEMMA UpdatesAsk ==
    ASSUME IsFiniteSet(Polled), NEW rs \in SUBSET Polled
    PROVE  Updates(rs) \in Seq(Letters) /\ \A r \in rs : AsksIn(Updates(rs), r)
<1>. DEFINE f == SetToSeq(rs)  n == Len(f)  u == Updates(rs)
<1>1. IsFiniteSet(rs)  BY FS_Subset
<1>2. f \in Seq(rs) /\ n \in Nat /\ DOMAIN f = 1 .. n /\ \A i \in 1 .. n : f[i] \in rs
  BY <1>1, EachIsListed, LenProperties, ElementOfSeq
<1>3. \A r \in rs : \E i \in 1 .. n : f[i] = r  BY <1>1, EachIsListed
<1>4. u = [i \in DOMAIN f |-> Action({f[i]}, "poll_configuration")]  BY DEF Updates
<1>. HIDE DEF f, u, n
<1>5. \A i \in 1 .. n :
         /\ u[i] \in Letters /\ u[i].to = {f[i]} /\ u[i].action = "poll_configuration"
  <2>. TAKE i \in 1 .. n
  <2>1. {f[i]} \in SUBSET Polled /\ "poll_configuration" \in ActionKinds  BY <1>2 DEF ActionKinds
  <2>2. u[i] = Action({f[i]}, "poll_configuration")  BY <1>2, <1>4
  <2>. QED  BY <2>1, <2>2, Posted
<1>6. u \in Seq(Letters) /\ Len(u) = n
  <2>1. DOMAIN u = 1 .. n  BY <1>2, <1>4
  <2>2. u \in [1 .. n -> Letters]  BY <1>2, <1>4, <1>5
  <2>3. u \in Seq(Letters)  BY <2>2, <1>2, SeqDef
  <2>. QED  BY <2>1, <2>3, <1>2, LenProperties
<1>7. \A r \in rs : AsksIn(u, r)
  <2>. TAKE r \in rs
  <2>1. PICK i \in 1 .. n : f[i] = r  BY <1>3
  <2>2. Among(u[i], u) /\ u[i] \in Letters /\ r \in u[i].to /\ u[i].action = "poll_configuration"
    BY <2>1, <1>5, <1>6 DEF Among
  <2>. QED  BY <2>2 DEF AsksIn
<1>. QED  BY <1>6, <1>7 DEF u

\* A letter more asks what was asked, and what it asks.
LEMMA AskMore ==
    ASSUME NEW q \in Seq(Letters), NEW m \in Letters
    PROVE  /\ Notifies(q) => Notifies(Append(q, m))
           /\ \A r : AsksIn(q, r) => AsksIn(Append(q, m), r)
           /\ m.does = "notify" => Notifies(Append(q, m))
BY AmongAppend DEF Notifies, AsksIn

\* A letter less asks what was asked, but for what it asked.
LEMMA AskLess ==
    ASSUME NEW q \in Seq(Letters), q # <<>>
    PROVE  /\ Notifies(q) => Head(q).does = "notify" \/ Notifies(Tail(q))
           /\ \A r : AsksIn(q, r) =>
                 \/ r \in Head(q).to /\ Head(q).action = "poll_configuration"
                 \/ AsksIn(Tail(q), r)
BY AmongTail DEF Notifies, AsksIn

\* Two queues together ask what either asks.
LEMMA AskBoth ==
    ASSUME NEW p \in Seq(Letters), NEW q \in Seq(Letters)
    PROVE  \A r : AsksIn(p, r) \/ AsksIn(q, r) => AsksIn(p \o q, r)
BY AmongConcat DEF AsksIn

\* A heartbeat counts, and saves what was counted long enough.
LEMMA BeatKeeps ==
    ASSUME PollAssumption, NEW u, NEW d, now \in Nat, TimesOf(u, d, now),
           NEW gap \in Gaps, NEW private \in BOOLEAN
    PROVE  TimesOf(Beat(u, gap, private),
                   IF Beat(u, gap, private).since = 0 THEN Saved(Beat(u, gap, private)) ELSE d,
                   now + gap)
<1>. DEFINE diff == now + gap - u.last
            more == IF diff <= HbLimit THEN diff ELSE 0
            hidden == IF private THEN more ELSE 0
            rest == IF u.since + diff >= HbToSave THEN 0 ELSE u.since + diff
            v == Beat(u, gap, private)
<1>1. /\ u \in Ups /\ d \in SavedUps /\ u.last \in Nat /\ u.since \in Nat /\ u.start \in Nat
      /\ u.uptime \in Int /\ u.privacy \in Int
      /\ d.last \in Nat /\ u.last <= now /\ u.since < HbToSave /\ u.last - d.last = u.since
      /\ d.privacy <= d.uptime /\ u.privacy <= u.uptime
  BY DEF TimesOf, Ups, SavedUps
<1>2. gap \in Nat /\ HbToSave \in Nat /\ HbToSave > 0 /\ HbLimit \in Int
  BY DEF PollAssumption
<1>3. diff \in Nat /\ more \in Nat /\ hidden \in Nat /\ hidden <= more /\ rest \in Nat /\ rest < HbToSave
  BY <1>1, <1>2
<1>4. v = [u EXCEPT !.last = now + gap, !.uptime = @ + more, !.privacy = @ + hidden, !.since = rest]
  BY DEF Beat
<1>5. /\ v \in Ups /\ v.last = now + gap /\ v.start = u.start /\ v.since = rest
      /\ v.uptime = u.uptime + more /\ v.privacy = u.privacy + hidden
  <2>. HIDE DEF v, rest, hidden, more, diff
  <2>1. now + gap \in Nat /\ u.uptime + more \in Int /\ u.privacy + hidden \in Int
    BY <1>1, <1>2, <1>3
  <2>. QED  BY <2>1, <1>1, <1>3, <1>4 DEF Ups
<1>. HIDE DEF v
<1>6. /\ Saved(v) \in SavedUps /\ Saved(v).last = now + gap
      /\ Saved(v).uptime = v.uptime /\ Saved(v).privacy = v.privacy
  BY <1>5 DEF Saved, Ups, SavedUps
<1>7. v.privacy <= v.uptime  BY <1>1, <1>3, <1>5
<1>8. CASE v.since = 0
  <2>1. v.last - Saved(v).last = 0 /\ v.last <= now + gap /\ v.since < HbToSave
    BY <1>2, <1>5, <1>6, <1>8
  <2>. QED  BY <2>1, <1>5, <1>6, <1>7, <1>8 DEF TimesOf, v
<1>9. CASE v.since # 0
  <2>1. v.last - d.last = v.since /\ v.last <= now + gap /\ v.since < HbToSave
    BY <1>1, <1>2, <1>3, <1>5, <1>9
  <2>. QED  BY <2>1, <1>1, <1>5, <1>7, <1>9 DEF TimesOf, v
<1>. QED  BY <1>8, <1>9

-----------------------------------------------------------------------------
\* The invariant holds at first, and no action takes it away.
LEMMA PollInitInv == ASSUME PollAssumption, PollInit PROVE PollInv
<1>1. DOMAIN pollHeld = {} /\ DOMAIN inDb = {} /\ DOMAIN up = {}  BY DEF PollInit
<1>2. /\ <<>> \in Seq(Letters) /\ <<>> \in Seq(Acts) /\ Len(<<>>) = 0  BY EmptySeq
<1>3. polls \in [Polled -> Seq(Acts)] /\ \A r \in Polled : polls[r] = <<>>
  BY <1>2 DEF PollInit
<1>4. PollTypes  BY <1>1, <1>2, <1>3 DEF PollInit, PollTypes
<1>5. Ordered(<<>>) /\ Numbered(<<>>)  BY <1>2 DEF Ordered, Numbered
<1>6. \A r \in Polled : box[r] = Nothing  BY DEF PollInit
<1>. QED  BY <1>1, <1>3, <1>4, <1>5, <1>6 DEF PollInv

\* A remote that is validated starts with the copy of the network, not read yet.
LEMMA PollValidatedKeeps ==
    ASSUME PollAssumption, PollInv, NEW r \in Polled, PollValidated(r)
    PROVE  PollInv'
<1>. DEFINE u == Counted([NoUp EXCEPT !.last = now, !.start = now])
            d == [NoUp EXCEPT !.last = now, !.start = now]
<1>1. /\ r \notin DOMAIN pollHeld /\ PollTypes
      /\ pollHeld' = [s \in DOMAIN pollHeld \cup {r} |-> IF s = r THEN Copy(conf) ELSE pollHeld[s]]
      /\ up' = [s \in DOMAIN pollHeld \cup {r} |-> IF s = r THEN u ELSE up[s]]
      /\ inDb' = [s \in DOMAIN pollHeld \cup {r} |->
                     IF s = r THEN [copy |-> Copy(conf), up |-> d] ELSE inDb[s]]
      /\ UNCHANGED <<conf, box, mail, polls, pollTold, missed, now>>
  BY DEF PollValidated, PollInv, PollTypes
<1>2. PollTypes'  BY <1>1 DEF PollTypes
<1>3. TimesOf(u, d, now)
  <2>1. now \in Nat /\ HbToSave > 0  BY <1>1 DEF PollTypes, PollAssumption
  <2>2. d \in SavedUps /\ d.last = now /\ d.start = now /\ d.uptime = 0 /\ d.privacy = 0
    <3>. DEFINE z == NoUp
    <3>1. z \in SavedUps /\ z.uptime = 0 /\ z.privacy = 0  BY DEF NoUp, SavedUps
    <3>2. d = [z EXCEPT !.last = now, !.start = now]  OBVIOUS
    <3>. HIDE DEF z, d
    <3>. QED  BY <3>1, <3>2, <2>1 DEF SavedUps
  <2>3. u = [last |-> d.last, start |-> d.start, uptime |-> d.uptime, privacy |-> d.privacy, since |-> 0]
    BY DEF Counted
  <2>. HIDE DEF u, d
  <2>4. u \in Ups /\ u.last = now /\ u.uptime = 0 /\ u.privacy = 0 /\ u.since = 0
    BY <2>1, <2>2, <2>3 DEF Ups
  <2>. QED  BY <2>1, <2>2, <2>4 DEF TimesOf
<1>. HIDE DEF u, d
<1>4. /\ DOMAIN pollHeld' = DOMAIN pollHeld \cup {r}
      /\ pollHeld'[r] = Copy(conf) /\ inDb'[r] = [copy |-> Copy(conf), up |-> d] /\ up'[r] = u
      /\ \A s \in DOMAIN pollHeld :
            s # r /\ pollHeld'[s] = pollHeld[s] /\ inDb'[s] = inDb[s] /\ up'[s] = up[s]
  BY <1>1
<1>5. box[r] = Nothing  BY <1>1 DEF PollInv
<1>6. KnowsOf(r, pollHeld'[r], box'[r], (pollTold \cup missed)', mail', polls'[r], Copy(conf)')
  BY <1>1, <1>4, <1>5 DEF KnowsOf, Copy
<1>7. \A s \in DOMAIN pollHeld :
         KnowsOf(s, pollHeld'[s], box'[s], (pollTold \cup missed)', mail', polls'[s], Copy(conf)')
  BY <1>1, <1>4 DEF PollInv, Copy
<1>8. \A s \in DOMAIN pollHeld' :
         inDb'[s] = [copy |-> pollHeld'[s], up |-> inDb'[s].up] /\ TimesOf(up'[s], inDb'[s].up, now')
  <2>1. inDb'[r].up = d  BY <1>4
  <2>. QED  BY <2>1, <1>1, <1>3, <1>4 DEF PollInv
<1>. QED  BY <1>1, <1>2, <1>4, <1>6, <1>7, <1>8 DEF PollInv

\* A remote that reads has what the network keeps of it.
LEMMA ReadsKeeps ==
    ASSUME PollAssumption, PollInv, NEW r \in Polled, Reads(r)
    PROVE  PollInv'
<1>1. /\ r \in DOMAIN pollHeld /\ PollTypes
      /\ box' = [box EXCEPT ![r] = pollHeld[r]] /\ pollTold' = pollTold \ {r}
      /\ UNCHANGED <<conf, pollHeld, inDb, mail, polls, missed, up, now>>
  BY DEF Reads, PollInv
<1>2. PollTypes'  BY <1>1 DEF PollTypes
<1>3. box'[r] = pollHeld[r] /\ \A s \in Polled : s # r => box'[s] = box[s]
  BY <1>1 DEF PollTypes
<1>4. \A s \in DOMAIN pollHeld :
         KnowsOf(s, pollHeld'[s], box'[s], (pollTold \cup missed)', mail', polls'[s], Copy(conf)')
  <2>. TAKE s \in DOMAIN pollHeld
  <2>1. KnowsOf(s, pollHeld[s], box[s], pollTold \cup missed, mail, polls[s], Copy(conf))
    BY DEF PollInv
  <2>2. s \in Polled  BY <1>1 DEF PollTypes
  <2>. QED  BY <1>1, <1>3, <2>1, <2>2 DEF KnowsOf, Copy
<1>5. \A s \in Polled \ DOMAIN pollHeld : box'[s] = Nothing  BY <1>1, <1>3 DEF PollInv
<1>. QED  BY <1>1, <1>2, <1>4, <1>5 DEF PollInv

\* An answer of RFC is followed by a notification.
LEMMA RfcRetrievedKeeps ==
    ASSUME PollAssumption, PollInv, NEW s \in Sources, RfcRetrieved(s)
    PROVE  PollInv'
<1>1. /\ PollTypes /\ mail' = Append(mail, Notify)
      /\ UNCHANGED <<pollHeld, inDb, box, polls, pollTold, missed, up, now>>
  BY DEF RfcRetrieved, PollInv
<1>2. mail \in Seq(Letters) /\ Notify \in Letters /\ Notify.does = "notify"
  <2>1. "none" \in ActionKinds  BY DEF ActionKinds
  <2>. QED  BY <2>1, <1>1, Posted DEF PollTypes
<1>3. /\ mail' \in Seq(Letters) /\ Notifies(mail')
      /\ \A r : AsksIn(mail, r) => AsksIn(mail', r)
  BY <1>1, <1>2, AskMore, AmongAppend
<1>4. PollTypes'  BY <1>1, <1>3 DEF PollTypes
<1>5. \A r \in DOMAIN pollHeld :
         KnowsOf(r, pollHeld'[r], box'[r], (pollTold \cup missed)', mail', polls'[r], Copy(conf)')
  <2>. TAKE r \in DOMAIN pollHeld
  <2>1. KnowsOf(r, pollHeld[r], box[r], pollTold \cup missed, mail, polls[r], Copy(conf))
    BY DEF PollInv
  <2>. QED  BY <1>1, <1>3, <2>1 DEF KnowsOf
<1>. QED  BY <1>1, <1>4, <1>5 DEF PollInv

\* Each remote whose copy the notification replaces is told.
LEMMA NotifyControllersKeeps ==
    ASSUME PollAssumption, PollInv, NotifyControllers
    PROVE  PollInv'
<1>. DEFINE rs == Stale(pollHeld)
<1>1. /\ PollTypes /\ mail # <<>> /\ Head(mail).does = "notify"
      /\ pollHeld' = [r \in DOMAIN pollHeld |-> Copy(conf)]
      /\ inDb' = [r \in DOMAIN pollHeld |-> [inDb[r] EXCEPT !.copy = Copy(conf)]]
      /\ mail' = Tail(mail) \o Updates(rs)
      /\ UNCHANGED <<conf, box, polls, pollTold, missed, up, now>>
  BY DEF NotifyControllers, PollHandled, PollInv, PollTypes
<1>2. /\ rs \in SUBSET Polled
      /\ \A r \in DOMAIN pollHeld : r \in rs \/ pollHeld[r] = Copy(conf)
  BY <1>1 DEF Stale, PollTypes
<1>. HIDE DEF rs
<1>3. Updates(rs) \in Seq(Letters) /\ \A r \in rs : AsksIn(Updates(rs), r)
  BY <1>2, UpdatesAsk DEF PollAssumption
<1>4. Tail(mail) \in Seq(Letters) /\ Head(mail) \in Letters
  BY <1>1, AmongTail DEF PollTypes
<1>5. mail' \in Seq(Letters)  BY <1>1, <1>3, <1>4, AmongConcat
<1>6. \A r : AsksIn(mail, r) \/ r \in rs => AsksIn(mail', r)
  <2>1. Head(mail).action = "none"  BY <1>1, <1>4 DEF Letters
  <2>2. \A r : AsksIn(mail, r) => AsksIn(Tail(mail), r)  BY <2>1, <1>1, AskLess DEF PollTypes
  <2>. QED  BY <2>2, <1>1, <1>3, <1>4, AskBoth
<1>7. PollTypes'  BY <1>1, <1>5 DEF PollTypes
<1>8. \A r \in DOMAIN pollHeld :
         KnowsOf(r, pollHeld'[r], box'[r], (pollTold \cup missed)', mail', polls'[r], Copy(conf)')
  <2>. TAKE r \in DOMAIN pollHeld
  <2>1. KnowsOf(r, pollHeld[r], box[r], pollTold \cup missed, mail, polls[r], Copy(conf))
    BY DEF PollInv
  <2>2. pollHeld'[r] = Copy(conf) /\ Copy(conf)' = Copy(conf)  BY <1>1 DEF Copy
  <2>. QED  BY <1>1, <1>2, <1>6, <2>1, <2>2 DEF KnowsOf
<1>9. \A r \in DOMAIN pollHeld :
         inDb'[r] = [copy |-> pollHeld'[r], up |-> inDb'[r].up] /\ inDb'[r].up = inDb[r].up
  <2>. TAKE r \in DOMAIN pollHeld
  <2>1. inDb[r] = [copy |-> pollHeld[r], up |-> inDb[r].up]  BY DEF PollInv
  <2>2. inDb'[r] = [inDb[r] EXCEPT !.copy = Copy(conf)] /\ pollHeld'[r] = Copy(conf)  BY <1>1
  <2>. QED  BY <2>1, <2>2
<1>. QED  BY <1>1, <1>7, <1>8, <1>9 DEF PollInv

\* Posting an action, of any kind, leaves what was posted.
LEMMA PostsKeeps ==
    ASSUME PollAssumption, PollInv, NEW to \in SUBSET Polled, NEW kind \in ActionKinds, Posts(to, kind)
    PROVE  PollInv'
<1>1. /\ PollTypes /\ mail' = Append(mail, Action(to, kind))
      /\ UNCHANGED <<conf, pollHeld, inDb, box, polls, pollTold, missed, up, now>>
  BY DEF Posts, PollInv
<1>2. mail \in Seq(Letters) /\ Action(to, kind) \in Letters  BY <1>1, Posted DEF PollTypes
<1>3. /\ mail' \in Seq(Letters) /\ (Notifies(mail) => Notifies(mail'))
      /\ \A r : AsksIn(mail, r) => AsksIn(mail', r)
  BY <1>1, <1>2, AskMore, AmongAppend
<1>4. PollTypes'  BY <1>1, <1>3 DEF PollTypes
<1>5. \A r \in DOMAIN pollHeld :
         KnowsOf(r, pollHeld'[r], box'[r], (pollTold \cup missed)', mail', polls'[r], Copy(conf)')
  <2>. TAKE r \in DOMAIN pollHeld
  <2>1. KnowsOf(r, pollHeld[r], box[r], pollTold \cup missed, mail, polls[r], Copy(conf))
    BY DEF PollInv
  <2>. QED  BY <1>1, <1>3, <2>1 DEF KnowsOf, Copy
<1>. QED  BY <1>1, <1>4, <1>5 DEF PollInv

\* An action moves from the main queue to those of the remotes.
LEMMA PushedKeeps ==
    ASSUME PollAssumption, PollInv, Pushed
    PROVE  PollInv'
<1>. DEFINE m == Head(mail)
            a(r) == [action |-> m.action, n |-> Len(polls[r])]
            has(r) == r \in DOMAIN pollHeld /\ r \in m.to
<1>1. /\ PollTypes /\ mail # <<>> /\ m.does = "push" /\ mail' = Tail(mail)
      /\ polls' = [r \in Polled |-> IF has(r) THEN PollQueued(polls[r], a(r)) ELSE polls[r]]
      /\ UNCHANGED <<conf, pollHeld, inDb, box, pollTold, missed, up, now>>
  BY DEF Pushed, PollHandled, PollInv
<1>2. mail' \in Seq(Letters) /\ m \in Letters  BY <1>1, AmongTail DEF PollTypes
<1>3. /\ Notifies(mail) => Notifies(mail')
      /\ \A r : AsksIn(mail, r) => (r \in m.to /\ m.action = "poll_configuration") \/ AsksIn(mail', r)
  BY <1>1, AskLess DEF PollTypes
<1>4. m.action \in ActionKinds  BY <1>2 DEF Letters
<1>. HIDE DEF m
<1>5. \A r \in Polled :
         /\ polls[r] \in Seq(Acts) /\ Ordered(polls[r]) /\ Numbered(polls[r])
         /\ a(r) \in Acts /\ a(r).action = m.action
  <2>. TAKE r \in Polled
  <2>1. polls[r] \in Seq(Acts)  BY <1>1 DEF PollTypes
  <2>2. Len(polls[r]) \in Nat  BY <2>1, LenProperties
  <2>. QED  BY <2>1, <2>2, <1>4 DEF PollInv, Acts
<1>6. \A r \in Polled :
         /\ polls'[r] \in Seq(Acts) /\ Ordered(polls'[r]) /\ Numbered(polls'[r])
         /\ has(r) => Among(a(r), polls'[r])
         /\ \A y : Among(y, polls[r]) => Among(y, polls'[r])
  <2>. TAKE r \in Polled
  <2>1. CASE has(r)
    <3>1. polls'[r] = PollQueued(polls[r], [action |-> m.action, n |-> Len(polls[r])])  BY <1>1, <2>1
    <3>. QED  BY <3>1, <1>4, <1>5, QueuedKeeps
  <2>2. CASE ~has(r)
    <3>1. polls'[r] = polls[r]  BY <1>1, <2>2
    <3>. QED  BY <3>1, <1>5, <2>2
  <2>. QED  BY <2>1, <2>2
<1>7. PollTypes'  BY <1>1, <1>2, <1>6 DEF PollTypes
<1>8. \A r \in DOMAIN pollHeld :
         KnowsOf(r, pollHeld'[r], box'[r], (pollTold \cup missed)', mail', polls'[r], Copy(conf)')
  <2>. TAKE r \in DOMAIN pollHeld
  <2>1. KnowsOf(r, pollHeld[r], box[r], pollTold \cup missed, mail, polls[r], Copy(conf))
    BY DEF PollInv
  <2>2. r \in Polled  BY <1>1 DEF PollTypes
  <2>3. ToldBy(polls[r]) => ToldBy(polls'[r])  BY <2>2, <1>6 DEF ToldBy
  <2>4. r \in m.to /\ m.action = "poll_configuration" => ToldBy(polls'[r])
    BY <2>2, <1>5, <1>6 DEF ToldBy
  <2>. QED  BY <1>1, <1>3, <2>1, <2>3, <2>4 DEF KnowsOf, Copy
<1>. QED  BY <1>1, <1>6, <1>7, <1>8 DEF PollInv

\* What a heartbeat counts for one remote leaves the others' alone.
LEMMA BeatsKeep ==
    ASSUME PollAssumption, PollInv, NEW r \in Polled, NEW gap \in Gaps, NEW private \in BOOLEAN,
           Beats(r, gap, private), UNCHANGED pollHeld
    PROVE  /\ DOMAIN inDb' = DOMAIN pollHeld /\ DOMAIN up' = DOMAIN pollHeld /\ now' \in Nat
           /\ \A s \in DOMAIN pollHeld :
                 inDb'[s] = [copy |-> pollHeld[s], up |-> inDb'[s].up] /\ TimesOf(up'[s], inDb'[s].up, now')
<1>. DEFINE v == Beat(up[r], gap, private)
            e == IF v.since = 0 THEN Saved(v) ELSE inDb[r].up
<1>1. /\ PollTypes /\ r \in DOMAIN pollHeld /\ now' = now + gap
      /\ up' = [up EXCEPT ![r] = v]
      /\ inDb' = IF up'[r].since = 0 THEN [inDb EXCEPT ![r].up = Saved(up'[r])] ELSE inDb
  BY DEF Beats, PollInv
<1>2. gap \in Nat /\ now \in Nat /\ now' \in Nat /\ now <= now'
  BY <1>1 DEF PollTypes, PollAssumption
<1>3. \A s \in DOMAIN pollHeld :
         inDb[s] = [copy |-> pollHeld[s], up |-> inDb[s].up] /\ TimesOf(up[s], inDb[s].up, now)
  BY DEF PollInv
<1>4. TimesOf(v, e, now')  BY <1>1, <1>2, <1>3, BeatKeeps
<1>. HIDE DEF v
<1>5. /\ DOMAIN up' = DOMAIN pollHeld /\ up'[r] = v
      /\ \A s \in DOMAIN pollHeld : s # r => up'[s] = up[s]
  BY <1>1 DEF PollTypes
<1>6. /\ DOMAIN inDb' = DOMAIN pollHeld /\ inDb'[r] = [copy |-> pollHeld[r], up |-> e]
      /\ \A s \in DOMAIN pollHeld : s # r => inDb'[s] = inDb[s]
  <2>1. CASE v.since = 0
    <3>1. inDb' = [inDb EXCEPT ![r].up = Saved(v)] /\ e = Saved(v)  BY <1>1, <1>5, <2>1
    <3>2. inDb[r] = [copy |-> pollHeld[r], up |-> inDb[r].up]  BY <1>1, <1>3
    <3>. QED  BY <1>1, <3>1, <3>2 DEF PollTypes
  <2>2. CASE v.since # 0
    <3>1. inDb' = inDb /\ e = inDb[r].up  BY <1>1, <1>5, <2>2
    <3>. QED  BY <1>1, <1>3, <3>1 DEF PollTypes
  <2>. QED  BY <2>1, <2>2
<1>. HIDE DEF e
<1>7. inDb'[r].up = e  BY <1>6
<1>8. ASSUME NEW s \in DOMAIN pollHeld, s # r
      PROVE  TimesOf(up'[s], inDb'[s].up, now') /\ inDb'[s] = [copy |-> pollHeld[s], up |-> inDb'[s].up]
  <2>1. TimesOf(up[s], inDb[s].up, now) /\ up[s].last \in Nat  BY <1>3 DEF TimesOf, Ups
  <2>2. TimesOf(up[s], inDb[s].up, now')  BY <1>2, <2>1 DEF TimesOf
  <2>. QED  BY <1>3, <1>5, <1>6, <1>8, <2>2
<1>. QED  BY <1>2, <1>4, <1>5, <1>6, <1>7, <1>8

\* A heartbeat in a voice session counts, and gives no action.
LEMMA VoiceHeartbeatKeeps ==
    ASSUME PollAssumption, PollInv, NEW r \in Polled, NEW gap \in Gaps, NEW private \in BOOLEAN,
           VoiceHeartbeat(r, gap, private)
    PROVE  PollInv'
<1>1. /\ Beats(r, gap, private) /\ PollTypes
      /\ UNCHANGED <<conf, pollHeld, box, mail, polls, pollTold, missed>>
  BY DEF VoiceHeartbeat, PollInv
<1>2. /\ DOMAIN inDb' = DOMAIN pollHeld /\ DOMAIN up' = DOMAIN pollHeld /\ now' \in Nat
      /\ \A s \in DOMAIN pollHeld :
            inDb'[s] = [copy |-> pollHeld[s], up |-> inDb'[s].up] /\ TimesOf(up'[s], inDb'[s].up, now')
  BY <1>1, BeatsKeep
<1>3. PollTypes'  BY <1>1, <1>2 DEF PollTypes
<1>. QED  BY <1>1, <1>2, <1>3 DEF PollInv, Copy

\* A heartbeat gives the first action: a remote is told, or has missed it.
LEMMA HeartbeatKeeps ==
    ASSUME PollAssumption, PollInv, NEW r \in Polled, NEW gap \in Gaps, NEW private \in BOOLEAN,
           NEW lost \in BOOLEAN, Heartbeat(r, gap, private, lost)
    PROVE  PollInv'
<1>. DEFINE given == {b.action : b \in {polls[r][i] : i \in DOMAIN polls[r] \cap {1}}}
<1>1. /\ Beats(r, gap, private) /\ PollTypes /\ r \in DOMAIN pollHeld
      /\ polls' = IF polls[r] = <<>> THEN polls ELSE [polls EXCEPT ![r] = Renumbered(Tail(polls[r]))]
      /\ pollTold' = IF "poll_configuration" \in given /\ ~lost THEN pollTold \cup {r} ELSE pollTold
      /\ missed' = IF "poll_configuration" \in given /\ lost THEN missed \cup {r} ELSE missed
      /\ UNCHANGED <<conf, pollHeld, box, mail>>
  BY DEF Heartbeat, Beats, PollInv
<1>2. /\ DOMAIN inDb' = DOMAIN pollHeld /\ DOMAIN up' = DOMAIN pollHeld /\ now' \in Nat
      /\ \A s \in DOMAIN pollHeld :
            inDb'[s] = [copy |-> pollHeld[s], up |-> inDb'[s].up] /\ TimesOf(up'[s], inDb'[s].up, now')
  BY <1>1, BeatsKeep
<1>3. polls[r] \in Seq(Acts) /\ Ordered(polls[r]) /\ Numbered(polls[r])
  BY <1>1 DEF PollTypes, PollInv
<1>4. polls[r] # <<>> => (Head(polls[r]).action = "poll_configuration" => "poll_configuration" \in given)
  <2>. HAVE polls[r] # <<>>
  <2>1. 1 \in DOMAIN polls[r] /\ Head(polls[r]) = polls[r][1]
    <3>1. Len(polls[r]) \in Nat /\ Len(polls[r]) # 0 /\ DOMAIN polls[r] = 1 .. Len(polls[r])
      BY <1>3, EmptySeq, LenProperties
    <3>. QED  BY <3>1, <1>3, HeadTailProperties
  <2>. QED  BY <2>1
<1>. HIDE DEF given
<1>5. /\ pollTold \cup missed \subseteq pollTold' \cup missed'
      /\ "poll_configuration" \in given => r \in pollTold' \cup missed'
  BY <1>1
<1>6. /\ polls'[r] \in Seq(Acts) /\ Ordered(polls'[r]) /\ Numbered(polls'[r])
      /\ ToldBy(polls[r]) => r \in pollTold' \cup missed' \/ ToldBy(polls'[r])
      /\ \A s \in Polled : s # r => polls'[s] = polls[s]
      /\ DOMAIN polls' = Polled
  <2>1. CASE polls[r] = <<>>  BY <1>1, <1>3, <2>1 DEF PollTypes
  <2>2. CASE polls[r] # <<>>
    <3>1. polls' = [polls EXCEPT ![r] = Renumbered(Tail(polls[r]))]  BY <1>1, <2>2
    <3>2. /\ polls'[r] = Renumbered(Tail(polls[r])) /\ DOMAIN polls' = Polled
          /\ \A s \in Polled : s # r => polls'[s] = polls[s]
      BY <3>1, <1>1 DEF PollTypes
    <3>. QED  BY <3>2, <1>3, <1>4, <1>5, <2>2, RenumberedKeeps
  <2>. QED  BY <2>1, <2>2
<1>7. PollTypes'
  <2>1. polls' \in [Polled -> Seq(Acts)]
    <3>1. \A s \in Polled : polls'[s] \in Seq(Acts)  BY <1>1, <1>6 DEF PollTypes
    <3>2. polls' = [s \in Polled |-> polls'[s]]
      <4>1. CASE polls[r] = <<>>  BY <1>1, <4>1 DEF PollTypes
      <4>2. CASE polls[r] # <<>>  BY <1>1, <4>2 DEF PollTypes
      <4>. QED  BY <4>1, <4>2
    <3>. QED  BY <3>1, <3>2
  <2>. QED  BY <2>1, <1>1, <1>2 DEF PollTypes
<1>8. \A s \in DOMAIN pollHeld :
         KnowsOf(s, pollHeld'[s], box'[s], (pollTold \cup missed)', mail', polls'[s], Copy(conf)')
  <2>. TAKE s \in DOMAIN pollHeld
  <2>1. KnowsOf(s, pollHeld[s], box[s], pollTold \cup missed, mail, polls[s], Copy(conf))
    BY DEF PollInv
  <2>2. s \in Polled  BY <1>1 DEF PollTypes
  <2>3. ToldBy(polls[s]) => s \in pollTold' \cup missed' \/ ToldBy(polls'[s])  BY <2>2, <1>6
  <2>. QED  BY <1>1, <1>5, <2>1, <2>3 DEF KnowsOf, Copy
<1>9. \A s \in Polled : Ordered(polls'[s]) /\ Numbered(polls'[s])  BY <1>6 DEF PollInv
<1>. QED  BY <1>1, <1>2, <1>7, <1>8, <1>9 DEF PollInv

\* A start tells each remote whose stored copy differs; the others lose what was queued.
LEMMA PollRestartKeeps ==
    ASSUME PollAssumption, PollInv, NEW json, NEW tr181, NEW order \in BOOLEAN,
           PollRestart(json, tr181, order)
    PROVE  PollInv'
<1>. DEFINE loaded == [r \in DOMAIN inDb |-> inDb[r].copy]
            again == {r \in DOMAIN inDb : loaded[r] # Copy(conf')}
            saved == [r \in DOMAIN inDb |->
                        IF order THEN [inDb[r].up EXCEPT !.uptime = up[r].uptime, !.privacy = up[r].privacy]
                        ELSE inDb[r].up]
<1>1. /\ PollTypes
      /\ pollHeld' = [r \in DOMAIN inDb |-> Copy(conf')]
      /\ inDb' = [r \in DOMAIN inDb |-> [copy |-> Copy(conf'), up |-> saved[r]]]
      /\ up' = [r \in DOMAIN inDb |-> Counted(saved[r])]
      /\ mail' = Updates(again)
      /\ missed' = missed \cup {r \in Polled : Waits(r, "poll_configuration") /\ r \notin again}
      /\ polls' = [r \in Polled |-> <<>>]
      /\ UNCHANGED <<box, pollTold, now>>
  BY DEF PollRestart, PollInv
<1>2. /\ DOMAIN inDb = DOMAIN pollHeld /\ DOMAIN pollHeld \subseteq Polled /\ now \in Nat
      /\ mail \in Seq(Letters) /\ \A r \in Polled : polls[r] \in Seq(Acts)
  BY <1>1 DEF PollTypes
<1>3. \A r \in DOMAIN pollHeld :
         inDb[r] = [copy |-> pollHeld[r], up |-> inDb[r].up] /\ TimesOf(up[r], inDb[r].up, now)
  BY DEF PollInv
<1>4. /\ again \in SUBSET Polled
      /\ \A r \in DOMAIN pollHeld : r \in again \/ pollHeld[r] = Copy(conf')
  <2>1. \A r \in DOMAIN pollHeld : loaded[r] = pollHeld[r]  BY <1>2, <1>3
  <2>. QED  BY <2>1, <1>2
<1>5. \A r \in DOMAIN pollHeld :
         /\ saved[r] \in SavedUps /\ saved[r].last <= now
         /\ saved[r].privacy <= saved[r].uptime
  <2>. TAKE r \in DOMAIN pollHeld
  <2>. DEFINE d == inDb[r].up  u == up[r]
  <2>1. TimesOf(u, d, now)  BY <1>3
  <2>. HIDE DEF d, u
  <2>2. /\ d \in SavedUps /\ d.last <= now /\ d.privacy <= d.uptime
        /\ u.uptime \in Int /\ u.privacy \in Int /\ u.privacy <= u.uptime
    BY <2>1, <1>2 DEF TimesOf, Ups, SavedUps
  <2>3. saved[r] = IF order THEN [d EXCEPT !.uptime = u.uptime, !.privacy = u.privacy] ELSE d
    BY <1>2 DEF d, u
  <2>. HIDE DEF saved
  <2>4. CASE order
    <3>1. saved[r] = [d EXCEPT !.uptime = u.uptime, !.privacy = u.privacy]  BY <2>3, <2>4
    <3>2. /\ saved[r] \in SavedUps /\ saved[r].last = d.last
          /\ saved[r].uptime = u.uptime /\ saved[r].privacy = u.privacy
      BY <2>2, <3>1 DEF SavedUps
    <3>. QED  BY <2>2, <3>2
  <2>5. CASE ~order
    <3>1. saved[r] = d  BY <2>3, <2>5
    <3>. QED  BY <2>2, <3>1
  <2>. QED  BY <2>4, <2>5
<1>. HIDE DEF again, saved
<1>6. \A r \in DOMAIN pollHeld : TimesOf(Counted(saved[r]), saved[r], now)
  <2>. TAKE r \in DOMAIN pollHeld
  <2>. DEFINE d == saved[r]  u == Counted(d)
  <2>1. d \in SavedUps /\ d.last <= now /\ d.privacy <= d.uptime  BY <1>5
  <2>. HIDE DEF d
  <2>2. /\ u \in Ups /\ u.last = d.last /\ u.since = 0
        /\ u.uptime = d.uptime /\ u.privacy = d.privacy
    BY <2>1 DEF Counted, Ups, SavedUps
  <2>. HIDE DEF u
  <2>3. HbToSave > 0 /\ d.last \in Nat  BY <2>1 DEF PollAssumption, SavedUps
  <2>4. TimesOf(u, d, now)  BY <2>1, <2>2, <2>3 DEF TimesOf
  <2>. QED  BY <2>4 DEF u, d
<1>7. /\ DOMAIN pollHeld' = DOMAIN pollHeld /\ DOMAIN inDb' = DOMAIN pollHeld
      /\ DOMAIN up' = DOMAIN pollHeld
      /\ \A r \in DOMAIN pollHeld :
            /\ pollHeld'[r] = Copy(conf') /\ up'[r] = Counted(saved[r])
            /\ inDb'[r] = [copy |-> Copy(conf'), up |-> saved[r]]
  BY <1>1, <1>2
<1>8. mail' \in Seq(Letters) /\ \A r \in again : AsksIn(mail', r)
  BY <1>1, <1>4, UpdatesAsk DEF PollAssumption
<1>9. <<>> \in Seq(Acts) /\ Ordered(<<>>) /\ Numbered(<<>>)
  <2>1. <<>> \in Seq(Acts) /\ Len(<<>>) = 0  BY EmptySeq
  <2>. QED  BY <2>1 DEF Ordered, Numbered
<1>10. polls' \in [Polled -> Seq(Acts)] /\ \A r \in Polled : polls'[r] = <<>>  BY <1>1, <1>9
<1>11. PollTypes'  BY <1>1, <1>2, <1>7, <1>8, <1>10 DEF PollTypes
<1>12. \A r \in Polled : AsksIn(mail, r) \/ ToldBy(polls[r]) => Waits(r, "poll_configuration")
  <2>. TAKE r \in Polled
  <2>1. DOMAIN mail = 1 .. Len(mail) /\ DOMAIN polls[r] = 1 .. Len(polls[r])
    BY <1>2, LenProperties
  <2>. QED  BY <2>1 DEF AsksIn, ToldBy, Among, Waits
<1>13. \A r \in DOMAIN pollHeld :
         KnowsOf(r, pollHeld'[r], box'[r], (pollTold \cup missed)', mail', polls'[r], Copy(conf)')
  <2>. TAKE r \in DOMAIN pollHeld
  <2>1. KnowsOf(r, pollHeld[r], box[r], pollTold \cup missed, mail, polls[r], Copy(conf))
    BY DEF PollInv
  <2>2. pollHeld'[r] = Copy(conf)'  BY <1>7 DEF Copy
  <2>3. CASE r \in again  BY <1>8, <2>2, <2>3 DEF KnowsOf
  <2>4. CASE r \notin again
    <3>1. pollHeld'[r] = pollHeld[r]  BY <1>4, <1>7, <2>4
    <3>2. AsksIn(mail, r) \/ ToldBy(polls[r]) => r \in missed'  BY <1>1, <1>2, <1>12, <2>4
    <3>. QED  BY <1>1, <2>1, <2>2, <3>1, <3>2 DEF KnowsOf
  <2>. QED  BY <2>3, <2>4
<1>14. \A r \in DOMAIN pollHeld :
         inDb'[r] = [copy |-> pollHeld'[r], up |-> inDb'[r].up] /\ TimesOf(up'[r], inDb'[r].up, now')
  <2>. TAKE r \in DOMAIN pollHeld
  <2>1. inDb'[r].up = saved[r]  BY <1>7
  <2>. QED  BY <2>1, <1>1, <1>6, <1>7
<1>. QED  BY <1>1, <1>7, <1>9, <1>10, <1>11, <1>13, <1>14 DEF PollInv

\* Every step keeps the invariant.
LEMMA PollNextKeeps ==
    ASSUME PollAssumption, PollInv, [PollNext]_pollVars
    PROVE  PollInv'
<1>1. CASE UNCHANGED pollVars
  BY <1>1 DEF pollVars, PollInv, PollTypes, Copy
<1>2. ASSUME NEW r \in Polled, PollValidated(r) \/ Reads(r) PROVE PollInv'
  BY <1>2, PollValidatedKeeps, ReadsKeeps
<1>3. ASSUME NEW s \in Sources, RfcRetrieved(s) PROVE PollInv'
  BY <1>3, RfcRetrievedKeeps
<1>4. ASSUME NEW rs \in SUBSET Polled, Requested(rs) \/ NotifyFirmware(rs) PROVE PollInv'
  <2>1. "reboot" \in ActionKinds /\ "ota" \in ActionKinds  BY DEF ActionKinds
  <2>2. Posts(rs, "reboot") \/ Posts(rs, "ota")  BY <1>4 DEF Requested, NotifyFirmware
  <2>. QED  BY <2>1, <2>2, PostsKeeps
<1>5. ASSUME NEW r \in Polled, FindsRemote(r) \/ Metrics(r) \/ PushIrCodes(r) \/ Incomplete(r)
      PROVE  PollInv'
  <2>1. {r} \in SUBSET Polled  OBVIOUS
  <2>2. PICK kind \in ActionKinds : Posts({r}, kind)
    <3>1. {"alert", "metrics", "irrf_status", "configuration"} \subseteq ActionKinds  BY DEF ActionKinds
    <3>2. CASE FindsRemote(r)  BY <3>1, <3>2 DEF FindsRemote
    <3>3. CASE Metrics(r)  BY <3>1, <3>3 DEF Metrics
    <3>4. CASE PushIrCodes(r)  BY <3>1, <3>4 DEF PushIrCodes
    <3>5. CASE Incomplete(r)  BY <3>1, <3>5 DEF Incomplete
    <3>. QED  BY <1>5, <3>2, <3>3, <3>4, <3>5
  <2>. QED  BY <2>1, <2>2, PostsKeeps
<1>6. CASE NotifyControllers  BY <1>6, NotifyControllersKeeps
<1>7. CASE Pushed  BY <1>7, PushedKeeps
<1>8. CASE Crash
  <2>1. PICK json \in Sources, tr181 \in Sources : PollRestart(json, tr181, FALSE)  BY <1>8 DEF Crash
  <2>. QED  BY <2>1, PollRestartKeeps
<1>9. CASE Ends
  <2>1. PICK json \in Sources, tr181 \in Sources : PollRestart(json, tr181, TRUE)  BY <1>9 DEF Ends
  <2>. QED  BY <2>1, PollRestartKeeps
<1>10. ASSUME NEW r \in Polled, NEW gap \in Gaps, NEW private \in BOOLEAN,
              VoiceHeartbeat(r, gap, private) \/ \E lost \in BOOLEAN : Heartbeat(r, gap, private, lost)
       PROVE  PollInv'
  BY <1>10, VoiceHeartbeatKeeps, HeartbeatKeeps
<1>. QED  BY <1>1, <1>2, <1>3, <1>4, <1>5, <1>6, <1>7, <1>8, <1>9, <1>10 DEF PollNext

\* What the invariant says is what is asked for.
LEMMA PollInvSound == ASSUME PollAssumption, PollInv PROVE PollSound
<1>1. PollTypes  BY DEF PollInv
<1>2. PollsInOrder
  <2>. SUFFICES ASSUME NEW r \in Polled PROVE
          \A i, j \in DOMAIN polls[r] : i < j => Before(polls[r][i], polls[r][j])
    BY DEF PollsInOrder, Before
  <2>1. polls[r] \in Seq(Acts) /\ Ordered(polls[r])  BY <1>1 DEF PollInv, PollTypes
  <2>2. DOMAIN polls[r] = 1 .. Len(polls[r])  BY <2>1, LenProperties
  <2>. QED  BY <2>1, <2>2 DEF Ordered
<1>3. KnowsOrTold
  <2>. SUFFICES ASSUME NEW r \in DOMAIN pollHeld PROVE
          /\ pollHeld[r] = Copy(conf) \/ \E i \in DOMAIN mail : mail[i].does = "notify"
          /\ box[r] \in {Nothing, pollHeld[r]} \/ r \in pollTold \cup missed \/ Waits(r, "poll_configuration")
    BY DEF KnowsOrTold
  <2>1. r \in Polled /\ mail \in Seq(Letters) /\ polls[r] \in Seq(Acts)  BY <1>1 DEF PollTypes
  <2>2. DOMAIN mail = 1 .. Len(mail) /\ DOMAIN polls[r] = 1 .. Len(polls[r])  BY <2>1, LenProperties
  <2>3. KnowsOf(r, pollHeld[r], box[r], pollTold \cup missed, mail, polls[r], Copy(conf))
    BY DEF PollInv
  <2>4. AsksIn(mail, r) \/ ToldBy(polls[r]) => Waits(r, "poll_configuration")
    BY <2>2 DEF AsksIn, ToldBy, Among, Waits
  <2>5. Notifies(mail) => \E i \in DOMAIN mail : mail[i].does = "notify"
    BY <2>2 DEF Notifies, Among
  <2>. QED  BY <2>3, <2>4, <2>5 DEF KnowsOf
<1>4. SavedInTime
  <2>. SUFFICES ASSUME NEW r \in DOMAIN up PROVE
          /\ inDb[r].up.last <= up[r].last /\ up[r].since < HbToSave
          /\ up[r].last - inDb[r].up.last = up[r].since
          /\ inDb[r].up.privacy <= inDb[r].up.uptime /\ up[r].privacy <= up[r].uptime
    BY DEF SavedInTime
  <2>1. TimesOf(up[r], inDb[r].up, now)  BY <1>1 DEF PollInv, PollTypes
  <2>2. up[r].last \in Nat /\ up[r].since \in Nat /\ inDb[r].up.last \in Nat
    BY <2>1 DEF TimesOf, Ups, SavedUps
  <2>. QED  BY <2>1, <2>2 DEF TimesOf
<1>. QED  BY <1>2, <1>3, <1>4 DEF PollSound

\* Actions leave by priority and in the order they came, a remote polls the way the network
\* has it or is told to, and its uptime is stored in time, whatever is lost on the air and
\* however often the process starts.
THEOREM PollsAreKept == PollAssumption => (PollSpec => []PollSound)
<1>. SUFFICES ASSUME PollAssumption PROVE PollSpec => []PollSound  OBVIOUS
<1>1. PollInit => PollInv  BY PollInitInv
<1>2. PollInv /\ [PollNext]_pollVars => PollInv'  BY PollNextKeeps
<1>3. PollInv => PollSound  BY PollInvSound
<1>. QED  BY <1>1, <1>2, <1>3, PTL DEF PollSpec

=============================================================================
