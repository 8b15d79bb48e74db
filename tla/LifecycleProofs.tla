--------------------------- MODULE LifecycleProofs ----------------------------
(***************************************************************************)
(* What is proved of the life of the process: the count of failed starts,  *)
(* the start of the networks and the calls of the bus.                     *)
(***************************************************************************)
EXTENDS CrashRecovery, NetworkStart, BusCalls,
        FiniteSetTheorems, SequenceTheorems, TLAPS

-----------------------------------------------------------------------------
(***************************************************************************)
(* The count of failed starts is bounded, for every threshold, however the *)
(* process crashes and whatever is damaged.                                *)
(***************************************************************************)

\* A start that restores the backup has read a count below twice the threshold, and counts
\* itself after the copy: a crash in between leaves the count as it was.
CountInv ==
    /\ shared \in [count : 0..(2 * Threshold), badHal : BOOLEAN, badDb : BOOLEAN]
    /\ phase = "copied" => shared.count < 2 * Threshold

\* A change of the marks leaves the count, and a change of the count the marks.
LEMMA SharedMarks ==
    ASSUME NEW n, NEW s \in [count : 0..n, badHal : BOOLEAN, badDb : BOOLEAN]
    PROVE  /\ [s EXCEPT !.badHal = FALSE, !.badDb = FALSE]
                \in [count : 0..n, badHal : BOOLEAN, badDb : BOOLEAN]
           /\ [s EXCEPT !.badHal = TRUE] \in [count : 0..n, badHal : BOOLEAN, badDb : BOOLEAN]
           /\ [s EXCEPT !.badDb = TRUE] \in [count : 0..n, badHal : BOOLEAN, badDb : BOOLEAN]
  BY Zenon

\* The shared memory keeps its type when a count is stored.
LEMMA SharedCounts ==
    ASSUME NEW n, NEW s \in [count : 0..n, badHal : BOOLEAN, badDb : BOOLEAN], NEW c \in 0..n
    PROVE  [s EXCEPT !.count = c] \in [count : 0..n, badHal : BOOLEAN, badDb : BOOLEAN]
  BY Zenon

\* Nothing is counted when the shared memory is new.
LEMMA NothingCounted == NewShared \in [count : 0..(2 * Threshold), badHal : BOOLEAN, badDb : BOOLEAN]
  <1>1. 0 \in 0..(2 * Threshold)  BY RecoveryAssumption
  <1> QED  BY <1>1 DEF NewShared

\* Every step keeps the count within its bound.
LEMMA CountKept == CountInv /\ [RecoveryNext]_recoveryVars => CountInv'
<1> SUFFICES ASSUME CountInv, [RecoveryNext]_recoveryVars PROVE CountInv'
  OBVIOUS
<1> DEFINE Shareds == [count : 0..(2 * Threshold), badHal : BOOLEAN, badDb : BOOLEAN]
<1>a. shared \in Shareds  BY DEF CountInv
<1>b. Threshold \in Nat \ {0}  BY RecoveryAssumption
<1>c. shared.count \in 0..(2 * Threshold)  BY <1>a
<1>1. CASE Boot
  <2>1. shared' \in Shareds  BY <1>1, <1>a, SharedMarks, Zenon DEF Boot
  <2>2. phase' = "check"  BY <1>1 DEF Boot
  <2> QED  BY <2>1, <2>2 DEF CountInv
<1>2. CASE Reset
  <2>1. 0 \in 0..(2 * Threshold)  BY <1>b
  <2>2. shared' \in Shareds  BY <1>2, <1>a, <2>1, SharedCounts, Zenon DEF Reset
  <2>3. phase' = "open"  BY <1>2 DEF Reset
  <2> QED  BY <2>2, <2>3 DEF CountInv
<1>3. CASE GiveUp
  BY <1>3 DEF GiveUp, CountInv
<1>4. CASE CountOnly \/ NoBackup \/ CountRestore
  <2>1. shared.count + 1 \in 0..(2 * Threshold)
    BY <1>4, <1>b, <1>c DEF CountOnly, NoBackup, CountRestore, InBackupRange, CountInv
  <2>2. shared' = [shared EXCEPT !.count = shared.count + 1] /\ phase' = "open"
    BY <1>4 DEF CountOnly, NoBackup, CountRestore
  <2>3. shared' \in Shareds  BY <1>a, <2>1, <2>2, SharedCounts, Zenon
  <2> QED  BY <2>2, <2>3 DEF CountInv
<1>5. CASE Inconsistent
  <2>1. 2 * Threshold \in 0..(2 * Threshold)  BY <1>b
  <2>2. shared' \in Shareds  BY <1>5, <1>a, <2>1, SharedCounts, Zenon DEF Inconsistent
  <2>3. phase' = "open"  BY <1>5 DEF Inconsistent
  <2> QED  BY <2>2, <2>3 DEF CountInv
<1>6. CASE Restore
  BY <1>6, <1>a DEF Restore, InBackupRange, CountInv
<1>7. CASE OpenDatabase
  <2>a. shared' = shared \/ shared' = [shared EXCEPT !.badDb = TRUE]
    BY <1>7 DEF OpenDatabase
  <2>b. [shared EXCEPT !.badDb = TRUE] \in Shareds  BY <1>a, SharedMarks, Zenon
  <2>1. shared' \in Shareds  BY <2>a, <2>b, <1>a, Zenon
  <2>2. phase' # "copied"  BY <1>7 DEF OpenDatabase
  <2> QED  BY <2>1, <2>2 DEF CountInv
<1>8. CASE InitNetworks
  <2>a. shared' = shared \/ shared' = [shared EXCEPT !.badHal = TRUE]
    BY <1>8 DEF InitNetworks
  <2>b. [shared EXCEPT !.badHal = TRUE] \in Shareds  BY <1>a, SharedMarks, Zenon
  <2>1. shared' \in Shareds  BY <2>a, <2>b, <1>a, Zenon
  <2>2. phase' # "copied"  BY <1>8 DEF InitNetworks
  <2> QED  BY <2>1, <2>2 DEF CountInv
<1>9. CASE BackupHal
  <2>1. 0 \in 0..(2 * Threshold)  BY <1>b
  <2>2. shared' \in Shareds  BY <1>9, <1>a, <2>1, SharedCounts, Zenon DEF BackupHal
  <2>3. phase' # "copied"  BY <1>9 DEF BackupHal
  <2> QED  BY <2>2, <2>3 DEF CountInv
<1>10. CASE BackupDatabase \/ Stamp
  BY <1>10, <1>a DEF BackupDatabase, Stamp, CountInv
<1>11. CASE ComeUp
  <2>1. shared' \in Shareds  BY <1>11, NothingCounted DEF ComeUp
  <2>2. phase' = "up"  BY <1>11 DEF ComeUp
  <2> QED  BY <2>1, <2>2 DEF CountInv
<1>12. CASE Crash
  BY <1>12, <1>a DEF Crash, CountInv
<1>13. CASE Pair \/ WriteDatabase \/ Damage \/ UNCHANGED recoveryVars
  <2>1. UNCHANGED <<shared, phase>>
    BY <1>13 DEF Pair, WriteDatabase, Damage, recoveryVars
  <2> QED  BY <2>1 DEF CountInv
<1> QED
  BY <1>1, <1>2, <1>3, <1>4, <1>5, <1>6, <1>7, <1>8, <1>9, <1>10, <1>11, <1>12, <1>13
  DEF RecoveryNext, Recover

\* CountBounded: the count of a crash loop never exceeds twice the threshold, so that the
\* comparisons of ctrlm_crash_recovery_check see every value it can have.
THEOREM CountIsBounded == RecoverySpec => []CountBounded
<1>1. RecoveryInit => CountInv
  BY NothingCounted DEF RecoveryInit, CountInv
<1>2. CountInv => CountBounded
  BY DEF CountInv, CountBounded
<1> QED  BY <1>1, <1>2, CountKept, PTL DEF RecoverySpec

-----------------------------------------------------------------------------
(***************************************************************************)
(* A network is ready only after its HAL was answered, and the main thread *)
(* is in no network that is being deleted, for any networks.               *)
(***************************************************************************)

\* There is a network, and each has an identifier of its own.
StartAssumption ==
    /\ Nets \in Seq(STRING) /\ Nets # <<>>
    /\ \A i, j \in DOMAIN Nets : Nets[i] = Nets[j] => i = j

Starts == {"init", "locked", "waits", "woken", "completes", "passes"}
Lifes == {"made", "ready", "failed", "complete", "emptied", "deleted"}
Notes == [kind : {"confirm", "indication"}, net : Names]

Types ==
    /\ starter \in [pc : Starts \cup {"failed", "runs", "deletes", "ended"}, i : DOMAIN Nets]
    /\ hals \in [Names -> {"none", "starts", "asks", "serves", "ended"}]
    /\ nets \in [Names -> [result : BOOLEAN, life : Lifes]]
    /\ notes \in Seq(Notes) /\ mainIn \in Notes \cup {Idle}
    /\ mainEnds \in {"no", "joined", "left"}
    /\ terms \in [Names -> {"none", "ends", "signals"}]

\* While networks start: those before are served, those behind are not begun.
Order ==
    starter.pc \in Starts =>
       /\ \A n \in Names : terms[n] = "none"
       /\ \A j \in DOMAIN Nets : /\ j < starter.i => hals[Nets[j]] = "serves"
                                 /\ j > starter.i => hals[Nets[j]] = "none"
       /\ starter.pc = "init" => hals[Current] = "none"
       /\ starter.pc \in {"woken", "completes", "passes"} => hals[Current] = "serves"

\* A HAL that waits for its confirm has one on its way.
Asks(m, n) == m.kind = "confirm" /\ m.net = n
Once ==
    /\ \A k \in 1..Len(notes) : notes[k].kind = "confirm" => hals[notes[k].net] = "asks"
    /\ mainIn.kind = "confirm" => hals[mainIn.net] = "asks"
    /\ \A n \in Names : \A j, k \in 1..Len(notes) :
          Asks(notes[j], n) /\ Asks(notes[k], n) => j = k
    /\ \A n \in Names : \A k \in 1..Len(notes) : ~(Asks(notes[k], n) /\ Asks(mainIn, n))

\* The networks are deleted after the main thread was waited for.
Waited ==
    /\ starter.pc \in {"deletes", "ended"} => mainEnds # "no"
    /\ \A n \in Names : nets[n].life \in {"emptied", "deleted"} => mainEnds # "no"
    /\ mainEnds = "joined" => mainIn = Idle

SInv == Types /\ Order /\ Once /\ Waited /\ ReadyConfirmed

-----------------------------------------------------------------------------
(* Parts of the state.                                                     *)

\* The network of the original thread, and the fields of the records.
LEMMA Facts ==
    ASSUME StartAssumption, SInv
    PROVE  /\ DOMAIN Nets = 1..Len(Nets) /\ Len(Nets) \in Nat /\ 1 \in DOMAIN Nets
           /\ starter.i \in DOMAIN Nets /\ starter.i \in 1..Len(Nets)
           /\ Current \in Names /\ Current = Nets[starter.i]
           /\ starter = [pc |-> starter.pc, i |-> starter.i]
           /\ starter.pc \in Starts \cup {"failed", "runs", "deletes", "ended"}
           /\ \A n \in Names : \E j \in DOMAIN Nets : n = Nets[j]
           /\ \A j \in DOMAIN Nets : Nets[j] \in Names
           /\ \A j \in DOMAIN Nets : Nets[j] = Current => j = starter.i
           /\ hals \in [Names -> {"none", "starts", "asks", "serves", "ended"}]
           /\ nets \in [Names -> [result : BOOLEAN, life : Lifes]]
           /\ notes \in Seq(Notes) /\ mainIn \in Notes \cup {Idle}
           /\ terms \in [Names -> {"none", "ends", "signals"}]
           /\ \A k \in 1..Len(notes) : notes[k] \in Notes /\ notes[k].net \in Names
           /\ mainIn.kind = "confirm" => mainIn.net \in Names
<1>1. DOMAIN Nets = 1..Len(Nets) /\ Len(Nets) \in Nat /\ 1 \in DOMAIN Nets
  BY DEF StartAssumption
<1>2. /\ starter.i \in DOMAIN Nets /\ starter = [pc |-> starter.pc, i |-> starter.i]
      /\ starter.pc \in Starts \cup {"failed", "runs", "deletes", "ended"}
  BY DEF SInv, Types
<1>3. \A k \in 1..Len(notes) : notes[k] \in Notes
  BY DEF SInv, Types
<1>4. \A m \in Notes : m.net \in Names
  BY DEF Notes
<1>5. mainIn.kind = "confirm" => mainIn.net \in Names
  BY <1>4 DEF SInv, Types, Idle
<1>. QED  BY <1>1, <1>2, <1>3, <1>4, <1>5 DEF SInv, Types, Current, Names, StartAssumption

\* A step to another place of the original thread.
LEMMA GoesFacts ==
    ASSUME StartAssumption, SInv, NEW pc, Goes(pc)
    PROVE  starter' = [pc |-> pc, i |-> starter.i] /\ starter'.pc = pc /\ starter'.i = starter.i
<1>1. starter = [pc |-> starter.pc, i |-> starter.i]
  BY Facts
<1>2. starter' = [starter EXCEPT !.pc = pc]
  BY DEF Goes
<1>. QED  BY <1>1, <1>2

\* A step in the life of a network.
LEMMA LivesFacts ==
    ASSUME StartAssumption, SInv, NEW n \in Names, NEW life \in Lifes, Lives(n, life)
    PROVE  /\ nets' \in [Names -> [result : BOOLEAN, life : Lifes]]
           /\ nets'[n].life = life /\ nets'[n].result = nets[n].result
           /\ \A o \in Names \ {n} : nets'[o] = nets[o]
<1>1. nets \in [Names -> [result : BOOLEAN, life : Lifes]]
  BY Facts
<1>. QED  BY <1>1 DEF Lives

\* A message is queued, and the others stay.
LEMMA Queued ==
    ASSUME NEW q \in Seq(Notes), NEW m \in Notes
    PROVE  /\ Append(q, m) \in Seq(Notes) /\ Len(q) \in Nat
           /\ \A k \in 1..Len(Append(q, m)) :
                 \/ k = Len(q) + 1 /\ Append(q, m)[k] = m
                 \/ k \in 1..Len(q) /\ Append(q, m)[k] = q[k]
  OBVIOUS

\* The original thread goes on, in a network and with its HAL as they are.
LEMMA OriginalInvariant ==
    ASSUME StartAssumption, SInv, Original
    PROVE  SInv'
<1>1. CASE HalInitRequest
  <2>1. /\ starter.pc = "init" /\ Goes("locked") /\ hals' = [hals EXCEPT ![Current] = "starts"]
        /\ UNCHANGED <<nets, notes, mainIn, mainEnds, terms>>
    BY <1>1 DEF HalInitRequest
  <2>2. starter' = [pc |-> "locked", i |-> starter.i] /\ starter'.pc = "locked" /\ starter'.i = starter.i
    BY <2>1, GoesFacts
  <2>3. hals[Current] = "none"
    BY <2>1 DEF SInv, Order, Starts
  <2>4. hals'[Current] = "starts" /\ \A n \in Names \ {Current} : hals'[n] = hals[n]
    BY <2>1, Facts
  <2>5. Types'
    BY <2>1, <2>2, Facts DEF SInv, Types, Starts
  <2>6. Order'
    <3>1. \A j \in DOMAIN Nets : j < starter.i \/ j > starter.i => hals'[Nets[j]] = hals[Nets[j]]
      BY <2>4, Facts
    <3>. QED  BY <2>1, <2>2, <3>1 DEF SInv, Order, Starts
  <2>7. Once'
    <3>1. \A n \in Names : hals[n] = "asks" => hals'[n] = "asks"
      BY <2>3, <2>4
    <3>. QED  BY <2>1, <3>1, Facts DEF SInv, Once, Asks
  <2>8. Waited'
    BY <2>1, <2>2 DEF SInv, Waited
  <2>9. ReadyConfirmed'
    BY <2>1, <2>3, <2>4 DEF SInv, ReadyConfirmed
  <2>. QED  BY <2>5, <2>6, <2>7, <2>8, <2>9 DEF SInv
<1>2. CASE HalInitWait
  <2>1. starter.pc = "locked" /\ Goes("waits") /\ UNCHANGED <<hals, nets, notes, mainIn, mainEnds, terms>>
    BY <1>2 DEF HalInitWait
  <2>2. starter' = [pc |-> "waits", i |-> starter.i] /\ starter'.pc = "waits" /\ starter'.i = starter.i
    BY <2>1, GoesFacts
  <2>3. Types'
    BY <2>1, <2>2, Facts DEF SInv, Types, Starts
  <2>4. Order'
    BY <2>1, <2>2 DEF SInv, Order, Starts
  <2>5. Once' /\ ReadyConfirmed'
    BY <2>1 DEF SInv, Once, Asks, ReadyConfirmed
  <2>6. Waited'
    BY <2>1, <2>2 DEF SInv, Waited
  <2>. QED  BY <2>3, <2>4, <2>5, <2>6 DEF SInv
<1>3. CASE NetworkInit \/ HalInitComplete
  <2>1. PICK pc \in {"completes", "failed", "passes"}, life \in {"ready", "failed", "complete"} :
           Goes(pc) /\ Lives(Current, life)
    BY <1>3 DEF NetworkInit, HalInitComplete, Goes
  <2>2. starter.pc \in {"woken", "completes"} /\ UNCHANGED <<hals, notes, mainIn, mainEnds, terms>>
    BY <1>3 DEF NetworkInit, HalInitComplete
  <2>3. starter' = [pc |-> pc, i |-> starter.i] /\ starter'.pc = pc /\ starter'.i = starter.i
    BY <2>1, GoesFacts
  <2>4. /\ nets' \in [Names -> [result : BOOLEAN, life : Lifes]]
        /\ nets'[Current].life = life /\ \A o \in Names \ {Current} : nets'[o] = nets[o]
    BY <2>1, Facts, LivesFacts DEF Lifes
  <2>5. hals[Current] = "serves"
    BY <2>2 DEF SInv, Order, Starts
  <2>6. Types'
    BY <2>2, <2>3, <2>4, Facts DEF SInv, Types, Starts
  <2>7. Order'
    <3>1. Current' = Current
      BY <2>3 DEF Current
    <3>. QED  BY <2>2, <2>3, <2>5, <3>1 DEF SInv, Order, Starts
  <2>8. Once'
    BY <2>2 DEF SInv, Once, Asks
  <2>9. Waited'
    BY <2>2, <2>3, <2>4 DEF SInv, Waited
  <2>10. ReadyConfirmed'
    BY <2>2, <2>4, <2>5 DEF SInv, ReadyConfirmed
  <2>. QED  BY <2>6, <2>7, <2>8, <2>9, <2>10 DEF SInv
<1>4. CASE NextNetwork
  <2>1. /\ starter.pc = "passes" /\ UNCHANGED <<hals, nets, notes, mainIn, mainEnds, terms>>
        /\ starter' = IF starter.i < Len(Nets) THEN [pc |-> "init", i |-> starter.i + 1]
                      ELSE [pc |-> "runs", i |-> 1]
    BY <1>4 DEF NextNetwork
  <2>2. Types'
    BY <2>1, Facts DEF SInv, Types, Starts
  <2>3. Order'
    <3>1. CASE starter.i < Len(Nets)
      <4>1. starter'.pc = "init" /\ starter'.i = starter.i + 1 /\ Current' = Nets[starter.i + 1]
        BY <2>1, <3>1 DEF Current
      <4>2. starter.i + 1 \in DOMAIN Nets /\ starter.i + 1 > starter.i
        BY <3>1, Facts
      <4>3. /\ \A n \in Names : terms[n] = "none"
            /\ \A j \in DOMAIN Nets : /\ j < starter.i => hals[Nets[j]] = "serves"
                                      /\ j > starter.i => hals[Nets[j]] = "none"
            /\ hals[Nets[starter.i]] = "serves"
        BY <2>1 DEF SInv, Order, Starts, Current
      <4>4. ASSUME NEW j \in DOMAIN Nets
            PROVE  /\ j < starter.i + 1 => hals[Nets[j]] = "serves"
                   /\ j > starter.i + 1 => hals[Nets[j]] = "none"
        <5>1. j \in Nat /\ starter.i \in Nat
          BY Facts
        <5>2. j < starter.i + 1 => j < starter.i \/ j = starter.i
          BY <5>1
        <5>3. j > starter.i + 1 => j > starter.i
          BY <5>1
        <5>. QED  BY <4>3, <5>2, <5>3
      <4>. QED  BY <2>1, <4>1, <4>2, <4>3, <4>4 DEF Order
    <3>2. CASE ~(starter.i < Len(Nets))
      BY <2>1, <3>2 DEF Order, Starts
    <3>. QED  BY <3>1, <3>2
  <2>4. Once' /\ ReadyConfirmed'
    BY <2>1 DEF SInv, Once, Asks, ReadyConfirmed
  <2>5. Waited'
    BY <2>1 DEF SInv, Waited
  <2>. QED  BY <2>2, <2>3, <2>4, <2>5 DEF SInv
<1>5. CASE NetworkDelete
  <2>1. /\ starter.pc = "deletes" /\ Lives(Current, "emptied")
        /\ terms' = [terms EXCEPT ![Current] = IF nets[Current].result THEN "ends" ELSE @]
        /\ UNCHANGED <<starter, hals, notes, mainIn, mainEnds>>
    BY <1>5 DEF NetworkDelete
  <2>2. /\ nets' \in [Names -> [result : BOOLEAN, life : Lifes]]
        /\ nets'[Current].life = "emptied" /\ \A o \in Names \ {Current} : nets'[o] = nets[o]
    BY <2>1, Facts, LivesFacts DEF Lifes
  <2>3. Types'
    BY <2>1, <2>2, Facts DEF SInv, Types
  <2>4. Order' /\ Once'
    BY <2>1 DEF SInv, Order, Starts, Once, Asks
  <2>5. Waited'
    BY <2>1, <2>2 DEF SInv, Waited
  <2>6. ReadyConfirmed'
    BY <2>1, <2>2 DEF SInv, ReadyConfirmed
  <2>. QED  BY <2>3, <2>4, <2>5, <2>6 DEF SInv
<1>6. CASE NetworkDeleted
  <2>1. /\ starter.pc = "deletes" /\ Lives(Current, "deleted")
        /\ starter' = IF starter.i < Len(Nets) THEN [starter EXCEPT !.i = @ + 1]
                      ELSE [pc |-> "ended", i |-> 1]
        /\ UNCHANGED <<hals, notes, mainIn, mainEnds, terms>>
    BY <1>6 DEF NetworkDeleted
  <2>2. /\ nets' \in [Names -> [result : BOOLEAN, life : Lifes]]
        /\ nets'[Current].life = "deleted" /\ \A o \in Names \ {Current} : nets'[o] = nets[o]
    BY <2>1, Facts, LivesFacts DEF Lifes
  <2>3. \/ starter' = [pc |-> "deletes", i |-> starter.i + 1] /\ starter.i < Len(Nets)
        \/ starter' = [pc |-> "ended", i |-> 1]
    BY <2>1, Facts
  <2>4. starter'.pc \in {"deletes", "ended"} /\ starter'.pc \notin Starts
    BY <2>3 DEF Starts
  <2>5. Types'
    BY <2>1, <2>2, <2>3, Facts DEF SInv, Types
  <2>6. Order' /\ Once'
    BY <2>1, <2>4 DEF SInv, Order, Once, Asks
  <2>7. Waited'
    BY <2>1, <2>2, <2>4 DEF SInv, Waited
  <2>8. ReadyConfirmed'
    BY <2>1, <2>2 DEF SInv, ReadyConfirmed
  <2>. QED  BY <2>5, <2>6, <2>7, <2>8 DEF SInv
<1>. QED  BY <1>1, <1>2, <1>3, <1>4, <1>5, <1>6 DEF Original

\* A message of a HAL is queued: a confirm only when there is none of its network.
LEMMA PostsInvariant ==
    ASSUME StartAssumption, SInv, NEW n \in Names, CfmInit(n) \/ Indicate(n)
    PROVE  SInv'
<1>1. CASE CfmInit(n)
  <2>. DEFINE m == [kind |-> "confirm", net |-> n]
  <2>1. /\ hals[n] = "starts" /\ hals' = [hals EXCEPT ![n] = "asks"]
        /\ notes' = Append(notes, m) /\ UNCHANGED <<starter, mainIn, mainEnds, terms>>
    BY <1>1 DEF CfmInit, Posts
  <2>2. PICK result \in BOOLEAN : nets' = [nets EXCEPT ![n].result = result]
    BY <1>1 DEF CfmInit
  <2>3. /\ nets' \in [Names -> [result : BOOLEAN, life : Lifes]]
        /\ \A o \in Names : nets'[o].life = nets[o].life
    <3>1. nets \in [Names -> [result : BOOLEAN, life : Lifes]]
      BY Facts
    <3>2. [nets[n] EXCEPT !.result = result] \in [result : BOOLEAN, life : Lifes]
      BY <3>1
    <3>. QED  BY <2>2, <3>1, <3>2
  <2>4. hals'[n] = "asks" /\ \A o \in Names \ {n} : hals'[o] = hals[o]
    BY <2>1, Facts
  <2>5. m \in Notes /\ m.kind = "confirm" /\ m.net = n
    BY DEF Notes
  <2>. HIDE DEF m
  <2>6. /\ notes' \in Seq(Notes) /\ Len(notes) \in Nat
        /\ \A k \in 1..Len(notes') : \/ k = Len(notes) + 1 /\ notes'[k] = m
                                     \/ k \in 1..Len(notes) /\ notes'[k] = notes[k]
    BY <2>1, <2>5, Facts, Queued
  <2>7. Types'
    BY <2>1, <2>3, <2>6, Facts DEF SInv, Types
  <2>8. Order'
    <3>. SUFFICES ASSUME starter.pc \in Starts PROVE Order'
      BY <2>1 DEF Order
    <3>1. /\ \A o \in Names : terms[o] = "none"
          /\ \A j \in DOMAIN Nets : /\ j < starter.i => hals[Nets[j]] = "serves"
                                    /\ j > starter.i => hals[Nets[j]] = "none"
          /\ starter.pc = "init" => hals[Current] = "none"
          /\ starter.pc \in {"woken", "completes", "passes"} => hals[Current] = "serves"
      BY DEF SInv, Order
    <3>2. /\ \A j \in DOMAIN Nets : j < starter.i \/ j > starter.i => Nets[j] # n
          /\ starter.pc \in {"init", "woken", "completes", "passes"} => Current # n
      BY <2>1, <3>1
    <3>3. Current' = Current
      BY <2>1 DEF Current
    <3>. QED  BY <2>1, <2>4, <3>1, <3>2, <3>3, Facts DEF Order
  <2>9. Once'
    <3>1. /\ \A k \in 1..Len(notes) : notes[k].kind = "confirm" => hals[notes[k].net] = "asks"
          /\ mainIn.kind = "confirm" => hals[mainIn.net] = "asks"
      BY DEF SInv, Once
    <3>2. /\ \A k \in 1..Len(notes) : ~Asks(notes[k], n)
          /\ ~Asks(mainIn, n)
      BY <2>1, <3>1 DEF Asks
    <3>3. \A k \in 1..Len(notes') : notes'[k].kind = "confirm" => hals'[notes'[k].net] = "asks"
      BY <2>4, <2>5, <2>6, <3>1, Facts
    <3>4. mainIn'.kind = "confirm" => hals'[mainIn'.net] = "asks"
      BY <2>1, <2>4, <3>1, Facts
    <3>5. ASSUME NEW o \in Names, NEW j \in 1..Len(notes'), NEW k \in 1..Len(notes'),
                 Asks(notes'[j], o), Asks(notes'[k], o)
          PROVE  j = k
      <4>1. CASE o = n
        <5>1. j = Len(notes) + 1 /\ k = Len(notes) + 1
          BY <2>6, <3>2, <3>5, <4>1
        <5>. QED  BY <5>1
      <4>2. CASE o # n
        <5>1. j \in 1..Len(notes) /\ notes'[j] = notes[j] /\ k \in 1..Len(notes) /\ notes'[k] = notes[k]
          BY <2>5, <2>6, <3>5, <4>2 DEF Asks
        <5>. QED  BY <3>5, <5>1 DEF SInv, Once
      <4>. QED  BY <4>1, <4>2
    <3>6. ASSUME NEW o \in Names, NEW k \in 1..Len(notes'), Asks(notes'[k], o), Asks(mainIn, o)
          PROVE  FALSE
      <4>1. o # n
        BY <3>2, <3>6
      <4>2. k \in 1..Len(notes) /\ notes'[k] = notes[k]
        BY <2>5, <2>6, <3>6, <4>1 DEF Asks
      <4>. QED  BY <3>6, <4>2 DEF SInv, Once
    <3>. QED  BY <2>1, <3>3, <3>4, <3>5, <3>6 DEF Once
  <2>10. Waited'
    BY <2>1, <2>3 DEF SInv, Waited
  <2>11. ReadyConfirmed'
    BY <2>1, <2>3, <2>4 DEF SInv, ReadyConfirmed
  <2>. QED  BY <2>7, <2>8, <2>9, <2>10, <2>11 DEF SInv
<1>2. CASE Indicate(n)
  <2>. DEFINE m == [kind |-> "indication", net |-> n]
  <2>1. notes' = Append(notes, m) /\ UNCHANGED <<starter, hals, nets, mainIn, mainEnds, terms>>
    BY <1>2 DEF Indicate, Posts
  <2>2. m \in Notes /\ m.kind = "indication"
    BY DEF Notes
  <2>. HIDE DEF m
  <2>3. /\ notes' \in Seq(Notes)
        /\ \A k \in 1..Len(notes') : \/ notes'[k] = m
                                     \/ k \in 1..Len(notes) /\ notes'[k] = notes[k]
    BY <2>1, <2>2, Facts, Queued
  <2>4. \A k \in 1..Len(notes') : notes'[k].kind = "confirm" => k \in 1..Len(notes) /\ notes'[k] = notes[k]
    BY <2>2, <2>3
  <2>5. Types'
    BY <2>1, <2>3, Facts DEF SInv, Types
  <2>6. Once'
    BY <2>1, <2>4 DEF SInv, Once, Asks
  <2>7. Order' /\ Waited' /\ ReadyConfirmed'
    BY <2>1 DEF SInv, Order, Waited, ReadyConfirmed, Current
  <2>. QED  BY <2>5, <2>6, <2>7 DEF SInv
<1>. QED  BY <1>1, <1>2

\* The first message of a queue is taken, and the others move up.
LEMMA Taken ==
    ASSUME NEW q \in Seq(Notes), q # <<>>
    PROVE  /\ Head(q) \in Notes /\ Head(q) = q[1] /\ 1 \in 1..Len(q)
           /\ Tail(q) \in Seq(Notes) /\ Len(q) \in Nat
           /\ \A k \in 1..Len(Tail(q)) :
                 k \in Nat /\ k + 1 \in 1..Len(q) /\ k + 1 # 1 /\ Tail(q)[k] = q[k + 1]
<1>1. Len(q) \in Nat \ {0} /\ Head(q) \in Notes /\ Head(q) = q[1]
  OBVIOUS
<1>2. Tail(q) \in Seq(Notes) /\ Len(Tail(q)) = Len(q) - 1
  OBVIOUS
<1>3. \A k \in 1..Len(Tail(q)) : Tail(q)[k] = q[k + 1]
  OBVIOUS
<1>. QED  BY <1>1, <1>2, <1>3

\* The main thread takes a message, or has handled the one it took.
LEMMA MainInvariant ==
    ASSUME StartAssumption, SInv, MainThread
    PROVE  SInv'
<1>1. CASE TakeNote
  <2>1. /\ notes # <<>> /\ mainEnds # "joined" /\ mainIn' = Head(notes) /\ notes' = Tail(notes)
        /\ UNCHANGED <<starter, hals, nets, mainEnds, terms>>
    BY <1>1 DEF TakeNote
  <2>2. /\ mainIn' \in Notes /\ mainIn' = notes[1] /\ 1 \in 1..Len(notes) /\ notes' \in Seq(Notes)
        /\ \A k \in 1..Len(notes') :
              k \in Nat /\ k + 1 \in 1..Len(notes) /\ k + 1 # 1 /\ notes'[k] = notes[k + 1]
    BY <2>1, Facts, Taken
  <2>3. Types'
    BY <2>1, <2>2, Facts DEF SInv, Types
  <2>4. Once'
    <3>1. /\ \A k \in 1..Len(notes) : notes[k].kind = "confirm" => hals[notes[k].net] = "asks"
          /\ \A n \in Names : \A j, k \in 1..Len(notes) :
                Asks(notes[j], n) /\ Asks(notes[k], n) => j = k
      BY DEF SInv, Once
    <3>2. /\ \A k \in 1..Len(notes') : notes'[k].kind = "confirm" => hals'[notes'[k].net] = "asks"
          /\ mainIn'.kind = "confirm" => hals'[mainIn'.net] = "asks"
      BY <2>1, <2>2, <3>1
    <3>3. ASSUME NEW n \in Names, NEW j \in 1..Len(notes'), NEW k \in 1..Len(notes'),
                 Asks(notes'[j], n), Asks(notes'[k], n)
          PROVE  j = k
      <4>1. j + 1 = k + 1
        BY <2>2, <3>1, <3>3
      <4>. QED  BY <2>2, <4>1
    <3>4. ASSUME NEW n \in Names, NEW k \in 1..Len(notes'), Asks(notes'[k], n), Asks(mainIn', n)
          PROVE  FALSE
      <4>1. k + 1 = 1
        BY <2>2, <3>1, <3>4
      <4>. QED  BY <2>2, <4>1
    <3>. QED  BY <3>2, <3>3, <3>4 DEF Once, Asks
  <2>5. Order' /\ ReadyConfirmed'
    BY <2>1 DEF SInv, Order, ReadyConfirmed, Current
  <2>6. Waited'
    BY <2>1 DEF SInv, Waited
  <2>. QED  BY <2>3, <2>4, <2>5, <2>6 DEF SInv
<1>2. CASE HalInitConfirm
  <2>1. /\ mainIn.kind = "confirm" /\ mainIn' = Idle
        /\ starter' = IF starter.pc = "waits" THEN [starter EXCEPT !.pc = "woken"] ELSE starter
        /\ hals' = [hals EXCEPT ![mainIn.net] = "serves"]
        /\ UNCHANGED <<nets, notes, mainEnds, terms>>
    BY <1>2 DEF HalInitConfirm
  <2>2. mainIn.net \in Names /\ hals[mainIn.net] = "asks"
    BY <2>1, Facts DEF SInv, Once
  <2>3. hals'[mainIn.net] = "serves" /\ \A n \in Names \ {mainIn.net} : hals'[n] = hals[n]
    BY <2>1, <2>2, Facts
  <2>4. \/ starter.pc = "waits" /\ starter' = [pc |-> "woken", i |-> starter.i]
        \/ starter.pc # "waits" /\ starter' = starter
    BY <2>1, Facts
  <2>5. /\ starter'.i = starter.i /\ (starter'.pc \in Starts => starter.pc \in Starts)
        /\ \/ starter'.pc = starter.pc
           \/ starter.pc = "waits" /\ starter'.pc = "woken"
    BY <2>4 DEF Starts
  <2>6. Types'
    BY <2>1, <2>2, <2>4, Facts DEF SInv, Types, Starts
  <2>7. Order'
    <3>. SUFFICES ASSUME starter'.pc \in Starts PROVE Order'
      BY DEF Order
    <3>1. /\ \A n \in Names : terms[n] = "none"
          /\ \A j \in DOMAIN Nets : /\ j < starter.i => hals[Nets[j]] = "serves"
                                    /\ j > starter.i => hals[Nets[j]] = "none"
          /\ starter.pc = "init" => hals[Current] = "none"
          /\ starter.pc \in {"woken", "completes", "passes"} => hals[Current] = "serves"
      BY <2>5 DEF SInv, Order
    <3>2. \A j \in DOMAIN Nets : j < starter.i \/ j > starter.i => Nets[j] # mainIn.net
      BY <2>2, <3>1
    <3>3. mainIn.net = Current
      <4>1. PICK j \in DOMAIN Nets : mainIn.net = Nets[j]
        BY <2>2, Facts
      <4>2. j = starter.i
        BY <3>2, <4>1, Facts
      <4>. QED  BY <4>1, <4>2, Facts
    <3>4. starter.pc # "init"
      BY <2>2, <3>1, <3>3
    <3>5. Current' = Current /\ hals'[Current] = "serves"
      BY <2>3, <2>5, <3>3 DEF Current
    <3>6. \A j \in DOMAIN Nets : j < starter.i \/ j > starter.i => hals'[Nets[j]] = hals[Nets[j]]
      BY <2>3, <3>2, Facts
    <3>7. \A j \in DOMAIN Nets : /\ j < starter'.i => hals'[Nets[j]] = "serves"
                                 /\ j > starter'.i => hals'[Nets[j]] = "none"
      BY <2>5, <3>1, <3>6
    <3>8. starter'.pc # "init"
      BY <2>5, <3>4
    <3>. QED  BY <2>1, <3>1, <3>5, <3>7, <3>8 DEF Order
  <2>8. Once'
    <3>1. \A k \in 1..Len(notes) : notes[k].kind = "confirm" => notes[k].net # mainIn.net
      BY <2>1, <2>2 DEF SInv, Once, Asks
    <3>2. \A k \in 1..Len(notes) : notes[k].kind = "confirm" => hals'[notes[k].net] = "asks"
      BY <2>3, <3>1, Facts DEF SInv, Once
    <3>3. mainIn'.kind # "confirm"
      BY <2>1 DEF Idle
    <3>4. \A n \in Names : \A j, k \in 1..Len(notes') :
             Asks(notes'[j], n) /\ Asks(notes'[k], n) => j = k
      BY <2>1 DEF SInv, Once
    <3>. QED  BY <2>1, <3>2, <3>3, <3>4 DEF Once, Asks
  <2>9. Waited'
    BY <2>1, <2>4 DEF SInv, Waited
  <2>10. ReadyConfirmed'
    BY <2>1, <2>3 DEF SInv, ReadyConfirmed
  <2>. QED  BY <2>6, <2>7, <2>8, <2>9, <2>10 DEF SInv
<1>3. CASE IndicationHandled
  <2>1. mainIn' = Idle /\ UNCHANGED <<starter, hals, nets, notes, mainEnds, terms>>
    BY <1>3 DEF IndicationHandled
  <2>2. Types' /\ Order' /\ Waited' /\ ReadyConfirmed'
    BY <2>1 DEF SInv, Types, Order, Current, Waited, ReadyConfirmed
  <2>3. Once'
    BY <2>1 DEF SInv, Once, Asks, Idle
  <2>. QED  BY <2>2, <2>3 DEF SInv
<1>. QED  BY <1>1, <1>2, <1>3 DEF MainThread

\* The main thread is waited for, or a HAL has ended.
LEMMA EndsInvariant ==
    ASSUME StartAssumption, SInv, NEW n \in Names, Terminate \/ TerminateHal(n)
    PROVE  SInv'
<1>1. CASE Terminate
  <2>1. /\ Goes("deletes") /\ mainEnds' = IF mainIn = Idle THEN "joined" ELSE "left"
        /\ UNCHANGED <<hals, nets, notes, mainIn, terms>>
    BY <1>1 DEF Terminate
  <2>2. starter' = [pc |-> "deletes", i |-> starter.i] /\ starter'.pc = "deletes" /\ starter'.i = starter.i
    BY <2>1, GoesFacts
  <2>3. Types'
    BY <2>1, <2>2, Facts DEF SInv, Types
  <2>4. Order'
    BY <2>2 DEF Order, Starts
  <2>5. Once' /\ ReadyConfirmed'
    BY <2>1 DEF SInv, Once, Asks, ReadyConfirmed
  <2>6. Waited'
    BY <2>1 DEF SInv, Waited
  <2>. QED  BY <2>3, <2>4, <2>5, <2>6 DEF SInv
<1>2. CASE TerminateHal(n)
  <2>1. /\ terms[n] = "ends" /\ hals[n] # "asks"
        /\ terms' = [terms EXCEPT ![n] = "signals"] /\ hals' = [hals EXCEPT ![n] = "ended"]
        /\ UNCHANGED <<starter, nets, notes, mainIn, mainEnds>>
    BY <1>2 DEF TerminateHal
  <2>2. hals'[n] = "ended" /\ \A o \in Names \ {n} : hals'[o] = hals[o]
    BY <2>1, Facts
  <2>3. Types'
    BY <2>1, Facts DEF SInv, Types
  <2>4. Order'
    <3>1. starter.pc \notin Starts
      BY <2>1 DEF SInv, Order
    <3>. QED  BY <2>1, <3>1 DEF Order
  <2>5. Once'
    <3>1. \A o \in Names : hals[o] = "asks" => hals'[o] = "asks"
      BY <2>1, <2>2
    <3>. QED  BY <2>1, <3>1, Facts DEF SInv, Once, Asks
  <2>6. Waited'
    BY <2>1 DEF SInv, Waited
  <2>7. ReadyConfirmed'
    BY <2>1, <2>2 DEF SInv, ReadyConfirmed
  <2>. QED  BY <2>3, <2>4, <2>5, <2>6, <2>7 DEF SInv
<1>. QED  BY <1>1, <1>2

-----------------------------------------------------------------------------
(* The theorem.                                                            *)

\* The program starts with every network made, and none begun.
LEMMA InitInvariant ==
    ASSUME StartAssumption, StartInit
    PROVE  SInv
<1>1. DOMAIN Nets = 1..Len(Nets) /\ Len(Nets) \in Nat /\ 1 \in DOMAIN Nets /\ Current \in Names
      /\ \A j \in DOMAIN Nets : Nets[j] \in Names
  BY DEF StartAssumption, StartInit, Current, Names
<1>2. starter.pc = "init" /\ starter.i = 1 /\ \A n \in Names : hals[n] = "none" /\ terms[n] = "none"
  BY DEF StartInit
<1>3. Types
  BY <1>1 DEF StartInit, Types, Starts, Lifes, Notes, Idle
<1>4. Order
  BY <1>1, <1>2 DEF Order
<1>5. Once
  <2>1. notes = <<>> /\ Len(notes) = 0 /\ mainIn.kind # "confirm"
    BY DEF StartInit, Idle
  <2>. QED  BY <2>1 DEF Once
<1>6. Waited /\ ReadyConfirmed
  BY DEF StartInit, Waited, ReadyConfirmed
<1>. QED  BY <1>3, <1>4, <1>5, <1>6 DEF SInv

\* Every step keeps the invariant.
LEMMA StepInvariant ==
    ASSUME StartAssumption, SInv, [StartNext]_startVars
    PROVE  SInv'
<1>1. CASE Original
  BY <1>1, OriginalInvariant
<1>2. CASE MainThread
  BY <1>2, MainInvariant
<1>3. CASE Terminate
  <2>1. Current \in Names
    BY Facts
  <2>. QED  BY <1>3, <2>1, EndsInvariant
<1>4. ASSUME NEW n \in Names, CfmInit(n) \/ Indicate(n) PROVE SInv'
  BY <1>4, PostsInvariant
<1>5. ASSUME NEW n \in Names, TerminateHal(n) PROVE SInv'
  BY <1>5, EndsInvariant
<1>6. CASE UNCHANGED startVars
  BY <1>6 DEF startVars, SInv, Types, Order, Once, Asks, Waited, ReadyConfirmed, Current
<1>. QED  BY <1>1, <1>2, <1>3, <1>4, <1>5, <1>6 DEF StartNext

\* The invariant says what the property does.
LEMMA InvariantIsSound ==
    ASSUME StartAssumption, SInv
    PROVE  StartSound
<1>1. ASSUME mainIn # Idle, nets[mainIn.net].life \in {"emptied", "deleted"}
      PROVE  mainEnds = "left"
  <2>1. mainIn \in Notes /\ mainIn.net \in Names
    BY <1>1, Facts DEF Notes
  <2>2. mainEnds # "no" /\ mainEnds # "joined"
    BY <1>1, <2>1 DEF SInv, Waited
  <2>. QED  BY <2>2 DEF SInv, Types
<1>. QED  BY <1>1 DEF SInv, StartSound, NotInDeleted

\* However many networks there are, and however their HALs, the main thread and the
\* thread that starts and deletes them interleave: a network is ready only after its HAL
\* was answered, and the main thread is in no network that is being deleted unless it did
\* not answer in time (ctrlm_network.cpp).
THEOREM NetworksAreWhole ==
    ASSUME StartAssumption
    PROVE  StartSpec => []StartSound
<1>1. StartInit => SInv
  BY InitInvariant
<1>2. SInv /\ [StartNext]_startVars => SInv'
  BY StepInvariant
<1>3. SInv => StartSound
  BY InvariantIsSound
<1>. QED  BY <1>1, <1>2, <1>3, PTL DEF StartSpec

-----------------------------------------------------------------------------
(***************************************************************************)
(* A call of the bus is served before it returns, and a network touches a  *)
(* call that has returned only if a call for all networks did, for any     *)
(* threads, networks and number of calls.                                  *)
(***************************************************************************)

\* "none" is no thread: it stands for the sender of the message that ends the program.
BusAssumption == "none" \notin BusThreads /\ MaxCalls \in Nat

\* The state's types.
BusTargetNames == BusNetworks \cup {"all", "none", "control", "direct", "ble"}
BusPcs == {"idle", "begun", "waiting", "woken"}
BusRecords == [n : Nat, pc : BusPcs, target : BusTargetNames, sem : Nat, served : BOOLEAN]
BusMessages == [from : BusThreads \cup {"none"}, n : Nat, target : BusTargetNames]
BusTypes ==
    /\ bus \in [BusThreads -> BusRecords]
    /\ pushed \in Seq(BusMessages)
    /\ worker \in [from : BusThreads \cup {"none"}, n : Nat, target : BusTargetNames,
                   left : SUBSET (BusNetworks \cup {"control"})]
    /\ calls \in Nat

\* The calls are numbered, from one.
BusNumbered == \A c \in BusThreads : bus[c].n <= calls /\ (bus[c].pc # "idle" => bus[c].n >= 1)

\* A call that was posted was served first.
PostedServed ==
    \A c \in BusThreads :
        /\ bus[c].pc = "woken" => bus[c].served
        /\ bus[c].pc = "waiting" /\ bus[c].sem > 0 => bus[c].served
        /\ bus[c].pc \in {"idle", "begun"} => bus[c].sem = 0

\* The caller of a message that is queued waits, and was not posted.
QueuedWaits ==
    \A i \in 1..Len(pushed) : pushed[i].from # "none" =>
        /\ bus[pushed[i].from].n = pushed[i].n /\ bus[pushed[i].from].pc = "waiting"
        /\ bus[pushed[i].from].sem = 0

\* A thread of the bus has one message in the queue, and that is another call than the one
\* in hand.
OneQueued ==
    /\ \A i, j \in 1..Len(pushed) :
           pushed[i].from # "none" /\ pushed[i].from = pushed[j].from => i = j
    /\ \A i \in 1..Len(pushed) :
           pushed[i].from # "none" /\ pushed[i].from = worker.from => pushed[i].n # worker.n

\* A call in hand that is not for all networks has one left, and its caller waits.
InHand ==
    worker # NoWork =>
        /\ worker.from \in BusThreads /\ worker.n >= 1 /\ worker.n <= calls
        /\ bus[worker.from].n = worker.n => bus[worker.from].pc \in {"waiting", "woken"}
        /\ worker.target # "all" =>
               /\ \E net \in worker.left : worker.left = {net}
               /\ bus[worker.from].n = worker.n /\ bus[worker.from].pc = "waiting"
               /\ bus[worker.from].sem = 0

BusQuiet == BusNumbered /\ PostedServed /\ QueuedWaits /\ OneQueued /\ InHand
BusInv ==
    /\ BusTypes
    /\ late # {} => "all" \in late
    /\ late = {} => BusQuiet

-----------------------------------------------------------------------------
(* The calls of the bus.                                                   *)

\* A message is queued behind those that are there.
LEMMA CallQueued ==
    ASSUME NEW q \in Seq(BusMessages), NEW m \in BusMessages
    PROVE  /\ Append(q, m) \in Seq(BusMessages) /\ Len(q) \in Nat
           /\ Len(Append(q, m)) = Len(q) + 1 /\ Append(q, m)[Len(q) + 1] = m
           /\ \A k \in 1..Len(q) : Append(q, m)[k] = q[k] /\ q[k] \in BusMessages
           /\ \A k \in 1..Len(Append(q, m)) : k \in 1..Len(q) \/ k = Len(q) + 1
<1>1. /\ Append(q, m) \in Seq(BusMessages) /\ Len(q) \in Nat /\ Len(Append(q, m)) = Len(q) + 1
      /\ Append(q, m)[Len(q) + 1] = m
      /\ \A k \in 1..Len(q) : Append(q, m)[k] = q[k] /\ q[k] \in BusMessages
  OBVIOUS
<1>. QED  BY <1>1

\* The first message is taken; the others move up.
LEMMA CallTaken ==
    ASSUME NEW q \in Seq(BusMessages), q # <<>>
    PROVE  /\ Tail(q) \in Seq(BusMessages) /\ Head(q) = q[1] /\ q[1] \in BusMessages
           /\ Len(q) \in Nat /\ 1 \in 1..Len(q) /\ Len(Tail(q)) = Len(q) - 1
           /\ \A k \in 1..Len(Tail(q)) : Tail(q)[k] = q[k + 1] /\ k + 1 \in 1..Len(q) /\ k + 1 # 1
<1>1. /\ Tail(q) \in Seq(BusMessages) /\ Head(q) = q[1] /\ q[1] \in BusMessages
      /\ Len(q) \in Nat /\ Len(q) # 0 /\ Len(Tail(q)) = Len(q) - 1
      /\ \A k \in 1..(Len(q) - 1) : Tail(q)[k] = q[k + 1]
  OBVIOUS
<1>. QED  BY <1>1

\* A message in the queue is of a thread of the bus, or ends the program.
LEMMA QueuedFrom ==
    ASSUME BusTypes
    PROVE  \A i \in 1..Len(pushed) : pushed[i].from # "none" => pushed[i].from \in BusThreads
<1>1. \A i \in 1..Len(pushed) : pushed[i] \in BusMessages
  BY DEF BusTypes
<1>. QED  BY <1>1 DEF BusMessages

\* One thread's record changes: what is known of the queue and of the call in hand depends
\* only on the number of its call, its place and its semaphore.
LEMMA OthersQuiet ==
    ASSUME BusTypes, NEW c \in BusThreads, NEW r \in BusRecords,
           bus' = [bus EXCEPT ![c] = r]
    PROVE  /\ bus' \in [BusThreads -> BusRecords] /\ bus'[c] = r
           /\ \A d \in BusThreads : d # c => bus'[d] = bus[d]
BY DEF BusTypes

\* Two fields of the record of a thread change: its place, and whether it was served ...
LEMMA PlaceAndServed ==
    ASSUME NEW b \in [BusThreads -> BusRecords], NEW c \in BusThreads,
           NEW x \in BusPcs, NEW y \in BOOLEAN
    PROVE  [b EXCEPT ![c].pc = x, ![c].served = y] =
              [b EXCEPT ![c] = [n |-> b[c].n, pc |-> x, target |-> b[c].target, sem |-> b[c].sem, served |-> y]]
<1>. DEFINE f == [b EXCEPT ![c].pc = x, ![c].served = y]
<1>1. f \in [BusThreads -> BusRecords]
  BY DEF BusRecords
<1>2. f[c] = [n |-> b[c].n, pc |-> x, target |-> b[c].target, sem |-> b[c].sem, served |-> y]
  BY DEF BusRecords
<1>3. \A d \in BusThreads : d # c => f[d] = b[d]
  BY DEF BusRecords
<1>. HIDE DEF f
<1>4. f = [b EXCEPT ![c] = [n |-> b[c].n, pc |-> x, target |-> b[c].target, sem |-> b[c].sem, served |-> y]]
  BY <1>1, <1>2, <1>3
<1>. QED  BY <1>4 DEF f

\* A call begins.
LEMMA BeginInvariant ==
    ASSUME BusAssumption, BusInv, NEW c \in BusThreads, NEW interface,
           NEW target \in BusTargetNames, Begin(c, interface, target)
    PROVE  BusInv'
<1>. DEFINE r == [n |-> calls + 1, pc |-> "begun", target |-> target, sem |-> 0, served |-> FALSE]
<1>1. /\ bus[c].pc = "idle" /\ calls' = calls + 1 /\ bus' = [bus EXCEPT ![c] = r]
      /\ UNCHANGED <<pushed, worker, late>>
  BY DEF Begin
<1>2. BusTypes /\ calls \in Nat /\ calls' \in Nat
  BY <1>1 DEF BusInv, BusTypes
<1>3. r \in BusRecords /\ r.n = calls + 1 /\ r.pc = "begun" /\ r.sem = 0
  BY <1>2 DEF BusRecords, BusPcs
<1>. HIDE DEF r
<1>4. /\ bus' \in [BusThreads -> BusRecords] /\ bus'[c] = r
      /\ \A d \in BusThreads : d # c => bus'[d] = bus[d]
  BY <1>1, <1>2, <1>3, OthersQuiet
<1>5. BusTypes'
  BY <1>1, <1>2, <1>4 DEF BusTypes
<1>6. ASSUME late = {} PROVE BusQuiet'
  <2>1. BusQuiet
    BY <1>6 DEF BusInv
  <2>2. \A d \in BusThreads : bus[d].n \in Nat
    BY <1>2 DEF BusTypes, BusRecords
  <2>3. BusNumbered' /\ PostedServed'
    BY <1>1, <1>2, <1>3, <1>4, <2>1, <2>2 DEF BusQuiet, BusNumbered, PostedServed
  <2>4. QueuedWaits'
    <3>1. \A i \in 1..Len(pushed) : pushed[i].from # "none" => pushed[i].from \in BusThreads
      BY <1>2, QueuedFrom
    <3>. QED  BY <1>1, <1>4, <2>1, <3>1 DEF BusQuiet, QueuedWaits
  <2>5. OneQueued'
    BY <1>1, <2>1 DEF BusQuiet, OneQueued
  <2>6. InHand'
    <3>1. ASSUME worker # NoWork, worker.from = c PROVE bus'[c].n # worker.n /\ worker.target = "all"
      BY <1>1, <1>2, <1>3, <1>4, <2>1, <3>1 DEF BusQuiet, InHand
    <3>2. ASSUME worker # NoWork, worker.from # c
          PROVE  bus'[worker.from] = bus[worker.from] /\ worker.n <= calls'
      BY <1>1, <1>2, <1>4, <2>1, <3>2 DEF BusQuiet, InHand, BusTypes
    <3>3. worker # NoWork => worker.n <= calls'
      BY <1>1, <1>2, <2>1 DEF BusQuiet, InHand, BusTypes
    <3>. QED  BY <1>1, <2>1, <3>1, <3>2, <3>3 DEF BusQuiet, InHand
  <2>. QED  BY <2>3, <2>4, <2>5, <2>6 DEF BusQuiet
<1>. QED  BY <1>1, <1>5, <1>6 DEF BusInv

\* A call is pushed, or answered on its thread.
LEMMA PushInvariant ==
    ASSUME BusAssumption, BusInv, NEW c \in BusThreads, PushCall(c)
    PROVE  BusInv'
<1>1. BusTypes /\ bus[c].pc = "begun" /\ UNCHANGED <<worker, calls, late>>
  BY DEF BusInv, PushCall
<1>2. PICK n \in Nat, target \in BusTargetNames, sem \in Nat, served \in BOOLEAN :
        bus[c] = [n |-> n, pc |-> "begun", target |-> target, sem |-> sem, served |-> served]
  BY <1>1 DEF BusTypes, BusRecords
<1>3. CASE target = "direct"
  <2>. DEFINE r == [n |-> n, pc |-> "woken", target |-> target, sem |-> sem, served |-> TRUE]
  <2>1. bus' = [bus EXCEPT ![c] = r] /\ pushed' = pushed
    <3>1. bus' = [bus EXCEPT ![c].pc = "woken", ![c].served = TRUE] /\ pushed' = pushed
      BY <1>2, <1>3 DEF PushCall
    <3>2. TRUE \in BOOLEAN /\ "woken" \in BusPcs
      BY DEF BusPcs
    <3>3. [bus EXCEPT ![c].pc = "woken", ![c].served = TRUE] =
             [bus EXCEPT ![c] = [n |-> bus[c].n, pc |-> "woken", target |-> bus[c].target,
                                 sem |-> bus[c].sem, served |-> TRUE]]
      BY <1>1, <3>2, PlaceAndServed DEF BusTypes
    <3>4. r = [n |-> bus[c].n, pc |-> "woken", target |-> bus[c].target,
               sem |-> bus[c].sem, served |-> TRUE]
      BY <1>2
    <3>. HIDE DEF r
    <3>. QED  BY <3>1, <3>3, <3>4
  <2>2. r \in BusRecords /\ r.n = bus[c].n /\ r.pc = "woken" /\ r.served
    BY <1>2 DEF BusRecords, BusPcs
  <2>. HIDE DEF r
  <2>3. /\ bus' \in [BusThreads -> BusRecords] /\ bus'[c] = r
        /\ \A d \in BusThreads : d # c => bus'[d] = bus[d]
    BY <1>1, <2>1, <2>2, OthersQuiet
  <2>4. BusTypes'
    BY <1>1, <2>1, <2>3 DEF BusTypes
  <2>5. ASSUME late = {} PROVE BusQuiet'
    <3>1. BusQuiet
      BY <2>5 DEF BusInv
    <3>2. BusNumbered' /\ PostedServed'
      BY <1>1, <2>2, <2>3, <3>1 DEF BusQuiet, BusNumbered, PostedServed
    <3>3. QueuedWaits'
      <4>1. \A i \in 1..Len(pushed) : pushed[i].from # "none" => pushed[i].from \in BusThreads
        BY <1>1, QueuedFrom
      <4>. QED  BY <1>1, <2>1, <2>3, <3>1, <4>1 DEF BusQuiet, QueuedWaits
    <3>4. OneQueued'
      BY <1>1, <2>1, <3>1 DEF BusQuiet, OneQueued
    <3>5. InHand'
      BY <1>1, <2>2, <2>3, <3>1 DEF BusQuiet, InHand
    <3>. QED  BY <3>2, <3>3, <3>4, <3>5 DEF BusQuiet
  <2>. QED  BY <1>1, <2>4, <2>5 DEF BusInv
<1>4. CASE target # "direct"
  <2>. DEFINE r == [n |-> n, pc |-> "waiting", target |-> target, sem |-> sem, served |-> served]
              m == [from |-> c, n |-> n, target |-> target]
  <2>1. bus' = [bus EXCEPT ![c] = r] /\ pushed' = Append(pushed, m)
    BY <1>1, <1>2, <1>4 DEF PushCall, BusTypes
  <2>2. r \in BusRecords /\ r.n = bus[c].n /\ r.pc = "waiting" /\ r.sem = bus[c].sem
    BY <1>2 DEF BusRecords, BusPcs
  <2>3. m \in BusMessages /\ m.from = c /\ m.n = bus[c].n
    BY <1>2 DEF BusMessages
  <2>. HIDE DEF r, m
  <2>4. /\ bus' \in [BusThreads -> BusRecords] /\ bus'[c] = r
        /\ \A d \in BusThreads : d # c => bus'[d] = bus[d]
    BY <1>1, <2>1, <2>2, OthersQuiet
  <2>5. /\ pushed' \in Seq(BusMessages) /\ Len(pushed) \in Nat /\ Len(pushed') = Len(pushed) + 1
        /\ pushed'[Len(pushed) + 1] = m
        /\ \A k \in 1..Len(pushed) : pushed'[k] = pushed[k] /\ pushed[k] \in BusMessages
        /\ \A k \in 1..Len(pushed') : k \in 1..Len(pushed) \/ k = Len(pushed) + 1
    BY <1>1, <2>1, <2>3, CallQueued DEF BusTypes
  <2>6. BusTypes'
    BY <1>1, <2>4, <2>5 DEF BusTypes
  <2>7. ASSUME late = {} PROVE BusQuiet'
    <3>1. BusQuiet
      BY <2>7 DEF BusInv
    <3>2. BusNumbered' /\ PostedServed' /\ r.sem = 0
      BY <1>1, <2>2, <2>4, <3>1 DEF BusQuiet, BusNumbered, PostedServed
    <3>3. \A i \in 1..Len(pushed) : pushed[i].from # "none" => pushed[i].from \in BusThreads \ {c}
      BY <1>1, <2>5, <3>1 DEF BusMessages, BusQuiet, QueuedWaits
    <3>4. QueuedWaits'
      <4>1. ASSUME NEW i \in 1..Len(pushed'), pushed'[i].from # "none"
            PROVE  /\ bus'[pushed'[i].from].n = pushed'[i].n
                   /\ bus'[pushed'[i].from].pc = "waiting" /\ bus'[pushed'[i].from].sem = 0
        <5>1. CASE i \in 1..Len(pushed)
          BY <2>4, <2>5, <3>1, <3>3, <4>1, <5>1 DEF BusQuiet, QueuedWaits
        <5>2. CASE i = Len(pushed) + 1
          BY <2>2, <2>3, <2>4, <2>5, <3>2, <5>2
        <5>. QED  BY <2>5, <5>1, <5>2
      <4>. QED  BY <4>1 DEF QueuedWaits
    <3>5. OneQueued'
      <4>1. ASSUME NEW i \in 1..Len(pushed'), NEW j \in 1..Len(pushed'),
                   pushed'[i].from # "none", pushed'[i].from = pushed'[j].from
            PROVE  i = j
        <5>1. CASE i \in 1..Len(pushed) /\ j \in 1..Len(pushed)
          BY <2>5, <3>1, <4>1, <5>1 DEF BusQuiet, OneQueued
        <5>2. CASE i \in 1..Len(pushed) /\ j = Len(pushed) + 1
          BY <2>3, <2>5, <3>3, <4>1, <5>2
        <5>3. CASE i = Len(pushed) + 1 /\ j \in 1..Len(pushed)
          BY <2>3, <2>5, <3>3, <4>1, <5>3
        <5>. QED  BY <2>5, <5>1, <5>2, <5>3
      <4>2. ASSUME NEW i \in 1..Len(pushed'), pushed'[i].from # "none", pushed'[i].from = worker'.from
            PROVE  pushed'[i].n # worker'.n
        <5>1. CASE i \in 1..Len(pushed)
          BY <1>1, <2>5, <3>1, <4>2, <5>1 DEF BusQuiet, OneQueued
        <5>2. CASE i = Len(pushed) + 1
          <6>1. worker.from = c /\ worker # NoWork
            BY <1>1, <2>3, <2>5, <4>2, <5>2, BusAssumption DEF NoWork, BusAssumption
          <6>2. bus[c].n # worker.n
            BY <1>1, <3>1, <6>1 DEF BusQuiet, InHand
          <6>. QED  BY <1>1, <2>3, <2>5, <5>2, <6>2
        <5>. QED  BY <2>5, <5>1, <5>2
      <4>. QED  BY <4>1, <4>2 DEF OneQueued
    <3>6. InHand'
      BY <1>1, <2>2, <2>4, <3>1 DEF BusQuiet, InHand
    <3>. QED  BY <3>2, <3>4, <3>5, <3>6 DEF BusQuiet
  <2>. QED  BY <1>1, <2>6, <2>7 DEF BusInv
<1>. QED  BY <1>3, <1>4

\* A caller wakes, or its call returns.
LEMMA CallerInvariant ==
    ASSUME BusAssumption, BusInv, NEW c \in BusThreads, Awake(c) \/ Answer(c)
    PROVE  BusInv'
<1>1. BusTypes /\ UNCHANGED <<worker, pushed, calls, late>>
  BY DEF BusInv, Awake, Answer
<1>2. PICK n \in Nat, pc \in BusPcs, target \in BusTargetNames, sem \in Nat, served \in BOOLEAN :
        bus[c] = [n |-> n, pc |-> pc, target |-> target, sem |-> sem, served |-> served]
  BY <1>1 DEF BusTypes, BusRecords
<1>3. \E r \in BusRecords :
         /\ bus' = [bus EXCEPT ![c] = r]
         /\ \/ /\ pc = "waiting" /\ sem > 0
               /\ r.n = n /\ r.pc = "woken" /\ r.served = served
            \/ pc = "woken" /\ r = NoBusCall
  <2>1. CASE Awake(c)
    <3>. DEFINE r == [n |-> n, pc |-> "woken", target |-> target, sem |-> sem - 1, served |-> served]
    <3>1. pc = "waiting" /\ sem > 0 /\ bus' = [bus EXCEPT ![c] = r]
      <4>1. bus[c].sem = sem /\ bus[c].pc = pc
        BY <1>2
      <4>2. /\ bus[c].pc = "waiting" /\ bus[c].sem > 0
            /\ bus' = [bus EXCEPT ![c].pc = "woken", ![c].sem = @ - 1]
        BY <2>1 DEF Awake
      <4>. QED  BY <1>1, <1>2, <4>1, <4>2 DEF BusTypes
    <3>2. sem - 1 \in Nat
      BY <3>1
    <3>3. r \in BusRecords /\ r.n = n /\ r.pc = "woken" /\ r.served = served
      BY <3>2 DEF BusRecords, BusPcs
    <3>. HIDE DEF r
    <3>. QED  BY <3>1, <3>3
  <2>2. CASE Answer(c)
    <3>1. NoBusCall \in BusRecords
      BY DEF NoBusCall, BusRecords, BusPcs, BusTargetNames
    <3>2. pc = "woken" /\ bus' = [bus EXCEPT ![c] = NoBusCall]
      BY <1>2, <2>2 DEF Answer
    <3>. QED  BY <3>1, <3>2
  <2>. QED  BY <2>1, <2>2
<1>4. PICK r \in BusRecords :
         /\ bus' = [bus EXCEPT ![c] = r]
         /\ \/ /\ pc = "waiting" /\ sem > 0
               /\ r.n = n /\ r.pc = "woken" /\ r.served = served
            \/ pc = "woken" /\ r = NoBusCall
  BY <1>3
<1>5. /\ bus' \in [BusThreads -> BusRecords] /\ bus'[c] = r
      /\ \A d \in BusThreads : d # c => bus'[d] = bus[d]
  BY <1>1, <1>4, OthersQuiet
<1>6. BusTypes'
  BY <1>1, <1>5 DEF BusTypes
<1>7. ASSUME late = {} PROVE BusQuiet'
  <2>1. BusQuiet
    BY <1>7 DEF BusInv
  <2>2. BusNumbered'
    BY <1>1, <1>2, <1>4, <1>5, <2>1 DEF BusQuiet, BusNumbered, NoBusCall, BusTypes
  <2>3. PostedServed'
    BY <1>1, <1>2, <1>4, <1>5, <2>1 DEF BusQuiet, PostedServed, NoBusCall
  <2>4. \A i \in 1..Len(pushed) : pushed[i].from # "none" => pushed[i].from \in BusThreads \ {c}
    <3>1. \A i \in 1..Len(pushed) : pushed[i].from # "none" => pushed[i].from \in BusThreads
      BY <1>1, QueuedFrom
    <3>. QED  BY <1>2, <1>4, <2>1, <3>1 DEF BusQuiet, QueuedWaits
  <2>5. QueuedWaits'
    BY <1>1, <1>5, <2>1, <2>4 DEF BusQuiet, QueuedWaits
  <2>6. OneQueued'
    BY <1>1, <2>1 DEF BusQuiet, OneQueued
  <2>7. InHand'
    <3>1. ASSUME worker # NoWork, worker.from = c
          PROVE  worker.target = "all" /\ (r.n = worker.n => r.pc = "woken")
      BY <1>1, <1>2, <1>4, <2>1, <3>1 DEF BusQuiet, InHand, NoBusCall
    <3>. QED  BY <1>1, <1>5, <2>1, <3>1 DEF BusQuiet, InHand
  <2>. QED  BY <2>2, <2>3, <2>5, <2>6, <2>7 DEF BusQuiet
<1>. QED  BY <1>1, <1>6, <1>7 DEF BusInv

\* The main queue thread takes a call.
LEMMA TakeInvariant ==
    ASSUME BusAssumption, BusInv, TakeCall
    PROVE  BusInv'
<1>. DEFINE m == pushed[1]
            left == BusTargets(m.target)
<1>1. /\ BusTypes /\ worker = NoWork /\ pushed # <<>> /\ pushed' = Tail(pushed)
      /\ UNCHANGED <<bus, calls, late>>
  BY DEF BusInv, TakeCall
<1>2. /\ pushed' \in Seq(BusMessages) /\ Head(pushed) = m /\ m \in BusMessages
      /\ 1 \in 1..Len(pushed)
      /\ \A k \in 1..Len(pushed') :
            pushed'[k] = pushed[k + 1] /\ k + 1 \in 1..Len(pushed) /\ k + 1 # 1
      /\ Len(pushed') = Len(pushed) - 1 /\ Len(pushed) \in Nat
  BY <1>1, CallTaken DEF BusTypes
<1>3. \/ worker' = NoWork
      \/ /\ m.from # "none" /\ left # {}
         /\ worker' = [from |-> m.from, n |-> m.n, target |-> m.target, left |-> left]
  BY <1>1, <1>2 DEF TakeCall
<1>4. /\ m.from \in BusThreads \cup {"none"} /\ m.n \in Nat /\ m.target \in BusTargetNames
      /\ left \subseteq BusNetworks \cup {"control"}
      /\ m.target # "all" /\ left # {} => \E net \in left : left = {net}
  <2>1. m.from \in BusThreads \cup {"none"} /\ m.n \in Nat /\ m.target \in BusTargetNames
    BY <1>2 DEF BusMessages
  <2>2. /\ left \subseteq BusNetworks \cup {"control"}
        /\ m.target # "all" /\ left # {} => \E net \in left : left = {net}
    BY DEF BusTargets
  <2>. QED  BY <2>1, <2>2
<1>. HIDE DEF m, left
<1>5. BusTypes'
  BY <1>1, <1>2, <1>3, <1>4 DEF BusTypes
<1>6. ASSUME late = {} PROVE BusQuiet'
  <2>1. BusQuiet
    BY <1>6 DEF BusInv
  <2>2. BusNumbered' /\ PostedServed'
    BY <1>1, <2>1 DEF BusQuiet, BusNumbered, PostedServed
  <2>3. QueuedWaits'
    BY <1>1, <1>2, <2>1 DEF BusQuiet, QueuedWaits
  <2>4. OneQueued'
    <3>1. ASSUME NEW i \in 1..Len(pushed'), NEW j \in 1..Len(pushed'),
                 pushed'[i].from # "none", pushed'[i].from = pushed'[j].from
          PROVE  i = j
      <4>1. /\ i + 1 \in 1..Len(pushed) /\ j + 1 \in 1..Len(pushed)
            /\ pushed[i + 1].from # "none" /\ pushed[i + 1].from = pushed[j + 1].from
        BY <1>2, <3>1
      <4>2. \A k, l \in 1..Len(pushed) :
               pushed[k].from # "none" /\ pushed[k].from = pushed[l].from => k = l
        BY <2>1 DEF BusQuiet, OneQueued
      <4>3. i + 1 = j + 1
        BY <4>1, <4>2
      <4>. QED  BY <4>3
    <3>2. ASSUME NEW i \in 1..Len(pushed'), pushed'[i].from # "none", pushed'[i].from = worker'.from
          PROVE  pushed'[i].n # worker'.n
      <4>1. worker'.from = m.from
        BY <1>3, <1>4, <3>2, <1>1, <1>2, <2>1 DEF NoWork, BusQuiet, OneQueued
      <4>2. i + 1 = 1
        BY <1>2, <2>1, <3>2, <4>1 DEF BusQuiet, OneQueued, m
      <4>. QED  BY <4>2, <1>2
    <3>. QED  BY <3>1, <3>2 DEF OneQueued
  <2>5. InHand'
    <3>1. CASE worker' = NoWork
      BY <3>1 DEF InHand
    <3>2. CASE /\ m.from # "none" /\ left # {}
               /\ worker' = [from |-> m.from, n |-> m.n, target |-> m.target, left |-> left]
      <4>1. /\ bus[m.from].n = m.n /\ bus[m.from].pc = "waiting" /\ bus[m.from].sem = 0
        BY <1>2, <2>1, <3>2 DEF BusQuiet, QueuedWaits, m
      <4>2. m.from \in BusThreads /\ m.n >= 1 /\ m.n <= calls
        BY <1>4, <2>1, <3>2, <4>1 DEF BusQuiet, BusNumbered
      <4>. QED  BY <1>1, <1>4, <3>2, <4>1, <4>2 DEF InHand
    <3>. QED  BY <1>3, <3>1, <3>2
  <2>. QED  BY <2>2, <2>3, <2>4, <2>5 DEF BusQuiet
<1>. QED  BY <1>1, <1>5, <1>6 DEF BusInv

\* A network serves the call in hand.
LEMMA ServeInvariant ==
    ASSUME BusAssumption, BusInv, NEW net, ServeNetwork(net, TRUE)
    PROVE  BusInv'
<1>. DEFINE c == worker.from
            own == bus[c].n = worker.n
<1>1. BusTypes /\ net \in worker.left /\ UNCHANGED <<pushed, calls>>
  BY DEF BusInv, ServeNetwork
<1>2. PICK f \in BusThreads \cup {"none"}, wn \in Nat, wt \in BusTargetNames,
           wl \in SUBSET (BusNetworks \cup {"control"}) :
        worker = [from |-> f, n |-> wn, target |-> wt, left |-> wl]
  BY <1>1 DEF BusTypes
<1>3. worker # NoWork
  BY <1>1 DEF NoWork
<1>4. worker' = NoWork \/ worker' = [from |-> f, n |-> wn, target |-> wt, left |-> wl \ {net}]
  BY <1>2 DEF ServeNetwork
<1>5. NoWork \in [from : BusThreads \cup {"none"}, n : Nat, target : BusTargetNames,
                  left : SUBSET (BusNetworks \cup {"control"})]
  BY DEF NoWork, BusTargetNames
<1>6. worker' \in [from : BusThreads \cup {"none"}, n : Nat, target : BusTargetNames,
                   left : SUBSET (BusNetworks \cup {"control"})]
  BY <1>4, <1>5
<1>7. late' = late \/ (late' = late \cup {worker.target} /\ ~(own /\ bus[c].pc = "waiting"))
  BY DEF ServeNetwork
<1>8. CASE c \notin BusThreads
  <2>1. bus' = bus /\ late # {}
    BY <1>1, <1>3, <1>8 DEF ServeNetwork, BusTypes, BusInv, BusQuiet, InHand
  <2>2. BusTypes'
    BY <1>1, <1>6, <2>1 DEF BusTypes
  <2>. QED  BY <1>7, <2>1, <2>2 DEF BusInv
<1>9. CASE c \in BusThreads
  <2>1. PICK n \in Nat, pc \in BusPcs, target \in BusTargetNames, sem \in Nat, served \in BOOLEAN :
          bus[c] = [n |-> n, pc |-> pc, target |-> target, sem |-> sem, served |-> served]
    BY <1>1, <1>9 DEF BusTypes, BusRecords
  <2>. DEFINE s == served \/ own
              r == IF pc \in {"waiting", "woken"}
                   THEN [n |-> n, pc |-> pc, target |-> target, sem |-> sem + 1, served |-> s]
                   ELSE bus[c]
  <2>2. s \in BOOLEAN /\ (own => s)
    OBVIOUS
  <2>3. bus' = [bus EXCEPT ![c] = r]
    <3>1. bus' = IF bus[c].pc \in {"waiting", "woken"}
                 THEN [bus EXCEPT ![c].sem = @ + 1, ![c].served = @ \/ own]
                 ELSE bus
      BY DEF ServeNetwork
    <3>2. CASE pc \in {"waiting", "woken"}
      <4>1. bus[c].served = served /\ bus[c].pc = pc
        BY <2>1
      <4>. DEFINE k == bus[c].sem + 1
      <4>2. bus' = [bus EXCEPT ![c].sem = k, ![c].served = s]
        BY <3>1, <3>2, <4>1, Zenon
      <4>. HIDE DEF s
      <4>3. s \in BOOLEAN /\ k \in Nat
        BY <2>1, <2>2
      <4>4. r = [n |-> bus[c].n, pc |-> bus[c].pc, target |-> bus[c].target, sem |-> k,
                 served |-> s]
        BY <2>1, <3>2
      <4>. HIDE DEF r, k
      <4>5. bus \in [BusThreads -> BusRecords]
        BY <1>1 DEF BusTypes
      <4>. HIDE DEF c
      <4>6. bus' \in [BusThreads -> BusRecords]
        BY <1>9, <4>2, <4>3, <4>5 DEF BusRecords
      <4>7. bus'[c] = [n |-> bus[c].n, pc |-> bus[c].pc, target |-> bus[c].target, sem |-> k,
                       served |-> s]
        BY <1>9, <4>2, <4>3, <4>5 DEF BusRecords
      <4>8. \A d \in BusThreads : d # c => bus'[d] = bus[d]
        BY <1>9, <4>2, <4>3, <4>5 DEF BusRecords
      <4>. QED  BY <4>4, <4>5, <4>6, <4>7, <4>8
    <3>3. CASE pc \notin {"waiting", "woken"}
      <4>1. r = bus[c] /\ bus[c].pc = pc
        BY <2>1, <3>3
      <4>2. bus' = bus
        BY <3>1, <3>3, <4>1
      <4>3. [bus EXCEPT ![c] = bus[c]] = bus
        BY <1>1, <1>9 DEF BusTypes
      <4>. HIDE DEF r
      <4>. QED  BY <4>1, <4>2, <4>3
    <3>. QED  BY <3>2, <3>3
  <2>4. bus[c] \in BusRecords
    BY <1>1, <1>9 DEF BusTypes
  <2>5. r \in BusRecords /\ r.n = n /\ r.pc = pc
    <3>. HIDE DEF s
    <3>. QED  BY <2>1, <2>2, <2>4 DEF BusRecords
  <2>6. own /\ pc = "waiting" => r.served
    <3>. HIDE DEF s, own
    <3>. QED  BY <2>2
  <2>. HIDE DEF r
  <2>7. /\ bus' \in [BusThreads -> BusRecords] /\ bus'[c] = r
        /\ \A d \in BusThreads : d # c => bus'[d] = bus[d]
    BY <1>1, <1>9, <2>3, <2>5, OthersQuiet
  <2>8. BusTypes'
    BY <1>1, <1>6, <2>7 DEF BusTypes
  <2>9. late' # {} => "all" \in late'
    <3>1. CASE late # {}
      BY <1>7, <3>1 DEF BusInv
    <3>2. CASE late = {}
      BY <1>3, <1>7, <3>2 DEF BusInv, BusQuiet, InHand
    <3>. QED  BY <3>1, <3>2
  <2>10. ASSUME late' = {} PROVE BusQuiet'
    <3>1. BusQuiet /\ own /\ pc = "waiting"
      <4>1. late = {} /\ ~(late' = late \cup {worker.target})
        BY <1>7, <2>10
      <4>2. own /\ bus[c].pc = "waiting"
        BY <4>1 DEF ServeNetwork
      <4>. QED  BY <2>1, <4>1, <4>2 DEF BusInv
    <3>2. BusNumbered' /\ PostedServed'
      BY <1>1, <2>1, <2>5, <2>6, <2>7, <3>1 DEF BusQuiet, BusNumbered, PostedServed
    <3>3. \A i \in 1..Len(pushed) : pushed[i].from # "none" => pushed[i].from \in BusThreads \ {c}
      <4>1. \A i \in 1..Len(pushed) : pushed[i].from # "none" => pushed[i].from \in BusThreads
        BY <1>1, QueuedFrom
      <4>. QED  BY <3>1, <4>1 DEF BusQuiet, QueuedWaits, OneQueued
    <3>4. QueuedWaits'
      BY <1>1, <2>7, <3>1, <3>3 DEF BusQuiet, QueuedWaits
    <3>5. worker' = NoWork \/ (worker'.from = c /\ worker'.n = worker.n)
      BY <1>2, <1>4
    <3>6. OneQueued'
      <4>1. ASSUME NEW i \in 1..Len(pushed), pushed[i].from # "none", pushed[i].from = worker'.from
            PROVE  pushed[i].n # worker'.n
        BY <3>3, <3>5, <4>1 DEF NoWork
      <4>. QED  BY <1>1, <3>1, <4>1 DEF BusQuiet, OneQueued
    <3>7. InHand'
      <4>1. CASE worker.target = "all"
        <5>1. worker' = NoWork \/ (worker'.target = "all" /\ worker'.from = c /\ worker'.n = worker.n)
          BY <1>2, <1>4, <4>1
        <5>. QED  BY <1>1, <1>3, <2>1, <2>5, <2>7, <3>1, <5>1 DEF BusQuiet, InHand
      <4>2. CASE worker.target # "all"
        <5>1. worker.left = {net}
          BY <1>1, <1>3, <3>1, <4>2 DEF BusQuiet, InHand
        <5>2. worker' = NoWork
          BY <5>1 DEF ServeNetwork
        <5>. QED  BY <5>2 DEF InHand
      <4>. QED  BY <4>1, <4>2
    <3>. QED  BY <3>2, <3>4, <3>6, <3>7 DEF BusQuiet
  <2>. QED  BY <2>8, <2>9, <2>10 DEF BusInv
<1>. QED  BY <1>8, <1>9

\* ctrlm_terminate: the message that stops the thread is nobody's call.
LEMMA StopInvariant ==
    ASSUME BusAssumption, BusInv, StopThread
    PROVE  BusInv'
<1>. DEFINE m == [from |-> "none", n |-> 0, target |-> "none"]
<1>1. BusTypes /\ pushed' = Append(pushed, m) /\ UNCHANGED <<bus, worker, calls, late>>
  BY DEF BusInv, StopThread
<1>2. m \in BusMessages /\ m.from = "none"
  BY DEF BusMessages, BusTargetNames
<1>. HIDE DEF m
<1>3. /\ pushed' \in Seq(BusMessages) /\ Len(pushed') = Len(pushed) + 1
      /\ pushed'[Len(pushed) + 1] = m
      /\ \A k \in 1..Len(pushed) : pushed'[k] = pushed[k]
      /\ \A k \in 1..Len(pushed') : k \in 1..Len(pushed) \/ k = Len(pushed) + 1
  BY <1>1, <1>2, CallQueued DEF BusTypes
<1>4. BusTypes'
  BY <1>1, <1>3 DEF BusTypes
<1>5. \A k \in 1..Len(pushed') : pushed'[k].from # "none" => k \in 1..Len(pushed)
  BY <1>2, <1>3
<1>6. ASSUME late = {} PROVE BusQuiet'
  <2>1. BusQuiet
    BY <1>6 DEF BusInv
  <2>2. BusNumbered' /\ PostedServed' /\ InHand'
    BY <1>1, <2>1 DEF BusQuiet, BusNumbered, PostedServed, InHand
  <2>3. QueuedWaits'
    BY <1>1, <1>3, <1>5, <2>1 DEF BusQuiet, QueuedWaits
  <2>4. OneQueued'
    <3>1. ASSUME NEW i \in 1..Len(pushed'), NEW j \in 1..Len(pushed'),
                 pushed'[i].from # "none", pushed'[i].from = pushed'[j].from
          PROVE  i = j
      BY <1>3, <1>5, <2>1, <3>1 DEF BusQuiet, OneQueued
    <3>2. ASSUME NEW i \in 1..Len(pushed'), pushed'[i].from # "none", pushed'[i].from = worker'.from
          PROVE  pushed'[i].n # worker'.n
      BY <1>1, <1>3, <1>5, <2>1, <3>2 DEF BusQuiet, OneQueued
    <3>. QED  BY <3>1, <3>2 DEF OneQueued
  <2>. QED  BY <2>2, <2>3, <2>4 DEF BusQuiet
<1>. QED  BY <1>1, <1>4, <1>6 DEF BusInv

\* The interfaces open and close without a word to the queue.
LEMMA InterfacesInvariant ==
    ASSUME BusInv, UNCHANGED <<bus, pushed, worker, calls, late>>
    PROVE  BusInv'
BY DEF BusInv, BusTypes, BusQuiet, BusNumbered, PostedServed, QueuedWaits, OneQueued, InHand

\* Each method makes a call of one kind.
LEMMA CallInvariant ==
    ASSUME BusAssumption, BusInv, NEW c \in BusThreads, Call(c)
    PROVE  BusInv'
<1>1. \E interface, target \in {"main", "rcu", "ble", "none", "update", "irdb"} \cup BusTargetNames :
         target \in BusTargetNames /\ Begin(c, interface, target)
  BY DEF Call, StatusCalls, SettingCalls, PairedCalls, ServiceCalls, PairingModeCalls,
         ChipStatusGet, VoiceSessionCalls, PairingCalls, RemoteCalls, LastKeypressGet, CaptureCalls,
         PowerCalls, RcuCalls, BleCalls, BleReasonCalls, BleOrders, UpdateQueries, UpdateOrders,
         IrdbQueries, IrdbAutoLookup, IrdbSetCode, Control, OnNetwork, DirectCalls, BusTargetNames
<1>. QED  BY <1>1, BeginInvariant

\* Every step keeps the invariant.
LEMMA BusStep == BusAssumption /\ BusInv /\ [BusNext]_busVars => BusInv'
<1>. SUFFICES ASSUME BusAssumption, BusInv, [BusNext]_busVars PROVE BusInv'
  OBVIOUS
<1>1. ASSUME NEW c \in BusThreads, Call(c) PROVE BusInv'
  BY <1>1, CallInvariant
<1>2. ASSUME NEW c \in BusThreads, BusThread(c) PROVE BusInv'
  BY <1>2, PushInvariant, CallerInvariant DEF BusThread
<1>3. CASE Worker
  <2>1. ASSUME NEW net \in worker.left, HandledByNetwork(net) \/ NotSupported(net)
        PROVE  ServeNetwork(net, TRUE)
    BY <2>1 DEF HandledByNetwork, NotSupported, Served, BleVoice, BlePairing, BleIrCodes, BleFindMe,
        BleReasons, BleActions, BleLastKeypress, RfRib, RfController, RfPolling, RfStatus, RfIrCodes
  <2>. QED  BY <1>3, <2>1, TakeInvariant, ServeInvariant DEF Worker
<1>4. CASE StopThread
  BY <1>4, StopInvariant
<1>5. CASE Register \/ MainClosed \/ OthersClosed \/ UNCHANGED busVars
  <2>1. UNCHANGED <<bus, pushed, worker, calls, late>>
    BY <1>5 DEF Register, MainInit, RcuInit, BleInit, MainClosed, OthersClosed, busVars
  <2>. QED  BY <2>1, InterfacesInvariant
<1>. QED  BY <1>1, <1>2, <1>3, <1>4, <1>5 DEF BusNext

\* BusSound: a network touches the arguments and the semaphore of a call after it returned
\* only if a call for all networks did; until then each call was served before it returns.
THEOREM CallsAreServed == ASSUME BusAssumption PROVE BusSpec => []BusSound
<1>1. BusInit => BusInv
  <2>. SUFFICES ASSUME BusInit PROVE BusInv
    OBVIOUS
  <2>1. NoBusCall \in BusRecords /\ NoBusCall.pc = "idle" /\ NoBusCall.sem = 0 /\ NoBusCall.n = 0
    BY DEF NoBusCall, BusRecords, BusPcs, BusTargetNames
  <2>2. BusTypes /\ late = {} /\ calls = 0 /\ worker = NoWork
    BY <2>1 DEF BusInit, BusTypes, NoWork, BusTargetNames
  <2>3. \A c \in BusThreads : bus[c] = NoBusCall
    BY DEF BusInit
  <2>4. Len(pushed) = 0
    BY DEF BusInit
  <2>5. BusQuiet
    BY <2>1, <2>2, <2>3, <2>4
    DEF BusQuiet, BusNumbered, PostedServed, QueuedWaits, OneQueued, InHand
  <2>. QED  BY <2>2, <2>5 DEF BusInv
<1>2. BusInv => BusSound
  BY DEF BusInv, BusQuiet, PostedServed, BusSound, LateOnlyAfterAll, ReturnsServed
<1>3. BusInv /\ [BusNext]_busVars => BusInv'
  BY BusStep
<1>. QED  BY <1>1, <1>2, <1>3, PTL DEF BusSpec

=============================================================================
