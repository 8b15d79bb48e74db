---------------------------- MODULE DevicesProofs -----------------------------
(***************************************************************************)
(* What is proved of the devices and of what is kept of them: the database *)
(* of the controllers, the upgrade of BLE remotes, and what the network    *)
(* and the main thread know of the devices of the daemon.                  *)
(***************************************************************************)
EXTENDS Database, BleUpgrade, BleLink,
        SequenceTheorems, TLAPS

-----------------------------------------------------------------------------
(***************************************************************************)
(* The file has what the program knows once the queue is empty, but for    *)
(* what is marked on the way, for any controllers and number of writes.    *)
(***************************************************************************)

\* CloseInSleep is a choice of the build; of the other constants nothing is assumed.
DbAssumption == CloseInSleep \in BOOLEAN

\* The state's types.
DbMessages ==
    [type : {"create", "list", "destroy", "attr"}, c : StoredIds, key : {"entry"}, value : Nat]
    \cup [type : {"write"}, c : StoredIds, key : Keys, value : Nat]
    \cup [type : {"global", "on", "deep_sleep"}, c : {NoOwner}, key : {"entry"}, value : Nat]
DbValues == [StoredIds -> [Keys -> Nat]]
DbDisk == [listed : SUBSET StoredIds, tables : SUBSET StoredIds, values : DbValues, global : Nat]
DbKnown == [controllers : SUBSET StoredIds, values : DbValues, global : Nat]
DbSleep == [mode : BOOLEAN, signal : Nat, power : {"on", "deep_sleep"}, hurried : BOOLEAN]
DbTorn == [StoredIds -> SUBSET {"deleted", "inherited", "relisted", "unlisted"}]
DbTypes ==
    /\ disk \in DbDisk /\ known \in DbKnown
    /\ dbQueue \in Seq(DbMessages)
    /\ dbThread \in {"run", "asleep", "drop", "ended"} /\ (dbThread = "drop" => dbQueue # <<>>)
    /\ sleep \in DbSleep
    /\ writes \in [count : Nat, restarts : Nat]
    /\ torn \in DbTorn

\* Messages of some kinds, those that list a controller, write a value of it, and touch its
\* value of a key (of no key: make or destroy the controller).
OfType(types) == {m \in DbMessages : m.type \in types}
Power == OfType({"on", "deep_sleep"})
Listing(c) == {m \in DbMessages : m.type = "list" /\ m.c = c}
Writing(c) == {m \in DbMessages : m.type \in {"write", "attr"} /\ m.c = c}
Touching(c, k) ==
    {m \in DbMessages :
        m.c = c /\ (m.type \in {"create", "destroy"} \/ (m.type \in {"write", "attr"} /\ m.key = k))}

\* The last message of some in a queue; none of them is there; one at most is there.
LastIn(q, S) ==
    {q[i] : i \in {j \in 1..Len(q) : q[j] \in S /\ \A h \in 1..Len(q) : h > j => q[h] \notin S}}
Lacks(q, S) == \A i \in 1..Len(q) : q[i] \notin S
OneOf(q, S) == \A i, j \in 1..Len(q) : q[i] \in S /\ q[j] \in S => i = j

\* Of what touches a controller the last before a write of it makes it; a write comes early
\* if nothing that touches it is queued before.
Ordered(q, W, S) ==
    \A i, j \in 1..Len(q) :
        /\ q[i] \in W /\ j < i /\ q[j] \in S
        /\ \A h \in 1..Len(q) : j < h /\ h < i => q[h] \notin S
        => q[j].type = "create"
Early(q, W, S) == \E i \in 1..Len(q) : q[i] \in W /\ \A j \in 1..Len(q) : j < i => q[j] \notin S

\* One change of the power is under way at most. The file is closed while the thread sleeps,
\* and until it takes the change that wakes it.
Sleeping(q, s, thread) ==
    /\ OneOf(q, Power)
    /\ ~s.mode =>
          /\ thread # "asleep" /\ s.signal = 0 /\ Lacks(q, OfType({"on"}))
          /\ ~Lacks(q, Power) => s.power = "deep_sleep"
          /\ CloseInSleep /\ s.power = "deep_sleep" => ~Lacks(q, Power)
    /\ s.mode =>
          \/ thread = "asleep" /\ s.signal = 0 /\ s.power = "deep_sleep" /\ Lacks(q, Power)
          \/ /\ (thread = "asleep" /\ s.signal = 1) \/ (thread = "run" /\ s.signal = 0)
             /\ s.power = "on" /\ q # <<>> /\ Head(q).type = "on"
    /\ ~CloseInSleep => ~s.mode /\ Lacks(q, Power)

\* The controller whose table is dropped is not in the list, and comes there only relisted.
Dropping(q, s, thread, listed, marks) ==
    thread = "drop" =>
        /\ ~s.mode /\ Head(q).type = "destroy" /\ Head(q).c \notin listed
        /\ ~Lacks(q, Listing(Head(q).c)) => "relisted" \in marks[Head(q).c]

\* A controller that is listed, or going to be, has its table.
TableThere(q, c, d, mark) ==
    c \in d.listed \/ ~Lacks(q, Listing(c)) => c \in d.tables \/ "relisted" \in mark

\* What was last asked of a controller is what the program knows.
MemberRight(q, c, member, listed, mark) ==
    /\ \A m \in LastIn(q, Touching(c, "none")) : m.type = IF member THEN "create" ELSE "destroy"
    /\ Lacks(q, Touching(c, "none")) =>
          IF member THEN c \in listed \/ ~Lacks(q, Listing(c))
          ELSE (c \notin listed /\ Lacks(q, Listing(c))) \/ "relisted" \in mark

\* A value that is queued finds a table when it is written.
WriteFinds(q, c, tables, mark) ==
    /\ Ordered(q, Writing(c), Touching(c, "none"))
    /\ Early(q, Writing(c), Touching(c, "none")) => c \in tables \/ "relisted" \in mark

\* The last value that is queued is the one the program knows; with none queued the file has it.
Clean(mark) == mark \cap {"deleted", "inherited", "relisted"} = {}
ValueRight(q, S, is, kept) ==
    /\ \A m \in LastIn(q, S) :
          (m.type = "create" /\ is = 0) \/ (m.type \notin {"create", "destroy"} /\ m.value = is)
    /\ Lacks(q, S) => kept = is

StoredRight(q, d, kn, marks, c) ==
    /\ TableThere(q, c, d, marks[c])
    /\ MemberRight(q, c, c \in kn.controllers, d.listed, marks[c])
    /\ WriteFinds(q, c, d.tables, marks[c])
    /\ c \in kn.controllers /\ Clean(marks[c]) =>
          \A k \in Keys : ValueRight(q, Touching(c, k), kn.values[c][k], d.values[c][k])

\* The inductive invariant.
DbRight(q, d, kn, s, thread, marks) ==
    /\ Sleeping(q, s, thread)
    /\ Dropping(q, s, thread, d.listed, marks)
    /\ \A c \in StoredIds : StoredRight(q, d, kn, marks, c)
    /\ ValueRight(q, OfType({"global"}), kn.global, d.global)
DbInv == DbTypes /\ (~sleep.hurried => DbRight(dbQueue, disk, known, sleep, dbThread, torn))

-----------------------------------------------------------------------------
(* The queue.                                                              *)

\* A message that is pushed is the last of its kinds, and of no others.
AppendFacts(q, p, m) ==
    /\ \A S : m \in S => LastIn(p, S) = {m} /\ ~Lacks(p, S)
    /\ \A S : m \notin S => LastIn(p, S) = LastIn(q, S) /\ (Lacks(p, S) <=> Lacks(q, S))
    /\ \A S : OneOf(q, S) /\ (m \notin S \/ Lacks(q, S)) => OneOf(p, S)
    /\ \A W, S : (\A x \in LastIn(q, S) : x.type = "create") /\ Ordered(q, W, S) => Ordered(p, W, S)
    /\ \A W, S : m \notin W /\ Ordered(q, W, S) => Ordered(p, W, S)
    /\ \A W, S : Early(p, W, S) => Early(q, W, S) \/ (m \in W /\ Lacks(q, S))
    /\ q # <<>> => Head(p) = Head(q)
    /\ p # <<>>
\* What a message at the end of the queue changes.
LEMMA AppendSays ==
    ASSUME NEW M, NEW q \in Seq(M), NEW m \in M
    PROVE  AppendFacts(q, Append(q, m), m)
<1>. DEFINE p == Append(q, m)
            n == Len(q)
<1>1. /\ n \in Nat /\ Len(p) = n + 1 /\ p[n + 1] = m /\ \A i \in 1..n : p[i] = q[i]
      /\ p \in Seq(M) /\ p # <<>>
      /\ q # <<>> => Head(p) = Head(q)
  <2>1. n \in Nat /\ Len(p) = n + 1 /\ p[n + 1] = m /\ p \in Seq(M) /\ \A i \in 1..n : p[i] = q[i]
    OBVIOUS
  <2>2. p # <<>>
    <3>. HIDE DEF p, n
    <3>. QED  BY <2>1
  <2>3. ASSUME q # <<>> PROVE Head(p) = Head(q)
    <3>1. Len(q) # 0 /\ Head(q) = q[1] /\ Head(p) = p[1]
      BY <2>3
    <3>2. 1 \in 1..n
      BY <2>1, <3>1
    <3>. HIDE DEF p, n
    <3>. QED  BY <2>1, <3>1, <3>2
  <2>. QED  BY <2>1, <2>2, <2>3
<1>2. 1..Len(p) = (1..n) \cup {n + 1} /\ n + 1 \notin 1..n /\ \A i \in 1..n : n + 1 > i /\ i < n + 1
  BY <1>1
<1>. HIDE DEF p
<1>3. ASSUME NEW S, m \in S PROVE LastIn(p, S) = {m} /\ ~Lacks(p, S)
  <2>. DEFINE J == {j \in 1..Len(p) : p[j] \in S /\ \A h \in 1..Len(p) : h > j => p[h] \notin S}
  <2>1. n + 1 \in J /\ \A j \in J : j = n + 1
    BY <1>1, <1>2, <1>3
  <2>2. J = {n + 1}
    BY <2>1
  <2>3. LastIn(p, S) = {p[i] : i \in J}
    BY DEF LastIn
  <2>. HIDE DEF J
  <2>4. LastIn(p, S) = {m}
    BY <1>1, <2>2, <2>3
  <2>5. ~Lacks(p, S)
    BY <1>1, <1>2, <1>3 DEF Lacks
  <2>. QED  BY <2>4, <2>5
<1>4. ASSUME NEW S, m \notin S PROVE LastIn(p, S) = LastIn(q, S) /\ (Lacks(p, S) <=> Lacks(q, S))
  <2>1. /\ p[n + 1] \notin S /\ \A j \in 1..n : p[j] = q[j]
        /\ \A j \in 1..Len(p) : j \in 1..n \/ j = n + 1
        /\ \A j \in 1..n : j \in 1..Len(p)
    BY <1>1, <1>2, <1>4
  <2>2. ASSUME NEW x \in LastIn(p, S) PROVE x \in LastIn(q, S)
    <3>1. PICK j \in 1..Len(p) : x = p[j] /\ p[j] \in S /\ \A h \in 1..Len(p) : h > j => p[h] \notin S
      BY <2>2 DEF LastIn
    <3>2. j \in 1..n /\ x = q[j] /\ q[j] \in S /\ \A h \in 1..n : h > j => q[h] \notin S
      BY <2>1, <3>1
    <3>. QED  BY <3>2 DEF LastIn
  <2>3. ASSUME NEW x \in LastIn(q, S) PROVE x \in LastIn(p, S)
    <3>1. PICK j \in 1..n : x = q[j] /\ q[j] \in S /\ \A h \in 1..n : h > j => q[h] \notin S
      BY <2>3 DEF LastIn
    <3>2. j \in 1..Len(p) /\ x = p[j] /\ p[j] \in S /\ \A h \in 1..Len(p) : h > j => p[h] \notin S
      BY <2>1, <3>1
    <3>. QED  BY <3>2 DEF LastIn
  <2>4. Lacks(p, S) <=> Lacks(q, S)
    BY <2>1 DEF Lacks
  <2>. QED  BY <2>2, <2>3, <2>4
<1>5. ASSUME NEW S, OneOf(q, S), m \notin S \/ Lacks(q, S) PROVE OneOf(p, S)
  BY <1>1, <1>2, <1>5 DEF OneOf, Lacks
<1>6. ASSUME NEW W, NEW S, m \notin W, Ordered(q, W, S) PROVE Ordered(p, W, S)
  <2>1. ASSUME NEW i \in 1..Len(p), NEW j \in 1..Len(p), p[i] \in W, j < i, p[j] \in S,
               \A h \in 1..Len(p) : j < h /\ h < i => p[h] \notin S
        PROVE  p[j].type = "create"
    <3>1. /\ i \in 1..n /\ j \in 1..n /\ p[i] = q[i] /\ p[j] = q[j]
          /\ \A h \in 1..n : h \in 1..Len(p) /\ p[h] = q[h]
      BY <1>1, <1>2, <1>6, <2>1
    <3>. QED  BY <1>6, <2>1, <3>1 DEF Ordered
  <2>. QED  BY <2>1 DEF Ordered
<1>7. ASSUME NEW W, NEW S, \A x \in LastIn(q, S) : x.type = "create", Ordered(q, W, S)
      PROVE  Ordered(p, W, S)
  <2>1. ASSUME NEW j \in 1..n, q[j] \in S, \A h \in 1..n : j < h => q[h] \notin S
        PROVE  q[j].type = "create"
    <3>1. q[j] \in LastIn(q, S)
      BY <2>1 DEF LastIn
    <3>. QED  BY <1>7, <3>1
  <2>2. ASSUME NEW i \in 1..Len(p), NEW j \in 1..Len(p), p[i] \in W, j < i, p[j] \in S,
               \A h \in 1..Len(p) : j < h /\ h < i => p[h] \notin S
        PROVE  p[j].type = "create"
    <3>1. CASE i = n + 1
      BY <1>1, <1>2, <2>1, <2>2, <3>1
    <3>2. CASE i \in 1..n
      BY <1>1, <1>2, <1>7, <2>2, <3>2 DEF Ordered
    <3>. QED  BY <1>2, <3>1, <3>2
  <2>. QED  BY <2>2 DEF Ordered
<1>8. ASSUME NEW W, NEW S, Early(p, W, S) PROVE Early(q, W, S) \/ (m \in W /\ Lacks(q, S))
  <2>1. PICK i \in 1..Len(p) : p[i] \in W /\ \A j \in 1..Len(p) : j < i => p[j] \notin S
    BY <1>8 DEF Early
  <2>2. CASE i = n + 1
    BY <1>1, <1>2, <2>1, <2>2 DEF Lacks
  <2>3. CASE i \in 1..n
    BY <1>1, <1>2, <2>1, <2>3 DEF Early
  <2>. QED  BY <1>2, <2>2, <2>3
<1>9. p # <<>> /\ (q # <<>> => Head(p) = Head(q))
  BY <1>1
<1>10. AppendFacts(q, p, m)
  BY <1>3, <1>4, <1>5, <1>6, <1>7, <1>8, <1>9 DEF AppendFacts
<1>. QED  BY <1>10 DEF p

\* Taking the first message leaves what was last, if it was not that one.
TailFacts(q, p, m) ==
    /\ \A S : LastIn(p, S) \subseteq LastIn(q, S)
    /\ \A S : Lacks(p, S) => Lacks(q, S) \/ (m \in S /\ m \in LastIn(q, S))
    /\ \A S : Lacks(q, S) => m \notin S /\ Lacks(p, S)
    /\ \A S : OneOf(q, S) => OneOf(p, S) /\ (m \in S => Lacks(p, S))
    /\ \A W, S : Ordered(q, W, S) => Ordered(p, W, S)
    /\ \A W, S : Early(p, W, S) /\ Ordered(q, W, S) =>
          (m \notin S /\ Early(q, W, S)) \/ (m \in S /\ m.type = "create")
    /\ \A W, S : m \in W => Early(q, W, S)
\* What changes when the first message is taken.
LEMMA TailSays ==
    ASSUME NEW M, NEW q \in Seq(M), q # <<>>
    PROVE  TailFacts(q, Tail(q), Head(q))
<1>. DEFINE p == Tail(q)
            n == Len(p)
            m == Head(q)
<1>1. /\ n \in Nat /\ Len(q) = n + 1 /\ m = q[1] /\ \A i \in 1..n : p[i] = q[i + 1]
      /\ p \in Seq(M)
  OBVIOUS
<1>2. /\ 1 \in 1..Len(q) /\ \A i \in 1..n : i + 1 \in 1..Len(q) /\ i + 1 # 1 /\ 1 < i + 1
      /\ \A i \in 1..Len(q) : i = 1 \/ (i > 1 /\ i - 1 \in 1..n /\ (i - 1) + 1 = i /\ q[i] = p[i - 1])
      /\ \A i, j \in 1..n : (i < j <=> i + 1 < j + 1) /\ (i > j <=> i + 1 > j + 1)
  BY <1>1
<1>. HIDE DEF p, m
<1>3. ASSUME NEW S PROVE LastIn(p, S) \subseteq LastIn(q, S)
  <2>1. ASSUME NEW i \in 1..n, p[i] \in S, \A h \in 1..n : h > i => p[h] \notin S
        PROVE  p[i] \in LastIn(q, S)
    <3>1. /\ i + 1 \in 1..Len(q) /\ q[i + 1] \in S /\ p[i] = q[i + 1]
          /\ \A h \in 1..Len(q) : h > i + 1 => q[h] \notin S
      <4>1. i + 1 \in 1..Len(q) /\ q[i + 1] \in S /\ p[i] = q[i + 1]
        BY <1>1, <1>2, <2>1
      <4>2. ASSUME NEW h \in 1..Len(q), h > i + 1 PROVE q[h] \notin S
        <5>1. h - 1 \in 1..n /\ h - 1 > i /\ q[h] = p[h - 1]
          BY <1>1, <1>2, <4>2
        <5>. QED  BY <2>1, <5>1
      <4>. QED  BY <4>1, <4>2
    <3>. DEFINE k == i + 1
    <3>2. k \in 1..Len(q) /\ q[k] \in S /\ p[i] = q[k] /\ \A h \in 1..Len(q) : h > k => q[h] \notin S
      BY <3>1
    <3>. HIDE DEF k
    <3>. QED  BY <3>2 DEF LastIn
  <2>2. ASSUME NEW x \in LastIn(p, S)
        PROVE  \E i \in 1..n : x = p[i] /\ p[i] \in S /\ \A h \in 1..n : h > i => p[h] \notin S
    BY DEF LastIn
  <2>. QED  BY <2>1, <2>2
<1>4. ASSUME NEW S, Lacks(p, S), ~Lacks(q, S) PROVE m \in S /\ m \in LastIn(q, S)
  <2>1. m \in S
    BY <1>1, <1>2, <1>4 DEF Lacks
  <2>2. q[1] \in S /\ \A h \in 1..Len(q) : h > 1 => q[h] \notin S
    BY <1>1, <1>2, <1>4, <2>1 DEF Lacks
  <2>3. q[1] \in LastIn(q, S)
    BY <1>2, <2>2 DEF LastIn
  <2>. QED  BY <1>1, <2>1, <2>3
<1>5. ASSUME NEW S, Lacks(q, S) PROVE m \notin S /\ Lacks(p, S)
  BY <1>1, <1>2, <1>5 DEF Lacks
<1>6. ASSUME NEW S, OneOf(q, S) PROVE OneOf(p, S) /\ (m \in S => Lacks(p, S))
  <2>1. OneOf(p, S)
    <3>1. ASSUME NEW i \in 1..n, NEW j \in 1..n, p[i] \in S, p[j] \in S PROVE i = j
      <4>1. i + 1 = j + 1
        BY <1>1, <1>2, <1>6, <3>1 DEF OneOf
      <4>. QED  BY <4>1
    <3>. QED  BY <3>1 DEF OneOf
  <2>2. ASSUME m \in S, NEW i \in 1..n PROVE p[i] \notin S
    BY <1>1, <1>2, <1>6, <2>2 DEF OneOf
  <2>. QED  BY <2>1, <2>2 DEF Lacks
<1>7. ASSUME NEW W, NEW S, Ordered(q, W, S) PROVE Ordered(p, W, S)
  <2>1. ASSUME NEW i \in 1..n, NEW j \in 1..n, p[i] \in W, j < i, p[j] \in S,
               \A h \in 1..n : j < h /\ h < i => p[h] \notin S
        PROVE  p[j].type = "create"
    <3>1. q[i + 1] \in W /\ j + 1 < i + 1 /\ q[j + 1] \in S /\ i + 1 \in 1..Len(q) /\ j + 1 \in 1..Len(q)
      BY <1>1, <1>2, <2>1
    <3>2. \A h \in 1..Len(q) : j + 1 < h /\ h < i + 1 => q[h] \notin S
      BY <1>1, <1>2, <2>1
    <3>. DEFINE a == i + 1
                b == j + 1
    <3>3. /\ q[a] \in W /\ b < a /\ q[b] \in S /\ a \in 1..Len(q) /\ b \in 1..Len(q)
          /\ \A h \in 1..Len(q) : b < h /\ h < a => q[h] \notin S
      BY <3>1, <3>2
    <3>4. q[b] = p[j]
      BY <1>1
    <3>. HIDE DEF a, b
    <3>. QED  BY <1>7, <3>3, <3>4 DEF Ordered
  <2>. QED  BY <2>1 DEF Ordered
<1>8. ASSUME NEW W, NEW S, Early(p, W, S), Ordered(q, W, S)
      PROVE  (m \notin S /\ Early(q, W, S)) \/ (m \in S /\ m.type = "create")
  <2>1. PICK i \in 1..n : p[i] \in W /\ \A j \in 1..n : j < i => p[j] \notin S
    BY <1>8 DEF Early
  <2>. DEFINE a == i + 1
  <2>2. /\ a \in 1..Len(q) /\ 1 < a /\ q[a] \in W
        /\ \A j \in 1..Len(q) : 1 < j /\ j < a => q[j] \notin S
    BY <1>1, <1>2, <2>1
  <2>. HIDE DEF a
  <2>3. CASE m \in S
    BY <1>1, <1>2, <1>8, <2>2, <2>3 DEF Ordered
  <2>4. CASE m \notin S
    BY <1>1, <1>2, <2>2, <2>4 DEF Early
  <2>. QED  BY <2>3, <2>4
<1>9. ASSUME NEW W, NEW S, m \in W PROVE Early(q, W, S)
  BY <1>1, <1>2, <1>9 DEF Early
<1>10. TailFacts(q, p, m)
  BY <1>3, <1>4, <1>5, <1>6, <1>7, <1>8, <1>9 DEF TailFacts
<1>. QED  BY <1>10 DEF p, m

\* A message that is put in front touches nothing that it is not.
FrontFacts(q, p, m) ==
    /\ \A S : m \notin S => LastIn(p, S) = LastIn(q, S) /\ (Lacks(p, S) <=> Lacks(q, S))
    /\ \A S : Lacks(q, S) => OneOf(p, S)
    /\ \A W, S : m \notin W /\ m \notin S /\ Ordered(q, W, S) => Ordered(p, W, S)
    /\ \A W, S : m \notin W /\ m \notin S /\ Early(p, W, S) => Early(q, W, S)
    /\ p # <<>> /\ Head(p) = m
\* What a message put before the others changes.
LEMMA FrontSays ==
    ASSUME NEW M, NEW q \in Seq(M), NEW m \in M
    PROVE  <<m>> \o q \in Seq(M) /\ FrontFacts(q, <<m>> \o q, m)
<1>. DEFINE p == <<m>> \o q
            n == Len(q)
<1>1. /\ p \in Seq(M) /\ n \in Nat /\ Len(p) = n + 1 /\ p[1] = m /\ \A i \in 1..n : p[i + 1] = q[i]
      /\ p # <<>> /\ Head(p) = m
  OBVIOUS
<1>2. /\ 1 \in 1..Len(p) /\ \A i \in 1..n : i + 1 \in 1..Len(p) /\ i + 1 # 1
      /\ \A i \in 1..Len(p) : i = 1 \/ (i > 1 /\ i - 1 \in 1..n /\ (i - 1) + 1 = i /\ p[i] = q[i - 1])
  BY <1>1
<1>. HIDE DEF p
<1>3. ASSUME NEW S, m \notin S PROVE LastIn(p, S) = LastIn(q, S) /\ (Lacks(p, S) <=> Lacks(q, S))
  <2>1. ASSUME NEW x \in LastIn(p, S) PROVE x \in LastIn(q, S)
    <3>1. PICK i \in 1..Len(p) : x = p[i] /\ p[i] \in S /\ \A h \in 1..Len(p) : h > i => p[h] \notin S
      BY DEF LastIn
    <3>. DEFINE a == i - 1
    <3>2. a \in 1..n /\ x = q[a] /\ q[a] \in S
      BY <1>1, <1>2, <1>3, <3>1
    <3>3. \A h \in 1..n : h > a => q[h] \notin S
      BY <1>1, <1>2, <3>1
    <3>. HIDE DEF a
    <3>. QED  BY <3>2, <3>3 DEF LastIn
  <2>2. ASSUME NEW x \in LastIn(q, S) PROVE x \in LastIn(p, S)
    <3>1. PICK i \in 1..n : x = q[i] /\ q[i] \in S /\ \A h \in 1..n : h > i => q[h] \notin S
      BY DEF LastIn
    <3>. DEFINE a == i + 1
    <3>2. a \in 1..Len(p) /\ x = p[a] /\ p[a] \in S
      BY <1>1, <1>2, <3>1
    <3>3. \A h \in 1..Len(p) : h > a => p[h] \notin S
      BY <1>1, <1>2, <3>1
    <3>. HIDE DEF a
    <3>. QED  BY <3>2, <3>3 DEF LastIn
  <2>3. ASSUME Lacks(p, S) PROVE Lacks(q, S)
    <3>1. ASSUME NEW i \in 1..n PROVE q[i] \notin S
      <4>1. i + 1 \in 1..Len(p) /\ p[i + 1] = q[i]
        BY <1>1, <1>2, <3>1
      <4>. QED  BY <2>3, <4>1 DEF Lacks
    <3>. QED  BY <3>1 DEF Lacks
  <2>4. ASSUME Lacks(q, S) PROVE Lacks(p, S)
    <3>1. ASSUME NEW i \in 1..Len(p) PROVE p[i] \notin S
      <4>1. p[i] = m \/ \E h \in 1..n : p[i] = q[h]
        BY <1>1, <1>2, <3>1
      <4>. QED  BY <1>3, <2>4, <4>1 DEF Lacks
    <3>. QED  BY <3>1 DEF Lacks
  <2>. QED  BY <2>1, <2>2, <2>3, <2>4
<1>4. ASSUME NEW S, Lacks(q, S) PROVE OneOf(p, S)
  BY <1>1, <1>2, <1>4 DEF OneOf, Lacks
<1>5. ASSUME NEW W, NEW S, m \notin W, m \notin S, Ordered(q, W, S) PROVE Ordered(p, W, S)
  <2>1. ASSUME NEW i \in 1..Len(p), NEW j \in 1..Len(p), p[i] \in W, j < i, p[j] \in S,
               \A h \in 1..Len(p) : j < h /\ h < i => p[h] \notin S
        PROVE  p[j].type = "create"
    <3>. DEFINE a == i - 1
                b == j - 1
    <3>1. a \in 1..n /\ b \in 1..n /\ b < a /\ q[a] \in W /\ q[b] \in S /\ q[b] = p[j]
      BY <1>1, <1>2, <1>5, <2>1
    <3>2. \A h \in 1..n : b < h /\ h < a => q[h] \notin S
      BY <1>1, <1>2, <2>1
    <3>. HIDE DEF a, b
    <3>. QED  BY <1>5, <3>1, <3>2 DEF Ordered
  <2>. QED  BY <2>1 DEF Ordered
<1>6. ASSUME NEW W, NEW S, m \notin W, m \notin S, Early(p, W, S) PROVE Early(q, W, S)
  <2>1. PICK i \in 1..Len(p) : p[i] \in W /\ \A j \in 1..Len(p) : j < i => p[j] \notin S
    BY <1>6 DEF Early
  <2>. DEFINE a == i - 1
  <2>2. a \in 1..n /\ q[a] \in W
    BY <1>1, <1>2, <1>6, <2>1
  <2>3. \A j \in 1..n : j < a => q[j] \notin S
    BY <1>1, <1>2, <2>1
  <2>. HIDE DEF a
  <2>. QED  BY <2>2, <2>3 DEF Early
<1>7. FrontFacts(q, p, m)
  BY <1>1, <1>3, <1>4, <1>5, <1>6 DEF FrontFacts
<1>. QED  BY <1>1, <1>7 DEF p

\* What a step that concerns another controller does to the queue, and to the state.
Elsewhere(q, p, c) ==
    /\ \A k : LastIn(p, Touching(c, k)) \subseteq LastIn(q, Touching(c, k))
    /\ \A k : Lacks(p, Touching(c, k)) <=> Lacks(q, Touching(c, k))
    /\ Lacks(p, Listing(c)) <=> Lacks(q, Listing(c))
    /\ \A S : S = Touching(c, "none") =>
          /\ Ordered(q, Writing(c), S) => Ordered(p, Writing(c), S)
          /\ Early(p, Writing(c), S) /\ Ordered(q, Writing(c), S) => Early(q, Writing(c), S)
OtherSame(c) ==
    /\ (c \in disk'.listed <=> c \in disk.listed) /\ (c \in disk'.tables <=> c \in disk.tables)
    /\ disk'.values[c] = disk.values[c]
    /\ (c \in known'.controllers <=> c \in known.controllers) /\ known'.values[c] = known.values[c]
    /\ torn'[c] = torn[c]

\* A message of another controller, or of none, is elsewhere.
LEMMA OtherElsewhere ==
    ASSUME NEW q, NEW p, NEW m \in DbMessages, NEW c, m.c # c \/ m.type \in {"global", "on", "deep_sleep"},
           AppendFacts(q, p, m) \/ TailFacts(q, p, m) \/ FrontFacts(q, p, m)
    PROVE  Elsewhere(q, p, c)
<1>1. /\ \A k : m \notin Touching(c, k)
      /\ m \notin Listing(c) /\ m \notin Writing(c)
  BY DEF Touching, Listing, Writing
<1>2. CASE AppendFacts(q, p, m)
  BY <1>1, <1>2 DEF AppendFacts, Elsewhere
<1>3. CASE TailFacts(q, p, m)
  BY <1>1, <1>3 DEF TailFacts, Elsewhere
<1>4. CASE FrontFacts(q, p, m)
  BY <1>1, <1>4 DEF FrontFacts, Elsewhere
<1>. QED  BY <1>2, <1>3, <1>4

\* A controller that a step does not concern stays right.
LEMMA OtherKeeps ==
    ASSUME NEW c \in StoredIds, StoredRight(dbQueue, disk, known, torn, c),
           Elsewhere(dbQueue, dbQueue', c), OtherSame(c)
    PROVE  StoredRight(dbQueue', disk', known', torn', c)
<1>1. TableThere(dbQueue', c, disk', torn'[c])
  BY DEF StoredRight, TableThere, Elsewhere, OtherSame
<1>2. MemberRight(dbQueue', c, c \in known'.controllers, disk'.listed, torn'[c])
  BY DEF StoredRight, MemberRight, Elsewhere, OtherSame
<1>3. WriteFinds(dbQueue', c, disk'.tables, torn'[c])
  BY DEF StoredRight, WriteFinds, Elsewhere, OtherSame
<1>4. ASSUME c \in known'.controllers, Clean(torn'[c]), NEW k \in Keys
      PROVE  ValueRight(dbQueue', Touching(c, k), known'.values[c][k], disk'.values[c][k])
  <2>1. ValueRight(dbQueue, Touching(c, k), known.values[c][k], disk.values[c][k])
    BY <1>4 DEF StoredRight, OtherSame
  <2>. QED  BY <2>1 DEF ValueRight, Elsewhere, OtherSame
<1>. QED  BY <1>1, <1>2, <1>3, <1>4 DEF StoredRight

\* A value of no controller stays right when no such message comes or goes.
LEMMA GlobalKeeps ==
    ASSUME DbInv, ~sleep.hurried, NEW m \in DbMessages, m.type # "global",
           \/ AppendFacts(dbQueue, dbQueue', m) \/ TailFacts(dbQueue, dbQueue', m)
           \/ FrontFacts(dbQueue, dbQueue', m) \/ dbQueue' = dbQueue,
           known'.global = known.global, disk'.global = disk.global
    PROVE  ValueRight(dbQueue', OfType({"global"}), known'.global, disk'.global)
<1>1. m \notin OfType({"global"})
  BY DEF OfType
<1>2. ValueRight(dbQueue, OfType({"global"}), known.global, disk.global)
  BY DEF DbInv, DbRight
<1>. QED  BY <1>1, <1>2 DEF ValueRight, AppendFacts, TailFacts, FrontFacts

-----------------------------------------------------------------------------
(* The program's side.                                                     *)

\* What a push leaves right.
LEMMA PushKeeps ==
    ASSUME DbInv, NEW m \in DbMessages, m.type \notin {"on", "deep_sleep", "list"},
           dbQueue' = Append(dbQueue, m), UNCHANGED <<disk, dbThread, sleep, torn>>
    PROVE  /\ dbQueue' \in Seq(DbMessages) /\ dbQueue' # <<>> /\ AppendFacts(dbQueue, dbQueue', m)
           /\ ~sleep.hurried => /\ Sleeping(dbQueue', sleep', dbThread')
                                /\ Dropping(dbQueue', sleep', dbThread', disk'.listed, torn')
<1>1. dbQueue \in Seq(DbMessages)
  BY DEF DbInv, DbTypes
<1>2. AppendFacts(dbQueue, dbQueue', m)
  BY <1>1, AppendSays
<1>3. m \notin Power /\ m \notin OfType({"on"}) /\ \A c : m \notin Listing(c)
  BY DEF Power, OfType, Listing
<1>4. ASSUME ~sleep.hurried PROVE Sleeping(dbQueue', sleep', dbThread')
  BY <1>2, <1>3, <1>4 DEF DbInv, DbRight, Sleeping, AppendFacts
<1>5. ASSUME ~sleep.hurried PROVE Dropping(dbQueue', sleep', dbThread', disk'.listed, torn')
  BY <1>2, <1>3, <1>5 DEF DbInv, DbTypes, DbRight, Dropping, AppendFacts
<1>6. dbQueue' \in Seq(DbMessages) /\ dbQueue' # <<>>
  BY <1>1, <1>2 DEF AppendFacts
<1>. QED  BY <1>2, <1>4, <1>5, <1>6

\* A controller is created.
LEMMA CreateKeeps ==
    ASSUME DbInv, NEW c \in StoredIds, ControllerCreate(c)
    PROVE  DbInv'
<1>. DEFINE m == Message("create", c, "entry", 0)
<1>1. /\ c \notin known.controllers /\ dbQueue' = Append(dbQueue, m)
      /\ known' = [known EXCEPT !.controllers = @ \cup {c}, !.values[c] = NoValues]
      /\ UNCHANGED <<disk, dbThread, sleep, writes, torn>>
  BY DEF ControllerCreate, PushDb
<1>2. m \in DbMessages /\ m.type = "create" /\ m.c = c
  BY DEF Message, DbMessages
<1>. HIDE DEF m
<1>3. /\ known' \in DbKnown /\ known'.controllers = known.controllers \cup {c}
      /\ known'.values[c] = NoValues /\ \A d \in StoredIds : d # c => known'.values[d] = known.values[d]
      /\ known'.global = known.global
  <2>1. NoValues \in [Keys -> Nat] /\ known \in DbKnown
    BY DEF NoValues, DbInv, DbTypes
  <2>. QED  BY <1>1, <2>1 DEF DbKnown, DbValues
<1>4. /\ dbQueue' \in Seq(DbMessages) /\ dbQueue' # <<>> /\ AppendFacts(dbQueue, dbQueue', m)
      /\ ~sleep.hurried => /\ Sleeping(dbQueue', sleep', dbThread')
                           /\ Dropping(dbQueue', sleep', dbThread', disk'.listed, torn')
  BY <1>1, <1>2, PushKeeps
<1>5. DbTypes'
  BY <1>1, <1>3, <1>4 DEF DbInv, DbTypes
<1>6. ASSUME ~sleep.hurried, NEW d \in StoredIds PROVE StoredRight(dbQueue', disk', known', torn', d)
  <2>0. StoredRight(dbQueue, disk, known, torn, d)
    BY <1>6 DEF DbInv, DbRight
  <2>1. CASE d # c
    BY <1>1, <1>2, <1>3, <1>4, <2>0, <2>1, OtherElsewhere, OtherKeeps DEF OtherSame
  <2>2. CASE d = c
    <3>1. /\ \A k : m \in Touching(c, k)
          /\ m \notin Listing(c) /\ m \notin Writing(c)
      BY <1>2 DEF Touching, Listing, Writing
    <3>2. TableThere(dbQueue', c, disk', torn'[c])
      BY <1>1, <1>4, <2>0, <2>2, <3>1 DEF StoredRight, TableThere, AppendFacts
    <3>3. MemberRight(dbQueue', c, c \in known'.controllers, disk'.listed, torn'[c])
      BY <1>2, <1>3, <1>4, <3>1 DEF MemberRight, AppendFacts
    <3>4. WriteFinds(dbQueue', c, disk'.tables, torn'[c])
      BY <1>1, <1>4, <2>0, <2>2, <3>1 DEF StoredRight, WriteFinds, AppendFacts
    <3>5. ASSUME NEW k \in Keys PROVE ValueRight(dbQueue', Touching(c, k), known'.values[c][k], disk'.values[c][k])
      <4>1. known'.values[c][k] = 0
        BY <1>3 DEF NoValues
      <4>. QED  BY <1>2, <1>4, <3>1, <4>1 DEF ValueRight, AppendFacts
    <3>. QED  BY <2>2, <3>2, <3>3, <3>4, <3>5 DEF StoredRight
  <2>. QED  BY <2>1, <2>2
<1>7. ASSUME ~sleep.hurried PROVE ValueRight(dbQueue', OfType({"global"}), known'.global, disk'.global)
  BY <1>1, <1>2, <1>3, <1>4, <1>7, GlobalKeeps
<1>. QED  BY <1>1, <1>4, <1>5, <1>6, <1>7 DEF DbInv, DbRight

\* A controller is destroyed.
LEMMA DestroyKeeps ==
    ASSUME DbInv, NEW c \in StoredIds, ControllerDestroy(c)
    PROVE  DbInv'
<1>. DEFINE m == Message("destroy", c, "entry", 0)
<1>1. /\ c \in known.controllers /\ dbQueue' = Append(dbQueue, m)
      /\ known' = [known EXCEPT !.controllers = @ \ {c}, !.values[c] = NoValues]
      /\ UNCHANGED <<disk, dbThread, sleep, writes, torn>>
  BY DEF ControllerDestroy, PushDb
<1>2. m \in DbMessages /\ m.type = "destroy" /\ m.c = c
  BY DEF Message, DbMessages
<1>. HIDE DEF m
<1>3. /\ known' \in DbKnown /\ known'.controllers = known.controllers \ {c}
      /\ known'.values[c] = NoValues /\ \A d \in StoredIds : d # c => known'.values[d] = known.values[d]
      /\ known'.global = known.global
  <2>1. NoValues \in [Keys -> Nat] /\ known \in DbKnown
    BY DEF NoValues, DbInv, DbTypes
  <2>. QED  BY <1>1, <2>1 DEF DbKnown, DbValues
<1>4. /\ dbQueue' \in Seq(DbMessages) /\ dbQueue' # <<>> /\ AppendFacts(dbQueue, dbQueue', m)
      /\ ~sleep.hurried => /\ Sleeping(dbQueue', sleep', dbThread')
                           /\ Dropping(dbQueue', sleep', dbThread', disk'.listed, torn')
  BY <1>1, <1>2, PushKeeps
<1>5. DbTypes'
  BY <1>1, <1>3, <1>4 DEF DbInv, DbTypes
<1>6. ASSUME ~sleep.hurried, NEW d \in StoredIds PROVE StoredRight(dbQueue', disk', known', torn', d)
  <2>0. StoredRight(dbQueue, disk, known, torn, d)
    BY <1>6 DEF DbInv, DbRight
  <2>1. CASE d # c
    BY <1>1, <1>2, <1>3, <1>4, <2>0, <2>1, OtherElsewhere, OtherKeeps DEF OtherSame
  <2>2. CASE d = c
    <3>1. /\ \A k : m \in Touching(c, k)
          /\ m \notin Listing(c) /\ m \notin Writing(c)
      BY <1>2 DEF Touching, Listing, Writing
    <3>2. TableThere(dbQueue', c, disk', torn'[c])
      BY <1>1, <1>4, <2>0, <2>2, <3>1 DEF StoredRight, TableThere, AppendFacts
    <3>3. MemberRight(dbQueue', c, c \in known'.controllers, disk'.listed, torn'[c])
      BY <1>2, <1>3, <1>4, <3>1 DEF MemberRight, AppendFacts
    <3>4. WriteFinds(dbQueue', c, disk'.tables, torn'[c])
      BY <1>1, <1>4, <2>0, <2>2, <3>1 DEF StoredRight, WriteFinds, AppendFacts
    <3>. QED  BY <1>3, <2>2, <3>2, <3>3, <3>4 DEF StoredRight
  <2>. QED  BY <2>1, <2>2
<1>7. ASSUME ~sleep.hurried PROVE ValueRight(dbQueue', OfType({"global"}), known'.global, disk'.global)
  BY <1>1, <1>2, <1>3, <1>4, <1>7, GlobalKeeps
<1>. QED  BY <1>1, <1>4, <1>5, <1>6, <1>7 DEF DbInv, DbRight

\* A value of a controller is written.
LEMMA ValueWriteKeeps ==
    ASSUME DbInv, NEW c \in StoredIds, NEW key \in Keys, NEW type \in {"write", "attr"},
           WriteAs(type, c, key), type = "attr" => key = "entry"
    PROVE  DbInv'
<1>. DEFINE n == writes.count + 1
            m == Message(type, c, key, n)
<1>1. /\ c \in known.controllers /\ dbQueue' = Append(dbQueue, m)
      /\ known' = [known EXCEPT !.values[c][key] = n]
      /\ writes' = [writes EXCEPT !.count = n]
      /\ UNCHANGED <<disk, dbThread, sleep, torn>>
  BY DEF WriteAs, PushDb
<1>2. n \in Nat /\ writes' \in [count : Nat, restarts : Nat]
  BY <1>1 DEF DbInv, DbTypes
<1>3. m \in DbMessages /\ m.type = type /\ m.c = c /\ m.key = key /\ m.value = n
  BY <1>2 DEF Message, DbMessages
<1>. HIDE DEF m, n
<1>4. /\ known' \in DbKnown /\ known'.controllers = known.controllers /\ known'.global = known.global
      /\ \A d \in StoredIds : d # c => known'.values[d] = known.values[d]
      /\ \A k \in Keys : known'.values[c][k] = IF k = key THEN n ELSE known.values[c][k]
  <2>. DEFINE row == [known.values[c] EXCEPT ![key] = n]
  <2>1. known \in DbKnown /\ known.values[c] \in [Keys -> Nat]
    BY DEF DbInv, DbTypes, DbKnown, DbValues
  <2>2. row \in [Keys -> Nat] /\ \A k \in Keys : row[k] = IF k = key THEN n ELSE known.values[c][k]
    BY <1>2, <2>1
  <2>3. known' = [known EXCEPT !.values[c] = row]
    BY <1>1
  <2>. HIDE DEF row
  <2>4. /\ known' \in DbKnown /\ known'.controllers = known.controllers /\ known'.global = known.global
        /\ known'.values[c] = row /\ \A d \in StoredIds : d # c => known'.values[d] = known.values[d]
    BY <2>1, <2>2, <2>3 DEF DbKnown, DbValues
  <2>. QED  BY <2>2, <2>4
<1>5. /\ dbQueue' \in Seq(DbMessages) /\ dbQueue' # <<>> /\ AppendFacts(dbQueue, dbQueue', m)
      /\ ~sleep.hurried => /\ Sleeping(dbQueue', sleep', dbThread')
                           /\ Dropping(dbQueue', sleep', dbThread', disk'.listed, torn')
  BY <1>1, <1>3, PushKeeps
<1>6. DbTypes'
  BY <1>1, <1>2, <1>4, <1>5 DEF DbInv, DbTypes
<1>7. ASSUME ~sleep.hurried, NEW d \in StoredIds PROVE StoredRight(dbQueue', disk', known', torn', d)
  <2>0. StoredRight(dbQueue, disk, known, torn, d)
    BY <1>7 DEF DbInv, DbRight
  <2>1. CASE d # c
    BY <1>1, <1>3, <1>4, <1>5, <2>0, <2>1, OtherElsewhere, OtherKeeps DEF OtherSame
  <2>2. CASE d = c
    <3>1. /\ \A k \in Keys : m \in Touching(c, k) <=> k = key
          /\ m \notin Touching(c, "none") /\ m \notin Listing(c)
      BY <1>3 DEF Touching, Listing, Keys
    <3>2. TableThere(dbQueue', c, disk', torn'[c])
      BY <1>1, <1>5, <2>0, <2>2, <3>1 DEF StoredRight, TableThere, AppendFacts
    <3>3. MemberRight(dbQueue', c, c \in known'.controllers, disk'.listed, torn'[c])
      BY <1>1, <1>4, <1>5, <2>0, <2>2, <3>1 DEF StoredRight, MemberRight, AppendFacts
    <3>4. WriteFinds(dbQueue', c, disk'.tables, torn'[c])
      <4>1. \A x \in LastIn(dbQueue, Touching(c, "none")) : x.type = "create"
        BY <1>1, <2>0, <2>2 DEF StoredRight, MemberRight
      <4>2. Lacks(dbQueue, Touching(c, "none")) => c \in disk.tables \/ "relisted" \in torn[c]
        BY <1>1, <2>0, <2>2 DEF StoredRight, MemberRight, TableThere
      <4>3. Ordered(dbQueue, Writing(c), Touching(c, "none"))
            /\ (Early(dbQueue, Writing(c), Touching(c, "none")) => c \in disk.tables \/ "relisted" \in torn[c])
        BY <2>0, <2>2 DEF StoredRight, WriteFinds
      <4>. QED  BY <1>1, <1>5, <4>1, <4>2, <4>3 DEF WriteFinds, AppendFacts
    <3>5. ASSUME Clean(torn'[c]), NEW k \in Keys
          PROVE  ValueRight(dbQueue', Touching(c, k), known'.values[c][k], disk'.values[c][k])
      <4>1. CASE k = key
        BY <1>3, <1>4, <1>5, <3>1, <4>1 DEF ValueRight, AppendFacts
      <4>2. CASE k # key
        <5>1. ValueRight(dbQueue, Touching(c, k), known.values[c][k], disk.values[c][k])
          BY <1>1, <2>0, <2>2, <3>5 DEF StoredRight
        <5>. QED  BY <1>1, <1>4, <1>5, <3>1, <4>2, <5>1 DEF ValueRight, AppendFacts
      <4>. QED  BY <4>1, <4>2
    <3>. QED  BY <2>2, <3>2, <3>3, <3>4, <3>5 DEF StoredRight
  <2>. QED  BY <2>1, <2>2
<1>8. ASSUME ~sleep.hurried PROVE ValueRight(dbQueue', OfType({"global"}), known'.global, disk'.global)
  BY <1>1, <1>3, <1>4, <1>5, <1>8, GlobalKeeps
<1>. QED  BY <1>1, <1>5, <1>6, <1>7, <1>8 DEF DbInv, DbRight

\* A value of no controller is written.
LEMMA GlobalWriteKeeps ==
    ASSUME DbInv, WriteGlobalKey
    PROVE  DbInv'
<1>. DEFINE n == writes.count + 1
            m == Message("global", NoOwner, "entry", n)
<1>1. /\ dbQueue' = Append(dbQueue, m)
      /\ known' = [known EXCEPT !.global = n]
      /\ writes' = [writes EXCEPT !.count = n]
      /\ UNCHANGED <<disk, dbThread, sleep, torn>>
  BY DEF WriteGlobalKey, PushDb
<1>2. n \in Nat /\ writes' \in [count : Nat, restarts : Nat]
  BY <1>1 DEF DbInv, DbTypes
<1>3. m \in DbMessages /\ m.type = "global" /\ m.value = n
  BY <1>2 DEF Message, DbMessages
<1>. HIDE DEF m, n
<1>4. /\ known' \in DbKnown /\ known'.controllers = known.controllers /\ known'.values = known.values
      /\ known'.global = n
  BY <1>1, <1>2 DEF DbInv, DbTypes, DbKnown
<1>5. /\ dbQueue' \in Seq(DbMessages) /\ dbQueue' # <<>> /\ AppendFacts(dbQueue, dbQueue', m)
      /\ ~sleep.hurried => /\ Sleeping(dbQueue', sleep', dbThread')
                           /\ Dropping(dbQueue', sleep', dbThread', disk'.listed, torn')
  BY <1>1, <1>3, PushKeeps
<1>6. DbTypes'
  BY <1>1, <1>2, <1>4, <1>5 DEF DbInv, DbTypes
<1>7. ASSUME ~sleep.hurried, NEW d \in StoredIds PROVE StoredRight(dbQueue', disk', known', torn', d)
  <2>0. StoredRight(dbQueue, disk, known, torn, d)
    BY <1>7 DEF DbInv, DbRight
  <2>. QED  BY <1>1, <1>3, <1>4, <1>5, <2>0, OtherElsewhere, OtherKeeps DEF OtherSame
<1>8. ValueRight(dbQueue', OfType({"global"}), known'.global, disk'.global)
  <2>1. m \in OfType({"global"})
    BY <1>3 DEF OfType
  <2>. QED  BY <1>3, <1>4, <1>5, <2>1 DEF ValueRight, AppendFacts
<1>. QED  BY <1>1, <1>5, <1>6, <1>7, <1>8 DEF DbInv, DbRight

\* The state of a session is deleted at once.
LEMMA SessionKeeps ==
    ASSUME DbInv, NEW c \in StoredIds, DestroySessionState(c)
    PROVE  DbInv'
<1>1. /\ c \in known.controllers /\ known.values[c]["session"] # 0
      /\ disk' = IF DbOpened THEN [disk EXCEPT !.values[c]["session"] = 0] ELSE disk
      /\ known' = [known EXCEPT !.values[c]["session"] = 0]
      /\ torn' = IF Pending(c, "write", "session") \/ ~DbOpened
                 THEN [torn EXCEPT ![c] = @ \cup {"deleted"}] ELSE torn
      /\ UNCHANGED <<dbQueue, dbThread, sleep, writes>>
  BY DEF DestroySessionState
<1>2. /\ disk \in DbDisk /\ known \in DbKnown /\ torn \in DbTorn /\ "session" \in Keys
      /\ known.values[c] \in [Keys -> Nat] /\ disk.values[c] \in [Keys -> Nat]
  BY DEF DbInv, DbTypes, DbKnown, DbDisk, DbValues, Keys
<1>3. /\ known' \in DbKnown /\ known'.controllers = known.controllers /\ known'.global = known.global
      /\ \A d \in StoredIds : d # c => known'.values[d] = known.values[d]
      /\ \A k \in Keys : known'.values[c][k] = IF k = "session" THEN 0 ELSE known.values[c][k]
  <2>. DEFINE row == [known.values[c] EXCEPT !["session"] = 0]
  <2>1. row \in [Keys -> Nat] /\ \A k \in Keys : row[k] = IF k = "session" THEN 0 ELSE known.values[c][k]
    BY <1>2
  <2>2. known' = [known EXCEPT !.values[c] = row]
    BY <1>1
  <2>. HIDE DEF row
  <2>3. /\ known' \in DbKnown /\ known'.controllers = known.controllers /\ known'.global = known.global
        /\ known'.values[c] = row /\ \A d \in StoredIds : d # c => known'.values[d] = known.values[d]
    BY <1>2, <2>1, <2>2 DEF DbKnown, DbValues
  <2>. QED  BY <2>1, <2>3
<1>4. /\ disk' \in DbDisk /\ disk'.listed = disk.listed /\ disk'.tables = disk.tables /\ disk'.global = disk.global
      /\ \A d \in StoredIds : d # c => disk'.values[d] = disk.values[d]
      /\ \A k \in Keys : k # "session" => disk'.values[c][k] = disk.values[c][k]
      /\ DbOpened => disk'.values[c]["session"] = 0
  <2>. DEFINE row == [disk.values[c] EXCEPT !["session"] = 0]
  <2>1. row \in [Keys -> Nat] /\ \A k \in Keys : row[k] = IF k = "session" THEN 0 ELSE disk.values[c][k]
    BY <1>2
  <2>2. disk' = IF DbOpened THEN [disk EXCEPT !.values[c] = row] ELSE disk
    BY <1>1
  <2>. HIDE DEF row
  <2>3. CASE DbOpened
    <3>1. /\ disk' \in DbDisk /\ disk'.listed = disk.listed /\ disk'.tables = disk.tables
          /\ disk'.global = disk.global /\ disk'.values[c] = row
          /\ \A d \in StoredIds : d # c => disk'.values[d] = disk.values[d]
      BY <1>2, <2>1, <2>2, <2>3 DEF DbDisk, DbValues
    <3>. QED  BY <1>2, <2>1, <3>1
  <2>4. CASE ~DbOpened
    BY <1>2, <2>2, <2>4
  <2>. QED  BY <2>3, <2>4
<1>5. /\ torn' \in DbTorn /\ \A d \in StoredIds : d # c => torn'[d] = torn[d]
      /\ Clean(torn'[c]) => Clean(torn[c]) /\ DbOpened /\ ~Pending(c, "write", "session")
      /\ \A d \in StoredIds : "relisted" \in torn'[d] <=> "relisted" \in torn[d]
  BY <1>1, <1>2 DEF DbTorn, Clean
<1>6. DbTypes'
  BY <1>1, <1>3, <1>4, <1>5 DEF DbInv, DbTypes
<1>7. ASSUME ~sleep.hurried, NEW d \in StoredIds PROVE StoredRight(dbQueue', disk', known', torn', d)
  <2>0. StoredRight(dbQueue, disk, known, torn, d)
    BY <1>7 DEF DbInv, DbRight
  <2>1. CASE d # c
    <3>1. Elsewhere(dbQueue, dbQueue', d)
      BY <1>1 DEF Elsewhere
    <3>. QED  BY <1>3, <1>4, <1>5, <2>0, <2>1, <3>1, OtherKeeps DEF OtherSame
  <2>2. CASE d = c
    <3>2. TableThere(dbQueue', c, disk', torn'[c])
      BY <1>1, <1>4, <1>5, <2>0, <2>2 DEF StoredRight, TableThere
    <3>3. MemberRight(dbQueue', c, c \in known'.controllers, disk'.listed, torn'[c])
      BY <1>1, <1>3, <1>4, <1>5, <2>0, <2>2 DEF StoredRight, MemberRight
    <3>4. WriteFinds(dbQueue', c, disk'.tables, torn'[c])
      BY <1>1, <1>4, <1>5, <2>0, <2>2 DEF StoredRight, WriteFinds
    <3>5. ASSUME Clean(torn'[c]), NEW k \in Keys
          PROVE  ValueRight(dbQueue', Touching(c, k), known'.values[c][k], disk'.values[c][k])
      <4>1. ValueRight(dbQueue, Touching(c, k), known.values[c][k], disk.values[c][k])
        BY <1>1, <1>5, <2>0, <2>2, <3>5 DEF StoredRight
      <4>2. CASE k # "session"
        BY <1>1, <1>3, <1>4, <4>1, <4>2
      <4>3. CASE k = "session"
        <5>1. ASSUME NEW m \in LastIn(dbQueue, Touching(c, k)) PROVE m.type = "create"
          <6>1. PICK i \in 1..Len(dbQueue) : m = dbQueue[i] /\ dbQueue[i] \in Touching(c, k)
            BY DEF LastIn
          <6>2. m.c = c /\ m.key = "session" => m.type # "write"
            BY <1>5, <3>5, <6>1 DEF Pending
          <6>3. m \in DbMessages => (m.type = "attr" => m.key = "entry")
            BY DEF DbMessages
          <6>4. m \in DbMessages /\ m.c = c /\ (m.type \in {"create", "destroy"} \/ (m.type \in {"write", "attr"} /\ m.key = k))
            BY <6>1 DEF Touching
          <6>5. m.type \in {"create", "destroy"}
            BY <4>3, <6>2, <6>4, <6>3
          <6>. QED  BY <1>1, <4>1, <4>3, <6>4, <6>5 DEF ValueRight
        <5>2. known'.values[c][k] = 0 /\ disk'.values[c][k] = 0
          BY <1>2, <1>3, <1>4, <1>5, <3>5, <4>3
        <5>. QED  BY <1>1, <5>1, <5>2 DEF ValueRight
      <4>. QED  BY <4>2, <4>3
    <3>. QED  BY <2>2, <3>2, <3>3, <3>4, <3>5 DEF StoredRight
  <2>. QED  BY <2>1, <2>2
<1>8. ASSUME ~sleep.hurried PROVE ValueRight(dbQueue', OfType({"global"}), known'.global, disk'.global)
  BY <1>1, <1>3, <1>4, <1>8 DEF DbInv, DbRight
<1>9. ASSUME ~sleep.hurried
      PROVE  /\ Sleeping(dbQueue', sleep', dbThread')
             /\ Dropping(dbQueue', sleep', dbThread', disk'.listed, torn')
  <2>1. dbThread = "drop" => Head(dbQueue) \in DbMessages
    BY DEF DbInv, DbTypes
  <2>. QED  BY <1>1, <1>4, <1>5, <1>9, <2>1 DEF DbInv, DbRight, Sleeping, Dropping, DbMessages
<1>. QED  BY <1>1, <1>6, <1>7, <1>8, <1>9 DEF DbInv, DbRight

\* The power changes.
LEMMA PowerKeeps ==
    ASSUME DbAssumption, DbInv, NEW state \in {"on", "deep_sleep"}, PowerChange(state)
    PROVE  DbInv'
<1>. DEFINE m == Message(state, NoOwner, "entry", 0)
            hurry == sleep.hurried \/ PowerPending
            more == sleep.signal + 1
<1>1. /\ sleep.power # state /\ ~sleep.hurried
      /\ \/ ~CloseInSleep /\ sleep' = [sleep EXCEPT !.power = state] /\ UNCHANGED dbQueue
         \/ /\ CloseInSleep /\ sleep.mode /\ dbQueue' = <<m>> \o dbQueue
            /\ sleep' = [sleep EXCEPT !.power = state, !.hurried = hurry, !.signal = more]
         \/ /\ CloseInSleep /\ ~sleep.mode /\ dbQueue' = Append(dbQueue, m)
            /\ sleep' = [sleep EXCEPT !.power = state, !.hurried = hurry]
      /\ UNCHANGED <<disk, known, dbThread, writes, torn>>
  <2>1. CASE ~CloseInSleep
    BY <2>1 DEF PowerChange
  <2>2. CASE CloseInSleep /\ sleep.mode
    BY <2>2 DEF PowerChange, DbInv, DbTypes, DbSleep
  <2>3. CASE CloseInSleep /\ ~sleep.mode
    BY <2>3 DEF PowerChange
  <2>. QED  BY <2>1, <2>2, <2>3
<1>2. /\ hurry \in BOOLEAN /\ more \in Nat /\ (~hurry => Lacks(dbQueue, Power))
      /\ (sleep.signal = 0 => more = 1)
  <2>1. sleep \in DbSleep /\ dbQueue \in Seq(DbMessages)
    BY DEF DbInv, DbTypes
  <2>2. PowerPending \in BOOLEAN /\ (~PowerPending => Lacks(dbQueue, Power))
    BY <2>1 DEF PowerPending, Lacks, Power, OfType
  <2>. QED  BY <2>1, <2>2 DEF DbSleep
<1>3. m \in DbMessages /\ m.type = state
  BY DEF Message, DbMessages
<1>. HIDE DEF m, hurry, more
<1>4. dbQueue \in Seq(DbMessages) /\ sleep \in DbSleep
  BY DEF DbInv, DbTypes
<1>5. CASE ~CloseInSleep
  <2>1. dbQueue' = dbQueue /\ sleep' \in DbSleep /\ sleep'.mode = sleep.mode /\ sleep'.signal = sleep.signal
        /\ sleep'.power = state /\ sleep'.hurried = sleep.hurried
    BY <1>1, <1>4, <1>5 DEF DbSleep
  <2>2. DbTypes'
    BY <1>1, <2>1 DEF DbInv, DbTypes
  <2>3. /\ Sleeping(dbQueue', sleep', dbThread')
        /\ Dropping(dbQueue', sleep', dbThread', disk'.listed, torn')
    BY <1>1, <1>5, <2>1 DEF DbInv, DbRight, Sleeping, Dropping
  <2>. QED  BY <1>1, <2>1, <2>2, <2>3 DEF DbInv, DbRight, StoredRight
<1>6. CASE CloseInSleep /\ sleep.mode
  <2>1. /\ dbQueue' \in Seq(DbMessages) /\ FrontFacts(dbQueue, dbQueue', m)
        /\ dbQueue' = <<m>> \o dbQueue /\ sleep' = [sleep EXCEPT !.power = state, !.hurried = hurry, !.signal = more]
    <3>1. <<m>> \o dbQueue \in Seq(DbMessages) /\ FrontFacts(dbQueue, <<m>> \o dbQueue, m)
      BY <1>3, <1>4, FrontSays
    <3>2. dbQueue' = <<m>> \o dbQueue /\ sleep' = [sleep EXCEPT !.power = state, !.hurried = hurry, !.signal = more]
      BY <1>1, <1>6
    <3>. QED  BY <3>1, <3>2
  <2>2. /\ sleep' \in DbSleep /\ sleep'.mode = sleep.mode /\ sleep'.signal = more /\ sleep'.power = state
        /\ sleep'.hurried = hurry
    BY <1>2, <1>4, <2>1 DEF DbSleep
  <2>3. DbTypes'
    BY <1>1, <2>1, <2>2 DEF DbInv, DbTypes, FrontFacts
  <2>4. ASSUME ~hurry PROVE Sleeping(dbQueue', sleep', dbThread')
    <3>1. Lacks(dbQueue, Power) /\ Sleeping(dbQueue, sleep, dbThread)
      BY <1>1, <1>2, <2>4 DEF DbInv, DbRight
    <3>2. ~(dbQueue # <<>> /\ Head(dbQueue).type = "on")
      <4>1. ASSUME dbQueue # <<>>, Head(dbQueue).type = "on" PROVE FALSE
        <5>1. TailFacts(dbQueue, Tail(dbQueue), Head(dbQueue)) /\ Head(dbQueue) \in DbMessages
          BY <1>4, <4>1, TailSays
        <5>2. Head(dbQueue) \notin Power
          BY <3>1, <5>1 DEF TailFacts
        <5>. QED  BY <4>1, <5>1, <5>2 DEF Power, OfType
      <4>. QED  BY <4>1
    <3>3. dbThread = "asleep" /\ sleep.signal = 0 /\ sleep.power = "deep_sleep"
      BY <1>6, <3>1, <3>2 DEF Sleeping
    <3>4. OneOf(dbQueue', Power) /\ dbQueue' # <<>> /\ Head(dbQueue').type = state
      BY <1>3, <2>1, <3>1 DEF FrontFacts
    <3>. QED  BY <1>1, <1>2, <1>6, <2>2, <3>3, <3>4 DEF Sleeping
  <2>5. Dropping(dbQueue', sleep', dbThread', disk'.listed, torn')
    BY <1>1, <1>6 DEF DbInv, DbRight, Dropping, Sleeping
  <2>6. ASSUME NEW d \in StoredIds PROVE StoredRight(dbQueue', disk', known', torn', d)
    <3>1. StoredRight(dbQueue, disk, known, torn, d)
      BY <1>1 DEF DbInv, DbRight
    <3>. QED  BY <1>1, <1>3, <2>1, <3>1, OtherElsewhere, OtherKeeps DEF OtherSame
  <2>7. ValueRight(dbQueue', OfType({"global"}), known'.global, disk'.global)
    BY <1>1, <1>3, <2>1, GlobalKeeps
  <2>. QED  BY <1>1, <2>2, <2>3, <2>4, <2>5, <2>6, <2>7 DEF DbInv, DbRight
<1>7. CASE CloseInSleep /\ ~sleep.mode
  <2>1. /\ dbQueue' \in Seq(DbMessages) /\ AppendFacts(dbQueue, dbQueue', m)
        /\ dbQueue' = Append(dbQueue, m) /\ sleep' = [sleep EXCEPT !.power = state, !.hurried = hurry]
    <3>1. Append(dbQueue, m) \in Seq(DbMessages) /\ AppendFacts(dbQueue, Append(dbQueue, m), m)
      BY <1>3, <1>4, AppendSays
    <3>2. dbQueue' = Append(dbQueue, m) /\ sleep' = [sleep EXCEPT !.power = state, !.hurried = hurry]
      BY <1>1, <1>7
    <3>. QED  BY <3>1, <3>2
  <2>2. /\ sleep' \in DbSleep /\ sleep'.mode = sleep.mode /\ sleep'.signal = sleep.signal /\ sleep'.power = state
        /\ sleep'.hurried = hurry
    BY <1>2, <1>4, <2>1 DEF DbSleep
  <2>3. DbTypes'
    BY <1>1, <2>1, <2>2 DEF DbInv, DbTypes, AppendFacts
  <2>4. ASSUME ~hurry PROVE Sleeping(dbQueue', sleep', dbThread')
    <3>1. Lacks(dbQueue, Power) /\ Sleeping(dbQueue, sleep, dbThread)
      BY <1>1, <1>2, <2>4 DEF DbInv, DbRight
    <3>2. state = "deep_sleep" /\ m \in Power /\ m \notin OfType({"on"})
      <4>1. sleep.power = "on"
        BY <1>4, <1>7, <3>1 DEF Sleeping, DbSleep
      <4>. QED  BY <1>1, <1>3, <4>1 DEF Power, OfType
    <3>3. ~Lacks(dbQueue', Power) /\ OneOf(dbQueue', Power) /\ Lacks(dbQueue', OfType({"on"}))
      BY <1>7, <2>1, <3>1, <3>2 DEF AppendFacts, Sleeping
    <3>. QED  BY <1>1, <1>7, <2>2, <3>1, <3>2, <3>3 DEF Sleeping
  <2>5. Dropping(dbQueue', sleep', dbThread', disk'.listed, torn')
    <3>1. \A c : m \notin Listing(c)
      BY <1>3 DEF Listing
    <3>. QED  BY <1>1, <2>1, <2>2, <3>1 DEF DbInv, DbTypes, DbRight, Dropping, AppendFacts
  <2>6. ASSUME NEW d \in StoredIds PROVE StoredRight(dbQueue', disk', known', torn', d)
    <3>1. StoredRight(dbQueue, disk, known, torn, d)
      BY <1>1 DEF DbInv, DbRight
    <3>. QED  BY <1>1, <1>3, <2>1, <3>1, OtherElsewhere, OtherKeeps DEF OtherSame
  <2>7. ValueRight(dbQueue', OfType({"global"}), known'.global, disk'.global)
    BY <1>1, <1>3, <2>1, GlobalKeeps
  <2>. QED  BY <1>1, <2>2, <2>3, <2>4, <2>5, <2>6, <2>7 DEF DbInv, DbRight
<1>. QED  BY <1>5, <1>6, <1>7

-----------------------------------------------------------------------------
(* The database thread.                                                    *)

\* The first message is taken, other than a change of the power: the file is open.
LEMMA TakenFacts ==
    ASSUME DbInv, dbQueue # <<>>, ~(Head(dbQueue).type \in {"on", "deep_sleep"}),
           dbThread \in {"run", "drop"}
    PROVE  /\ Head(dbQueue) \in DbMessages /\ Tail(dbQueue) \in Seq(DbMessages)
           /\ TailFacts(dbQueue, Tail(dbQueue), Head(dbQueue))
           /\ ~sleep.hurried => ~sleep.mode /\ Sleeping(Tail(dbQueue), sleep, "run")
<1>1. dbQueue \in Seq(DbMessages)
  BY DEF DbInv, DbTypes
<1>2. Head(dbQueue) \in DbMessages /\ Tail(dbQueue) \in Seq(DbMessages)
  BY <1>1
<1>3. TailFacts(dbQueue, Tail(dbQueue), Head(dbQueue))
  BY <1>1, TailSays
<1>4. Head(dbQueue) \notin Power /\ Head(dbQueue) \notin OfType({"on"})
  BY DEF Power, OfType
<1>5. ASSUME ~sleep.hurried PROVE ~sleep.mode
  BY <1>5 DEF DbInv, DbRight, Sleeping, Dropping
<1>6. ASSUME ~sleep.hurried PROVE Sleeping(Tail(dbQueue), sleep, "run")
  BY <1>3, <1>4, <1>5, <1>6 DEF DbInv, DbRight, Sleeping, TailFacts
<1>. QED  BY <1>2, <1>3, <1>5, <1>6

\* What all but the power's handlers leave as it is.
Handled(h) ==
    /\ dbQueue # <<>> /\ h = Head(dbQueue) /\ dbQueue' = Tail(dbQueue) /\ dbThread \in {"run", "drop"}
    /\ dbThread' = (IF DbClosed THEN "asleep" ELSE "run") /\ UNCHANGED <<known, sleep, writes>>
    /\ h.type \notin {"on", "deep_sleep"}
\* A message that is handled keeps the invariant if the tables stay right.
LEMMA HandledKeeps ==
    ASSUME DbInv, NEW h, Handled(h), disk' \in DbDisk, torn' \in DbTorn,
           ~sleep.hurried => \A c \in StoredIds : StoredRight(dbQueue', disk', known', torn', c),
           ~sleep.hurried => ValueRight(dbQueue', OfType({"global"}), known'.global, disk'.global)
    PROVE  DbInv'
<1>1. /\ Tail(dbQueue) \in Seq(DbMessages)
      /\ ~sleep.hurried => ~sleep.mode /\ Sleeping(Tail(dbQueue), sleep, "run")
  BY TakenFacts DEF Handled
<1>2. dbThread' \in {"run", "asleep"}
  BY DEF Handled
<1>3. DbTypes'
  BY <1>1, <1>2 DEF DbInv, DbTypes, Handled
<1>4. ASSUME ~sleep.hurried
      PROVE  Sleeping(dbQueue', sleep', dbThread') /\ Dropping(dbQueue', sleep', dbThread', disk'.listed, torn')
  BY <1>1, <1>4 DEF Handled, DbClosed, Dropping
<1>5. sleep' = sleep
  BY DEF Handled
<1>. QED  BY <1>3, <1>4, <1>5 DEF DbInv, DbRight

\* A value is inserted, if its table is there.
LEMMA InsertKeeps ==
    ASSUME DbInv, Insert("write") \/ Insert("attr")
    PROVE  DbInv'
<1>. DEFINE m == Head(dbQueue)
            c == m.c
<1>1. /\ Handled(m) /\ m.type \in {"write", "attr"} /\ torn' = torn
      /\ disk' = IF ~DbClosed /\ m.c \in disk.tables THEN [disk EXCEPT !.values[m.c][m.key] = m.value] ELSE disk
  BY DEF Insert, Next0, Done, After, Handled, DbClosed
<1>2. /\ m \in DbMessages /\ TailFacts(dbQueue, dbQueue', m)
      /\ ~sleep.hurried => ~sleep.mode
  BY <1>1, TakenFacts DEF Handled
<1>3. c \in StoredIds /\ m.key \in Keys /\ m.value \in Nat
  BY <1>1, <1>2 DEF DbMessages, Keys
<1>4. disk \in DbDisk /\ torn \in DbTorn /\ known' = known /\ disk.values[c] \in [Keys -> Nat]
  BY <1>1, <1>3 DEF DbInv, DbTypes, Handled, DbDisk, DbValues
<1>. HIDE DEF m, c
<1>5. /\ disk' \in DbDisk /\ disk'.listed = disk.listed /\ disk'.tables = disk.tables /\ disk'.global = disk.global
      /\ \A d \in StoredIds : d # c => disk'.values[d] = disk.values[d]
      /\ \A k \in Keys : k # m.key => disk'.values[c][k] = disk.values[c][k]
      /\ ~DbClosed /\ c \in disk.tables => disk'.values[c][m.key] = m.value
  <2>. DEFINE row == [disk.values[c] EXCEPT ![m.key] = m.value]
  <2>1. row \in [Keys -> Nat] /\ \A k \in Keys : row[k] = IF k = m.key THEN m.value ELSE disk.values[c][k]
    BY <1>3, <1>4
  <2>2. disk' = IF ~DbClosed /\ c \in disk.tables THEN [disk EXCEPT !.values[c] = row] ELSE disk
    BY <1>1 DEF c
  <2>. HIDE DEF row
  <2>3. CASE ~DbClosed /\ c \in disk.tables
    <3>1. /\ disk' \in DbDisk /\ disk'.listed = disk.listed /\ disk'.tables = disk.tables
          /\ disk'.global = disk.global /\ disk'.values[c] = row
          /\ \A d \in StoredIds : d # c => disk'.values[d] = disk.values[d]
      BY <1>3, <1>4, <2>1, <2>2, <2>3 DEF DbDisk, DbValues
    <3>. QED  BY <1>3, <2>1, <3>1
  <2>4. CASE ~(~DbClosed /\ c \in disk.tables)
    BY <1>4, <2>2, <2>4
  <2>. QED  BY <2>3, <2>4
<1>6. ASSUME ~sleep.hurried, NEW d \in StoredIds PROVE StoredRight(dbQueue', disk', known', torn', d)
  <2>0. StoredRight(dbQueue, disk, known, torn, d)
    BY <1>6 DEF DbInv, DbRight
  <2>1. CASE d # c
    <3>1. m.c # d
      BY <2>1 DEF c
    <3>. QED  BY <1>1, <1>2, <1>4, <1>5, <2>0, <2>1, <3>1, OtherElsewhere, OtherKeeps DEF OtherSame
  <2>2. CASE d = c
    <3>1. /\ \A k : m \in Touching(c, k) <=> k = m.key
          /\ m \notin Touching(c, "none") /\ m \notin Listing(c) /\ m \in Writing(c)
      BY <1>1, <1>2, <1>3 DEF Touching, Listing, Writing, Keys, c
    <3>2. TableThere(dbQueue', c, disk', torn'[c])
      BY <1>1, <1>2, <1>5, <2>0, <2>2, <3>1 DEF StoredRight, TableThere, TailFacts
    <3>3. MemberRight(dbQueue', c, c \in known'.controllers, disk'.listed, torn'[c])
      BY <1>1, <1>2, <1>4, <1>5, <2>0, <2>2, <3>1 DEF StoredRight, MemberRight, TailFacts
    <3>4. WriteFinds(dbQueue', c, disk'.tables, torn'[c]) /\ (c \in disk.tables \/ "relisted" \in torn[c])
      BY <1>1, <1>2, <1>5, <2>0, <2>2, <3>1 DEF StoredRight, WriteFinds, TailFacts
    <3>5. ASSUME c \in known.controllers, Clean(torn[c]), NEW k \in Keys
          PROVE  ValueRight(dbQueue', Touching(c, k), known'.values[c][k], disk'.values[c][k])
      <4>1. ValueRight(dbQueue, Touching(c, k), known.values[c][k], disk.values[c][k])
        BY <2>0, <2>2, <3>5 DEF StoredRight
      <4>2. CASE k = m.key
        <5>1. disk'.values[c][k] = m.value
          <6>1. c \in disk.tables /\ ~DbClosed
            BY <1>2, <1>6, <3>4, <3>5 DEF Clean, DbClosed
          <6>. QED  BY <1>5, <4>2, <6>1
        <5>2. Lacks(dbQueue', Touching(c, k)) => m.value = known.values[c][k]
          BY <1>1, <1>2, <3>1, <4>1, <4>2 DEF ValueRight, TailFacts
        <5>. QED  BY <1>2, <1>4, <4>1, <5>1, <5>2 DEF ValueRight, TailFacts
      <4>3. CASE k # m.key
        BY <1>2, <1>4, <1>5, <3>1, <4>1, <4>3 DEF ValueRight, TailFacts
      <4>. QED  BY <4>2, <4>3
    <3>. QED  BY <1>1, <1>4, <2>2, <3>2, <3>3, <3>4, <3>5 DEF StoredRight
  <2>. QED  BY <2>1, <2>2
<1>7. ASSUME ~sleep.hurried PROVE ValueRight(dbQueue', OfType({"global"}), known'.global, disk'.global)
  BY <1>1, <1>2, <1>4, <1>5, <1>7, GlobalKeeps
<1>. QED  BY <1>1, <1>4, <1>5, <1>6, <1>7, HandledKeeps

\* A table is made, and the entry of the list is queued unless it is there.
LEMMA HandleCreateKeeps ==
    ASSUME DbInv, HandleCreate
    PROVE  DbInv'
<1>. DEFINE m == Head(dbQueue)
            c == m.c
            t == Tail(dbQueue)
            l == Message("list", c, "entry", 0)
<1>1. /\ dbThread = "run" /\ dbQueue # <<>> /\ m.type = "create"
      /\ dbThread' = IF DbClosed THEN "asleep" ELSE "run"
      /\ disk' = IF DbClosed THEN disk ELSE [disk EXCEPT !.tables = @ \cup {c}]
      /\ dbQueue' = IF c \in disk.listed THEN t ELSE Append(t, l)
      /\ torn' = IF disk.values[c] # NoValues THEN [torn EXCEPT ![c] = @ \cup {"inherited"}] ELSE torn
      /\ UNCHANGED <<known, sleep, writes>>
  BY DEF HandleCreate, Next0, After
<1>2. /\ m \in DbMessages /\ t \in Seq(DbMessages) /\ TailFacts(dbQueue, t, m)
      /\ ~sleep.hurried => ~sleep.mode /\ Sleeping(t, sleep, "run")
  BY <1>1, TakenFacts
<1>3. c \in StoredIds
  BY <1>1, <1>2 DEF DbMessages
<1>4. l \in DbMessages /\ l.type = "list" /\ l.c = c
  BY <1>3 DEF Message, DbMessages
<1>5. disk \in DbDisk /\ torn \in DbTorn
  BY DEF DbInv, DbTypes
<1>. HIDE DEF m, c, t, l
<1>6. AppendFacts(t, Append(t, l), l) /\ Append(t, l) \in Seq(DbMessages)
  BY <1>2, <1>4, AppendSays
<1>7. /\ dbQueue' \in Seq(DbMessages)
      /\ (c \in disk.listed /\ dbQueue' = t) \/ (c \notin disk.listed /\ AppendFacts(t, dbQueue', l))
  BY <1>1, <1>2, <1>6
<1>8. /\ disk' \in DbDisk /\ disk'.listed = disk.listed /\ disk'.values = disk.values
      /\ disk'.global = disk.global /\ (~DbClosed => disk'.tables = disk.tables \cup {c})
      /\ \A d \in StoredIds : d # c => (d \in disk'.tables <=> d \in disk.tables)
  BY <1>1, <1>3, <1>5 DEF DbDisk
<1>9. /\ torn' \in DbTorn /\ \A d \in StoredIds : d # c => torn'[d] = torn[d]
      /\ disk.values[c] # NoValues => "inherited" \in torn'[c]
      /\ disk.values[c] = NoValues => torn'[c] = torn[c]
      /\ torn[c] \subseteq torn'[c]
  BY <1>1, <1>3, <1>5 DEF DbTorn
<1>10. dbThread' \in {"run", "asleep"}
  BY <1>1
<1>11. DbTypes'
  BY <1>1, <1>7, <1>8, <1>9, <1>10 DEF DbInv, DbTypes
<1>12. ASSUME ~sleep.hurried
       PROVE  Sleeping(dbQueue', sleep', dbThread') /\ Dropping(dbQueue', sleep', dbThread', disk'.listed, torn')
  <2>1. l \notin Power /\ l \notin OfType({"on"})
    BY <1>4 DEF Power, OfType
  <2>2. Sleeping(dbQueue', sleep, "run")
    BY <1>2, <1>7, <1>12, <2>1 DEF Sleeping, AppendFacts
  <2>. QED  BY <1>1, <1>2, <1>12, <2>2 DEF Dropping, DbClosed
<1>13. ASSUME ~sleep.hurried, NEW d \in StoredIds PROVE StoredRight(dbQueue', disk', known', torn', d)
  <2>0. StoredRight(dbQueue, disk, known, torn, d)
    BY <1>13 DEF DbInv, DbRight
  <2>1. CASE d # c
    <3>1. Elsewhere(dbQueue, t, d)
      <4>1. m.c # d
        BY <2>1 DEF c
      <4>. QED  BY <1>2, <4>1, OtherElsewhere
    <3>2. dbQueue' = t \/ Elsewhere(t, dbQueue', d)
      BY <1>4, <1>7, <2>1, OtherElsewhere
    <3>3. Elsewhere(dbQueue, dbQueue', d)
      BY <3>1, <3>2 DEF Elsewhere
    <3>4. OtherSame(d)
      BY <1>1, <1>8, <1>9, <2>1 DEF OtherSame
    <3>. QED  BY <2>0, <3>3, <3>4, OtherKeeps
  <2>2. CASE d = c
    <3>1. /\ \A k : m \in Touching(c, k) /\ l \notin Touching(c, k)
          /\ m \notin Writing(c) /\ l \notin Writing(c) /\ l \in Listing(c)
      BY <1>1, <1>2, <1>4 DEF Touching, Listing, Writing, c, m
    <3>2. /\ c \in disk'.tables /\ m.type = "create"
      BY <1>1, <1>2, <1>8, <1>13 DEF DbClosed
    <3>3. TableThere(dbQueue', c, disk', torn'[c])
      BY <3>2 DEF TableThere
    <3>4. /\ \A k : LastIn(dbQueue', Touching(c, k)) \subseteq LastIn(dbQueue, Touching(c, k))
          /\ \A k : Lacks(dbQueue', Touching(c, k)) => m \in LastIn(dbQueue, Touching(c, k))
          /\ c \in disk.listed \/ ~Lacks(dbQueue', Listing(c))
      BY <1>2, <1>7, <3>1 DEF TailFacts, AppendFacts
    <3>5. MemberRight(dbQueue', c, c \in known'.controllers, disk'.listed, torn'[c])
      <4>1. MemberRight(dbQueue, c, c \in known.controllers, disk.listed, torn[c])
        BY <2>0, <2>2 DEF StoredRight
      <4>. QED  BY <1>1, <1>8, <3>2, <3>4, <4>1 DEF MemberRight
    <3>6. WriteFinds(dbQueue', c, disk'.tables, torn'[c])
      <4>1. Ordered(t, Writing(c), Touching(c, "none"))
        BY <1>2, <2>0, <2>2 DEF StoredRight, WriteFinds, TailFacts
      <4>2. Ordered(dbQueue', Writing(c), Touching(c, "none"))
        BY <1>7, <3>1, <4>1 DEF AppendFacts
      <4>. QED  BY <3>2, <4>2 DEF WriteFinds
    <3>7. ASSUME c \in known'.controllers, Clean(torn'[c]), NEW k \in Keys
          PROVE  ValueRight(dbQueue', Touching(c, k), known'.values[c][k], disk'.values[c][k])
      <4>1. disk.values[c] = NoValues /\ torn'[c] = torn[c] /\ known' = known
        BY <1>1, <1>9, <3>7 DEF Clean
      <4>2. ValueRight(dbQueue, Touching(c, k), known.values[c][k], disk.values[c][k])
        BY <2>0, <2>2, <3>7, <4>1 DEF StoredRight
      <4>3. disk'.values[c][k] = 0
        BY <1>8, <3>7, <4>1 DEF NoValues
      <4>. QED  BY <3>2, <3>4, <4>1, <4>2, <4>3 DEF ValueRight
    <3>. QED  BY <2>2, <3>3, <3>5, <3>6, <3>7 DEF StoredRight
  <2>. QED  BY <2>1, <2>2
<1>14. ASSUME ~sleep.hurried PROVE ValueRight(dbQueue', OfType({"global"}), known'.global, disk'.global)
  <2>1. m \notin OfType({"global"}) /\ l \notin OfType({"global"})
    BY <1>1, <1>4 DEF OfType
  <2>2. ValueRight(dbQueue, OfType({"global"}), known.global, disk.global)
    BY <1>14 DEF DbInv, DbRight
  <2>3. ValueRight(t, OfType({"global"}), known.global, disk.global)
    BY <1>2, <2>1, <2>2 DEF ValueRight, TailFacts
  <2>. QED  BY <1>1, <1>7, <1>8, <2>1, <2>3 DEF ValueRight, AppendFacts
<1>. QED  BY <1>1, <1>11, <1>12, <1>13, <1>14 DEF DbInv, DbRight

\* The entry of the list is written.
LEMMA HandleListKeeps ==
    ASSUME DbInv, HandleList
    PROVE  DbInv'
<1>. DEFINE m == Head(dbQueue)
            c == m.c
<1>1. /\ Handled(m) /\ m.type = "list" /\ torn' = torn
      /\ disk' = IF DbClosed THEN disk ELSE [disk EXCEPT !.listed = @ \cup {c}]
  BY DEF HandleList, Next0, Done, After, Handled, DbClosed
<1>2. /\ m \in DbMessages /\ TailFacts(dbQueue, dbQueue', m)
      /\ ~sleep.hurried => ~sleep.mode
  BY <1>1, TakenFacts DEF Handled
<1>3. c \in StoredIds
  BY <1>1, <1>2 DEF DbMessages
<1>4. disk \in DbDisk /\ torn \in DbTorn /\ known' = known
  BY <1>1 DEF DbInv, DbTypes, Handled
<1>. HIDE DEF m, c
<1>5. /\ disk' \in DbDisk /\ disk'.tables = disk.tables /\ disk'.values = disk.values
      /\ disk'.global = disk.global /\ (~DbClosed => disk'.listed = disk.listed \cup {c})
      /\ \A d \in StoredIds : d # c => (d \in disk'.listed <=> d \in disk.listed)
  BY <1>1, <1>3, <1>4 DEF DbDisk
<1>6. ASSUME ~sleep.hurried, NEW d \in StoredIds PROVE StoredRight(dbQueue', disk', known', torn', d)
  <2>0. StoredRight(dbQueue, disk, known, torn, d)
    BY <1>6 DEF DbInv, DbRight
  <2>1. CASE d # c
    <3>1. m.c # d
      BY <2>1 DEF c
    <3>2. Elsewhere(dbQueue, dbQueue', d)
      BY <1>2, <3>1, OtherElsewhere
    <3>3. OtherSame(d)
      BY <1>1, <1>4, <1>5, <2>1 DEF OtherSame
    <3>. QED  BY <2>0, <3>2, <3>3, OtherKeeps
  <2>2. CASE d = c
    <3>1. /\ \A k : m \notin Touching(c, k)
          /\ m \notin Writing(c) /\ m \in Listing(c)
      BY <1>1, <1>2 DEF Touching, Listing, Writing, c
    <3>2. /\ \A k : LastIn(dbQueue', Touching(c, k)) \subseteq LastIn(dbQueue, Touching(c, k))
          /\ \A k : Lacks(dbQueue', Touching(c, k)) => Lacks(dbQueue, Touching(c, k))
          /\ ~Lacks(dbQueue, Listing(c))
      BY <1>2, <3>1 DEF TailFacts
    <3>3. c \in disk'.listed /\ (c \in disk'.tables \/ "relisted" \in torn'[c])
      BY <1>1, <1>2, <1>5, <1>6, <2>0, <2>2, <3>2 DEF StoredRight, TableThere, DbClosed
    <3>4. TableThere(dbQueue', c, disk', torn'[c])
      BY <3>3 DEF TableThere
    <3>5. MemberRight(dbQueue', c, c \in known'.controllers, disk'.listed, torn'[c])
      <4>1. MemberRight(dbQueue, c, c \in known.controllers, disk.listed, torn[c])
        BY <2>0, <2>2 DEF StoredRight
      <4>. QED  BY <1>1, <1>4, <3>2, <3>3, <4>1 DEF MemberRight
    <3>6. WriteFinds(dbQueue', c, disk'.tables, torn'[c])
      BY <1>1, <1>2, <1>5, <2>0, <2>2, <3>1 DEF StoredRight, WriteFinds, TailFacts
    <3>7. ASSUME c \in known'.controllers, Clean(torn'[c]), NEW k \in Keys
          PROVE  ValueRight(dbQueue', Touching(c, k), known'.values[c][k], disk'.values[c][k])
      <4>1. ValueRight(dbQueue, Touching(c, k), known.values[c][k], disk.values[c][k])
        BY <1>1, <1>4, <2>0, <2>2, <3>7 DEF StoredRight
      <4>. QED  BY <1>4, <1>5, <3>2, <4>1 DEF ValueRight
    <3>. QED  BY <2>2, <3>4, <3>5, <3>6, <3>7 DEF StoredRight
  <2>. QED  BY <2>1, <2>2
<1>7. ASSUME ~sleep.hurried PROVE ValueRight(dbQueue', OfType({"global"}), known'.global, disk'.global)
  BY <1>1, <1>2, <1>4, <1>5, <1>7, GlobalKeeps
<1>. QED  BY <1>1, <1>4, <1>5, <1>6, <1>7, HandledKeeps

\* The entry of the list is deleted: one that is still queued comes after all.
LEMMA HandleDestroyKeeps ==
    ASSUME DbInv, HandleDestroy
    PROVE  DbInv'
<1>. DEFINE m == Head(dbQueue)
            c == m.c
<1>1. /\ dbThread = "run" /\ dbQueue # <<>> /\ m.type = "destroy"
      /\ dbThread' = "drop"
      /\ disk' = IF DbClosed THEN disk ELSE [disk EXCEPT !.listed = @ \ {c}]
      /\ torn' = IF Pending(c, "list", "entry") THEN [torn EXCEPT ![c] = @ \cup {"relisted"}] ELSE torn
      /\ UNCHANGED <<dbQueue, known, sleep, writes>>
  BY DEF HandleDestroy, Next0
<1>2. /\ m \in DbMessages /\ TailFacts(dbQueue, Tail(dbQueue), m)
      /\ ~sleep.hurried => ~sleep.mode
  BY <1>1, TakenFacts
<1>3. c \in StoredIds
  BY <1>1, <1>2 DEF DbMessages
<1>4. disk \in DbDisk /\ torn \in DbTorn /\ dbQueue \in Seq(DbMessages)
  BY DEF DbInv, DbTypes
<1>5. ~Lacks(dbQueue, Listing(c)) => Pending(c, "list", "entry")
  BY <1>4 DEF Lacks, Listing, Pending, DbMessages
<1>. DEFINE q == dbQueue
<1>6. Head(dbQueue') = m /\ dbQueue' = dbQueue
  BY <1>1
<1>. HIDE DEF m, c
<1>7. /\ disk' \in DbDisk /\ disk'.tables = disk.tables /\ disk'.values = disk.values
      /\ disk'.global = disk.global /\ (~DbClosed => c \notin disk'.listed)
      /\ \A d \in StoredIds : d # c => (d \in disk'.listed <=> d \in disk.listed)
  BY <1>1, <1>3, <1>4 DEF DbDisk
<1>8. /\ torn' \in DbTorn /\ \A d \in StoredIds : d # c => torn'[d] = torn[d]
      /\ ~Lacks(dbQueue, Listing(c)) => "relisted" \in torn'[c]
      /\ torn[c] \subseteq torn'[c]
  BY <1>1, <1>3, <1>4, <1>5 DEF DbTorn
<1>9. DbTypes'
  BY <1>1, <1>7, <1>8 DEF DbInv, DbTypes
<1>10. ASSUME ~sleep.hurried
       PROVE  Sleeping(dbQueue', sleep', dbThread') /\ Dropping(dbQueue', sleep', dbThread', disk'.listed, torn')
  <2>1. Sleeping(dbQueue', sleep', dbThread')
    BY <1>1, <1>2, <1>10 DEF DbInv, DbRight, Sleeping
  <2>2. Dropping(dbQueue', sleep', dbThread', disk'.listed, torn')
    BY <1>1, <1>2, <1>6, <1>7, <1>8, <1>10 DEF Dropping, DbClosed, c
  <2>. QED  BY <2>1, <2>2
<1>11. ASSUME ~sleep.hurried, NEW d \in StoredIds PROVE StoredRight(dbQueue', disk', known', torn', d)
  <2>0. StoredRight(dbQueue, disk, known, torn, d)
    BY <1>11 DEF DbInv, DbRight
  <2>1. CASE d # c
    <3>1. Elsewhere(dbQueue, dbQueue', d)
      BY <1>6 DEF Elsewhere
    <3>2. OtherSame(d)
      BY <1>1, <1>7, <1>8, <2>1 DEF OtherSame
    <3>. QED  BY <2>0, <3>1, <3>2, OtherKeeps
  <2>2. CASE d = c
    <3>1. \A k : ~Lacks(dbQueue, Touching(c, k))
      <4>1. \A k : m \in Touching(c, k)
        BY <1>1, <1>2 DEF Touching, c, m
      <4>. QED  BY <1>2, <4>1 DEF TailFacts
    <3>2. c \notin disk'.listed
      BY <1>2, <1>7, <1>11 DEF DbClosed
    <3>3. TableThere(dbQueue', c, disk', torn'[c])
      BY <1>6, <1>8, <3>2 DEF TableThere
    <3>4. MemberRight(dbQueue', c, c \in known'.controllers, disk'.listed, torn'[c])
      BY <1>1, <1>6, <2>0, <2>2, <3>1 DEF StoredRight, MemberRight
    <3>5. WriteFinds(dbQueue', c, disk'.tables, torn'[c])
      BY <1>6, <1>7, <1>8, <2>0, <2>2 DEF StoredRight, WriteFinds
    <3>6. ASSUME c \in known'.controllers, Clean(torn'[c]), NEW k \in Keys
          PROVE  ValueRight(dbQueue', Touching(c, k), known'.values[c][k], disk'.values[c][k])
      <4>1. Clean(torn[c])
        BY <1>8, <3>6 DEF Clean
      <4>2. ValueRight(dbQueue, Touching(c, k), known.values[c][k], disk.values[c][k])
        BY <1>1, <2>0, <2>2, <3>6, <4>1 DEF StoredRight
      <4>. QED  BY <1>1, <1>7, <4>2
    <3>. QED  BY <2>2, <3>3, <3>4, <3>5, <3>6 DEF StoredRight
  <2>. QED  BY <2>1, <2>2
<1>12. ASSUME ~sleep.hurried PROVE ValueRight(dbQueue', OfType({"global"}), known'.global, disk'.global)
  BY <1>1, <1>7, <1>12 DEF DbInv, DbRight
<1>. QED  BY <1>1, <1>9, <1>10, <1>11, <1>12 DEF DbInv, DbRight

\* The table is dropped: what is queued for its controller was queued after it.
LEMMA DropTableKeeps ==
    ASSUME DbInv, DropTable
    PROVE  DbInv'
<1>. DEFINE m == Head(dbQueue)
            c == m.c
<1>1. /\ dbThread = "drop" /\ dbQueue # <<>> /\ dbQueue' = Tail(dbQueue) /\ torn' = torn
      /\ dbThread' = IF DbClosed THEN "asleep" ELSE "run"
      /\ disk' = IF DbClosed THEN disk ELSE [disk EXCEPT !.tables = @ \ {c}, !.values[c] = NoValues]
      /\ UNCHANGED <<known, sleep, writes>>
  BY DEF DropTable, After, Done, DbInv, DbTypes
<1>2. disk \in DbDisk /\ torn \in DbTorn /\ dbQueue \in Seq(DbMessages) /\ NoValues \in [Keys -> Nat]
  BY DEF DbInv, DbTypes, NoValues
<1>. HIDE DEF m, c
<1>3. /\ disk' \in DbDisk /\ disk'.listed = disk.listed /\ disk'.global = disk.global
      /\ \A d \in StoredIds : d # c => disk'.values[d] = disk.values[d]
      /\ \A d \in StoredIds : d # c => (d \in disk'.tables <=> d \in disk.tables)
      /\ ~DbClosed /\ c \in StoredIds => disk'.values[c] = NoValues
  BY <1>1, <1>2 DEF DbDisk, DbValues
<1>4. Tail(dbQueue) \in Seq(DbMessages) /\ dbThread' \in {"run", "asleep"}
  BY <1>1, <1>2
<1>5. DbTypes'
  BY <1>1, <1>2, <1>3, <1>4 DEF DbInv, DbTypes
<1>6. ASSUME ~sleep.hurried PROVE DbInv'
  <2>1. /\ m.type = "destroy" /\ m \in DbMessages /\ ~sleep.mode /\ c \notin disk.listed
        /\ ~Lacks(dbQueue, Listing(c)) => "relisted" \in torn[c]
    BY <1>1, <1>2, <1>6 DEF DbInv, DbRight, Dropping, m, c
  <2>2. c \in StoredIds
    BY <2>1 DEF DbMessages, c
  <2>3. TailFacts(dbQueue, dbQueue', m)
    BY <1>1, <1>2, TailSays DEF m
  <2>4. Handled(m)
    BY <1>1, <2>1 DEF Handled, m
  <2>5. ASSUME NEW d \in StoredIds PROVE StoredRight(dbQueue', disk', known', torn', d)
    <3>0. StoredRight(dbQueue, disk, known, torn, d)
      BY <1>6 DEF DbInv, DbRight
    <3>1. CASE d # c
      <4>1. m.c # d
        BY <3>1 DEF c
      <4>2. Elsewhere(dbQueue, dbQueue', d)
        BY <2>1, <2>3, <4>1, OtherElsewhere
      <4>3. OtherSame(d)
        BY <1>1, <1>3, <3>1 DEF OtherSame
      <4>. QED  BY <3>0, <4>2, <4>3, OtherKeeps
    <3>2. CASE d = c
      <4>1. /\ \A k : m \in Touching(c, k)
            /\ m \notin Writing(c) /\ m \notin Listing(c)
        BY <2>1 DEF Touching, Listing, Writing, c
      <4>2. /\ \A k : LastIn(dbQueue', Touching(c, k)) \subseteq LastIn(dbQueue, Touching(c, k))
            /\ \A k : Lacks(dbQueue', Touching(c, k)) => m \in LastIn(dbQueue, Touching(c, k))
            /\ Lacks(dbQueue, Listing(c)) => Lacks(dbQueue', Listing(c))
        BY <2>3, <4>1 DEF TailFacts
      <4>3. TableThere(dbQueue', c, disk', torn'[c])
        BY <1>1, <1>3, <2>1, <4>2 DEF TableThere
      <4>4. MemberRight(dbQueue', c, c \in known'.controllers, disk'.listed, torn'[c])
        <5>1. MemberRight(dbQueue, c, c \in known.controllers, disk.listed, torn[c])
          BY <3>0, <3>2 DEF StoredRight
        <5>. QED  BY <1>1, <1>3, <2>1, <4>2, <5>1 DEF MemberRight
      <4>5. WriteFinds(dbQueue', c, disk'.tables, torn'[c])
        <5>1. Ordered(dbQueue, Writing(c), Touching(c, "none"))
          BY <3>0, <3>2 DEF StoredRight, WriteFinds
        <5>. QED  BY <2>1, <2>3, <4>1, <5>1 DEF WriteFinds, TailFacts
      <4>6. ASSUME c \in known'.controllers, Clean(torn'[c]), NEW k \in Keys
            PROVE  ValueRight(dbQueue', Touching(c, k), known'.values[c][k], disk'.values[c][k])
        <5>1. ValueRight(dbQueue, Touching(c, k), known.values[c][k], disk.values[c][k])
          BY <1>1, <3>0, <3>2, <4>6 DEF StoredRight
        <5>. QED  BY <1>1, <2>1, <4>2, <5>1 DEF ValueRight
      <4>. QED  BY <3>2, <4>3, <4>4, <4>5, <4>6 DEF StoredRight
    <3>. QED  BY <3>1, <3>2
  <2>6. ValueRight(dbQueue', OfType({"global"}), known'.global, disk'.global)
    BY <1>1, <1>3, <1>6, <2>1, <2>3, GlobalKeeps
  <2>. QED  BY <1>1, <1>2, <1>3, <2>4, <2>5, <2>6, HandledKeeps
<1>. QED  BY <1>1, <1>5, <1>6 DEF DbInv

\* A value of no controller is written.
LEMMA HandleGlobalKeeps ==
    ASSUME DbInv, HandleGlobal
    PROVE  DbInv'
<1>. DEFINE m == Head(dbQueue)
<1>1. /\ Handled(m) /\ m.type = "global" /\ torn' = torn
      /\ disk' = IF DbClosed THEN disk ELSE [disk EXCEPT !.global = m.value]
  BY DEF HandleGlobal, Next0, Done, After, Handled, DbClosed
<1>2. /\ m \in DbMessages /\ TailFacts(dbQueue, dbQueue', m)
      /\ ~sleep.hurried => ~sleep.mode
  BY <1>1, TakenFacts DEF Handled
<1>3. m.value \in Nat
  BY <1>1, <1>2 DEF DbMessages
<1>4. disk \in DbDisk /\ torn \in DbTorn /\ known' = known
  BY <1>1 DEF DbInv, DbTypes, Handled
<1>. HIDE DEF m
<1>5. /\ disk' \in DbDisk /\ disk'.tables = disk.tables /\ disk'.values = disk.values
      /\ disk'.listed = disk.listed /\ (~DbClosed => disk'.global = m.value)
  BY <1>1, <1>3, <1>4 DEF DbDisk
<1>6. ASSUME ~sleep.hurried, NEW d \in StoredIds PROVE StoredRight(dbQueue', disk', known', torn', d)
  <2>1. StoredRight(dbQueue, disk, known, torn, d)
    BY <1>6 DEF DbInv, DbRight
  <2>2. Elsewhere(dbQueue, dbQueue', d)
    BY <1>1, <1>2, OtherElsewhere
  <2>3. OtherSame(d)
    BY <1>1, <1>4, <1>5 DEF OtherSame
  <2>. QED  BY <2>1, <2>2, <2>3, OtherKeeps
<1>7. ASSUME ~sleep.hurried PROVE ValueRight(dbQueue', OfType({"global"}), known'.global, disk'.global)
  <2>1. ValueRight(dbQueue, OfType({"global"}), known.global, disk.global)
    BY <1>7 DEF DbInv, DbRight
  <2>2. m \in OfType({"global"})
    BY <1>1, <1>2 DEF OfType
  <2>3. disk'.global = m.value
    BY <1>2, <1>5, <1>7 DEF DbClosed
  <2>. QED  BY <1>1, <1>2, <1>4, <2>1, <2>2, <2>3 DEF ValueRight, TailFacts
<1>. QED  BY <1>1, <1>4, <1>5, <1>6, <1>7, HandledKeeps

\* The thread takes a change of the power: of two kinds the one that was under way.
LEMMA HandlePowerKeeps ==
    ASSUME DbInv, HandlePower
    PROVE  DbInv'
<1>. DEFINE m == Head(dbQueue)
            deep == m.type = "deep_sleep"
<1>1. /\ dbThread = "run" /\ dbQueue # <<>> /\ m.type \in {"on", "deep_sleep"}
      /\ dbQueue' = Tail(dbQueue) /\ sleep' = [sleep EXCEPT !.mode = deep]
      /\ dbThread' = IF deep THEN "asleep" ELSE "run"
      /\ UNCHANGED <<disk, known, writes, torn>>
  BY DEF HandlePower, Next0, Done, After
<1>2. dbQueue \in Seq(DbMessages) /\ m \in DbMessages /\ Tail(dbQueue) \in Seq(DbMessages)
  BY <1>1 DEF DbInv, DbTypes
<1>3. TailFacts(dbQueue, dbQueue', m)
  BY <1>1, <1>2, TailSays
<1>4. deep \in BOOLEAN /\ (deep <=> m.type = "deep_sleep")
  OBVIOUS
<1>5. Head(dbQueue) = m
  OBVIOUS
<1>. HIDE DEF m, deep
<1>6. /\ sleep' \in DbSleep /\ sleep'.mode = deep /\ sleep'.signal = sleep.signal
      /\ sleep'.power = sleep.power /\ sleep'.hurried = sleep.hurried
  BY <1>1, <1>4 DEF DbInv, DbTypes, DbSleep
<1>7. dbThread' \in {"run", "asleep"} /\ (deep => dbThread' = "asleep") /\ (~deep => dbThread' = "run")
  BY <1>1, <1>4
<1>8. DbTypes'
  BY <1>1, <1>2, <1>6, <1>7 DEF DbInv, DbTypes
<1>9. ASSUME ~sleep.hurried
      PROVE  Sleeping(dbQueue', sleep', dbThread') /\ Dropping(dbQueue', sleep', dbThread', disk'.listed, torn')
  <2>1. Sleeping(dbQueue, sleep, dbThread)
    BY <1>9 DEF DbInv, DbRight
  <2>2. m \in Power /\ (m.type = "on" => m \in OfType({"on"}))
    BY <1>1, <1>2 DEF Power, OfType
  <2>3. OneOf(dbQueue', Power) /\ Lacks(dbQueue', Power) /\ ~Lacks(dbQueue, Power)
    BY <1>3, <2>1, <2>2 DEF Sleeping, TailFacts
  <2>4. Lacks(dbQueue', OfType({"on"}))
    BY <2>3 DEF Lacks, Power, OfType
  <2>5. CASE sleep.mode
    <3>1. sleep.signal = 0 /\ sleep.power = "on" /\ m.type = "on" /\ CloseInSleep
      BY <1>1, <1>5, <2>1, <2>3, <2>5 DEF Sleeping
    <3>2. ~deep
      BY <1>4, <3>1
    <3>. QED  BY <1>6, <1>7, <2>3, <2>4, <3>1, <3>2 DEF Sleeping, Dropping
  <2>6. CASE ~sleep.mode
    <3>1. sleep.signal = 0 /\ sleep.power = "deep_sleep" /\ m.type # "on" /\ CloseInSleep
      BY <1>1, <1>3, <2>1, <2>2, <2>3, <2>6 DEF Sleeping, TailFacts
    <3>2. deep
      BY <1>1, <1>4, <3>1
    <3>. QED  BY <1>6, <1>7, <2>3, <2>4, <3>1, <3>2 DEF Sleeping, Dropping
  <2>. QED  BY <2>5, <2>6
<1>10. ASSUME ~sleep.hurried, NEW d \in StoredIds PROVE StoredRight(dbQueue', disk', known', torn', d)
  <2>1. StoredRight(dbQueue, disk, known, torn, d)
    BY <1>10 DEF DbInv, DbRight
  <2>2. Elsewhere(dbQueue, dbQueue', d)
    BY <1>1, <1>2, <1>3, OtherElsewhere
  <2>3. OtherSame(d)
    BY <1>1 DEF OtherSame
  <2>. QED  BY <2>1, <2>2, <2>3, OtherKeeps
<1>11. ASSUME ~sleep.hurried PROVE ValueRight(dbQueue', OfType({"global"}), known'.global, disk'.global)
  BY <1>1, <1>2, <1>3, <1>11, GlobalKeeps
<1>. QED  BY <1>6, <1>8, <1>9, <1>10, <1>11 DEF DbInv, DbRight

\* The thread wakes up: the message that opens the file again is the first.
LEMMA WakeKeeps ==
    ASSUME DbInv, Wake
    PROVE  DbInv'
<1>. DEFINE less == sleep.signal - 1
<1>1. /\ dbThread = "asleep" /\ sleep.signal > 0 /\ sleep' = [sleep EXCEPT !.signal = less]
      /\ dbThread' = "run" /\ UNCHANGED <<disk, known, dbQueue, writes, torn>>
  BY DEF Wake
<1>2. less \in Nat /\ (sleep.signal = 1 => less = 0)
  BY <1>1 DEF DbInv, DbTypes, DbSleep
<1>. HIDE DEF less
<1>3. /\ sleep' \in DbSleep /\ sleep'.mode = sleep.mode /\ sleep'.signal = less
      /\ sleep'.power = sleep.power /\ sleep'.hurried = sleep.hurried
  BY <1>1, <1>2 DEF DbInv, DbTypes, DbSleep
<1>4. DbTypes'
  BY <1>1, <1>3 DEF DbInv, DbTypes
<1>5. ASSUME ~sleep.hurried
      PROVE  Sleeping(dbQueue', sleep', dbThread') /\ Dropping(dbQueue', sleep', dbThread', disk'.listed, torn')
  <2>1. Sleeping(dbQueue, sleep, dbThread)
    BY <1>5 DEF DbInv, DbRight
  <2>2. sleep.mode /\ sleep.signal = 1
    BY <1>1, <2>1 DEF Sleeping
  <2>3. Sleeping(dbQueue', sleep', dbThread')
    BY <1>1, <1>2, <1>3, <2>1, <2>2 DEF Sleeping
  <2>. QED  BY <1>1, <2>3 DEF Dropping
<1>. QED  BY <1>1, <1>3, <1>4, <1>5 DEF DbInv, DbRight, StoredRight

-----------------------------------------------------------------------------
(* The program's end and start.                                            *)

\* With nothing queued the program knows what the file holds.
LEMMA EmptyRight ==
    ASSUME NEW q, q = <<>>
    PROVE  /\ \A S : LastIn(q, S) = {} /\ Lacks(q, S) /\ OneOf(q, S)
           /\ \A W, S : Ordered(q, W, S) /\ ~Early(q, W, S)
<1>1. Len(q) = 0 /\ 1..Len(q) = {}
  OBVIOUS
<1>2. ASSUME NEW S PROVE LastIn(q, S) = {} /\ Lacks(q, S) /\ OneOf(q, S)
  BY <1>1 DEF LastIn, Lacks, OneOf
<1>3. ASSUME NEW W, NEW S PROVE Ordered(q, W, S) /\ ~Early(q, W, S)
  BY <1>1 DEF Ordered, Early
<1>. QED  BY <1>2, <1>3

\* What is queued is lost, and the program knows what the file has.
LEMMA DbRestartKeeps ==
    ASSUME DbInv, DbRestart
    PROVE  DbInv'
<1>. DEFINE more == writes.restarts + 1
            got == [c \in StoredIds |-> IF c \in disk.listed THEN ReadTable(c) ELSE NoValues]
            lost == [c \in StoredIds |->
                        (torn[c] \ {"deleted"}) \cup (IF disk.values[c] # NoValues /\ c \notin disk.listed
                                                      THEN {"inherited"} ELSE {})
                        \cup (IF c \in disk.tables /\ c \notin disk.listed THEN {"unlisted"} ELSE {})]
<1>1. /\ writes' = [writes EXCEPT !.restarts = more]
      /\ known' = [controllers |-> disk.listed, values |-> got, global |-> disk.global]
      /\ dbQueue' = <<>> /\ dbThread' = "run"
      /\ sleep' = [mode |-> FALSE, signal |-> 0, power |-> "on", hurried |-> sleep.hurried]
      /\ torn' = lost /\ disk' = disk
  BY DEF DbRestart
<1>2. disk \in DbDisk /\ torn \in DbTorn /\ sleep \in DbSleep /\ writes \in [count : Nat, restarts : Nat]
  BY DEF DbInv, DbTypes
<1>3. got \in DbValues /\ \A c \in disk.listed, k \in Keys : got[c][k] = disk.values[c][k]
  <2>1. NoValues \in [Keys -> Nat]
    BY DEF NoValues
  <2>2. \A c \in StoredIds : ReadTable(c) \in [Keys -> Nat] /\ \A k \in Keys : ReadTable(c)[k] = disk.values[c][k]
    BY <1>2 DEF ReadTable, ReadValue, DbDisk, DbValues
  <2>3. disk.listed \subseteq StoredIds
    BY <1>2 DEF DbDisk
  <2>. QED  BY <2>1, <2>2, <2>3 DEF DbValues
<1>4. lost \in DbTorn /\ \A c \in StoredIds : "relisted" \in torn[c] => "relisted" \in lost[c]
  BY <1>2 DEF DbTorn
<1>5. more \in Nat
  BY <1>2
<1>. HIDE DEF more, got, lost
<1>6. /\ known' \in DbKnown /\ known'.controllers = disk.listed /\ known'.values = got
      /\ known'.global = disk.global
  BY <1>1, <1>2, <1>3 DEF DbKnown, DbDisk
<1>7. sleep' \in DbSleep /\ ~sleep'.mode /\ sleep'.signal = 0 /\ sleep'.power = "on" /\ sleep'.hurried = sleep.hurried
  BY <1>1, <1>2 DEF DbSleep
<1>8. DbTypes'
  <2>1. dbQueue' \in Seq(DbMessages) /\ dbThread' = "run"
    BY <1>1
  <2>2. writes' \in [count : Nat, restarts : Nat]
    BY <1>1, <1>2, <1>5
  <2>. QED  BY <1>1, <1>2, <1>4, <1>6, <1>7, <2>1, <2>2 DEF DbTypes
<1>9. /\ \A S : LastIn(dbQueue', S) = {} /\ Lacks(dbQueue', S) /\ OneOf(dbQueue', S)
      /\ \A W, S : Ordered(dbQueue', W, S) /\ ~Early(dbQueue', W, S)
  BY <1>1, EmptyRight
<1>10. Sleeping(dbQueue', sleep', dbThread') /\ Dropping(dbQueue', sleep', dbThread', disk'.listed, torn')
  BY <1>1, <1>7, <1>9 DEF Sleeping, Dropping
<1>11. ASSUME ~sleep.hurried, NEW c \in StoredIds PROVE StoredRight(dbQueue', disk', known', torn', c)
  <2>1. StoredRight(dbQueue, disk, known, torn, c)
    BY <1>11 DEF DbInv, DbRight
  <2>2. TableThere(dbQueue', c, disk', torn'[c])
    BY <1>1, <1>4, <1>9, <2>1 DEF StoredRight, TableThere
  <2>3. MemberRight(dbQueue', c, c \in known'.controllers, disk'.listed, torn'[c])
    BY <1>1, <1>6, <1>9 DEF MemberRight
  <2>4. WriteFinds(dbQueue', c, disk'.tables, torn'[c])
    BY <1>9 DEF WriteFinds
  <2>5. ASSUME c \in known'.controllers, NEW k \in Keys
        PROVE  ValueRight(dbQueue', Touching(c, k), known'.values[c][k], disk'.values[c][k])
    <3>1. known'.values[c][k] = disk'.values[c][k]
      BY <1>1, <1>3, <1>6, <2>5
    <3>. QED  BY <1>9, <3>1 DEF ValueRight
  <2>. QED  BY <2>2, <2>3, <2>4, <2>5 DEF StoredRight
<1>12. ValueRight(dbQueue', OfType({"global"}), known'.global, disk'.global)
  BY <1>1, <1>6, <1>9 DEF ValueRight
<1>. QED  BY <1>7, <1>8, <1>10, <1>11, <1>12 DEF DbInv, DbRight

\* The thread ends when it has taken all.
LEMMA DbEndedKeeps ==
    ASSUME DbInv, DbEnded
    PROVE  DbInv'
<1>1. /\ dbThread = "run" /\ dbQueue = <<>> /\ dbThread' = "ended"
      /\ UNCHANGED <<disk, known, dbQueue, sleep, writes, torn>>
  BY DEF DbEnded
<1>2. DbTypes'
  BY <1>1 DEF DbInv, DbTypes
<1>3. ASSUME ~sleep.hurried
      PROVE  Sleeping(dbQueue', sleep', dbThread') /\ Dropping(dbQueue', sleep', dbThread', disk'.listed, torn')
  BY <1>1, <1>3 DEF DbInv, DbRight, Sleeping, Dropping
<1>. QED  BY <1>1, <1>2, <1>3 DEF DbInv, DbRight, StoredRight

\* A new file is right.
LEMMA DbInitRight ==
    ASSUME DbInit
    PROVE  DbInv
<1>1. /\ dbQueue = <<>> /\ dbThread = "run" /\ ~sleep.mode /\ sleep.signal = 0 /\ sleep.power = "on"
      /\ disk.listed = {} /\ known.controllers = {} /\ disk.global = 0 /\ known.global = 0
  BY DEF DbInit
<1>2. DbTypes
  <2>1. NoValues \in [Keys -> Nat]
    BY DEF NoValues
  <2>2. disk \in DbDisk /\ known \in DbKnown
    BY <2>1 DEF DbInit, DbDisk, DbKnown, DbValues
  <2>3. sleep \in DbSleep /\ torn \in DbTorn /\ writes \in [count : Nat, restarts : Nat]
    BY DEF DbInit, DbSleep, DbTorn
  <2>. QED  BY <1>1, <2>2, <2>3 DEF DbTypes
<1>3. /\ \A S : LastIn(dbQueue, S) = {} /\ Lacks(dbQueue, S) /\ OneOf(dbQueue, S)
      /\ \A W, S : Ordered(dbQueue, W, S) /\ ~Early(dbQueue, W, S)
  BY <1>1, EmptyRight
<1>4. Sleeping(dbQueue, sleep, dbThread) /\ Dropping(dbQueue, sleep, dbThread, disk.listed, torn)
  BY <1>1, <1>3 DEF Sleeping, Dropping
<1>5. ASSUME NEW c \in StoredIds PROVE StoredRight(dbQueue, disk, known, torn, c)
  BY <1>1, <1>3 DEF StoredRight, TableThere, MemberRight, WriteFinds
<1>6. ValueRight(dbQueue, OfType({"global"}), known.global, disk.global)
  BY <1>1, <1>3 DEF ValueRight
<1>. QED  BY <1>2, <1>4, <1>5, <1>6 DEF DbInv, DbRight

\* The invariant says what the run checks.
LEMMA DbRightIsSound ==
    ASSUME DbInv
    PROVE  DbSound
<1>. SUFFICES ASSUME ~sleep.hurried PROVE ListedHasTable /\ SettledIsKnown /\ SleepsInDeepSleep
  BY DEF DbSound
<1>1. disk \in DbDisk /\ known \in DbKnown /\ torn \in DbTorn
  BY DEF DbInv, DbTypes
<1>2. DbRight(dbQueue, disk, known, sleep, dbThread, torn)
  BY DEF DbInv
<1>3. ListedHasTable
  BY <1>1, <1>2 DEF ListedHasTable, DbRight, StoredRight, TableThere, DbDisk
<1>4. ASSUME Settled
      PROVE  /\ disk.global = known.global
             /\ known.controllers \subseteq disk.listed
             /\ \A c \in disk.listed \ known.controllers : "relisted" \in torn[c]
             /\ \A c \in known.controllers, k \in Keys :
                    \/ disk.values[c][k] = known.values[c][k]
                    \/ torn[c] \cap {"deleted", "inherited", "relisted"} # {}
  <2>1. /\ \A S : LastIn(dbQueue, S) = {} /\ Lacks(dbQueue, S)
    BY <1>4, EmptyRight DEF Settled
  <2>2. disk.global = known.global
    BY <1>2, <2>1 DEF DbRight, ValueRight
  <2>3. ASSUME NEW c \in StoredIds
        PROVE  /\ c \in known.controllers => c \in disk.listed
               /\ c \in disk.listed \ known.controllers => "relisted" \in torn[c]
    <3>1. MemberRight(dbQueue, c, c \in known.controllers, disk.listed, torn[c])
      BY <1>2 DEF DbRight, StoredRight
    <3>. QED  BY <2>1, <3>1 DEF MemberRight
  <2>4. ASSUME NEW c \in known.controllers, NEW k \in Keys, Clean(torn[c])
        PROVE  disk.values[c][k] = known.values[c][k]
    <3>1. c \in StoredIds
      BY <1>1 DEF DbKnown
    <3>2. ValueRight(dbQueue, Touching(c, k), known.values[c][k], disk.values[c][k])
      BY <1>2, <2>4, <3>1 DEF DbRight, StoredRight
    <3>. QED  BY <2>1, <3>2 DEF ValueRight
  <2>. QED  BY <1>1, <2>2, <2>3, <2>4 DEF DbDisk, DbKnown, Clean
<1>5. SleepsInDeepSleep
  <2>1. Sleeping(dbQueue, sleep, dbThread)
    BY <1>2 DEF DbRight
  <2>. QED  BY <2>1 DEF Sleeping, SleepsInDeepSleep, DbClosed
<1>. QED  BY <1>3, <1>4, <1>5 DEF SettledIsKnown

\* Every step keeps the invariant.
LEMMA DbStep ==
    ASSUME DbAssumption, DbInv, [DbNext]_dbVars
    PROVE  DbInv'
<1>1. CASE Program
  <2>1. ASSUME NEW c \in StoredIds,
               \/ Rf4ceCreate(c) \/ IpCreate(c) \/ BleCreate(c)
               \/ Rf4ceDestroy(c) \/ IpDestroy(c) \/ BleDestroy(c)
               \/ WriteBinding(c) \/ WriteStatistics(c) \/ WritePolling(c) \/ WriteSecurity(c)
               \/ WriteMetrics(c) \/ WriteIp(c) \/ WriteBle(c) \/ WriteAttr(c)
               \/ WriteSessionState(c) \/ DestroySessionState(c)
        PROVE  DbInv'
    <3>1. CASE ControllerCreate(c)
      BY <3>1, CreateKeeps
    <3>2. CASE ControllerDestroy(c)
      BY <3>2, DestroyKeeps
    <3>3. "entry" \in Keys /\ "session" \in Keys
      BY DEF Keys
    <3>4. CASE WriteValue(c, "entry")
      BY <3>3, <3>4, ValueWriteKeeps DEF WriteValue
    <3>5. CASE WriteSessionState(c)
      BY <3>3, <3>5, ValueWriteKeeps DEF WriteValue, WriteSessionState
    <3>6. CASE WriteAttr(c)
      BY <3>3, <3>6, ValueWriteKeeps DEF WriteAttr
    <3>7. CASE DestroySessionState(c)
      BY <3>7, SessionKeeps
    <3>. QED  BY <2>1, <3>1, <3>2, <3>4, <3>5, <3>6, <3>7
              DEF Rf4ceCreate, IpCreate, BleCreate, Rf4ceDestroy, IpDestroy, BleDestroy, WriteBinding,
                  WriteStatistics, WritePolling, WriteSecurity, WriteMetrics, WriteIp, WriteBle
  <2>2. CASE WriteGlobals \/ WriteVoice \/ WriteVoiceQuery \/ WriteFile
    BY <2>2, GlobalWriteKeeps DEF WriteGlobals, WriteVoice, WriteVoiceQuery, WriteFile
  <2>3. CASE PowerChange("deep_sleep") \/ PowerChange("on")
    BY <2>3, PowerKeeps
  <2>. QED  BY <1>1, <2>1, <2>2, <2>3 DEF Program
<1>2. CASE Thread
  <2>1. CASE HandleCreate
    BY <2>1, HandleCreateKeeps
  <2>2. CASE HandleList
    BY <2>2, HandleListKeeps
  <2>3. CASE HandleDestroy
    BY <2>3, HandleDestroyKeeps
  <2>4. CASE DropTable
    BY <2>4, DropTableKeeps
  <2>5. CASE HandleWrite \/ HandleAttr
    BY <2>5, InsertKeeps DEF HandleWrite, HandleAttr
  <2>6. CASE HandleGlobal
    BY <2>6, HandleGlobalKeeps
  <2>7. CASE HandlePower
    BY <2>7, HandlePowerKeeps
  <2>8. CASE Wake
    BY <2>8, WakeKeeps
  <2>. QED  BY <1>2, <2>1, <2>2, <2>3, <2>4, <2>5, <2>6, <2>7, <2>8 DEF Thread
<1>3. CASE DbEnded
  BY <1>3, DbEndedKeeps
<1>4. CASE DbRestart
  BY <1>4, DbRestartKeeps
<1>5. CASE UNCHANGED dbVars
  BY <1>5 DEF dbVars, DbInv, DbTypes, DbRight, StoredRight
<1>. QED  BY <1>1, <1>2, <1>3, <1>4, <1>5 DEF DbNext

\* Whatever is written, deleted and dropped in whatever order, over deep sleeps and restarts:
\* a listed controller has its table, an empty queue means that the file holds what the
\* program knows, and the thread sleeps only in deep sleep; each but for what is marked on
\* the way (ctrlm_database.cpp).
THEOREM FileIsKnown ==
    ASSUME DbAssumption
    PROVE  DbSpec => []DbSound
<1>1. DbInit => DbInv
  BY DbInitRight
<1>2. DbInv /\ [DbNext]_dbVars => DbInv'
  BY DbStep
<1>3. DbInv => DbSound
  BY DbRightIsSound
<1>. QED  BY <1>1, <1>2, <1>3, PTL DEF DbSpec

-----------------------------------------------------------------------------
(***************************************************************************)
(* A remote that is to be upgraded is upgraded, or is tried again a bounded *)
(* number of times, for any remotes, images and number of tries.           *)
(***************************************************************************)

\* The remotes have numbers, an image is for remotes that there can be.
UpgradeAssumption ==
    /\ Rcus \subseteq Int /\ Products \subseteq SUBSET Rcus
    /\ MaxRetries \in Nat /\ Pausable \in BOOLEAN

\* The state's types.
OneRcu == [here : BOOLEAN, new : BOOLEAN, attempted : BOOLEAN, active : BOOLEAN, paused : BOOLEAN,
           stuck : BOOLEAN, fails : Nat, tries : Nat]
OneTimer == [alive : Nat, tag : {"none", "alive", "firing"}, firing : BOOLEAN]
PassKinds == {"continue", "all"}
RemoteKinds == {"upgrading", "progress", "complete", "upgraded", "revision", "error", "unpaired",
                "paired", "key"}
PassPosts == [kind : PassKinds, r : {NoRemote}]
RemotePosts == [kind : RemoteKinds, r : Rcus]

UpgradeTypes ==
    /\ rcus \in [Rcus -> OneRcu]
    /\ fleet \in [images : SUBSET Rcus, busy : BOOLEAN]
    /\ daemon \in [Rcus -> {"idle", "asked", "running", "sent", "ended", "gone"}]
    /\ goOn \in OneTimer /\ pause \in OneTimer
    /\ posts \in Seq(PassPosts \cup RemotePosts)

\* Each try but the first follows a failure that was counted, as long as the remote is not new.
TriesCounted(x) ==
    /\ x.fails <= MaxRetries /\ x.tries <= MaxRetries + 1
    /\ ~x.new => x.tries <= x.fails + 1 /\ (~x.attempted => x.tries <= x.fails)

\* A timer's tag is that of a timer; a message of some kinds is posted.
TagNamed(t) == t.tag = "alive" => t.alive > 0
PostedIn(q, kinds) == \E i \in 1..Len(q) : q[i].kind \in kinds

\* Nothing is upgraded, or paused, before there is an image.
NothingBefore ==
    fleet.images = {} =>
        /\ \A r \in Rcus : daemon[r] \notin {"asked", "running"} /\ ~rcus[r].active /\ ~rcus[r].paused
        /\ ~PostedIn(posts, {"progress"})

\* The next pass comes; the pause ends.
GoesOn == goOn.alive > 0 \/ pause.alive > 0 \/ PostedIn(posts, PassKinds)
Resumes == pause.alive > 0 \/ PostedIn(posts, {"all"})

\* The inductive invariant.
UpgradeInv ==
    /\ UpgradeTypes
    /\ \A r \in Rcus : TriesCounted(rcus[r])
    /\ TagNamed(goOn) /\ TagNamed(pause)
    /\ NothingBefore
    /\ \A r \in Rcus : rcus[r].paused => Resumes
    /\ \A r \in Rcus \ news : UpgradeRequired(rcus, r) => GoesOn

-----------------------------------------------------------------------------
(* Timers and messages.                                                    *)

\* A timer that is named is alive.
LEMMA TimerIsNamed ==
    ASSUME NEW t \in OneTimer, TagNamed(t)
    PROVE  /\ WithoutTimer(t) \in OneTimer /\ TagNamed(WithoutTimer(t))
           /\ Restarted(t) \in OneTimer /\ TagNamed(Restarted(t)) /\ Restarted(t).alive > 0
           /\ \A tracked \in BOOLEAN : Ends(t, tracked) =>
                  Ending(t, tracked) \in OneTimer /\ TagNamed(Ending(t, tracked))
<1>1. WithoutTimer(t) \in OneTimer /\ TagNamed(WithoutTimer(t)) /\ WithoutTimer(t).alive \in Nat
  <2>1. CASE t.tag = "alive"
    <3>1. WithoutTimer(t) = [t EXCEPT !.alive = t.alive - 1, !.tag = "none"] /\ t.alive - 1 \in Nat
      BY <2>1 DEF WithoutTimer, TagNamed, OneTimer
    <3>. QED  BY <3>1 DEF OneTimer, TagNamed
  <2>2. CASE t.tag # "alive"
    BY <2>2 DEF WithoutTimer, OneTimer, TagNamed
  <2>. QED  BY <2>1, <2>2
<1>2. Restarted(t) \in OneTimer /\ TagNamed(Restarted(t)) /\ Restarted(t).alive > 0
  <2>. DEFINE u == WithoutTimer(t)
  <2>1. Restarted(t) = [u EXCEPT !.alive = u.alive + 1, !.tag = "alive"]
    BY DEF Restarted, Created
  <2>2. u \in OneTimer
    BY <1>1
  <2>. HIDE DEF u
  <2>3. PICK n \in Nat : n = u.alive + 1 /\ n > 0
    BY <2>2 DEF OneTimer
  <2>4. Restarted(t) = [u EXCEPT !.alive = n, !.tag = "alive"]
    BY <2>1, <2>3
  <2>5. Restarted(t) \in OneTimer /\ Restarted(t).alive = n
    BY <2>2, <2>4 DEF OneTimer
  <2>. QED  BY <2>3, <2>5 DEF TagNamed
<1>3. ASSUME NEW tracked \in BOOLEAN, Ends(t, tracked)
      PROVE  Ending(t, tracked) \in OneTimer /\ TagNamed(Ending(t, tracked))
  <2>1. t.alive - 1 \in Nat /\ (~tracked /\ t.tag = "alive" => t.alive - 1 > 0)
    BY <1>3 DEF Ends, OneTimer
  <2>2. CASE tracked
    <3>1. Ending(t, tracked) = [t EXCEPT !.alive = t.alive - 1, !.firing = TRUE, !.tag = "firing"]
      BY <2>2 DEF Ending
    <3>2. Ending(t, tracked) \in OneTimer /\ Ending(t, tracked).tag = "firing"
      BY <2>1, <3>1 DEF OneTimer
    <3>. QED  BY <3>2 DEF TagNamed
  <2>3. CASE ~tracked
    <3>1. Ending(t, tracked) = [t EXCEPT !.alive = t.alive - 1, !.firing = TRUE]
      BY <2>3 DEF Ending, OneTimer
    <3>. QED  BY <2>1, <2>3, <3>1 DEF OneTimer, TagNamed
  <2>. QED  BY <2>2, <2>3
<1>. QED  BY <1>1, <1>2, <1>3

\* A message that is taken leaves the others.
LEMMA TakenLeaves ==
    ASSUME NEW M, NEW q \in Seq(M), q # <<>>
    PROVE  /\ Head(q) \in M /\ Tail(q) \in Seq(M)
           /\ \A kinds : PostedIn(Tail(q), kinds) => PostedIn(q, kinds)
           /\ \A kinds : Head(q).kind \notin kinds => (PostedIn(q, kinds) => PostedIn(Tail(q), kinds))
<1>1. /\ Len(q) \in Nat /\ Len(q) > 0 /\ Len(Tail(q)) = Len(q) - 1 /\ Head(q) = q[1]
      /\ Head(q) \in M /\ Tail(q) \in Seq(M)
      /\ \A i \in 1..Len(Tail(q)) : Tail(q)[i] = q[i + 1]
  OBVIOUS
<1>2. ASSUME NEW kinds, PostedIn(Tail(q), kinds) PROVE PostedIn(q, kinds)
  <2>1. PICK i \in 1..Len(Tail(q)) : Tail(q)[i].kind \in kinds
    BY <1>2 DEF PostedIn
  <2>2. i + 1 \in 1..Len(q) /\ q[i + 1].kind \in kinds
    BY <1>1, <2>1
  <2>. QED  BY <2>2 DEF PostedIn
<1>3. ASSUME NEW kinds, Head(q).kind \notin kinds, PostedIn(q, kinds) PROVE PostedIn(Tail(q), kinds)
  <2>1. PICK i \in 1..Len(q) : q[i].kind \in kinds
    BY <1>3 DEF PostedIn
  <2>2. i # 1
    BY <1>1, <1>3, <2>1
  <2>3. i - 1 \in 1..Len(Tail(q)) /\ Tail(q)[i - 1] = q[(i - 1) + 1] /\ (i - 1) + 1 = i
    BY <1>1, <2>1, <2>2
  <2>. QED  BY <2>1, <2>3 DEF PostedIn
<1>. QED  BY <1>1, <1>2, <1>3

\* Messages that come are behind those that are there.
LEMMA PostedStay ==
    ASSUME NEW M, NEW q \in Seq(M), NEW new \in Seq(M)
    PROVE  /\ q \o new \in Seq(M)
           /\ \A kinds : PostedIn(q \o new, kinds) <=> PostedIn(q, kinds) \/ PostedIn(new, kinds)
<1>1. /\ q \o new \in Seq(M) /\ Len(q \o new) = Len(q) + Len(new) /\ Len(q) \in Nat /\ Len(new) \in Nat
      /\ \A i \in 1..Len(q) : (q \o new)[i] = q[i]
      /\ \A i \in 1..(Len(q) + Len(new)) : i > Len(q) => (q \o new)[i] = new[i - Len(q)]
  OBVIOUS
<1>2. ASSUME NEW kinds, PostedIn(q, kinds) PROVE PostedIn(q \o new, kinds)
  <2>1. PICK i \in 1..Len(q) : q[i].kind \in kinds
    BY <1>2 DEF PostedIn
  <2>2. i \in 1..Len(q \o new) /\ (q \o new)[i] = q[i]
    BY <1>1
  <2>. QED  BY <2>1, <2>2 DEF PostedIn
<1>3. ASSUME NEW kinds, PostedIn(new, kinds) PROVE PostedIn(q \o new, kinds)
  <2>1. PICK i \in 1..Len(new) : new[i].kind \in kinds
    BY <1>3 DEF PostedIn
  <2>2. /\ Len(q) + i \in 1..(Len(q) + Len(new)) /\ Len(q) + i > Len(q) /\ Len(q) + i - Len(q) = i
    BY <1>1
  <2>3. Len(q) + i \in 1..Len(q \o new) /\ (q \o new)[Len(q) + i] = new[i]
    BY <1>1, <2>2
  <2>. QED  BY <2>1, <2>3 DEF PostedIn
<1>4. ASSUME NEW kinds, PostedIn(q \o new, kinds) PROVE PostedIn(q, kinds) \/ PostedIn(new, kinds)
  <2>1. PICK i \in 1..Len(q \o new) : (q \o new)[i].kind \in kinds
    BY <1>4 DEF PostedIn
  <2>2. CASE i \in 1..Len(q)
    BY <1>1, <2>1, <2>2 DEF PostedIn
  <2>3. CASE i \notin 1..Len(q)
    <3>1. i > Len(q) /\ i \in 1..(Len(q) + Len(new)) /\ i - Len(q) \in 1..Len(new)
      BY <1>1, <2>3
    <3>2. (q \o new)[i] = new[i - Len(q)]
      BY <1>1, <3>1
    <3>. QED  BY <2>1, <3>1, <3>2 DEF PostedIn
  <2>. QED  BY <2>2, <2>3
<1>. QED  BY <1>1, <1>2, <1>3, <1>4

\* What the invariant's messages are in the words of the model.
LEMMA PostedIsIn ==
    ASSUME UpgradeTypes, NEW kinds
    PROVE  Posted(kinds) <=> PostedIn(posts, kinds)
<1>1. DOMAIN posts = 1..Len(posts)
  BY DEF UpgradeTypes
<1>. QED  BY <1>1 DEF Posted, PostedIn

-----------------------------------------------------------------------------
(* The steps.                                                              *)

\* What is left to show of a step that leaves the remotes as they are to the program.
QuietStep ==
    /\ UNCHANGED <<rcus, news>>
    /\ fleet' \in [images : SUBSET Rcus, busy : BOOLEAN]
    /\ daemon' \in [Rcus -> {"idle", "asked", "running", "sent", "ended", "gone"}]
    /\ goOn' \in OneTimer /\ pause' \in OneTimer /\ TagNamed(goOn') /\ TagNamed(pause')
    /\ posts' \in Seq(PassPosts \cup RemotePosts)
    /\ (fleet.images = {} /\ fleet'.images = {}) =>
           /\ \A r \in Rcus : daemon'[r] \in {"asked", "running"} => daemon[r] \in {"asked", "running"}
           /\ PostedIn(posts', {"progress"}) => PostedIn(posts, {"progress"})
    /\ fleet.images # {} => fleet'.images # {}
    /\ Resumes => Resumes'
    /\ GoesOn \/ fleet'.images # fleet.images => GoesOn'

\* Such a step keeps the invariant.
LEMMA QuietKeeps ==
    ASSUME UpgradeInv, QuietStep
    PROVE  UpgradeInv'
<1>1. UpgradeTypes'
  BY DEF UpgradeInv, UpgradeTypes, QuietStep
<1>2. NothingBefore'
  BY DEF UpgradeInv, NothingBefore, QuietStep
<1>3. ASSUME NEW r \in Rcus \ news, UpgradeRequired(rcus, r)'
      PROVE  GoesOn'
  <2>1. CASE fleet'.images = fleet.images
    <3>1. UpgradeRequired(rcus, r)
      BY <1>3, <2>1 DEF UpgradeRequired, QuietStep
    <3>. QED  BY <3>1 DEF UpgradeInv, QuietStep
  <2>2. CASE fleet'.images # fleet.images
    BY <2>2 DEF QuietStep
  <2>. QED  BY <2>1, <2>2
<1>4. \A r \in Rcus \ news : UpgradeRequired(rcus, r)' => GoesOn'
  BY <1>3
<1>. QED  BY <1>1, <1>2, <1>4 DEF UpgradeInv, QuietStep

\* The timers run out: each posts its message, and is then forgotten.
LEMMA TimersKeep ==
    ASSUME UpgradeInv, UpgradeTimer \/ ResumeTimer \/ TimerForgotten
    PROVE  UpgradeInv'
<1>1. /\ goOn \in OneTimer /\ pause \in OneTimer /\ TagNamed(goOn) /\ TagNamed(pause)
      /\ posts \in Seq(PassPosts \cup RemotePosts)
      /\ fleet \in [images : SUBSET Rcus, busy : BOOLEAN]
      /\ daemon \in [Rcus -> {"idle", "asked", "running", "sent", "ended", "gone"}]
  BY DEF UpgradeInv, UpgradeTypes
<1>2. ASSUME NEW kind \in PassKinds, PostUpgrade(<<Told(kind, NoRemote)>>)
      PROVE  /\ posts' \in Seq(PassPosts \cup RemotePosts)
             /\ PostedIn(posts', {kind}) /\ PostedIn(posts', PassKinds)
             /\ PostedIn(posts', {"progress"}) => PostedIn(posts, {"progress"})
             /\ PostedIn(posts, {"all"}) => PostedIn(posts', {"all"})
  <2>. DEFINE new == <<Told(kind, NoRemote)>>
  <2>1. /\ new \in Seq(PassPosts \cup RemotePosts) /\ Len(new) = 1 /\ new[1].kind = kind
        /\ kind # "progress"
    BY DEF Told, PassPosts, PassKinds
  <2>2. posts' = posts \o new
    BY <1>2 DEF PostUpgrade
  <2>. HIDE DEF new
  <2>3. PostedIn(new, {kind}) /\ PostedIn(new, PassKinds) /\ ~PostedIn(new, {"progress"})
    BY <2>1 DEF PostedIn
  <2>. QED  BY <1>1, <2>1, <2>2, <2>3, PostedStay
<1>3. CASE UpgradeTimer
  <2>1. PICK tracked \in BOOLEAN : Ends(goOn, tracked) /\ goOn' = Ending(goOn, tracked)
    BY <1>3 DEF UpgradeTimer
  <2>2. PostUpgrade(<<Told("continue", NoRemote)>>) /\ UNCHANGED <<rcus, fleet, daemon, pause, news>>
    BY <1>3 DEF UpgradeTimer
  <2>3. goOn' \in OneTimer /\ TagNamed(goOn')
    BY <1>1, <2>1, TimerIsNamed
  <2>4. "continue" \in PassKinds
    BY DEF PassKinds
  <2>5. QuietStep
    BY <1>1, <1>2, <2>2, <2>3, <2>4 DEF QuietStep, Resumes, GoesOn
  <2>. QED  BY <2>5, QuietKeeps
<1>4. CASE ResumeTimer
  <2>1. PICK tracked \in BOOLEAN : Ends(pause, tracked) /\ pause' = Ending(pause, tracked)
    BY <1>4 DEF ResumeTimer
  <2>2. PostUpgrade(<<Told("all", NoRemote)>>) /\ UNCHANGED <<rcus, fleet, daemon, goOn, news>>
    BY <1>4 DEF ResumeTimer
  <2>3. pause' \in OneTimer /\ TagNamed(pause')
    BY <1>1, <2>1, TimerIsNamed
  <2>4. "all" \in PassKinds
    BY DEF PassKinds
  <2>5. QuietStep
    BY <1>1, <1>2, <2>2, <2>3, <2>4 DEF QuietStep, Resumes, GoesOn
  <2>. QED  BY <2>5, QuietKeeps
<1>5. CASE TimerForgotten
  <2>1. UNCHANGED <<rcus, fleet, daemon, posts, news>>
    BY <1>5 DEF TimerForgotten
  <2>2. ASSUME NEW t \in OneTimer, TagNamed(t)
        PROVE  /\ [t EXCEPT !.firing = FALSE, !.tag = "none"] \in OneTimer
               /\ [t EXCEPT !.firing = FALSE, !.tag = "none"].alive = t.alive
               /\ TagNamed([t EXCEPT !.firing = FALSE, !.tag = "none"])
    BY <2>2 DEF OneTimer, TagNamed
  <2>3. /\ goOn' = goOn \/ goOn' = [goOn EXCEPT !.firing = FALSE, !.tag = "none"]
        /\ pause' = pause \/ pause' = [pause EXCEPT !.firing = FALSE, !.tag = "none"]
    BY <1>5 DEF TimerForgotten
  <2>4. goOn' \in OneTimer /\ TagNamed(goOn') /\ goOn'.alive = goOn.alive
        /\ pause' \in OneTimer /\ TagNamed(pause') /\ pause'.alive = pause.alive
    BY <1>1, <2>2, <2>3
  <2>5. QuietStep
    BY <1>1, <2>1, <2>4 DEF QuietStep, Resumes, GoesOn
  <2>. QED  BY <2>5, QuietKeeps
<1>. QED  BY <1>3, <1>4, <1>5

\* An archive comes, and a pass over all is asked for.
LEMMA ImageKeeps ==
    ASSUME UpgradeAssumption, UpgradeInv,
           NEW image \in Products \cup {{}}, NetworkManagedUpgrade(image)
    PROVE  UpgradeInv'
<1>1. /\ goOn \in OneTimer /\ pause \in OneTimer /\ TagNamed(goOn) /\ TagNamed(pause)
      /\ posts \in Seq(PassPosts \cup RemotePosts)
      /\ fleet \in [images : SUBSET Rcus, busy : BOOLEAN]
      /\ daemon \in [Rcus -> {"idle", "asked", "running", "sent", "ended", "gone"}]
  BY DEF UpgradeInv, UpgradeTypes
<1>2. UNCHANGED <<rcus, daemon, goOn, pause, news>> /\ posts' = posts \o <<Told("all", NoRemote)>>
      /\ fleet' = [fleet EXCEPT !.images = @ \cup image]
  BY DEF NetworkManagedUpgrade, AddImage, PostUpgrade
<1>3. image \in SUBSET Rcus
  BY DEF UpgradeAssumption
<1>4. /\ fleet' \in [images : SUBSET Rcus, busy : BOOLEAN]
      /\ fleet.images # {} => fleet'.images # {}
  BY <1>1, <1>2, <1>3
<1>. DEFINE new == <<Told("all", NoRemote)>>
<1>5. new \in Seq(PassPosts \cup RemotePosts) /\ Len(new) = 1 /\ new[1].kind = "all"
  BY DEF Told, PassPosts, PassKinds
<1>6. posts' = posts \o new
  BY <1>2
<1>. HIDE DEF new
<1>7. PostedIn(new, {"all"}) /\ PostedIn(new, PassKinds) /\ ~PostedIn(new, {"progress"})
  BY <1>5 DEF PostedIn, PassKinds
<1>8. /\ posts' \in Seq(PassPosts \cup RemotePosts)
      /\ PostedIn(posts', {"all"}) /\ PostedIn(posts', PassKinds)
      /\ PostedIn(posts', {"progress"}) => PostedIn(posts, {"progress"})
  BY <1>1, <1>5, <1>6, <1>7, PostedStay
<1>9. QuietStep
  BY <1>1, <1>2, <1>4, <1>8 DEF QuietStep, Resumes, GoesOn
<1>. QED  BY <1>9, QuietKeeps

\* The daemon tells of a remote.
LEMMA UpgradeDaemonKeeps ==
    ASSUME UpgradeAssumption, UpgradeInv, NEW r \in Rcus,
           \/ DaemonStarts(r) \/ DaemonRefuses(r) \/ DaemonCompletes(r) \/ DaemonFails(r)
           \/ DaemonUnpairs(r) \/ DaemonPairs(r) \/ KeyDown(r)
    PROVE  UpgradeInv'
<1>1. /\ goOn \in OneTimer /\ pause \in OneTimer /\ TagNamed(goOn) /\ TagNamed(pause)
      /\ posts \in Seq(PassPosts \cup RemotePosts)
      /\ fleet \in [images : SUBSET Rcus, busy : BOOLEAN]
      /\ daemon \in [Rcus -> {"idle", "asked", "running", "sent", "ended", "gone"}]
  BY DEF UpgradeInv, UpgradeTypes
<1>2. UNCHANGED <<rcus, fleet, goOn, pause, news>>
  BY DEF DaemonStarts, DaemonRefuses, DaemonCompletes, DaemonFails, DaemonUnpairs, DaemonPairs,
         KeyDown, DaemonDoes
\* What the messages are: of no pass, and of progress only when an upgrade was asked for.
<1>3. ASSUME NEW kinds \in Seq(RemoteKinds), PostUpgrade([i \in DOMAIN kinds |-> Told(kinds[i], r)])
      PROVE  /\ posts' \in Seq(PassPosts \cup RemotePosts)
             /\ \A S : PostedIn(posts, S) => PostedIn(posts', S)
             /\ (\A i \in DOMAIN kinds : kinds[i] # "progress") =>
                    (PostedIn(posts', {"progress"}) => PostedIn(posts, {"progress"}))
  <2>. DEFINE new == [i \in DOMAIN kinds |-> Told(kinds[i], r)]
  <2>1. /\ Len(kinds) \in Nat /\ DOMAIN kinds = 1..Len(kinds)
        /\ \A i \in 1..Len(kinds) : kinds[i] \in RemoteKinds
    OBVIOUS
  <2>2. \A k \in RemoteKinds : Told(k, r) \in PassPosts \cup RemotePosts /\ Told(k, r).kind = k
    BY DEF Told, RemotePosts
  <2>3. new = [i \in 1..Len(kinds) |-> Told(kinds[i], r)]
    BY <2>1
  <2>. HIDE DEF new
  <2>4. new \in [1..Len(kinds) -> PassPosts \cup RemotePosts]
    BY <2>1, <2>2, <2>3
  <2>5. new \in Seq(PassPosts \cup RemotePosts)
    BY <2>1, <2>4
  <2>6. Len(new) = Len(kinds) /\ \A i \in 1..Len(kinds) : new[i].kind = kinds[i]
    BY <2>1, <2>2, <2>3, <2>5
  <2>7. posts' = posts \o new
    BY <1>3 DEF PostUpgrade, new
  <2>8. (\A i \in DOMAIN kinds : kinds[i] # "progress") => ~PostedIn(new, {"progress"})
    BY <2>1, <2>6 DEF PostedIn
  <2>. QED  BY <1>1, <2>5, <2>7, <2>8, PostedStay
<1>4. ASSUME NEW kinds \in Seq(RemoteKinds), PostUpgrade([i \in DOMAIN kinds |-> Told(kinds[i], r)]),
             NEW to \in {"idle", "asked", "running", "sent", "ended", "gone"},
             daemon' = [daemon EXCEPT ![r] = to],
             daemon[r] \notin {"asked", "running"} =>
                 to \notin {"asked", "running"} /\ \A i \in DOMAIN kinds : kinds[i] # "progress"
      PROVE  UpgradeInv'
  <2>1. daemon' \in [Rcus -> {"idle", "asked", "running", "sent", "ended", "gone"}]
    BY <1>1, <1>4
  <2>2. \A q \in Rcus : daemon'[q] = IF q = r THEN to ELSE daemon[q]
    BY <1>1, <1>4
  <2>3. fleet.images = {} => daemon[r] \notin {"asked", "running"}
    BY DEF UpgradeInv, NothingBefore
  <2>4. QuietStep
    BY <1>1, <1>2, <1>3, <1>4, <2>1, <2>2, <2>3 DEF QuietStep, Resumes, GoesOn
  <2>. QED  BY <2>4, QuietKeeps
<1>5. ASSUME NEW from \in {"idle", "asked", "running", "sent", "ended", "gone"},
             NEW to \in {"idle", "asked", "running", "sent", "ended", "gone"},
             NEW kinds \in Seq(RemoteKinds), DaemonDoes(r, from, to, kinds),
             from \notin {"asked", "running"} =>
                 to \notin {"asked", "running"} /\ \A i \in DOMAIN kinds : kinds[i] # "progress"
      PROVE  UpgradeInv'
  BY <1>4, <1>5 DEF DaemonDoes
<1>6. CASE DaemonStarts(r)
  <2>. DEFINE kinds == <<"upgrading", "progress">>
  <2>1. kinds \in Seq(RemoteKinds)
    BY DEF RemoteKinds
  <2>2. DaemonDoes(r, "asked", "running", kinds)
    BY <1>6 DEF DaemonStarts
  <2>. HIDE DEF kinds
  <2>. QED  BY <1>5, <2>1, <2>2
<1>7. CASE DaemonRefuses(r)
  <2>. DEFINE kinds == <<"error">>
  <2>1. kinds \in Seq(RemoteKinds)
    BY DEF RemoteKinds
  <2>2. DaemonDoes(r, "asked", "idle", kinds)
    BY <1>7 DEF DaemonRefuses
  <2>. HIDE DEF kinds
  <2>. QED  BY <1>5, <2>1, <2>2
<1>8. CASE DaemonCompletes(r)
  <2>. DEFINE sent == <<"complete">>
              taken == <<"upgraded", "revision">>
              kept == <<"upgraded">>
  <2>1. /\ sent \in Seq(RemoteKinds) /\ taken \in Seq(RemoteKinds) /\ kept \in Seq(RemoteKinds)
        /\ \A i \in DOMAIN taken : taken[i] # "progress"
        /\ \A i \in DOMAIN kept : kept[i] # "progress"
    BY DEF RemoteKinds
  <2>2. \/ DaemonDoes(r, "running", "sent", sent) \/ DaemonDoes(r, "sent", "idle", taken)
        \/ DaemonDoes(r, "sent", "idle", kept)
    BY <1>8 DEF DaemonCompletes
  <2>. HIDE DEF sent, taken, kept
  <2>. QED  BY <1>5, <2>1, <2>2
<1>9. CASE DaemonFails(r)
  <2>. DEFINE kinds == <<"error", "upgraded">>
  <2>1. kinds \in Seq(RemoteKinds) /\ \A i \in DOMAIN kinds : kinds[i] # "progress"
    BY DEF RemoteKinds
  <2>2. DaemonDoes(r, "running", "idle", kinds) \/ DaemonDoes(r, "ended", "idle", kinds)
    BY <1>9 DEF DaemonFails
  <2>. HIDE DEF kinds
  <2>. QED  BY <1>5, <2>1, <2>2
<1>10. CASE DaemonPairs(r)
  <2>. DEFINE kinds == <<"paired">>
  <2>1. kinds \in Seq(RemoteKinds) /\ \A i \in DOMAIN kinds : kinds[i] # "progress"
    BY DEF RemoteKinds
  <2>2. DaemonDoes(r, "gone", "idle", kinds)
    BY <1>10 DEF DaemonPairs
  <2>. HIDE DEF kinds
  <2>. QED  BY <1>5, <2>1, <2>2
<1>11. ASSUME NEW kind \in RemoteKinds
       PROVE  /\ <<kind>> \in Seq(RemoteKinds)
              /\ [i \in DOMAIN <<kind>> |-> Told(<<kind>>[i], r)] = <<Told(kind, r)>>
              /\ \A i \in DOMAIN <<kind>> : <<kind>>[i] = kind
  OBVIOUS
<1>12. CASE DaemonUnpairs(r)
  <2>1. daemon' = [daemon EXCEPT ![r] = "gone"] /\ PostUpgrade(<<Told("unpaired", r)>>)
    BY <1>12 DEF DaemonUnpairs
  <2>2. "unpaired" \in RemoteKinds
    BY DEF RemoteKinds
  <2>. DEFINE kinds == <<"unpaired">>
  <2>3. /\ kinds \in Seq(RemoteKinds) /\ PostUpgrade([i \in DOMAIN kinds |-> Told(kinds[i], r)])
        /\ \A i \in DOMAIN kinds : kinds[i] # "progress"
    BY <1>11, <2>1, <2>2
  <2>. HIDE DEF kinds
  <2>. QED  BY <1>4, <2>1, <2>3
<1>13. CASE KeyDown(r)
  <2>1. daemon' = [daemon EXCEPT ![r] = daemon[r]] /\ PostUpgrade(<<Told("key", r)>>)
        /\ daemon[r] \in {"idle", "asked", "running", "sent", "ended", "gone"}
    BY <1>1, <1>13 DEF KeyDown
  <2>2. "key" \in RemoteKinds
    BY DEF RemoteKinds
  <2>. DEFINE kinds == <<"key">>
  <2>3. /\ kinds \in Seq(RemoteKinds) /\ PostUpgrade([i \in DOMAIN kinds |-> Told(kinds[i], r)])
        /\ \A i \in DOMAIN kinds : kinds[i] # "progress"
    BY <1>11, <2>1, <2>2
  <2>. HIDE DEF kinds
  <2>. QED  BY <1>4, <2>1, <2>3
<1>. QED  BY <1>6, <1>7, <1>8, <1>9, <1>10, <1>12, <1>13

\* What is left to show of a step that handles a message about a remote, which becomes x.
RemoteStep(r, x) ==
    /\ posts # <<>> /\ Head(posts).kind \in RemoteKinds /\ posts' = Tail(posts)
    /\ rcus' = [rcus EXCEPT ![r] = x]
    /\ fleet' \in [images : SUBSET Rcus, busy : BOOLEAN] /\ fleet'.images = fleet.images
    /\ daemon' \in [Rcus -> {"idle", "asked", "running", "sent", "ended", "gone"}]
    /\ \A q \in Rcus : daemon'[q] \in {"asked", "running"} => daemon[q] \in {"asked", "running"}
    /\ goOn' \in OneTimer /\ pause' \in OneTimer /\ TagNamed(goOn') /\ TagNamed(pause')
    /\ goOn.alive > 0 => goOn'.alive > 0
    /\ pause.alive > 0 => pause'.alive > 0
    /\ news \subseteq news'
    /\ TriesCounted(x)
    /\ x.active => rcus[r].active \/ PostedIn(posts, {"progress"})
    /\ x.paused => rcus[r].paused \/ (rcus[r].active /\ pause'.alive > 0)
    /\ x.here /\ ~x.new /\ ~x.attempted =>
           \/ rcus[r].here /\ ~rcus[r].new /\ ~rcus[r].attempted
           \/ goOn'.alive > 0 \/ r \in news'

\* Such a step keeps the invariant.
LEMMA RemoteKeeps ==
    ASSUME UpgradeInv, NEW r \in Rcus, NEW x \in OneRcu, RemoteStep(r, x)
    PROVE  UpgradeInv'
<1>1. /\ rcus' \in [Rcus -> OneRcu] /\ rcus'[r] = x
      /\ \A q \in Rcus : q # r => rcus'[q] = rcus[q]
  BY DEF UpgradeInv, UpgradeTypes, RemoteStep
<1>2. posts \in Seq(PassPosts \cup RemotePosts)
  BY DEF UpgradeInv, UpgradeTypes
<1>3. /\ posts' \in Seq(PassPosts \cup RemotePosts)
      /\ PostedIn(posts', {"progress"}) => PostedIn(posts, {"progress"})
      /\ PostedIn(posts, {"all"}) => PostedIn(posts', {"all"})
      /\ PostedIn(posts, PassKinds) => PostedIn(posts', PassKinds)
  <2>1. Head(posts).kind \notin {"all"} /\ Head(posts).kind \notin PassKinds
    BY DEF RemoteStep, RemoteKinds, PassKinds
  <2>. QED  BY <1>2, <2>1, TakenLeaves DEF RemoteStep
<1>4. UpgradeTypes'
  BY <1>1, <1>3 DEF UpgradeTypes, RemoteStep
<1>5. \A q \in Rcus : TriesCounted(rcus'[q])
  BY <1>1 DEF UpgradeInv, RemoteStep
<1>6. NothingBefore'
  BY <1>1, <1>3 DEF UpgradeInv, NothingBefore, RemoteStep
<1>7. (Resumes => Resumes') /\ (GoesOn => GoesOn')
  BY <1>3 DEF Resumes, GoesOn, RemoteStep
<1>8. ASSUME NEW q \in Rcus, rcus'[q].paused PROVE Resumes'
  BY <1>1, <1>7, <1>8 DEF UpgradeInv, RemoteStep, Resumes
<1>9. ASSUME NEW q \in Rcus, q \notin news', UpgradeRequired(rcus, q)' PROVE GoesOn'
  <2>1. q \in fleet.images /\ q \in Rcus \ news
    BY <1>9 DEF UpgradeRequired, RemoteStep
  <2>2. CASE UpgradeRequired(rcus, q)
    BY <1>7, <2>1, <2>2 DEF UpgradeInv
  <2>3. CASE ~UpgradeRequired(rcus, q)
    <3>1. q = r
      BY <1>1, <1>9, <2>1, <2>3 DEF UpgradeRequired
    <3>2. goOn'.alive > 0
      BY <1>1, <1>9, <2>1, <2>3, <3>1 DEF UpgradeRequired, RemoteStep
    <3>. QED  BY <3>2 DEF GoesOn
  <2>. QED  BY <2>2, <2>3
<1>10. \A q \in Rcus \ news' : UpgradeRequired(rcus, q)' => GoesOn'
  BY <1>9
<1>. QED  BY <1>4, <1>5, <1>6, <1>8, <1>10 DEF UpgradeInv, RemoteStep

\* The program handles a message about a remote.
LEMMA MessagesKeep ==
    ASSUME UpgradeAssumption, UpgradeInv,
           \/ Upgrading \/ UpgradeProgress \/ UpgradeError \/ Revision
           \/ UpgradeUnpaired \/ UpgradePaired \/ Keypress
    PROVE  UpgradeInv'
<1>1. /\ goOn \in OneTimer /\ pause \in OneTimer /\ TagNamed(goOn) /\ TagNamed(pause)
      /\ posts \in Seq(PassPosts \cup RemotePosts) /\ rcus \in [Rcus -> OneRcu]
      /\ fleet \in [images : SUBSET Rcus, busy : BOOLEAN]
      /\ daemon \in [Rcus -> {"idle", "asked", "running", "sent", "ended", "gone"}]
  BY DEF UpgradeInv, UpgradeTypes
<1>2. posts # <<>> /\ Head(posts).kind \in RemoteKinds /\ posts' = Tail(posts)
  BY DEF Upgrading, UpgradeProgress, UpgradeError, Revision, UpgradeUnpaired, UpgradePaired, Keypress,
         Takes, RemoteKinds
<1>3. PICK r \in Rcus : r = Told1
  <2>1. Head(posts) \in PassPosts \cup RemotePosts
    BY <1>1, <1>2
  <2>. QED  BY <1>2, <2>1 DEF PassPosts, PassKinds, RemotePosts, RemoteKinds, Told1
<1>4. TriesCounted(rcus[r]) /\ rcus[r] \in OneRcu /\ rcus = [rcus EXCEPT ![r] = rcus[r]]
  BY <1>1 DEF UpgradeInv
\* A step that changes the remote alone.
<1>5. ASSUME NEW x \in OneRcu, rcus' = [rcus EXCEPT ![r] = x], UNCHANGED <<fleet, daemon, goOn, pause>>,
             news \subseteq news', TriesCounted(x),
             x.active => rcus[r].active \/ PostedIn(posts, {"progress"}),
             x.paused => rcus[r].paused,
             x.here /\ ~x.new /\ ~x.attempted =>
                 (rcus[r].here /\ ~rcus[r].new /\ ~rcus[r].attempted) \/ r \in news'
      PROVE  UpgradeInv'
  <2>1. RemoteStep(r, x)
    BY <1>1, <1>2, <1>5 DEF RemoteStep
  <2>. QED  BY <2>1, RemoteKeeps
<1>6. CASE Upgrading
  <2>1. PICK x \in OneRcu : /\ rcus' = [rcus EXCEPT ![r] = x]
                            /\ x = rcus[r] \/ x = [rcus[r] EXCEPT !.active = FALSE]
    <3>1. rcus' = rcus \/ rcus' = [rcus EXCEPT ![r].active = FALSE]
      BY <1>3, <1>6 DEF Upgrading
    <3>2. [rcus[r] EXCEPT !.active = FALSE] \in OneRcu
      BY <1>4 DEF OneRcu
    <3>. QED  BY <1>4, <3>1, <3>2
  <2>2. /\ (x.active => rcus[r].active) /\ x.paused = rcus[r].paused /\ x.here = rcus[r].here
        /\ x.new = rcus[r].new /\ x.attempted = rcus[r].attempted /\ TriesCounted(x)
    BY <1>4, <2>1 DEF OneRcu, TriesCounted
  <2>3. /\ fleet' \in [images : SUBSET Rcus, busy : BOOLEAN] /\ fleet'.images = fleet.images
        /\ UNCHANGED <<daemon, goOn, pause, news>>
    BY <1>1, <1>6 DEF Upgrading, Takes
  <2>4. RemoteStep(r, x)
    BY <1>1, <1>2, <2>1, <2>2, <2>3 DEF RemoteStep
  <2>. QED  BY <2>4, RemoteKeeps
<1>7. CASE UpgradeProgress
  <2>1. PICK on \in BOOLEAN : on = Takes("progress")
    BY DEF Takes
  <2>2. PICK x \in OneRcu : /\ rcus' = [rcus EXCEPT ![r] = x]
                            /\ x = rcus[r] \/ x = [rcus[r] EXCEPT !.active = on]
    <3>1. rcus' = rcus \/ rcus' = [rcus EXCEPT ![r].active = on]
      BY <1>3, <1>7, <2>1 DEF UpgradeProgress
    <3>2. [rcus[r] EXCEPT !.active = on] \in OneRcu
      BY <1>4 DEF OneRcu
    <3>. QED  BY <1>4, <3>1, <3>2
  <2>3. on => PostedIn(posts, {"progress"})
    <3>1. Head(posts) = posts[1] /\ Len(posts) \in Nat /\ Len(posts) > 0
      BY <1>1, <1>2
    <3>2. 1 \in 1..Len(posts)
      BY <3>1
    <3>3. on => posts[1].kind \in {"progress"}
      BY <2>1, <3>1 DEF Takes
    <3>. QED  BY <3>2, <3>3 DEF PostedIn
  <2>4. /\ (x.active => rcus[r].active \/ on) /\ x.paused = rcus[r].paused /\ x.here = rcus[r].here
        /\ x.new = rcus[r].new /\ x.attempted = rcus[r].attempted /\ TriesCounted(x)
    BY <1>4, <2>2 DEF OneRcu, TriesCounted
  <2>. QED  BY <1>5, <1>7, <2>2, <2>3, <2>4 DEF UpgradeProgress
<1>8. CASE UpgradeError
  <2>1. CASE ~rcus[r].here
    <3>1. rcus' = rcus /\ UNCHANGED <<fleet, daemon, goOn, pause, news>>
      BY <1>3, <1>8, <2>1 DEF UpgradeError
    <3>2. rcus' = [rcus EXCEPT ![r] = rcus[r]] /\ rcus[r] \in OneRcu /\ TriesCounted(rcus[r])
      BY <1>4, <3>1
    <3>. QED  BY <1>5, <3>1, <3>2
  <2>2. CASE rcus[r].here
    <3>. DEFINE retry == rcus[r].fails < MaxRetries
    <3>. DEFINE fails == IF retry THEN rcus[r].fails + 1 ELSE rcus[r].fails
                attempted == rcus[r].attempted /\ ~retry
                stuck == rcus[r].stuck \/ (~retry /\ ~Pausable)
    <3>1. fails \in Nat /\ attempted \in BOOLEAN /\ stuck \in BOOLEAN
      BY <1>4 DEF OneRcu
    <3>2. rcus' = [rcus EXCEPT ![r].fails = fails, ![r].attempted = attempted, ![r].stuck = stuck]
      BY <1>1, <1>3, <1>8, <2>2 DEF UpgradeError
    <3>14. rcus[r].attempted \in BOOLEAN
      BY <1>4 DEF OneRcu
    <3>13. (retry => fails = rcus[r].fails + 1 /\ ~attempted)
           /\ (~retry => fails = rcus[r].fails /\ attempted = rcus[r].attempted)
      <4>1. CASE retry
        BY <4>1, Zenon
      <4>2. CASE ~retry
        <5>1. attempted <=> rcus[r].attempted
          BY <4>2, Zenon
        <5>2. \A a, b \in BOOLEAN : (a <=> b) => a = b
          BY Zenon
        <5>3. attempted = rcus[r].attempted
          <6>. HIDE DEF attempted
          <6>. QED  BY <3>1, <3>14, <5>1, <5>2, Zenon
        <5>. QED  BY <4>2, <5>3, Zenon
      <4>. QED  BY <4>1, <4>2, Zenon
    <3>. HIDE DEF fails, attempted, stuck
    <3>3. PICK x \in OneRcu : x = [rcus[r] EXCEPT !.fails = fails, !.attempted = attempted,
                                                  !.stuck = stuck]
      BY <1>4, <3>1 DEF OneRcu
    <3>4. rcus' = [rcus EXCEPT ![r] = x]
      BY <1>1, <3>2, <3>3
    <3>5. /\ x.active = rcus[r].active /\ x.paused = rcus[r].paused /\ x.here = rcus[r].here
          /\ x.new = rcus[r].new /\ x.attempted = attempted /\ x.fails = fails
          /\ x.tries = rcus[r].tries
      BY <1>4, <3>1, <3>3 DEF OneRcu
    <3>6. goOn' = IF retry THEN Restarted(goOn) ELSE goOn
      BY <1>3, <1>8, <2>2 DEF UpgradeError
    <3>7. goOn' \in OneTimer /\ TagNamed(goOn') /\ (goOn.alive > 0 \/ retry => goOn'.alive > 0)
      BY <1>1, <3>6, TimerIsNamed
    <3>8. UNCHANGED <<fleet, daemon, pause, news>>
      BY <1>8 DEF UpgradeError
    <3>9. retry => ~attempted
      BY <3>13
    <3>10. TriesCounted(x)
      <4>1. rcus[r].fails \in Nat /\ rcus[r].tries \in Nat /\ MaxRetries \in Nat
        BY <1>4 DEF OneRcu, UpgradeAssumption
      <4>2. CASE retry
        BY <1>4, <3>13, <3>5, <4>1, <4>2 DEF TriesCounted
      <4>3. CASE ~retry
        BY <1>4, <3>13, <3>5, <4>1, <4>3 DEF TriesCounted
      <4>. QED  BY <4>2, <4>3
    <3>11. ~retry => attempted = rcus[r].attempted
      BY <3>13
    <3>. HIDE DEF retry
    <3>12. RemoteStep(r, x)
      BY <1>1, <1>2, <3>4, <3>5, <3>7, <3>8, <3>9, <3>10, <3>11 DEF RemoteStep
    <3>. QED  BY <3>12, RemoteKeeps
  <2>. QED  BY <2>1, <2>2
<1>9. CASE Revision
  <2>1. PICK x \in OneRcu : /\ rcus' = [rcus EXCEPT ![r] = x]
                            /\ x = rcus[r] \/ x = [rcus[r] EXCEPT !.new = TRUE, !.fails = 0, !.stuck = FALSE]
    <3>1. rcus' = rcus \/ rcus' = [rcus EXCEPT ![r].new = TRUE, ![r].fails = 0, ![r].stuck = FALSE]
      BY <1>3, <1>9 DEF Revision
    <3>2. [rcus[r] EXCEPT !.new = TRUE, !.fails = 0, !.stuck = FALSE] \in OneRcu
      BY <1>4 DEF OneRcu
    <3>3. [rcus EXCEPT ![r].new = TRUE, ![r].fails = 0, ![r].stuck = FALSE]
          = [rcus EXCEPT ![r] = [rcus[r] EXCEPT !.new = TRUE, !.fails = 0, !.stuck = FALSE]]
      BY <1>1
    <3>. QED  BY <1>4, <3>1, <3>2, <3>3
  <2>2. /\ (x.active => rcus[r].active) /\ x.paused = rcus[r].paused
        /\ (~x.new => x = rcus[r]) /\ TriesCounted(x)
    <3>1. CASE x = rcus[r]
      BY <1>4, <3>1 DEF OneRcu
    <3>2. CASE x = [rcus[r] EXCEPT !.new = TRUE, !.fails = 0, !.stuck = FALSE]
      <4>1. x.active = rcus[r].active /\ x.paused = rcus[r].paused /\ x.new /\ x.fails = 0
            /\ x.tries = rcus[r].tries
        BY <1>4, <3>2 DEF OneRcu
      <4>. QED  BY <1>4, <4>1 DEF TriesCounted, UpgradeAssumption
    <3>. QED  BY <2>1, <3>1, <3>2
  <2>. QED  BY <1>5, <1>9, <2>1, <2>2 DEF Revision
<1>10. CASE UpgradeUnpaired
  <2>1. PICK x \in OneRcu : x = [NewRcu EXCEPT !.here = FALSE]
    BY DEF NewRcu, OneRcu
  <2>2. ~x.here /\ ~x.active /\ ~x.paused /\ x.fails = 0 /\ x.tries = 0
    BY <2>1 DEF NewRcu
  <2>3. rcus' = [rcus EXCEPT ![r] = x] /\ UNCHANGED <<fleet, daemon, goOn, pause, news>>
    BY <1>3, <1>10, <2>1 DEF UpgradeUnpaired
  <2>4. TriesCounted(x)
    BY <2>2 DEF TriesCounted, UpgradeAssumption
  <2>. QED  BY <1>5, <2>2, <2>3, <2>4
<1>11. CASE UpgradePaired
  <2>1. PICK x \in OneRcu : rcus' = [rcus EXCEPT ![r] = x] /\ (x = rcus[r] \/ x = NewRcu)
    <3>1. NewRcu \in OneRcu
      BY DEF NewRcu, OneRcu
    <3>2. rcus' = rcus \/ rcus' = [rcus EXCEPT ![r] = NewRcu]
      BY <1>3, <1>11 DEF UpgradePaired
    <3>. QED  BY <1>4, <3>1, <3>2
  <2>2. (x.active => rcus[r].active) /\ (x.paused => rcus[r].paused) /\ TriesCounted(x)
    BY <1>4, <2>1 DEF TriesCounted, NewRcu, UpgradeAssumption
  <2>3. UNCHANGED <<fleet, daemon, goOn, pause>> /\ r \in news' /\ news \subseteq news'
    BY <1>3, <1>11 DEF UpgradePaired
  <2>. QED  BY <1>5, <2>1, <2>2, <2>3
<1>12. CASE Keypress
  <2>1. CASE ~rcus[r].here
    BY <1>3, <1>4, <1>5, <1>12, <2>1 DEF Keypress
  <2>2. CASE rcus[r].here
    <3>1. PICK cancels \in BOOLEAN, paused \in BOOLEAN :
              /\ cancels = (rcus[r].active /\ Pausable)
              /\ paused = (rcus[r].paused \/ cancels)
      BY <1>4 DEF OneRcu
    <3>2. /\ rcus' = [rcus EXCEPT ![r].paused = paused]
          /\ IF cancels THEN FwUpgradeCancel(r) ELSE UNCHANGED daemon
          /\ pause' = IF paused \/ (rcus[r].stuck /\ ~fleet.busy) THEN Restarted(pause) ELSE pause
          /\ UNCHANGED <<fleet, goOn, news>>
      BY <1>3, <1>12, <2>2, <3>1 DEF Keypress
    <3>3. PICK x \in OneRcu : x = [rcus[r] EXCEPT !.paused = paused]
      BY <1>4 DEF OneRcu
    <3>4. rcus' = [rcus EXCEPT ![r] = x]
      BY <1>1, <3>2, <3>3
    <3>5. /\ x.active = rcus[r].active /\ x.paused = paused /\ x.here = rcus[r].here
          /\ x.new = rcus[r].new /\ x.attempted = rcus[r].attempted /\ TriesCounted(x)
      BY <1>4, <3>3 DEF OneRcu, TriesCounted
    <3>6. /\ pause' \in OneTimer /\ TagNamed(pause') /\ (paused => pause'.alive > 0)
          /\ pause.alive > 0 => pause'.alive > 0
      BY <1>1, <3>2, TimerIsNamed
    <3>7. /\ daemon' \in [Rcus -> {"idle", "asked", "running", "sent", "ended", "gone"}]
          /\ \A q \in Rcus : daemon'[q] \in {"asked", "running"} => daemon[q] \in {"asked", "running"}
      BY <1>1, <3>2 DEF FwUpgradeCancel
    <3>8. paused => rcus[r].paused \/ rcus[r].active
      BY <3>1
    <3>9. RemoteStep(r, x)
      BY <1>1, <1>2, <3>2, <3>4, <3>5, <3>6, <3>7, <3>8 DEF RemoteStep
    <3>. QED  BY <3>9, RemoteKeeps
  <2>. QED  BY <2>1, <2>2
<1>. QED  BY <1>6, <1>7, <1>8, <1>9, <1>10, <1>11, <1>12

\* A pass is asked for: it starts the upgrade of one remote and sets the timer, or finds none.
LEMMA PassesKeep ==
    ASSUME UpgradeAssumption, UpgradeInv, UpgradeControllers
    PROVE  UpgradeInv'
<1>1. /\ goOn \in OneTimer /\ pause \in OneTimer /\ TagNamed(goOn) /\ TagNamed(pause)
      /\ posts \in Seq(PassPosts \cup RemotePosts) /\ rcus \in [Rcus -> OneRcu]
      /\ fleet \in [images : SUBSET Rcus, busy : BOOLEAN]
      /\ daemon \in [Rcus -> {"idle", "asked", "running", "sent", "ended", "gone"}]
      /\ \A r \in Rcus : TriesCounted(rcus[r])
  BY DEF UpgradeInv, UpgradeTypes
<1>2. posts # <<>> /\ posts' = Tail(posts) /\ UNCHANGED fleet
  BY DEF UpgradeControllers, Takes
<1>3. /\ posts' \in Seq(PassPosts \cup RemotePosts)
      /\ PostedIn(posts', {"progress"}) => PostedIn(posts, {"progress"})
      /\ ~Takes("all") => (PostedIn(posts, {"all"}) => PostedIn(posts', {"all"}))
  BY <1>1, <1>2, TakenLeaves DEF Takes
<1>4. CASE fleet.images = {}
  <2>1. UNCHANGED <<rcus, daemon, goOn, pause, news>>
    BY <1>4 DEF UpgradeControllers
  <2>2. NothingBefore'
    BY <1>2, <1>3, <2>1 DEF UpgradeInv, NothingBefore
  <2>3. \A r \in Rcus : ~rcus'[r].paused /\ ~UpgradeRequired(rcus, r)'
    BY <1>2, <1>4, <2>1 DEF UpgradeInv, NothingBefore, UpgradeRequired
  <2>4. UpgradeTypes'
    BY <1>1, <1>2, <1>3, <2>1 DEF UpgradeTypes
  <2>. QED  BY <1>1, <2>1, <2>2, <2>3, <2>4 DEF UpgradeInv
\* What a pass over remotes with the records rs does, with its timer.
<1>5. ASSUME fleet.images # {}, NEW rs \in [Rcus -> OneRcu], \A r \in Rcus : TriesCounted(rs[r]),
             NEW timer \in OneTimer, TagNamed(timer), UpgradePass(rs, timer)
      PROVE  /\ rcus' \in [Rcus -> OneRcu] /\ \A r \in Rcus : TriesCounted(rcus'[r])
             /\ \A r \in Rcus : rcus'[r].paused => rs[r].paused
             /\ goOn' \in OneTimer /\ TagNamed(goOn')
             /\ daemon' \in [Rcus -> {"idle", "asked", "running", "sent", "ended", "gone"}]
             /\ goOn'.alive > 0 \/ \A r \in Rcus : ~UpgradeRequired(rcus, r)'
  <2>1. /\ WithoutTimer(timer) \in OneTimer /\ Restarted(timer) \in OneTimer
        /\ TagNamed(Restarted(timer)) /\ Restarted(timer).alive > 0
    BY <1>5, TimerIsNamed
  <2>2. \A r \in Rcus : /\ Checked(rs, r)[r] \in OneRcu /\ TriesCounted(Checked(rs, r)[r])
                        /\ Checked(rs, r)[r].paused = rs[r].paused /\ Checked(rs, r)[r].here = rs[r].here
                        /\ Checked(rs, r)[r].new = rs[r].new
                        /\ Checked(rs, r)[r].attempted = rs[r].attempted
    <3>1. ASSUME NEW r \in Rcus, rs[r].here, r \in fleet.images, rs[r].new
          PROVE  Checked(rs, r)[r] = [rs[r] EXCEPT !.fails = 0, !.stuck = FALSE]
      BY <1>5, <3>1 DEF Checked
    <3>2. ASSUME NEW x \in OneRcu, TriesCounted(x), x.new, NEW y, y = [x EXCEPT !.fails = 0, !.stuck = FALSE]
          PROVE  /\ y \in OneRcu /\ TriesCounted(y) /\ y.paused = x.paused /\ y.here = x.here
                 /\ y.new = x.new /\ y.attempted = x.attempted
      <4>1. /\ y \in OneRcu /\ y.paused = x.paused /\ y.here = x.here /\ y.new = x.new
            /\ y.attempted = x.attempted /\ y.fails = 0 /\ y.tries = x.tries
        BY <3>2 DEF OneRcu
      <4>2. TriesCounted(y)
        BY <3>2, <4>1 DEF TriesCounted, UpgradeAssumption
      <4>. QED  BY <4>1, <4>2
    <3>3. ASSUME NEW r \in Rcus, ~(rs[r].here /\ r \in fleet.images /\ rs[r].new)
          PROVE  Checked(rs, r)[r] = rs[r]
      BY <3>3 DEF Checked
    <3>4. \A r \in Rcus : rs[r] \in OneRcu /\ TriesCounted(rs[r])
      BY <1>5
    <3>5. ASSUME NEW r \in Rcus, rs[r].here, r \in fleet.images, rs[r].new
          PROVE  /\ Checked(rs, r)[r] \in OneRcu /\ TriesCounted(Checked(rs, r)[r])
                 /\ Checked(rs, r)[r].paused = rs[r].paused /\ Checked(rs, r)[r].here = rs[r].here
                 /\ Checked(rs, r)[r].new = rs[r].new
                 /\ Checked(rs, r)[r].attempted = rs[r].attempted
      BY <3>1, <3>2, <3>4, <3>5
    <3>6. ASSUME NEW r \in Rcus, ~(rs[r].here /\ r \in fleet.images /\ rs[r].new)
          PROVE  /\ Checked(rs, r)[r] \in OneRcu /\ TriesCounted(Checked(rs, r)[r])
                 /\ Checked(rs, r)[r].paused = rs[r].paused /\ Checked(rs, r)[r].here = rs[r].here
                 /\ Checked(rs, r)[r].new = rs[r].new
                 /\ Checked(rs, r)[r].attempted = rs[r].attempted
      BY <3>3, <3>4, <3>6
    <3>. QED  BY <3>5, <3>6
  <2>3. CASE PassBusy(rs, timer)
    BY <1>1, <1>5, <2>1, <2>3 DEF PassBusy
  <2>4. CASE PassEnds(rs, timer)
    <3>1. /\ rcus' = [r \in Rcus |-> Checked(rs, r)[r]] /\ goOn' = timer /\ UNCHANGED daemon
          /\ \A r \in Rcus : ~UpgradeRequired(rs, r)
      BY <2>4 DEF PassEnds
    <3>2. \A r \in Rcus : ~UpgradeRequired(rcus, r)'
      BY <1>2, <2>2, <3>1 DEF UpgradeRequired
    <3>3. rcus' \in [Rcus -> OneRcu]
      BY <2>2, <3>1
    <3>. QED  BY <1>1, <1>5, <2>2, <3>1, <3>2, <3>3
  <2>5. ASSUME NEW r \in Rcus, PassStarts(rs, timer, r)
        PROVE  /\ rcus' \in [Rcus -> OneRcu] /\ \A q \in Rcus : TriesCounted(rcus'[q])
               /\ \A q \in Rcus : rcus'[q].paused => rs[q].paused
               /\ goOn' \in OneTimer /\ TagNamed(goOn') /\ goOn'.alive > 0
               /\ daemon' \in [Rcus -> {"idle", "asked", "running", "sent", "ended", "gone"}]
    <3>1. PICK x \in OneRcu : x = rs[r]
      BY <1>5
    <3>2. x.here /\ ~x.new /\ ~x.attempted /\ TriesCounted(x)
      BY <1>5, <2>5, <3>1 DEF PassStarts, UpgradeRequired
    <3>12. PICK n \in Nat : n = x.tries + 1
      BY DEF OneRcu
    <3>13. [x EXCEPT !.attempted = TRUE, !.tries = @ + 1] = [x EXCEPT !.attempted = TRUE, !.tries = n]
      BY <3>12
    <3>3. PICK y \in OneRcu : y = [x EXCEPT !.attempted = TRUE, !.tries = n]
      BY DEF OneRcu
    <3>4. /\ y.paused = x.paused /\ y.attempted /\ y.new = x.new /\ y.fails = x.fails /\ y.tries = n
          /\ x.fails \in Nat /\ x.tries \in Nat
      BY <3>3 DEF OneRcu
    <3>5. TriesCounted(y)
      BY <3>2, <3>4, <3>12 DEF TriesCounted, UpgradeAssumption
    <3>6. rcus' = [q \in Rcus |-> IF q < r THEN Checked(rs, q)[q] ELSE IF q = r THEN y ELSE rs[q]]
      BY <2>5, <3>1, <3>3, <3>13 DEF PassStarts
    <3>7. \A q \in Rcus : rcus'[q] = Checked(rs, q)[q] \/ (q = r /\ rcus'[q] = y) \/ rcus'[q] = rs[q]
      BY <3>6
    <3>8. rcus' \in [Rcus -> OneRcu]
      BY <1>5, <2>2, <3>6
    <3>9. daemon' \in [Rcus -> {"idle", "asked", "running", "sent", "ended", "gone"}]
      BY <1>1, <2>5 DEF PassStarts, FwUpgrade
    <3>10. goOn' = Restarted(timer)
      BY <2>5 DEF PassStarts
    <3>11. \A q \in Rcus : TriesCounted(rcus'[q]) /\ (rcus'[q].paused => rs[q].paused)
      BY <1>5, <2>2, <3>1, <3>4, <3>5, <3>7
    <3>. QED  BY <2>1, <3>8, <3>9, <3>10, <3>11
  <2>. QED  BY <1>5, <2>3, <2>4, <2>5 DEF UpgradePass
<1>6. CASE fleet.images # {} /\ Takes("all")
  <2>1. UpgradePass(CleanState(rcus), WithoutTimer(goOn)) /\ pause' = WithoutTimer(pause)
    BY <1>6 DEF UpgradeControllers
  <2>2. /\ CleanState(rcus) \in [Rcus -> OneRcu]
        /\ \A r \in Rcus : TriesCounted(CleanState(rcus)[r]) /\ ~CleanState(rcus)[r].paused
    <3>1. ASSUME NEW r \in Rcus
          PROVE  /\ [rcus[r] EXCEPT !.attempted = FALSE, !.paused = FALSE, !.fails = 0,
                                    !.stuck = FALSE, !.tries = 0] \in OneRcu
                 /\ TriesCounted([rcus[r] EXCEPT !.attempted = FALSE, !.paused = FALSE, !.fails = 0,
                                                 !.stuck = FALSE, !.tries = 0])
                 /\ ~[rcus[r] EXCEPT !.attempted = FALSE, !.paused = FALSE, !.fails = 0,
                                     !.stuck = FALSE, !.tries = 0].paused
      <4>1. PICK x \in OneRcu : x = rcus[r]
        BY <1>1
      <4>2. PICK y \in OneRcu : y = [x EXCEPT !.attempted = FALSE, !.paused = FALSE, !.fails = 0,
                                              !.stuck = FALSE, !.tries = 0]
        BY DEF OneRcu
      <4>3. ~y.paused /\ y.fails = 0 /\ y.tries = 0
        BY <4>2 DEF OneRcu
      <4>4. TriesCounted(y)
        BY <4>3 DEF TriesCounted, UpgradeAssumption
      <4>. QED  BY <4>1, <4>2, <4>3, <4>4
    <3>. QED  BY <3>1 DEF CleanState
  <2>3. WithoutTimer(goOn) \in OneTimer /\ TagNamed(WithoutTimer(goOn))
        /\ pause' \in OneTimer /\ TagNamed(pause')
    BY <1>1, <2>1, TimerIsNamed
  <2>4. /\ rcus' \in [Rcus -> OneRcu] /\ \A r \in Rcus : TriesCounted(rcus'[r])
        /\ \A r \in Rcus : ~rcus'[r].paused
        /\ goOn' \in OneTimer /\ TagNamed(goOn')
        /\ daemon' \in [Rcus -> {"idle", "asked", "running", "sent", "ended", "gone"}]
        /\ goOn'.alive > 0 \/ \A r \in Rcus : ~UpgradeRequired(rcus, r)'
    BY <1>5, <1>6, <2>1, <2>2, <2>3
  <2>5. UpgradeTypes'
    BY <1>1, <1>2, <1>3, <2>3, <2>4 DEF UpgradeTypes
  <2>6. NothingBefore'
    BY <1>2, <1>6 DEF NothingBefore
  <2>7. \A r \in Rcus \ news' : UpgradeRequired(rcus, r)' => GoesOn'
    BY <2>4 DEF GoesOn
  <2>. QED  BY <2>3, <2>4, <2>5, <2>6, <2>7 DEF UpgradeInv
<1>7. CASE fleet.images # {} /\ ~Takes("all")
  <2>1. UpgradePass(rcus, goOn) /\ UNCHANGED <<pause, news>>
    BY <1>7 DEF UpgradeControllers
  <2>2. /\ rcus' \in [Rcus -> OneRcu] /\ \A r \in Rcus : TriesCounted(rcus'[r])
        /\ \A r \in Rcus : rcus'[r].paused => rcus[r].paused
        /\ goOn' \in OneTimer /\ TagNamed(goOn')
        /\ daemon' \in [Rcus -> {"idle", "asked", "running", "sent", "ended", "gone"}]
        /\ goOn'.alive > 0 \/ \A r \in Rcus : ~UpgradeRequired(rcus, r)'
    BY <1>1, <1>5, <1>7, <2>1
  <2>3. UpgradeTypes'
    BY <1>1, <1>2, <1>3, <2>1, <2>2 DEF UpgradeTypes
  <2>4. NothingBefore'
    BY <1>2, <1>7 DEF NothingBefore
  <2>5. \A r \in Rcus \ news' : UpgradeRequired(rcus, r)' => GoesOn'
    BY <2>2 DEF GoesOn
  <2>6. Resumes => Resumes'
    BY <1>3, <1>7, <2>1 DEF Resumes
  <2>7. \A r \in Rcus : rcus'[r].paused => Resumes'
    BY <2>2, <2>6 DEF UpgradeInv
  <2>. QED  BY <1>1, <2>1, <2>2, <2>3, <2>4, <2>5, <2>7 DEF UpgradeInv
<1>. QED  BY <1>4, <1>6, <1>7

\* UpgradeSound: a remote that needs the image is not forgotten, a paused upgrade goes on, a remote
\* is not tried more often than the retries allow, and a timer that is named is alive.
THEOREM UpgradesGoOn ==
    ASSUME UpgradeAssumption
    PROVE  UpgradeSpec => []UpgradeSound
<1>1. UpgradeInit => UpgradeInv
  <2>. SUFFICES ASSUME UpgradeInit PROVE UpgradeInv
    OBVIOUS
  <2>1. NewRcu \in OneRcu /\ TriesCounted(NewRcu) /\ ~NewRcu.active /\ ~NewRcu.paused
    BY DEF NewRcu, OneRcu, TriesCounted, UpgradeAssumption
  <2>2. rcus \in [Rcus -> OneRcu] /\ \A r \in Rcus : rcus[r] = NewRcu
    BY <2>1 DEF UpgradeInit
  <2>3. goOn \in OneTimer /\ pause \in OneTimer /\ TagNamed(goOn) /\ TagNamed(pause)
    BY DEF UpgradeInit, NoTimer, OneTimer, TagNamed
  <2>4. posts \in Seq(PassPosts \cup RemotePosts) /\ Len(posts) = 0
    BY DEF UpgradeInit
  <2>5. /\ fleet \in [images : SUBSET Rcus, busy : BOOLEAN] /\ fleet.images = {}
        /\ daemon \in [Rcus -> {"idle", "asked", "running", "sent", "ended", "gone"}]
        /\ \A r \in Rcus : daemon[r] = "idle"
    BY DEF UpgradeInit
  <2>6. UpgradeTypes
    BY <2>2, <2>3, <2>4, <2>5 DEF UpgradeTypes
  <2>7. NothingBefore
    BY <2>1, <2>2, <2>4, <2>5 DEF NothingBefore, PostedIn
  <2>8. \A r \in Rcus : ~UpgradeRequired(rcus, r)
    BY <2>5 DEF UpgradeRequired
  <2>. QED  BY <2>1, <2>2, <2>3, <2>6, <2>7, <2>8 DEF UpgradeInv
<1>2. UpgradeInv /\ [UpgradeNext]_upgradeVars => UpgradeInv'
  <2>1. UpgradeInv /\ UNCHANGED upgradeVars => UpgradeInv'
    BY DEF upgradeVars, UpgradeInv, UpgradeTypes, NothingBefore, GoesOn, Resumes, UpgradeRequired
  <2>. QED  BY <2>1, TimersKeep, ImageKeeps, UpgradeDaemonKeeps, MessagesKeep, PassesKeep
            DEF UpgradeNext, UpgradeMain
<1>3. UpgradeInv => UpgradeSound
  <2>. SUFFICES ASSUME UpgradeInv PROVE UpgradeSound
    OBVIOUS
  <2>1. \A kinds : Posted(kinds) <=> PostedIn(posts, kinds)
    BY PostedIsIn DEF UpgradeInv
  <2>2. NobodyForgotten
    BY <2>1 DEF UpgradeInv, GoesOn, PassKinds, NobodyForgotten
  <2>3. PausedResumes
    BY <2>1 DEF UpgradeInv, Resumes, PausedResumes
  <2>4. TriesBounded
    BY DEF UpgradeInv, TriesCounted, TriesBounded
  <2>5. TimersNamed
    BY DEF UpgradeInv, TagNamed, TimersNamed
  <2>. QED  BY <2>2, <2>3, <2>4, <2>5 DEF UpgradeSound
<1>. QED  BY <1>1, <1>2, <1>3, PTL DEF UpgradeSpec

-----------------------------------------------------------------------------
(***************************************************************************)
(* What the main thread knows of the devices agrees with the daemon when no *)
(* signal is left, and each is opened and closed in turn, for any remotes. *)
(***************************************************************************)

\* The state's types.
SignalNotes == [kind : {"added", "removed", "connected", "unpairs"}, r : BleRemotes]
LineNotes ==
    [kind : {"paired", "unpaired", "connected", "unpairs", "key", "voice_begin", "voice_end"}, r : BleRemotes]
    \cup [kind : {"waiting", "complete", "failed"}, r : {"any"}]
KeyThread == [pc : {"find", "read", "waits"}, copy : SUBSET BleRemotes, pressed : SUBSET BleRemotes]
Aparts == [lost : SUBSET BleRemotes, missed : SUBSET BleRemotes, deaf : SUBSET BleRemotes]

LinkTypes ==
    /\ devs \in SUBSET BleRemotes /\ linkKnown \in SUBSET BleRemotes /\ stream \in SUBSET BleRemotes
    /\ signals \in Seq(SignalNotes) /\ line \in Seq(LineNotes)
    /\ meta \in [BleRemotes -> {"none", "closed", "open"}] /\ open \in [BleRemotes -> Int]
    /\ keys \in KeyThread /\ apart \in Aparts

\* The last that a queue says of a remote.
LastOf(q, i, kinds) ==
    q[i].kind \in kinds /\ \A j \in 1..Len(q) : j > i /\ q[j].r = q[i].r => q[j].kind \notin kinds

\* A queue says nothing of some kinds of a remote.
Silent(q, kinds, r) == \A i \in 1..Len(q) : q[i].kind \in kinds => q[i].r # r
\* Kinds of what is said.
Adds == {"added", "removed"}
Pairs == {"paired", "unpaired"}
Voices == {"voice_begin", "voice_end"}

\* What the daemon signalled last is what its devices are, ...
SignalsRight(sig, dv) ==
    \A i \in 1..Len(sig) : LastOf(sig, i, Adds) => (sig[i].kind = "added" <=> sig[i].r \in dv)
\* ... and what the main thread is told last, if no signal is to come, ...
LineRight(sig, ln, dv, missed) ==
    \A i \in 1..Len(ln) : LastOf(ln, i, Pairs) /\ Silent(sig, Adds, ln[i].r) =>
        /\ ln[i].kind = "paired" => ln[i].r \in dv
        /\ ln[i].kind = "unpaired" => ln[i].r \notin dv \/ ln[i].r \in missed
\* ... and what it knows, if it is not going to be told.
KnownRight(sig, ln, dv, kn, ap) ==
    \A r \in BleRemotes : Silent(sig, Adds, r) /\ Silent(ln, Pairs, r) =>
        (r \in kn \ dv => r \in ap.lost) /\ (r \in dv \ kn => r \in ap.missed)

\* The key thread has told of one voice key, and waits.
OneVoice(ln, k) ==
    /\ \A i, j \in 1..Len(ln) : ln[i].kind \in Voices /\ ln[j].kind \in Voices => i = j
    /\ \A i \in 1..Len(ln) : ln[i].kind \in Voices => k.pc = "waits"
    /\ \A i \in 1..Len(ln) : ln[i].kind = "voice_begin" => ln[i].r \in k.pressed
    /\ k.pc = "waits" => \E i \in 1..Len(ln) : ln[i].kind \in Voices

\* A remote in the metadata is paired by the last that the main thread is told of it.
MetaPaired(ln, m) ==
    \A r \in BleRemotes : m[r] # "none" =>
        \A i \in 1..Len(ln) : ln[i].kind = "unpaired" /\ ln[i].r = r =>
            \E j \in 1..Len(ln) : j > i /\ ln[j].kind = "paired" /\ ln[j].r = r
\* A remote that streams is known, or will be when its voice key is told to be up.
StreamKnown(ln, st, m, kn) ==
    \A r \in st : m[r] # "none" /\ Silent(ln, Pairs, r) => r \in kn

\* What ends a voice key says it of a remote that is known, or will be by then.
EndKnown(ln, st, kn) ==
    \A i \in 1..Len(ln) : ln[i].kind = "voice_end" /\ ln[i].r \in st =>
        /\ \A j \in 1..Len(ln) : j < i /\ ln[j].kind = "unpaired" /\ ln[j].r = ln[i].r =>
               \E k \in 1..Len(ln) : j < k /\ k < i /\ ln[k].kind = "paired" /\ ln[k].r = ln[i].r
        /\ (\A j \in 1..Len(ln) : j < i /\ ln[j].kind \in Pairs => ln[j].r # ln[i].r) => ln[i].r \in kn

\* What streams has its voice key held, unless its end is to be told or was not heard.
Held(ln, st, k, ap) ==
    \A r \in st : r \in k.pressed \/ r \in ap.deaf
                  \/ \E i \in 1..Len(ln) : ln[i].kind = "voice_end" /\ ln[i].r = r

\* The inductive invariant.
LinkInv ==
    /\ LinkTypes
    /\ FdsOwned
    /\ SignalsRight(signals, devs)
    /\ LineRight(signals, line, devs, apart.missed)
    /\ KnownRight(signals, line, devs, linkKnown, apart)
    /\ OneVoice(line, keys)
    /\ MetaPaired(line, meta)
    /\ stream \subseteq devs
    /\ StreamKnown(line, stream, meta, linkKnown)
    /\ EndKnown(line, stream, linkKnown)
    /\ Held(line, stream, keys, apart)

-----------------------------------------------------------------------------
(* The queues.                                                             *)

\* A note that comes is the last of the queue.
LEMMA AppendedNote ==
    ASSUME NEW M, NEW q \in Seq(M), NEW m \in M
    PROVE  /\ Append(q, m) \in Seq(M) /\ Len(Append(q, m)) = Len(q) + 1 /\ Len(q) \in Nat
           /\ Append(q, m)[Len(q) + 1] = m
           /\ \A i \in 1..Len(q) : Append(q, m)[i] = q[i]
           /\ \A i \in 1..Len(Append(q, m)) : i \in 1..Len(q) \/ i = Len(q) + 1
           /\ \A i \in 1..Len(q) : i \in 1..Len(Append(q, m)) /\ Len(q) + 1 > i
           /\ Len(q) + 1 \in 1..Len(Append(q, m))
           /\ \A i \in 1..Len(q) : q[i] \in M
OBVIOUS

\* A note that is taken was the first; the others move up.
LEMMA TakenNote ==
    ASSUME NEW M, NEW q \in Seq(M), q # <<>>
    PROVE  /\ Tail(q) \in Seq(M) /\ Len(Tail(q)) = Len(q) - 1 /\ Len(q) \in Nat /\ Len(q) > 0
           /\ Head(q) = q[1] /\ Head(q) \in M /\ 1 \in 1..Len(q)
           /\ \A i \in 1..Len(Tail(q)) : Tail(q)[i] = q[i + 1] /\ i + 1 \in 1..Len(q) /\ i + 1 > 1
           /\ \A i \in 1..Len(q) : i = 1 \/ (i > 1 /\ i - 1 \in 1..Len(Tail(q)) /\ Tail(q)[i - 1] = q[i])
           /\ \A i \in 1..Len(q) : q[i] \in M
<1>1. /\ Tail(q) \in Seq(M) /\ Len(Tail(q)) = Len(q) - 1 /\ Len(q) \in Nat /\ Len(q) > 0
      /\ Head(q) = q[1] /\ Head(q) \in M /\ 1 \in 1..Len(q)
      /\ \A i \in 1..Len(Tail(q)) : Tail(q)[i] = q[i + 1] /\ i + 1 \in 1..Len(q) /\ i + 1 > 1
      /\ \A i \in 1..Len(q) : q[i] \in M
  OBVIOUS
<1>2. ASSUME NEW i \in 1..Len(q), i # 1
      PROVE  i > 1 /\ i - 1 \in 1..Len(Tail(q)) /\ Tail(q)[i - 1] = q[i]
  <2>1. i > 1 /\ i - 1 \in 1..Len(Tail(q)) /\ (i - 1) + 1 = i
    BY <1>1, <1>2
  <2>. QED  BY <1>1, <2>1
<1>. QED  BY <1>1, <1>2

\* What is the last of a longer queue, and of whom it is silent.
LEMMA LastAppended ==
    ASSUME NEW M, NEW q \in Seq(M), NEW m \in M, NEW kinds
    PROVE  /\ \A r : Silent(Append(q, m), kinds, r) <=> Silent(q, kinds, r) /\ (m.kind \in kinds => m.r # r)
           /\ \A i \in 1..Len(Append(q, m)) : LastOf(Append(q, m), i, kinds) =>
                 \/ i = Len(q) + 1 /\ m.kind \in kinds
                 \/ /\ i \in 1..Len(q) /\ LastOf(q, i, kinds)
                    /\ m.kind \in kinds => m.r # q[i].r
<1>. DEFINE p == Append(q, m)
            n == Len(q) + 1
<1>1. /\ p \in Seq(M) /\ Len(p) = n /\ Len(q) \in Nat /\ p[n] = m
      /\ \A i \in 1..Len(q) : p[i] = q[i]
      /\ \A i \in 1..Len(p) : i \in 1..Len(q) \/ i = n
      /\ \A i \in 1..Len(q) : i \in 1..Len(p) /\ n > i
      /\ n \in 1..Len(p)
  BY AppendedNote
<1>. HIDE DEF p, n
<1>2. \A r : Silent(p, kinds, r) <=> Silent(q, kinds, r) /\ (m.kind \in kinds => m.r # r)
  BY <1>1 DEF Silent
<1>3. ASSUME NEW i \in 1..Len(p), LastOf(p, i, kinds)
      PROVE  \/ i = n /\ m.kind \in kinds
             \/ i \in 1..Len(q) /\ LastOf(q, i, kinds) /\ (m.kind \in kinds => m.r # q[i].r)
  BY <1>1, <1>3 DEF LastOf
<1>. QED  BY <1>2, <1>3 DEF p, n

\* What is the last of a shorter queue was the last before.
LEMMA LastTaken ==
    ASSUME NEW M, NEW q \in Seq(M), q # <<>>, NEW kinds
    PROVE  /\ \A i \in 1..Len(Tail(q)) : LastOf(Tail(q), i, kinds) =>
                 i + 1 \in 1..Len(q) /\ LastOf(q, i + 1, kinds) /\ Tail(q)[i] = q[i + 1]
           /\ \A r : Silent(Tail(q), kinds, r) =>
                 \/ Silent(q, kinds, r)
                 \/ 1 \in 1..Len(q) /\ Head(q).kind \in kinds /\ Head(q).r = r /\ LastOf(q, 1, kinds)
                    /\ q[1] = Head(q)
           /\ \A r : Silent(q, kinds, r) => Silent(Tail(q), kinds, r)
<1>. DEFINE p == Tail(q)
<1>1. /\ Len(p) = Len(q) - 1 /\ Len(q) \in Nat /\ Len(q) > 0 /\ Head(q) = q[1] /\ 1 \in 1..Len(q)
      /\ \A i \in 1..Len(p) : p[i] = q[i + 1] /\ i + 1 \in 1..Len(q) /\ i + 1 > 1
      /\ \A i \in 1..Len(q) : i = 1 \/ (i > 1 /\ i - 1 \in 1..Len(p) /\ p[i - 1] = q[i])
  BY TakenNote
<1>. HIDE DEF p
<1>2. ASSUME NEW i \in 1..Len(p), LastOf(p, i, kinds)
      PROVE  i + 1 \in 1..Len(q) /\ LastOf(q, i + 1, kinds) /\ p[i] = q[i + 1]
  <2>1. i + 1 \in 1..Len(q) /\ p[i] = q[i + 1] /\ q[i + 1].kind \in kinds
    BY <1>1, <1>2 DEF LastOf
  <2>2. ASSUME NEW j \in 1..Len(q), j > i + 1, q[j].r = q[i + 1].r PROVE q[j].kind \notin kinds
    <3>1. j - 1 \in 1..Len(p) /\ p[j - 1] = q[j] /\ j - 1 > i
      BY <1>1, <2>2
    <3>. QED  BY <1>2, <2>1, <2>2, <3>1 DEF LastOf
  <2>. QED  BY <2>1, <2>2 DEF LastOf
<1>3. ASSUME NEW r, Silent(p, kinds, r)
      PROVE  \/ Silent(q, kinds, r)
             \/ q[1].kind \in kinds /\ q[1].r = r /\ LastOf(q, 1, kinds)
  <2>1. \A j \in 1..Len(q) : j > 1 /\ q[j].kind \in kinds => q[j].r # r
    BY <1>1, <1>3 DEF Silent
  <2>2. CASE q[1].kind \in kinds /\ q[1].r = r
    BY <2>1, <2>2 DEF LastOf
  <2>3. CASE ~(q[1].kind \in kinds /\ q[1].r = r)
    BY <1>1, <2>1, <2>3 DEF Silent
  <2>. QED  BY <2>2, <2>3
<1>4. ASSUME NEW r, Silent(q, kinds, r) PROVE Silent(p, kinds, r)
  BY <1>1, <1>4 DEF Silent
<1>. QED  BY <1>1, <1>2, <1>3, <1>4 DEF p

-----------------------------------------------------------------------------
(* What the queues say, as notes come and are taken.                       *)

\* The daemon signals that a device was added or removed, or of one that is there.
LEMMA SignalSent ==
    ASSUME NEW sig \in Seq(SignalNotes), NEW m \in SignalNotes, NEW ln, NEW dv, NEW new, NEW kn, NEW ap,
           SignalsRight(sig, dv), LineRight(sig, ln, dv, ap.missed), KnownRight(sig, ln, dv, kn, ap),
           new = IF m.kind = "added" THEN dv \cup {m.r} ELSE IF m.kind = "removed" THEN dv \ {m.r} ELSE dv
    PROVE  /\ SignalsRight(Append(sig, m), new) /\ LineRight(Append(sig, m), ln, new, ap.missed)
           /\ KnownRight(Append(sig, m), ln, new, kn, ap) /\ Append(sig, m) \in Seq(SignalNotes)
<1>. DEFINE p == Append(sig, m)
            n == Len(sig) + 1
<1>1. /\ p \in Seq(SignalNotes) /\ p[n] = m /\ \A i \in 1..Len(sig) : p[i] = sig[i]
  BY AppendedNote
<1>2. /\ \A r : Silent(p, Adds, r) <=> Silent(sig, Adds, r) /\ (m.kind \in Adds => m.r # r)
      /\ \A i \in 1..Len(p) : LastOf(p, i, Adds) =>
            \/ i = n /\ m.kind \in Adds
            \/ i \in 1..Len(sig) /\ LastOf(sig, i, Adds) /\ (m.kind \in Adds => m.r # sig[i].r)
  BY LastAppended
<1>. HIDE DEF p, n
<1>3. SignalsRight(p, new)
  BY <1>1, <1>2 DEF SignalsRight, Adds
<1>4. \A r : Silent(p, Adds, r) => Silent(sig, Adds, r) /\ (r \in new <=> r \in dv)
  BY <1>2 DEF Adds
<1>5. LineRight(p, ln, new, ap.missed)
  BY <1>4 DEF LineRight
<1>6. KnownRight(p, ln, new, kn, ap)
  BY <1>4 DEF KnownRight
<1>. QED  BY <1>1, <1>3, <1>5, <1>6 DEF p

\* The GLib thread takes a signal, and tells the main thread of it.
LEMMA SignalHeard ==
    ASSUME NEW sig \in Seq(SignalNotes), sig # <<>>, NEW ln \in Seq(LineNotes), NEW dv, NEW kn,
           NEW ap, NEW new, NEW m \in LineNotes, m.r = Head(sig).r,
           SignalsRight(sig, dv), LineRight(sig, ln, dv, ap.missed), KnownRight(sig, ln, dv, kn, ap),
           new.lost = ap.lost
    PROVE  /\ SignalsRight(Tail(sig), dv)
           /\ \/ Head(sig).kind = "added" /\ m.kind = "paired" /\ new.missed = ap.missed \ {m.r}
              \/ Head(sig).kind = "removed" /\ m.kind = "unpaired" /\ new.missed = ap.missed
              \/ Head(sig).kind \notin Adds /\ m.kind \notin Pairs /\ new.missed = ap.missed
              => /\ LineRight(Tail(sig), Append(ln, m), dv, new.missed)
                 /\ KnownRight(Tail(sig), Append(ln, m), dv, kn, new)
           /\ Head(sig).kind = "added" /\ new.missed = ap.missed \cup {m.r}
              => /\ LineRight(Tail(sig), ln, dv, new.missed)
                 /\ KnownRight(Tail(sig), ln, dv, kn, new)
<1>. DEFINE s == Tail(sig)
            r0 == Head(sig).r
            p == Append(ln, m)
            n == Len(ln) + 1
<1>1. /\ \A i \in 1..Len(s) : LastOf(s, i, Adds) =>
            i + 1 \in 1..Len(sig) /\ LastOf(sig, i + 1, Adds) /\ s[i] = sig[i + 1]
      /\ \A r : Silent(s, Adds, r) =>
            \/ Silent(sig, Adds, r)
            \/ 1 \in 1..Len(sig) /\ Head(sig).kind \in Adds /\ r0 = r /\ LastOf(sig, 1, Adds)
               /\ sig[1] = Head(sig)
  BY LastTaken
<1>2. SignalsRight(s, dv)
  BY <1>1 DEF SignalsRight
\* Of whom there is no signal left, the one that is taken tells the truth.
<1>3. \A r : Silent(s, Adds, r) =>
          \/ Silent(sig, Adds, r) /\ (Head(sig).kind \in Adds => r # r0)
          \/ r = r0 /\ Head(sig).kind \in Adds /\ (Head(sig).kind = "added" <=> r \in dv)
  <2>1. Head(sig) = sig[1] /\ 1 \in 1..Len(sig)
    BY TakenNote
  <2>2. \A r : Silent(sig, Adds, r) => (Head(sig).kind \in Adds => r # r0)
    BY <2>1 DEF Silent
  <2>. QED  BY <1>1, <2>2 DEF SignalsRight
<1>4. /\ \A i \in 1..Len(p) : LastOf(p, i, Pairs) =>
            \/ i = n /\ m.kind \in Pairs
            \/ i \in 1..Len(ln) /\ LastOf(ln, i, Pairs) /\ (m.kind \in Pairs => m.r # ln[i].r)
      /\ \A r : Silent(p, Pairs, r) <=> Silent(ln, Pairs, r) /\ (m.kind \in Pairs => m.r # r)
      /\ p[n] = m /\ \A i \in 1..Len(ln) : p[i] = ln[i]
  BY LastAppended, AppendedNote
<1>. HIDE DEF s, p, n, r0
<1>5. r0 = m.r
  BY DEF r0
<1>6. ASSUME \/ Head(sig).kind = "added" /\ m.kind = "paired" /\ new.missed = ap.missed \ {m.r}
             \/ Head(sig).kind = "removed" /\ m.kind = "unpaired" /\ new.missed = ap.missed
             \/ Head(sig).kind \notin Adds /\ m.kind \notin Pairs /\ new.missed = ap.missed
      PROVE  LineRight(s, p, dv, new.missed) /\ KnownRight(s, p, dv, kn, new)
  <2>1. LineRight(s, p, dv, new.missed)
    BY <1>3, <1>4, <1>5, <1>6 DEF LineRight, Pairs, Adds
  <2>2. KnownRight(s, p, dv, kn, new)
    BY <1>3, <1>4, <1>5, <1>6 DEF KnownRight, Pairs, Adds
  <2>. QED  BY <2>1, <2>2
<1>7. ASSUME Head(sig).kind = "added", new.missed = ap.missed \cup {m.r}
      PROVE  LineRight(s, ln, dv, new.missed) /\ KnownRight(s, ln, dv, kn, new)
  <2>1. LineRight(s, ln, dv, new.missed)
    BY <1>3, <1>5, <1>7 DEF LineRight, Pairs, Adds
  <2>2. KnownRight(s, ln, dv, kn, new)
    BY <1>3, <1>5, <1>7 DEF KnownRight, Pairs, Adds
  <2>. QED  BY <2>1, <2>2
<1>. QED  BY <1>2, <1>6, <1>7 DEF s, p

\* A message comes that is of no voice key.
LEMMA LineGets ==
    ASSUME NEW ln \in Seq(LineNotes), NEW m \in LineNotes, m.kind \notin Voices,
           NEW k, NEW st, NEW kn, NEW ap
    PROVE  /\ OneVoice(ln, k) => OneVoice(Append(ln, m), k)
           /\ EndKnown(ln, st, kn) => EndKnown(Append(ln, m), st, kn)
           /\ Held(ln, st, k, ap) => Held(Append(ln, m), st, k, ap)
<1>. DEFINE p == Append(ln, m)
            n == Len(ln) + 1
<1>1. /\ Len(p) = n /\ Len(ln) \in Nat /\ p[n] = m
      /\ \A i \in 1..Len(ln) : p[i] = ln[i]
      /\ \A i \in 1..Len(p) : i \in 1..Len(ln) \/ i = n
      /\ \A i \in 1..Len(ln) : i \in 1..Len(p) /\ n > i
      /\ n \in 1..Len(p)
  BY AppendedNote
<1>. HIDE DEF p, n
<1>2. ASSUME OneVoice(ln, k) PROVE OneVoice(p, k)
  <2>1. \A i \in 1..Len(p) : p[i].kind \in Voices => i \in 1..Len(ln) /\ ln[i].kind \in Voices
    BY <1>1
  <2>2. \A i, j \in 1..Len(p) : p[i].kind \in Voices /\ p[j].kind \in Voices => i = j
    BY <1>2, <2>1 DEF OneVoice
  <2>3. \A i \in 1..Len(p) : p[i].kind \in Voices => k.pc = "waits"
    BY <1>2, <2>1 DEF OneVoice
  <2>4. \A i \in 1..Len(p) : p[i].kind = "voice_begin" => p[i].r \in k.pressed
    BY <1>1, <1>2 DEF OneVoice, Voices
  <2>5. k.pc = "waits" => \E i \in 1..Len(p) : p[i].kind \in Voices
    BY <1>1, <1>2 DEF OneVoice
  <2>. QED  BY <2>2, <2>3, <2>4, <2>5 DEF OneVoice
<1>3. ASSUME EndKnown(ln, st, kn) PROVE EndKnown(p, st, kn)
  <2>. SUFFICES ASSUME NEW i \in 1..Len(p), p[i].kind = "voice_end", p[i].r \in st
                PROVE  /\ \A j \in 1..Len(p) : j < i /\ p[j].kind = "unpaired" /\ p[j].r = p[i].r =>
                              \E l \in 1..Len(p) : j < l /\ l < i /\ p[l].kind = "paired" /\ p[l].r = p[i].r
                       /\ (\A j \in 1..Len(p) : j < i /\ p[j].kind \in Pairs => p[j].r # p[i].r) => p[i].r \in kn
    BY DEF EndKnown
  <2>1. i \in 1..Len(ln) /\ p[i] = ln[i]
    BY <1>1 DEF Voices
  <2>2. \A j \in 1..Len(p) : j < i => j \in 1..Len(ln) /\ p[j] = ln[j]
    BY <1>1, <2>1
  <2>3. ASSUME NEW j \in 1..Len(p), j < i, p[j].kind = "unpaired", p[j].r = p[i].r
        PROVE  \E l \in 1..Len(p) : j < l /\ l < i /\ p[l].kind = "paired" /\ p[l].r = p[i].r
    <3>1. PICK l \in 1..Len(ln) : j < l /\ l < i /\ ln[l].kind = "paired" /\ ln[l].r = ln[i].r
      BY <1>3, <2>1, <2>2, <2>3 DEF EndKnown
    <3>. QED  BY <1>1, <2>1, <3>1
  <2>4. ASSUME \A j \in 1..Len(p) : j < i /\ p[j].kind \in Pairs => p[j].r # p[i].r
        PROVE  p[i].r \in kn
    <3>1. \A j \in 1..Len(ln) : j < i /\ ln[j].kind \in Pairs => ln[j].r # ln[i].r
      BY <1>1, <2>1, <2>4
    <3>. QED  BY <1>3, <2>1, <3>1 DEF EndKnown
  <2>. QED  BY <2>3, <2>4
<1>4. Held(ln, st, k, ap) => Held(p, st, k, ap)
  BY <1>1 DEF Held
<1>. QED  BY <1>2, <1>3, <1>4 DEF p

\* A message comes that is not of a pairing.
LEMMA OtherGets ==
    ASSUME NEW ln \in Seq(LineNotes), NEW m \in LineNotes, m.kind \notin Pairs,
           NEW sig, NEW dv, NEW kn, NEW ap, NEW mt, NEW st
    PROVE  /\ LineRight(sig, ln, dv, ap.missed) => LineRight(sig, Append(ln, m), dv, ap.missed)
           /\ KnownRight(sig, ln, dv, kn, ap) => KnownRight(sig, Append(ln, m), dv, kn, ap)
           /\ MetaPaired(ln, mt) => MetaPaired(Append(ln, m), mt)
           /\ StreamKnown(ln, st, mt, kn) => StreamKnown(Append(ln, m), st, mt, kn)
<1>. DEFINE p == Append(ln, m)
            n == Len(ln) + 1
<1>1. /\ Len(p) = n /\ Len(ln) \in Nat /\ p[n] = m
      /\ \A i \in 1..Len(ln) : p[i] = ln[i]
      /\ \A i \in 1..Len(p) : i \in 1..Len(ln) \/ i = n
      /\ \A i \in 1..Len(ln) : i \in 1..Len(p) /\ n > i
  BY AppendedNote
<1>2. /\ \A i \in 1..Len(p) : LastOf(p, i, Pairs) => i \in 1..Len(ln) /\ LastOf(ln, i, Pairs)
      /\ \A r : Silent(p, Pairs, r) <=> Silent(ln, Pairs, r)
  BY LastAppended
<1>. HIDE DEF p, n
<1>3. LineRight(sig, ln, dv, ap.missed) => LineRight(sig, p, dv, ap.missed)
  BY <1>1, <1>2 DEF LineRight
<1>4. KnownRight(sig, ln, dv, kn, ap) => KnownRight(sig, p, dv, kn, ap)
  BY <1>2 DEF KnownRight
<1>5. MetaPaired(ln, mt) => MetaPaired(p, mt)
  BY <1>1 DEF MetaPaired, Pairs
<1>6. StreamKnown(ln, st, mt, kn) => StreamKnown(p, st, mt, kn)
  BY <1>2 DEF StreamKnown
<1>. QED  BY <1>3, <1>4, <1>5, <1>6 DEF p

\* A message of a pairing comes, with the remote's metadata.
LEMMA PairGets ==
    ASSUME NEW ln \in Seq(LineNotes), NEW m \in LineNotes, NEW mt, NEW new, NEW st, NEW kn,
           MetaPaired(ln, mt), StreamKnown(ln, st, mt, kn),
           \A r \in BleRemotes : r # m.r => (new[r] # "none" => mt[r] # "none"),
           st \subseteq BleRemotes,
           m.kind = "paired" \/ (m.kind = "unpaired" /\ new[m.r] = "none")
    PROVE  MetaPaired(Append(ln, m), new) /\ StreamKnown(Append(ln, m), st, new, kn)
<1>. DEFINE p == Append(ln, m)
            n == Len(ln) + 1
<1>1. /\ Len(p) = n /\ Len(ln) \in Nat /\ p[n] = m
      /\ \A i \in 1..Len(ln) : p[i] = ln[i]
      /\ \A i \in 1..Len(p) : i \in 1..Len(ln) \/ i = n
      /\ \A i \in 1..Len(ln) : i \in 1..Len(p) /\ n > i
      /\ n \in 1..Len(p)
  BY AppendedNote
<1>2. \A r : Silent(p, Pairs, r) <=> Silent(ln, Pairs, r) /\ (m.kind \in Pairs => m.r # r)
  BY LastAppended
<1>. HIDE DEF p, n
<1>3. ASSUME NEW r \in BleRemotes, new[r] # "none", NEW i \in 1..Len(p), p[i].kind = "unpaired", p[i].r = r
      PROVE  \E j \in 1..Len(p) : j > i /\ p[j].kind = "paired" /\ p[j].r = r
  <2>1. i \in 1..Len(ln) /\ p[i] = ln[i]
    BY <1>1, <1>3
  <2>2. CASE r = m.r
    BY <1>1, <1>3, <2>1, <2>2
  <2>3. CASE r # m.r
    <3>1. PICK j \in 1..Len(ln) : j > i /\ ln[j].kind = "paired" /\ ln[j].r = r
      BY <1>3, <2>1, <2>3 DEF MetaPaired
    <3>. QED  BY <1>1, <3>1
  <2>. QED  BY <2>2, <2>3
<1>4. MetaPaired(p, new)
  BY <1>3 DEF MetaPaired
<1>5. StreamKnown(p, st, new, kn)
  BY <1>2 DEF StreamKnown, Pairs
<1>. QED  BY <1>4, <1>5 DEF p

-----------------------------------------------------------------------------
(* What the main thread knows, as it takes its messages.                   *)

\* What a message that is taken leaves, whatever it was.
LEMMA LineTaken ==
    ASSUME NEW ln \in Seq(LineNotes), ln # <<>>, NEW sig, NEW dv, NEW ap, NEW mt, NEW k,
           LineRight(sig, ln, dv, ap.missed), MetaPaired(ln, mt), OneVoice(ln, k)
    PROVE  /\ LineRight(sig, Tail(ln), dv, ap.missed) /\ MetaPaired(Tail(ln), mt)
           /\ Head(ln).kind \notin Voices => OneVoice(Tail(ln), k)
           /\ Head(ln).kind \in Voices =>
                 /\ \A i \in 1..Len(Tail(ln)) : Tail(ln)[i].kind \notin Voices
                 /\ k.pc = "waits"
           /\ Head(ln).kind = "voice_begin" => Head(ln).r \in k.pressed
<1>. DEFINE p == Tail(ln)
<1>1. /\ Len(p) = Len(ln) - 1 /\ Len(ln) \in Nat /\ Len(ln) > 0 /\ Head(ln) = ln[1] /\ 1 \in 1..Len(ln)
      /\ \A i \in 1..Len(p) : p[i] = ln[i + 1] /\ i + 1 \in 1..Len(ln) /\ i + 1 > 1
      /\ \A i \in 1..Len(ln) : i = 1 \/ (i > 1 /\ i - 1 \in 1..Len(p) /\ p[i - 1] = ln[i])
  BY TakenNote
<1>2. \A i \in 1..Len(p) : LastOf(p, i, Pairs) =>
          i + 1 \in 1..Len(ln) /\ LastOf(ln, i + 1, Pairs) /\ p[i] = ln[i + 1]
  BY LastTaken
<1>. HIDE DEF p
<1>3. LineRight(sig, p, dv, ap.missed)
  BY <1>2 DEF LineRight
<1>4. MetaPaired(p, mt)
  <2>1. ASSUME NEW r \in BleRemotes, mt[r] # "none", NEW i \in 1..Len(p), p[i].kind = "unpaired", p[i].r = r
        PROVE  \E j \in 1..Len(p) : j > i /\ p[j].kind = "paired" /\ p[j].r = r
    <3>1. i + 1 \in 1..Len(ln) /\ ln[i + 1].kind = "unpaired" /\ ln[i + 1].r = r
      BY <1>1, <2>1
    <3>2. PICK j \in 1..Len(ln) : j > i + 1 /\ ln[j].kind = "paired" /\ ln[j].r = r
      BY <2>1, <3>1 DEF MetaPaired
    <3>3. j - 1 \in 1..Len(p) /\ p[j - 1] = ln[j] /\ j - 1 > i
      BY <1>1, <3>2
    <3>. QED  BY <3>2, <3>3
  <2>. QED  BY <2>1 DEF MetaPaired
<1>5. ASSUME Head(ln).kind \in Voices
      PROVE  (\A i \in 1..Len(p) : p[i].kind \notin Voices) /\ k.pc = "waits"
  <2>1. ASSUME NEW i \in 1..Len(p) PROVE p[i].kind \notin Voices
    <3>1. i + 1 \in 1..Len(ln) /\ i + 1 # 1 /\ p[i] = ln[i + 1]
      BY <1>1
    <3>. QED  BY <1>1, <1>5, <3>1 DEF OneVoice
  <2>. QED  BY <1>1, <1>5, <2>1 DEF OneVoice
<1>6. ASSUME Head(ln).kind \notin Voices PROVE OneVoice(p, k)
  <2>1. ASSUME NEW i \in 1..Len(p), NEW j \in 1..Len(p), p[i].kind \in Voices, p[j].kind \in Voices
        PROVE  i = j
    <3>1. i + 1 \in 1..Len(ln) /\ j + 1 \in 1..Len(ln) /\ p[i] = ln[i + 1] /\ p[j] = ln[j + 1]
      BY <1>1
    <3>2. i + 1 = j + 1
      BY <2>1, <3>1 DEF OneVoice
    <3>. QED  BY <3>2
  <2>2. \A i \in 1..Len(p) : p[i].kind \in Voices => k.pc = "waits"
    BY <1>1 DEF OneVoice
  <2>3. \A i \in 1..Len(p) : p[i].kind = "voice_begin" => p[i].r \in k.pressed
    BY <1>1 DEF OneVoice
  <2>4. ASSUME k.pc = "waits" PROVE \E i \in 1..Len(p) : p[i].kind \in Voices
    <3>1. PICK i \in 1..Len(ln) : ln[i].kind \in Voices
      BY <2>4 DEF OneVoice
    <3>2. i # 1
      BY <1>1, <1>6, <3>1
    <3>3. i - 1 \in 1..Len(p) /\ p[i - 1] = ln[i]
      BY <1>1, <3>2
    <3>. QED  BY <3>1, <3>3
  <2>. QED  BY <2>1, <2>2, <2>3, <2>4 DEF OneVoice
<1>7. Head(ln).kind = "voice_begin" => Head(ln).r \in k.pressed
  BY <1>1 DEF OneVoice
<1>. QED  BY <1>3, <1>4, <1>5, <1>6, <1>7 DEF p

\* What the main thread knows once it has taken a message: of a remote that was unpaired
\* no longer, of one that was paired at least if it streams.
KnownAfter(m, st, kn, new) ==
    \A r \in st : /\ r \in kn /\ ~(m.kind = "unpaired" /\ m.r = r) => r \in new
                  /\ m.kind = "paired" /\ m.r = r => r \in new

\* A remote that streams is known still.
LEMMA StreamTaken ==
    ASSUME NEW ln \in Seq(LineNotes), ln # <<>>, NEW mt, NEW st, NEW kn, NEW new,
           st \subseteq BleRemotes, MetaPaired(ln, mt), StreamKnown(ln, st, mt, kn), EndKnown(ln, st, kn),
           KnownAfter(Head(ln), st, kn, new)
    PROVE  StreamKnown(Tail(ln), st, mt, new) /\ EndKnown(Tail(ln), st, new)
<1>. DEFINE p == Tail(ln)
<1>1. /\ Len(p) = Len(ln) - 1 /\ Len(ln) \in Nat /\ Len(ln) > 0 /\ Head(ln) = ln[1] /\ 1 \in 1..Len(ln)
      /\ \A i \in 1..Len(p) : p[i] = ln[i + 1] /\ i + 1 \in 1..Len(ln) /\ i + 1 > 1
      /\ \A i \in 1..Len(ln) : i = 1 \/ (i > 1 /\ i - 1 \in 1..Len(p) /\ p[i - 1] = ln[i])
  BY TakenNote
<1>. HIDE DEF p
<1>2. ASSUME NEW r \in st, mt[r] # "none", Silent(p, Pairs, r) PROVE r \in new
  <2>1. CASE Head(ln).kind = "paired" /\ Head(ln).r = r
    BY <2>1 DEF KnownAfter
  <2>2. CASE Head(ln).kind = "unpaired" /\ Head(ln).r = r
    <3>0. /\ r \in BleRemotes /\ mt[r] # "none" /\ 1 \in 1..Len(ln)
          /\ ln[1].kind = "unpaired" /\ ln[1].r = r
      BY <1>1, <1>2, <2>2
    <3>1. PICK j \in 1..Len(ln) : j > 1 /\ ln[j].kind = "paired" /\ ln[j].r = r
      <4>1. MetaPaired(ln, mt)
        OBVIOUS
      <4>. QED  BY ONLY <3>0, <4>1 DEF MetaPaired
    <3>2. j - 1 \in 1..Len(p) /\ p[j - 1] = ln[j]
      BY <1>1, <3>1
    <3>. QED  BY <1>2, <3>1, <3>2 DEF Silent, Pairs
  <2>3. CASE ~(Head(ln).kind \in Pairs /\ Head(ln).r = r)
    <3>1. Silent(ln, Pairs, r)
      BY <1>1, <1>2, <2>3 DEF Silent
    <3>2. r \in kn
      BY <1>2, <3>1 DEF StreamKnown
    <3>. QED  BY <2>3, <3>2 DEF KnownAfter, Pairs
  <2>. QED  BY <2>1, <2>2, <2>3 DEF Pairs
<1>3. ASSUME NEW i \in 1..Len(p), p[i].kind = "voice_end", p[i].r \in st
      PROVE  /\ \A j \in 1..Len(p) : j < i /\ p[j].kind = "unpaired" /\ p[j].r = p[i].r =>
                    \E l \in 1..Len(p) : j < l /\ l < i /\ p[l].kind = "paired" /\ p[l].r = p[i].r
             /\ (\A j \in 1..Len(p) : j < i /\ p[j].kind \in Pairs => p[j].r # p[i].r) => p[i].r \in new
  <2>1. i + 1 \in 1..Len(ln) /\ p[i] = ln[i + 1] /\ 1 < i + 1
    BY <1>1
  <2>2. ASSUME NEW j \in 1..Len(p), j < i, p[j].kind = "unpaired", p[j].r = p[i].r
        PROVE  \E l \in 1..Len(p) : j < l /\ l < i /\ p[l].kind = "paired" /\ p[l].r = p[i].r
    <3>1. j + 1 \in 1..Len(ln) /\ p[j] = ln[j + 1] /\ j + 1 < i + 1
      BY <1>1, <2>2
    <3>2. PICK l \in 1..Len(ln) : j + 1 < l /\ l < i + 1 /\ ln[l].kind = "paired" /\ ln[l].r = ln[i + 1].r
      BY <1>3, <2>1, <2>2, <3>1 DEF EndKnown
    <3>3. l - 1 \in 1..Len(p) /\ p[l - 1] = ln[l] /\ j < l - 1 /\ l - 1 < i
      BY <1>1, <3>2
    <3>. QED  BY <2>1, <3>2, <3>3
  <2>3. ASSUME \A j \in 1..Len(p) : j < i /\ p[j].kind \in Pairs => p[j].r # p[i].r
        PROVE  p[i].r \in new
    <3>. DEFINE r == p[i].r
    <3>0. r \in st /\ ln[i + 1].r = r /\ ln[i + 1].kind = "voice_end"
      BY <1>3, <2>1
    <3>5. \A l \in 1..Len(ln) : 1 < l /\ l < i + 1 /\ ln[l].kind \in Pairs => ln[l].r # r
      <4>1. ASSUME NEW l \in 1..Len(ln), 1 < l, l < i + 1, ln[l].kind \in Pairs PROVE ln[l].r # r
        <5>1. l - 1 \in 1..Len(p) /\ p[l - 1] = ln[l] /\ l - 1 < i
          BY <1>1, <4>1
        <5>. QED  BY <2>3, <4>1, <5>1
      <4>. QED  BY <4>1
    <3>. HIDE DEF r
    <3>1. CASE Head(ln).kind = "paired" /\ Head(ln).r = r
      BY <3>0, <3>1 DEF KnownAfter, r
    <3>2. CASE Head(ln).kind = "unpaired" /\ Head(ln).r = r
      <4>0. /\ i + 1 \in 1..Len(ln) /\ 1 \in 1..Len(ln) /\ 1 < i + 1 /\ r \in st
            /\ ln[i + 1].kind = "voice_end" /\ ln[i + 1].r = r
            /\ ln[1].kind = "unpaired" /\ ln[1].r = r
        BY <1>1, <2>1, <3>0, <3>2
      <4>1. PICK l \in 1..Len(ln) : 1 < l /\ l < i + 1 /\ ln[l].kind = "paired" /\ ln[l].r = r
        <5>1. EndKnown(ln, st, kn)
          OBVIOUS
        <5>. QED  BY ONLY <4>0, <5>1 DEF EndKnown
      <4>. QED  BY <3>5, <4>1 DEF Pairs
    <3>3. CASE ~(Head(ln).kind \in Pairs /\ Head(ln).r = r)
      <4>1. \A l \in 1..Len(ln) : l < i + 1 /\ ln[l].kind \in Pairs => ln[l].r # r
        BY <1>1, <3>3, <3>5
      <4>2. r \in kn
        BY <2>1, <3>0, <4>1 DEF EndKnown
      <4>. QED  BY <3>0, <3>3, <4>2 DEF KnownAfter, Pairs, r
    <3>. QED  BY <3>1, <3>2, <3>3 DEF Pairs
  <2>. QED  BY <2>2, <2>3
<1>. QED  BY <1>2, <1>3 DEF p, StreamKnown, EndKnown

\* Whose voice key is held is told still, but of the one whose message was taken.
LEMMA HeldTaken ==
    ASSUME NEW ln \in Seq(LineNotes), ln # <<>>, NEW st, NEW k, NEW ap, Held(ln, st, k, ap)
    PROVE  \A r \in st : \/ r \in k.pressed \/ r \in ap.deaf
                         \/ \E i \in 1..Len(Tail(ln)) : Tail(ln)[i].kind = "voice_end" /\ Tail(ln)[i].r = r
                         \/ Head(ln).kind = "voice_end" /\ Head(ln).r = r
<1>. DEFINE p == Tail(ln)
<1>1. /\ Head(ln) = ln[1]
      /\ \A i \in 1..Len(ln) : i = 1 \/ (i > 1 /\ i - 1 \in 1..Len(p) /\ p[i - 1] = ln[i])
  BY TakenNote
<1>. HIDE DEF p
<1>2. ASSUME NEW r \in st, NEW i \in 1..Len(ln), ln[i].kind = "voice_end", ln[i].r = r
      PROVE  \/ \E j \in 1..Len(p) : p[j].kind = "voice_end" /\ p[j].r = r
             \/ Head(ln).kind = "voice_end" /\ Head(ln).r = r
  BY <1>1, <1>2
<1>. QED  BY <1>2 DEF p, Held

\* What the main thread knows, as it takes a message.
LEMMA KnownTaken ==
    ASSUME NEW sig, NEW ln \in Seq(LineNotes), ln # <<>>, NEW dv, NEW kn, NEW ap, NEW new, NEW now,
           now.missed = ap.missed, LineRight(sig, ln, dv, ap.missed), KnownRight(sig, ln, dv, kn, ap),
           \/ Head(ln).kind = "paired" /\ new = kn \cup {Head(ln).r} /\ now.lost = ap.lost
           \/ Head(ln).kind = "paired" /\ new = (kn \cup {Head(ln).r}) \cap dv /\ now.lost = {}
           \/ Head(ln).kind = "unpaired" /\ new = kn \ {Head(ln).r} /\ now.lost = ap.lost
           \/ Head(ln).kind \notin Pairs /\ new = kn /\ now.lost = ap.lost
    PROVE  KnownRight(sig, Tail(ln), dv, new, now)
<1>. DEFINE p == Tail(ln)
            h == Head(ln)
<1>1. \A r : Silent(p, Pairs, r) =>
          \/ Silent(ln, Pairs, r)
          \/ 1 \in 1..Len(ln) /\ h.kind \in Pairs /\ h.r = r /\ LastOf(ln, 1, Pairs) /\ ln[1] = h
  BY LastTaken
<1>2. \A r : Silent(ln, Pairs, r) => (h.kind \in Pairs => h.r # r)
  BY TakenNote DEF Silent
<1>. HIDE DEF p, h
<1>3. ASSUME NEW r \in BleRemotes, Silent(sig, Adds, r), Silent(p, Pairs, r)
      PROVE  (r \in new \ dv => r \in now.lost) /\ (r \in dv \ new => r \in now.missed)
  <2>1. CASE Silent(ln, Pairs, r)
    <3>1. (r \in kn \ dv => r \in ap.lost) /\ (r \in dv \ kn => r \in ap.missed)
      BY <1>3, <2>1 DEF KnownRight
    <3>. QED  BY <1>2, <2>1, <3>1 DEF h, Pairs
  <2>2. CASE 1 \in 1..Len(ln) /\ h.kind \in Pairs /\ h.r = r /\ LastOf(ln, 1, Pairs) /\ ln[1] = h
    <3>1. (h.kind = "paired" => r \in dv) /\ (h.kind = "unpaired" => r \notin dv \/ r \in ap.missed)
      BY <1>3, <2>2 DEF LineRight
    <3>. QED  BY <2>2, <3>1 DEF h, Pairs
  <2>. QED  BY <1>1, <1>3, <2>1, <2>2
<1>. QED  BY <1>3 DEF KnownRight, p

\* A voice key that was pressed or released is told, and nothing else of voice is.
LEMMA VoiceGets ==
    ASSUME NEW ln \in Seq(LineNotes), NEW m \in LineNotes, m.kind \in Voices, NEW k, NEW new,
           NEW st, st \subseteq BleRemotes, NEW kn, NEW mt, NEW ap, k.pc = "read", new.pc = "waits",
           new.pressed = IF m.kind = "voice_end" THEN k.pressed \ {m.r} ELSE k.pressed \cup {m.r},
           mt[m.r] # "none",
           OneVoice(ln, k), MetaPaired(ln, mt), StreamKnown(ln, st, mt, kn), EndKnown(ln, st, kn),
           Held(ln, st, k, ap)
    PROVE  /\ OneVoice(Append(ln, m), new) /\ EndKnown(Append(ln, m), st, kn)
           /\ Held(Append(ln, m), st, new, ap)
<1>. DEFINE p == Append(ln, m)
            n == Len(ln) + 1
<1>1. /\ Len(p) = n /\ Len(ln) \in Nat /\ p[n] = m
      /\ \A i \in 1..Len(ln) : p[i] = ln[i]
      /\ \A i \in 1..Len(p) : i \in 1..Len(ln) \/ i = n
      /\ \A i \in 1..Len(ln) : i \in 1..Len(p) /\ n > i
      /\ n \in 1..Len(p)
  BY AppendedNote
<1>. HIDE DEF p, n
<1>2. \A i \in 1..Len(ln) : ln[i].kind \notin Voices
  BY DEF OneVoice
<1>3. \A i \in 1..Len(p) : p[i].kind \in Voices => i = n
  BY <1>1, <1>2
<1>4. OneVoice(p, new)
  <2>1. \A i \in 1..Len(p) : p[i].kind = "voice_begin" => p[i].r \in new.pressed
    <3>1. ASSUME NEW i \in 1..Len(p), p[i].kind = "voice_begin" PROVE p[i].r \in new.pressed
      <4>1. p[i] = m
        BY <1>1, <1>3, <3>1 DEF Voices
      <4>. QED  BY <3>1, <4>1
    <3>. QED  BY <3>1
  <2>2. \E i \in 1..Len(p) : p[i].kind \in Voices
    BY <1>1
  <2>. QED  BY <1>3, <2>1, <2>2 DEF OneVoice
<1>5. EndKnown(p, st, kn)
  <2>. SUFFICES ASSUME NEW i \in 1..Len(p), p[i].kind = "voice_end", p[i].r \in st
                PROVE  /\ \A j \in 1..Len(p) : j < i /\ p[j].kind = "unpaired" /\ p[j].r = p[i].r =>
                              \E l \in 1..Len(p) : j < l /\ l < i /\ p[l].kind = "paired" /\ p[l].r = p[i].r
                       /\ (\A j \in 1..Len(p) : j < i /\ p[j].kind \in Pairs => p[j].r # p[i].r) => p[i].r \in kn
    BY DEF EndKnown
  <2>1. i = n /\ p[i] = m /\ m.r \in st /\ m.r \in BleRemotes
    BY <1>1, <1>3 DEF Voices
  <2>2. ASSUME NEW j \in 1..Len(p), j < i, p[j].kind = "unpaired", p[j].r = p[i].r
        PROVE  \E l \in 1..Len(p) : j < l /\ l < i /\ p[l].kind = "paired" /\ p[l].r = p[i].r
    <3>1. j \in 1..Len(ln) /\ ln[j].kind = "unpaired" /\ ln[j].r = m.r
      BY <1>1, <2>1, <2>2
    <3>2. PICK l \in 1..Len(ln) : l > j /\ ln[l].kind = "paired" /\ ln[l].r = m.r
      BY <2>1, <3>1 DEF MetaPaired
    <3>3. l \in 1..Len(p) /\ p[l] = ln[l] /\ j < l /\ l < i
      BY <1>1, <2>1, <3>2
    <3>. QED  BY <2>1, <3>2, <3>3
  <2>3. ASSUME \A j \in 1..Len(p) : j < i /\ p[j].kind \in Pairs => p[j].r # p[i].r
        PROVE  p[i].r \in kn
    <3>1. Silent(ln, Pairs, m.r)
      BY <1>1, <2>1, <2>3 DEF Silent
    <3>. QED  BY <2>1, <3>1 DEF StreamKnown
  <2>. QED  BY <2>2, <2>3
<1>6. Held(p, st, new, ap)
  <2>1. ASSUME NEW r \in st, r \notin new.pressed, r \notin ap.deaf
        PROVE  \E i \in 1..Len(p) : p[i].kind = "voice_end" /\ p[i].r = r
    <3>1. CASE r \in k.pressed
      BY <1>1, <2>1, <3>1
    <3>2. CASE r \notin k.pressed
      BY <1>2, <2>1, <3>2 DEF Held, Voices
    <3>. QED  BY <3>1, <3>2
  <2>. QED  BY <2>1 DEF Held
<1>. QED  BY <1>4, <1>5, <1>6 DEF p

\* Of fewer remotes that stream, or that the metadata has, no more is said.
LEMMA Fewer ==
    ASSUME NEW ln, NEW st, NEW less, NEW mt, NEW new, NEW kn, NEW k, NEW ap, less \subseteq st,
           st \subseteq BleRemotes, \A r \in BleRemotes : new[r] # "none" => mt[r] # "none"
    PROVE  /\ MetaPaired(ln, mt) => MetaPaired(ln, new)
           /\ StreamKnown(ln, st, mt, kn) => StreamKnown(ln, less, new, kn)
           /\ EndKnown(ln, st, kn) => EndKnown(ln, less, kn)
           /\ Held(ln, st, k, ap) => Held(ln, less, k, ap)
<1>1. MetaPaired(ln, mt) => MetaPaired(ln, new)
  BY DEF MetaPaired
<1>2. StreamKnown(ln, st, mt, kn) => StreamKnown(ln, less, new, kn)
  BY DEF StreamKnown
<1>3. EndKnown(ln, st, kn) => EndKnown(ln, less, kn)
  BY DEF EndKnown
<1>4. Held(ln, st, k, ap) => Held(ln, less, k, ap)
  BY DEF Held
<1>. QED  BY <1>1, <1>2, <1>3, <1>4

-----------------------------------------------------------------------------
(* The steps.                                                              *)

\* What the daemon does: a device appears, goes, connects or unpairs.
LEMMA DaemonKeeps == LinkInv /\ (\E r \in BleRemotes : DeviceAdded(r) \/ DeviceRemoved(r) \/ DeviceConnected(r) \/ DeviceUnpairs(r)) => LinkInv'
<1>. SUFFICES ASSUME LinkInv, NEW r \in BleRemotes,
                     DeviceAdded(r) \/ DeviceRemoved(r) \/ DeviceConnected(r) \/ DeviceUnpairs(r)
              PROVE  LinkInv'
  OBVIOUS
<1>. USE DEF LinkInv, LinkTypes
<1>1. PICK m \in SignalNotes :
          /\ m.r = r /\ signals' = Append(signals, m)
          /\ devs' = IF m.kind = "added" THEN devs \cup {m.r} ELSE IF m.kind = "removed" THEN devs \ {m.r} ELSE devs
          /\ stream' = IF m.kind = "removed" THEN stream \ {m.r} ELSE stream
  <2>1. CASE DeviceAdded(r)
    <3>1. /\ Note("added", r) \in SignalNotes /\ Note("added", r).r = r /\ Note("added", r).kind = "added"
          /\ signals' = Append(signals, Note("added", r))
      BY <2>1 DEF DeviceAdded, Signalled, Note, SignalNotes
    <3>. QED  BY <2>1, <3>1 DEF DeviceAdded
  <2>2. CASE DeviceRemoved(r)
    <3>1. /\ Note("removed", r) \in SignalNotes /\ Note("removed", r).r = r /\ Note("removed", r).kind = "removed"
          /\ signals' = Append(signals, Note("removed", r))
      BY <2>2 DEF DeviceRemoved, Signalled, Note, SignalNotes
    <3>. QED  BY <2>2, <3>1 DEF DeviceRemoved
  <2>3. CASE DeviceConnected(r)
    <3>1. /\ Note("connected", r) \in SignalNotes /\ Note("connected", r).r = r /\ Note("connected", r).kind = "connected"
          /\ signals' = Append(signals, Note("connected", r))
      BY <2>3 DEF DeviceConnected, Signalled, Note, SignalNotes
    <3>. QED  BY <2>3, <3>1 DEF DeviceConnected
  <2>4. CASE DeviceUnpairs(r)
    <3>1. /\ Note("unpairs", r) \in SignalNotes /\ Note("unpairs", r).r = r /\ Note("unpairs", r).kind = "unpairs"
          /\ signals' = Append(signals, Note("unpairs", r))
      BY <2>4 DEF DeviceUnpairs, Signalled, Note, SignalNotes
    <3>. QED  BY <2>4, <3>1 DEF DeviceUnpairs
  <2>. QED  BY <2>1, <2>2, <2>3, <2>4
<1>2. UNCHANGED <<meta, open, keys, linkKnown, line, apart>>
  BY DEF DeviceAdded, DeviceRemoved, DeviceConnected, DeviceUnpairs, Signalled
<1>3. /\ SignalsRight(signals', devs') /\ LineRight(signals', line, devs', apart.missed)
      /\ KnownRight(signals', line, devs', linkKnown, apart) /\ signals' \in Seq(SignalNotes)
  BY <1>1, SignalSent
<1>4. stream' \subseteq stream /\ stream \subseteq BleRemotes /\ stream' \subseteq devs' /\ devs' \in SUBSET BleRemotes
  BY <1>1
<1>5. StreamKnown(line, stream', meta, linkKnown) /\ EndKnown(line, stream', linkKnown) /\ Held(line, stream', keys, apart)
  BY <1>4, Fewer
<1>. QED  BY <1>2, <1>3, <1>4, <1>5 DEF FdsOwned

\* The GLib thread.
LEMMA SignalKeeps == LinkInv /\ (AddedSignal \/ RemovedSignal \/ PropertyChanged) => LinkInv'
<1>. SUFFICES ASSUME LinkInv, AddedSignal \/ RemovedSignal \/ PropertyChanged PROVE LinkInv'
  OBVIOUS
<1>. USE DEF LinkInv, LinkTypes
<1>. DEFINE h == Head(signals)
            r == h.r
<1>1. signals # <<>> /\ signals' = Tail(signals) /\ UNCHANGED <<devs, keys, linkKnown, stream>>
  BY DEF AddedSignal, RemovedSignal, PropertyChanged, Hears
<1>2. /\ h \in SignalNotes /\ r \in BleRemotes /\ signals' \in Seq(SignalNotes)
      /\ Note("paired", r) \in LineNotes /\ Note("unpaired", r) \in LineNotes
      /\ Note("connected", r) \in LineNotes /\ Note("unpairs", r) \in LineNotes
  <2>1. h \in SignalNotes /\ signals' \in Seq(SignalNotes)
    BY <1>1, TakenNote
  <2>2. r \in BleRemotes
    BY <2>1 DEF SignalNotes
  <2>. HIDE DEF h, r
  <2>. QED  BY <2>1, <2>2 DEF LineNotes, Note
<1>3. \A q \in BleRemotes : InputClosed(r)[q] = IF q = r /\ meta[r] = "open" THEN 0 ELSE open[q]
  BY <1>2 DEF InputClosed, FdsOwned
<1>4. InputClosed(r) \in [BleRemotes -> Int]
  BY <1>2 DEF InputClosed
<1>5. CASE AddedSignal
  <2>1. PICK proxies \in BOOLEAN :
            /\ h.kind = "added" /\ open' = InputClosed(r)
            /\ meta' = [meta EXCEPT ![r] = IF proxies THEN "closed" ELSE "none"]
            /\ IF proxies THEN PushLine("paired", r) ELSE UNCHANGED line
            /\ apart' = [apart EXCEPT !.missed = IF proxies THEN @ \ {r} ELSE @ \cup {r}]
    BY <1>5 DEF AddedSignal, Hears, Named
  <2>2. /\ apart' \in Aparts /\ apart'.lost = apart.lost /\ apart'.deaf = apart.deaf
        /\ apart'.missed = IF proxies THEN apart.missed \ {r} ELSE apart.missed \cup {r}
    BY <1>2, <2>1 DEF Aparts
  <2>3. /\ meta' \in [BleRemotes -> {"none", "closed", "open"}]
        /\ \A q \in BleRemotes : q # r => meta'[q] = meta[q]
        /\ meta'[r] = IF proxies THEN "closed" ELSE "none"
    BY <1>2, <2>1
  <2>4. FdsOwned' /\ open' \in [BleRemotes -> Int]
    <3>1. ASSUME NEW q \in BleRemotes PROVE open'[q] = IF meta'[q] = "open" THEN 1 ELSE 0
      BY <1>3, <2>1, <2>3 DEF FdsOwned
    <3>. QED  BY <1>4, <2>1, <3>1 DEF FdsOwned
  <2>. HIDE DEF h, r
  <2>5. CASE proxies
    <3>. DEFINE m == Note("paired", r)
    <3>1. m \in LineNotes /\ m.kind = "paired" /\ m.r = r /\ line' = Append(line, m)
      BY <1>2, <2>1, <2>5 DEF PushLine, Note
    <3>. HIDE DEF m
    <3>2. line' \in Seq(LineNotes)
      BY <3>1, AppendedNote
    <3>3. /\ SignalsRight(signals', devs) /\ LineRight(signals', line', devs, apart'.missed)
          /\ KnownRight(signals', line', devs, linkKnown, apart')
      BY <1>1, <2>1, <2>2, <2>5, <3>1, SignalHeard DEF h, r
    <3>4. MetaPaired(line', meta') /\ StreamKnown(line', stream, meta', linkKnown)
      BY <2>3, <3>1, PairGets
    <3>5. OneVoice(line', keys) /\ EndKnown(line', stream, linkKnown) /\ Held(line', stream, keys, apart)
      <4>1. m.kind \notin Voices
        BY <3>1 DEF Voices
      <4>. QED  BY <3>1, <4>1, LineGets
    <3>6. Held(line', stream, keys, apart')
      BY <2>2, <3>5 DEF Held
    <3>. QED  BY <1>1, <1>2, <2>2, <2>3, <2>4, <3>2, <3>3, <3>4, <3>5, <3>6
  <2>6. CASE ~proxies
    <3>. DEFINE m == Note("paired", r)
    <3>1. m \in LineNotes /\ m.kind = "paired" /\ m.r = r /\ line' = line
      BY <1>2, <2>1, <2>6 DEF Note
    <3>. HIDE DEF m
    <3>3. /\ SignalsRight(signals', devs) /\ LineRight(signals', line, devs, apart'.missed)
          /\ KnownRight(signals', line, devs, linkKnown, apart')
      <4>1. /\ m.r = Head(signals).r /\ Head(signals).kind = "added"
            /\ apart'.missed = apart.missed \cup {m.r} /\ apart'.lost = apart.lost
        BY <2>1, <2>2, <2>6, <3>1 DEF h, r
      <4>. QED  BY <1>1, <3>1, <4>1, SignalHeard
    <3>4. MetaPaired(line, meta') /\ StreamKnown(line, stream, meta', linkKnown)
      <4>1. \A q \in BleRemotes : meta'[q] # "none" => meta[q] # "none"
        BY <2>3, <2>6
      <4>. QED  BY <4>1, Fewer
    <3>6. Held(line, stream, keys, apart')
      BY <2>2 DEF Held
    <3>. QED  BY <1>1, <1>2, <2>2, <2>3, <2>4, <3>1, <3>3, <3>4, <3>6
  <2>. QED  BY <2>5, <2>6
<1>6. CASE RemovedSignal
  <2>1. /\ h.kind = "removed" /\ open' = InputClosed(r) /\ meta' = [meta EXCEPT ![r] = "none"]
        /\ PushLine("unpaired", r) /\ UNCHANGED apart
    BY <1>6 DEF RemovedSignal, Hears, Named
  <2>3. /\ meta' \in [BleRemotes -> {"none", "closed", "open"}]
        /\ \A q \in BleRemotes : q # r => meta'[q] = meta[q]
        /\ meta'[r] = "none"
    BY <1>2, <2>1
  <2>4. FdsOwned' /\ open' \in [BleRemotes -> Int]
    <3>1. ASSUME NEW q \in BleRemotes PROVE open'[q] = IF meta'[q] = "open" THEN 1 ELSE 0
      BY <1>3, <2>1, <2>3 DEF FdsOwned
    <3>. QED  BY <1>4, <2>1, <3>1 DEF FdsOwned
  <2>. HIDE DEF h, r
  <2>. DEFINE m == Note("unpaired", r)
  <2>5. m \in LineNotes /\ m.kind = "unpaired" /\ m.r = r /\ line' = Append(line, m)
    BY <1>2, <2>1 DEF PushLine, Note
  <2>. HIDE DEF m
  <2>6. line' \in Seq(LineNotes)
    BY <2>5, AppendedNote
  <2>7. /\ SignalsRight(signals', devs) /\ LineRight(signals', line', devs, apart.missed)
        /\ KnownRight(signals', line', devs, linkKnown, apart)
    BY <1>1, <2>1, <2>5, SignalHeard DEF h, r
  <2>8. MetaPaired(line', meta') /\ StreamKnown(line', stream, meta', linkKnown)
    BY <2>3, <2>5, PairGets
  <2>9. OneVoice(line', keys) /\ EndKnown(line', stream, linkKnown) /\ Held(line', stream, keys, apart)
    <3>1. m.kind \notin Voices
      BY <2>5 DEF Voices
    <3>. QED  BY <2>5, <3>1, LineGets
  <2>. QED  BY <1>1, <1>2, <2>1, <2>3, <2>4, <2>6, <2>7, <2>8, <2>9
<1>7. CASE PropertyChanged
  <2>. DEFINE closes == h.kind = "connected" /\ meta[r] = "open"
  <2>1. /\ h.kind \in {"connected", "unpairs"} /\ open' = (IF closes THEN InputClosed(r) ELSE open)
        /\ meta' = IF closes THEN [meta EXCEPT ![r] = "closed"] ELSE meta
        /\ PushLine(h.kind, r) /\ UNCHANGED apart
    BY <1>7 DEF PropertyChanged, Hears, Named
  <2>3. /\ meta' \in [BleRemotes -> {"none", "closed", "open"}]
        /\ \A q \in BleRemotes : meta'[q] = IF closes /\ q = r THEN "closed" ELSE meta[q]
    BY <1>2, <2>1
  <2>4. FdsOwned' /\ open' \in [BleRemotes -> Int]
    <3>1. ASSUME NEW q \in BleRemotes PROVE open'[q] = IF meta'[q] = "open" THEN 1 ELSE 0
      BY <1>3, <2>1, <2>3 DEF FdsOwned
    <3>. QED  BY <1>4, <2>1, <3>1 DEF FdsOwned
  <2>. HIDE DEF h, r
  <2>. DEFINE m == Note(h.kind, r)
  <2>5. m \in LineNotes /\ m.kind = h.kind /\ m.r = r /\ line' = Append(line, m)
    BY <1>2, <2>1 DEF PushLine, Note
  <2>. HIDE DEF m
  <2>6. line' \in Seq(LineNotes) /\ m.kind \notin Pairs /\ m.kind \notin Voices /\ h.kind \notin Adds
    BY <2>1, <2>5, AppendedNote DEF Pairs, Voices, Adds
  <2>7. /\ SignalsRight(signals', devs) /\ LineRight(signals', line', devs, apart.missed)
        /\ KnownRight(signals', line', devs, linkKnown, apart)
    BY <1>1, <2>1, <2>5, <2>6, SignalHeard DEF h, r
  <2>8. MetaPaired(line', meta') /\ StreamKnown(line', stream, meta', linkKnown)
    <3>1. MetaPaired(line', meta) /\ StreamKnown(line', stream, meta, linkKnown)
      BY <2>5, <2>6, OtherGets
    <3>2. \A q \in BleRemotes : meta'[q] # "none" => meta[q] # "none"
      BY <2>3
    <3>. QED  BY <3>1, <3>2, Fewer
  <2>9. OneVoice(line', keys) /\ EndKnown(line', stream, linkKnown) /\ Held(line', stream, keys, apart)
    BY <2>5, <2>6, LineGets
  <2>. QED  BY <1>1, <1>2, <2>1, <2>3, <2>4, <2>6, <2>7, <2>8, <2>9
<1>. QED  BY <1>5, <1>6, <1>7

\* The key thread, and the ends of the infrared calls.
LEMMA KeysKeep == LinkInv /\ (IrResult \/ FindInputs \/ KeyRead \/ KeyRound) => LinkInv'
<1>. SUFFICES ASSUME LinkInv, IrResult \/ FindInputs \/ KeyRead \/ KeyRound PROVE LinkInv'
  OBVIOUS
<1>. USE DEF LinkInv, LinkTypes
<1>1. CASE IrResult
  <2>1. PICK m \in LineNotes : m.kind \notin Pairs /\ m.kind \notin Voices /\ line' = Append(line, m)
    <3>1. PICK state \in {"complete", "failed"} : PushLine(state, "any")
      BY <1>1 DEF IrResult
    <3>2. /\ Note(state, "any") \in LineNotes /\ Note(state, "any").kind = state
          /\ line' = Append(line, Note(state, "any"))
      BY <3>1 DEF PushLine, Note, LineNotes
    <3>. QED  BY <3>2 DEF Pairs, Voices
  <2>2. line' \in Seq(LineNotes)
    BY <2>1, AppendedNote
  <2>3. UNCHANGED <<devs, signals, meta, open, keys, linkKnown, stream, apart>>
    BY <1>1 DEF IrResult
  <2>4. /\ LineRight(signals, line', devs, apart.missed) /\ KnownRight(signals, line', devs, linkKnown, apart)
        /\ MetaPaired(line', meta) /\ StreamKnown(line', stream, meta, linkKnown)
    BY <2>1, OtherGets
  <2>5. OneVoice(line', keys) /\ EndKnown(line', stream, linkKnown) /\ Held(line', stream, keys, apart)
    BY <2>1, LineGets
  <2>. QED  BY <2>2, <2>3, <2>4, <2>5 DEF FdsOwned
<1>2. CASE FindInputs
  <2>1. PICK found \in SUBSET {r \in BleRemotes : meta[r] = "closed" /\ r \in devs} :
            /\ keys.pc = "find"
            /\ meta' = [r \in BleRemotes |-> IF r \in found THEN "open" ELSE meta[r]]
            /\ open' = [r \in BleRemotes |-> IF r \in found THEN open[r] + 1 ELSE open[r]]
            /\ keys' = [keys EXCEPT !.pc = "read", !.copy = {r \in BleRemotes : meta'[r] = "open"}]
    BY <1>2 DEF FindInputs
  <2>2. UNCHANGED <<devs, signals, linkKnown, line, stream, apart>>
    BY <1>2 DEF FindInputs
  <2>3. PICK new \in SUBSET BleRemotes : new = {r \in BleRemotes : meta'[r] = "open"}
    OBVIOUS
  <2>4. keys' \in KeyThread /\ keys'.pc = "read" /\ keys'.pressed = keys.pressed
    BY <2>1, <2>3 DEF KeyThread
  <2>5. meta' \in [BleRemotes -> {"none", "closed", "open"}] /\ open' \in [BleRemotes -> Int]
    BY <2>1
  <2>6. FdsOwned'
    <3>1. ASSUME NEW r \in BleRemotes PROVE open'[r] = IF meta'[r] = "open" THEN 1 ELSE 0
      BY <2>1 DEF FdsOwned
    <3>. QED  BY <3>1 DEF FdsOwned
  <2>7. MetaPaired(line, meta') /\ StreamKnown(line, stream, meta', linkKnown)
    <3>1. \A r \in BleRemotes : meta'[r] # "none" => meta[r] # "none"
      BY <2>1
    <3>. QED  BY <3>1, Fewer
  <2>8. OneVoice(line, keys') /\ Held(line, stream, keys', apart)
    <3>1. OneVoice(line, keys')
      BY <2>1, <2>4 DEF OneVoice
    <3>2. Held(line, stream, keys', apart)
      BY <2>4 DEF Held
    <3>. QED  BY <3>1, <3>2
  <2>. QED  BY <2>2, <2>4, <2>5, <2>6, <2>7, <2>8
<1>3. CASE KeyRead
  <2>1. PICK r \in keys.copy, event \in {"voice", "key", "nothing"} :
            /\ keys.pc = "read"
            /\ event # "nothing" => meta[r] = "open"
            /\ IF event = "voice"
               THEN /\ PushLine(IF r \in keys.pressed THEN "voice_end" ELSE "voice_begin", r)
                    /\ keys' = [keys EXCEPT !.pc = "waits", !.copy = @ \ {r},
                                            !.pressed = IF r \in @ THEN @ \ {r} ELSE @ \cup {r}]
               ELSE /\ keys' = [keys EXCEPT !.copy = @ \ {r}]
                    /\ IF event = "key" THEN PushLine("key", r) ELSE UNCHANGED line
    BY <1>3 DEF KeyRead
  <2>2. UNCHANGED <<devs, signals, meta, open, linkKnown, stream, apart>>
    BY <1>3 DEF KeyRead
  <2>3. r \in BleRemotes /\ keys.copy \ {r} \in SUBSET BleRemotes
    BY <2>1 DEF KeyThread
  <2>4. CASE event = "voice"
    <3>1. PICK m \in LineNotes : /\ m.kind = (IF r \in keys.pressed THEN "voice_end" ELSE "voice_begin")
                                 /\ m.r = r /\ line' = Append(line, m)
      <4>1. CASE r \in keys.pressed
        <5>1. /\ Note("voice_end", r) \in LineNotes /\ Note("voice_end", r).kind = "voice_end"
              /\ Note("voice_end", r).r = r /\ line' = Append(line, Note("voice_end", r))
          BY <2>1, <2>3, <2>4, <4>1 DEF PushLine, Note, LineNotes
        <5>. QED  BY <4>1, <5>1
      <4>2. CASE r \notin keys.pressed
        <5>1. /\ Note("voice_begin", r) \in LineNotes /\ Note("voice_begin", r).kind = "voice_begin"
              /\ Note("voice_begin", r).r = r /\ line' = Append(line, Note("voice_begin", r))
          BY <2>1, <2>3, <2>4, <4>2 DEF PushLine, Note, LineNotes
        <5>. QED  BY <4>2, <5>1
      <4>. QED  BY <4>1, <4>2
    <3>. DEFINE now == IF r \in keys.pressed THEN keys.pressed \ {r} ELSE keys.pressed \cup {r}
    <3>2. now \in SUBSET BleRemotes
      <4>1. keys.pressed \in SUBSET BleRemotes
        BY DEF KeyThread
      <4>. QED  BY <2>3, <4>1
    <3>3. keys' \in KeyThread /\ keys'.pc = "waits" /\ keys'.pressed = now
      <4>1. keys' = [keys EXCEPT !.pc = "waits", !.copy = keys.copy \ {r}, !.pressed = now]
        BY <2>1, <2>4
      <4>. HIDE DEF now
      <4>. QED  BY <2>3, <3>2, <4>1 DEF KeyThread
    <3>4. m.kind \in Voices /\ m.kind \notin Pairs /\ meta[m.r] # "none" /\ line' \in Seq(LineNotes)
      BY <2>1, <2>4, <3>1, AppendedNote DEF Voices, Pairs
    <3>5. keys'.pressed = IF m.kind = "voice_end" THEN keys.pressed \ {m.r} ELSE keys.pressed \cup {m.r}
      BY <3>1, <3>2, <3>3
    <3>6. /\ LineRight(signals, line', devs, apart.missed) /\ KnownRight(signals, line', devs, linkKnown, apart)
          /\ MetaPaired(line', meta) /\ StreamKnown(line', stream, meta, linkKnown)
      BY <3>1, <3>4, OtherGets
    <3>7. OneVoice(line', keys') /\ EndKnown(line', stream, linkKnown) /\ Held(line', stream, keys', apart)
      <4>1. keys.pc = "read" /\ stream \subseteq BleRemotes
        BY <2>1
      <4>. QED  BY <3>1, <3>3, <3>4, <3>5, <4>1, VoiceGets
    <3>. QED  BY <2>2, <3>3, <3>4, <3>6, <3>7 DEF FdsOwned
  <2>5. CASE event # "voice"
    <3>1. keys' \in KeyThread /\ keys'.pc = keys.pc /\ keys'.pressed = keys.pressed
      BY <2>1, <2>3, <2>5 DEF KeyThread
    <3>2. /\ line' \in Seq(LineNotes)
          /\ LineRight(signals, line', devs, apart.missed) /\ KnownRight(signals, line', devs, linkKnown, apart)
          /\ MetaPaired(line', meta) /\ StreamKnown(line', stream, meta, linkKnown)
          /\ OneVoice(line', keys) /\ EndKnown(line', stream, linkKnown) /\ Held(line', stream, keys, apart)
      <4>1. CASE event = "key"
        <5>1. /\ Note("key", r) \in LineNotes /\ Note("key", r).kind = "key" /\ line' = Append(line, Note("key", r))
          BY <2>1, <2>3, <2>5, <4>1 DEF PushLine, Note, LineNotes
        <5>2. Note("key", r).kind \notin Pairs /\ Note("key", r).kind \notin Voices
          BY <5>1 DEF Pairs, Voices
        <5>3. line' \in Seq(LineNotes)
          BY <5>1, AppendedNote
        <5>4. /\ LineRight(signals, line', devs, apart.missed) /\ KnownRight(signals, line', devs, linkKnown, apart)
              /\ MetaPaired(line', meta) /\ StreamKnown(line', stream, meta, linkKnown)
          BY <5>1, <5>2, OtherGets
        <5>5. OneVoice(line', keys) /\ EndKnown(line', stream, linkKnown) /\ Held(line', stream, keys, apart)
          BY <5>1, <5>2, LineGets
        <5>. QED  BY <5>3, <5>4, <5>5
      <4>2. CASE event # "key"
        BY <2>1, <2>5, <4>2
      <4>. QED  BY <4>1, <4>2
    <3>3. OneVoice(line', keys') /\ Held(line', stream, keys', apart)
      <4>1. OneVoice(line', keys')
        BY <3>1, <3>2 DEF OneVoice
      <4>2. Held(line', stream, keys', apart)
        BY <3>1, <3>2 DEF Held
      <4>. QED  BY <4>1, <4>2
    <3>. QED  BY <2>2, <3>1, <3>2, <3>3 DEF FdsOwned
  <2>. QED  BY <2>4, <2>5
<1>4. CASE KeyRound
  <2>1. UNCHANGED <<devs, signals, meta, open, linkKnown, line, stream, apart>>
    BY <1>4 DEF KeyRound
  <2>2. keys' \in KeyThread /\ keys.pc = "read" /\ keys'.pc = "find" /\ keys'.pressed = keys.pressed
    BY <1>4 DEF KeyRound, KeyThread
  <2>3. OneVoice(line, keys') /\ Held(line, stream, keys', apart)
    <3>1. OneVoice(line, keys')
      BY <2>2 DEF OneVoice
    <3>2. Held(line, stream, keys', apart)
      BY <2>2 DEF Held
    <3>. QED  BY <3>1, <3>2
  <2>. QED  BY <2>1, <2>2, <2>3 DEF FdsOwned
<1>. QED  BY <1>1, <1>2, <1>3, <1>4

\* The main thread takes a message.
LEMMA MessageKeeps ==
    LinkInv /\ (LinkPaired \/ LinkUnpaired \/ IrStatus \/ RcuStatus \/ VoiceBegin \/ VoiceEnd) => LinkInv'
<1>. SUFFICES ASSUME LinkInv, LinkPaired \/ LinkUnpaired \/ IrStatus \/ RcuStatus \/ VoiceBegin \/ VoiceEnd
              PROVE  LinkInv'
  OBVIOUS
<1>. USE DEF LinkInv, LinkTypes
<1>. DEFINE h == Head(line)
<1>1. line # <<>> /\ line' = Tail(line) /\ UNCHANGED <<meta, open>>
  BY DEF LinkPaired, LinkUnpaired, IrStatus, RcuStatus, VoiceBegin, VoiceEnd, Brings
<1>2. /\ h \in LineNotes /\ line' \in Seq(LineNotes) /\ h = line[1] /\ 1 \in 1..Len(line)
      /\ \A i \in 1..Len(line) : ~(i < 1)
  BY <1>1, TakenNote
<1>3. /\ LineRight(signals, line', devs, apart.missed) /\ MetaPaired(line', meta)
      /\ h.kind \notin Voices => OneVoice(line', keys)
      /\ h.kind \in Voices =>
            /\ \A i \in 1..Len(line') : line'[i].kind \notin Voices
            /\ keys.pc = "waits"
      /\ h.kind = "voice_begin" => h.r \in keys.pressed
  BY <1>1, LineTaken
<1>4. \A r \in stream : \/ r \in keys.pressed \/ r \in apart.deaf
                        \/ \E i \in 1..Len(line') : line'[i].kind = "voice_end" /\ line'[i].r = r
                        \/ h.kind = "voice_end" /\ h.r = r
  BY <1>1, HeldTaken
<1>5. h.kind # "voice_end" => Held(line', stream, keys, apart)
  BY <1>4 DEF Held
<1>6. h.kind \in {"paired", "unpaired", "connected", "unpairs", "key", "voice_begin", "voice_end"} => h.r \in BleRemotes
  BY <1>2 DEF LineNotes
<1>7. FdsOwned'
  BY <1>1 DEF FdsOwned
<1>8. ASSUME KnownAfter(h, stream, linkKnown, linkKnown')
      PROVE  StreamKnown(line', stream, meta, linkKnown') /\ EndKnown(line', stream, linkKnown')
  <2>1. stream \subseteq BleRemotes
    OBVIOUS
  <2>. QED  BY <1>1, <1>8, <2>1, StreamTaken
<1>9. ASSUME h.kind \notin Pairs
      PROVE  KnownRight(signals, line', devs, linkKnown, apart)
  BY <1>1, <1>9, KnownTaken
<1>10. ASSUME UNCHANGED linkKnown, h.kind \notin Pairs
       PROVE  KnownAfter(h, stream, linkKnown, linkKnown')
  BY <1>10 DEF KnownAfter, Pairs
<1>11. CASE LinkPaired
  <2>1. PICK told \in BOOLEAN :
            /\ h.kind = "paired"
            /\ linkKnown' = IF told THEN (linkKnown \cup {h.r}) \cap devs ELSE linkKnown \cup {h.r}
            /\ apart' = [apart EXCEPT !.lost = IF told THEN {} ELSE @]
    BY <1>11 DEF LinkPaired, Brings, Whose
  <2>2. UNCHANGED <<devs, signals, keys, stream>>
    BY <1>11 DEF LinkPaired
  <2>3. /\ apart' \in Aparts /\ apart'.missed = apart.missed /\ apart'.deaf = apart.deaf
        /\ apart'.lost = IF told THEN {} ELSE apart.lost
    BY <2>1 DEF Aparts
  <2>. HIDE DEF h
  <2>4. KnownRight(signals, line', devs, linkKnown', apart')
    <3>1. \/ h.kind = "paired" /\ linkKnown' = linkKnown \cup {h.r} /\ apart'.lost = apart.lost
          \/ h.kind = "paired" /\ linkKnown' = (linkKnown \cup {h.r}) \cap devs /\ apart'.lost = {}
      BY <2>1, <2>3
    <3>. QED  BY <1>1, <2>3, <3>1, KnownTaken DEF h
  <2>5. KnownAfter(h, stream, linkKnown, linkKnown')
    BY <2>1 DEF KnownAfter
  <2>6. OneVoice(line', keys) /\ Held(line', stream, keys, apart') /\ linkKnown' \in SUBSET BleRemotes
    BY <1>3, <1>5, <1>6, <2>1, <2>3 DEF Voices, Held
  <2>. QED  BY <1>1, <1>2, <1>3, <1>7, <1>8, <2>2, <2>3, <2>4, <2>5, <2>6
<1>12. CASE LinkUnpaired
  <2>1. h.kind = "unpaired" /\ linkKnown' = linkKnown \ {h.r} /\ UNCHANGED <<devs, signals, keys, stream, apart>>
    BY <1>12 DEF LinkUnpaired, Brings, Whose
  <2>. HIDE DEF h
  <2>2. KnownRight(signals, line', devs, linkKnown', apart)
    BY <1>1, <2>1, KnownTaken DEF h
  <2>3. KnownAfter(h, stream, linkKnown, linkKnown')
    BY <2>1 DEF KnownAfter
  <2>4. OneVoice(line', keys) /\ Held(line', stream, keys, apart) /\ linkKnown' \in SUBSET BleRemotes
    BY <1>3, <1>5, <2>1 DEF Voices
  <2>. QED  BY <1>1, <1>2, <1>3, <1>7, <1>8, <2>1, <2>2, <2>3, <2>4
<1>13. CASE IrStatus
  <2>1. h.kind \in {"waiting", "complete", "failed"} /\ UNCHANGED <<devs, signals, keys, linkKnown, stream, apart>>
    BY <1>13 DEF IrStatus, Brings
  <2>2. h.kind \notin Pairs /\ h.kind \notin Voices /\ h.kind # "voice_end"
    BY <2>1 DEF Pairs, Voices
  <2>. QED  BY <1>1, <1>2, <1>3, <1>5, <1>7, <1>8, <1>9, <1>10, <2>1, <2>2
<1>14. CASE RcuStatus
  <2>1. /\ h.kind \in {"connected", "unpairs", "key"} /\ UNCHANGED <<keys, linkKnown, apart>>
        /\ \/ Unpair(h.r) /\ h.kind = "unpairs"
           \/ UNCHANGED <<devs, stream, signals>>
    BY <1>14 DEF RcuStatus, Brings, Whose
  <2>2. h.kind \notin Pairs /\ h.kind \notin Voices /\ h.kind # "voice_end"
    BY <2>1 DEF Pairs, Voices
  <2>3. /\ LineRight(signals, line', devs, apart.missed) /\ KnownRight(signals, line', devs, linkKnown, apart)
        /\ StreamKnown(line', stream, meta, linkKnown) /\ EndKnown(line', stream, linkKnown)
        /\ OneVoice(line', keys) /\ Held(line', stream, keys, apart)
    BY <1>3, <1>5, <1>8, <1>9, <1>10, <2>1, <2>2
  <2>4. CASE UNCHANGED <<devs, stream, signals>>
    BY <1>1, <1>2, <1>3, <1>7, <2>1, <2>3, <2>4
  <2>5. CASE /\ devs' = devs \ {h.r} /\ stream' = stream \ {h.r} /\ h.kind = "unpairs"
             /\ signals' = Append(signals, Note("removed", h.r))
    <3>1. PICK m \in SignalNotes : m.kind = "removed" /\ m.r = h.r /\ signals' = Append(signals, m)
      <4>. DEFINE w == h.r
      <4>1. w \in BleRemotes /\ signals' = Append(signals, Note("removed", w))
        BY <1>6, <2>5
      <4>. HIDE DEF w
      <4>2. /\ Note("removed", w) \in SignalNotes /\ Note("removed", w).kind = "removed"
            /\ Note("removed", w).r = w
        BY <4>1 DEF Note, SignalNotes
      <4>. QED  BY <4>1, <4>2 DEF w
    <3>2. devs' = IF m.kind = "added" THEN devs \cup {m.r} ELSE IF m.kind = "removed" THEN devs \ {m.r} ELSE devs
      BY <2>5, <3>1
    <3>3. /\ SignalsRight(signals', devs') /\ LineRight(signals', line', devs', apart.missed)
          /\ KnownRight(signals', line', devs', linkKnown, apart) /\ signals' \in Seq(SignalNotes)
      BY <2>3, <3>1, <3>2, SignalSent
    <3>4. stream' \subseteq stream /\ stream \subseteq BleRemotes /\ stream' \subseteq devs' /\ devs' \in SUBSET BleRemotes
      BY <2>5
    <3>5. StreamKnown(line', stream', meta, linkKnown) /\ EndKnown(line', stream', linkKnown) /\ Held(line', stream', keys, apart)
      BY <2>3, <3>4, Fewer
    <3>. QED  BY <1>1, <1>2, <1>3, <1>7, <2>1, <2>3, <3>3, <3>4, <3>5
  <2>. QED  BY <2>1, <2>4, <2>5 DEF Unpair
<1>15. CASE VoiceBegin
  <2>1. PICK streams \in BOOLEAN :
            /\ h.kind = "voice_begin"
            /\ stream' = IF h.r \notin linkKnown THEN stream
                         ELSE IF streams THEN StartAudioStream(h.r) ELSE StopAudioStream(h.r)
            /\ keys' = [keys EXCEPT !.pc = "read"]
    BY <1>15 DEF VoiceBegin, Brings, Whose
  <2>2. UNCHANGED <<devs, signals, linkKnown, apart>>
    BY <1>15 DEF VoiceBegin
  <2>3. h.kind \notin Pairs /\ h.kind \in Voices /\ h.kind # "voice_end" /\ h.r \in BleRemotes /\ h.r \in keys.pressed
    BY <1>3, <1>6, <2>1 DEF Pairs, Voices
  <2>4. keys' \in KeyThread /\ keys'.pc = "read" /\ keys'.pressed = keys.pressed
    BY <2>1 DEF KeyThread
  <2>5. \A i \in 1..Len(line') : line'[i].kind \notin Voices
    BY <1>3, <2>3
  <2>6. OneVoice(line', keys') /\ EndKnown(line', stream', linkKnown)
    <3>1. OneVoice(line', keys')
      BY <2>4, <2>5 DEF OneVoice, Voices
    <3>2. EndKnown(line', stream', linkKnown)
      BY <2>5 DEF EndKnown, Voices
    <3>. QED  BY <3>1, <3>2
  <2>7. KnownRight(signals, line', devs, linkKnown, apart) /\ StreamKnown(line', stream, meta, linkKnown)
        /\ Held(line', stream, keys, apart)
    BY <1>5, <1>8, <1>9, <1>10, <2>2, <2>3
  <2>8. /\ \A r \in stream' : r \in stream \/ (r = h.r /\ r \in linkKnown /\ r \in devs)
        /\ stream' \in SUBSET BleRemotes /\ stream' \subseteq devs
    BY <2>1, <2>3 DEF StartAudioStream, StopAudioStream, Reaches
  <2>. HIDE DEF h
  <2>9. StreamKnown(line', stream', meta, linkKnown) /\ Held(line', stream', keys', apart)
    <3>1. StreamKnown(line', stream', meta, linkKnown)
      BY <2>7, <2>8 DEF StreamKnown
    <3>2. Held(line', stream', keys', apart)
      BY <2>3, <2>4, <2>7, <2>8 DEF Held
    <3>. QED  BY <3>1, <3>2
  <2>. QED  BY <1>1, <1>2, <1>3, <1>7, <2>2, <2>4, <2>6, <2>7, <2>8, <2>9
<1>16. CASE VoiceEnd
  <2>1. /\ h.kind = "voice_end" /\ keys' = [keys EXCEPT !.pc = "read"]
        /\ stream' = IF h.r \in linkKnown THEN StopAudioStream(h.r) ELSE stream
        /\ apart' = [apart EXCEPT !.deaf = IF Reaches(h.r) THEN @ ELSE @ \cup {h.r}]
        /\ UNCHANGED <<devs, signals, linkKnown>>
    BY <1>16 DEF VoiceEnd, Brings, Whose
  <2>2. h.kind \notin Pairs /\ h.kind \in Voices /\ h.r \in BleRemotes
    BY <1>6, <2>1 DEF Pairs, Voices
  <2>3. keys' \in KeyThread /\ keys'.pc = "read" /\ keys'.pressed = keys.pressed
    BY <2>1 DEF KeyThread
  <2>. DEFINE new == IF Reaches(h.r) THEN apart.deaf ELSE apart.deaf \cup {h.r}
  <2>4. new \in SUBSET BleRemotes /\ apart.deaf \subseteq new /\ (~Reaches(h.r) => h.r \in new)
    <3>1. apart.deaf \in SUBSET BleRemotes
      BY DEF Aparts
    <3>. HIDE DEF h
    <3>. QED  BY <2>2, <3>1
  <2>5. apart' \in Aparts /\ apart'.lost = apart.lost /\ apart'.missed = apart.missed /\ apart'.deaf = new
    <3>1. apart' = [apart EXCEPT !.deaf = new]
      BY <2>1
    <3>. HIDE DEF new
    <3>. QED  BY <2>4, <3>1 DEF Aparts
  <2>. HIDE DEF new
  <2>6. \A i \in 1..Len(line') : line'[i].kind \notin Voices
    BY <1>3, <2>2
  <2>7. OneVoice(line', keys') /\ EndKnown(line', stream', linkKnown)
    <3>1. OneVoice(line', keys')
      BY <2>3, <2>6 DEF OneVoice, Voices
    <3>2. EndKnown(line', stream', linkKnown)
      BY <2>6 DEF EndKnown, Voices
    <3>. QED  BY <3>1, <3>2
  <2>8. KnownRight(signals, line', devs, linkKnown, apart) /\ StreamKnown(line', stream, meta, linkKnown)
    BY <1>8, <1>9, <1>10, <2>1, <2>2
  <2>9. stream' \subseteq stream /\ stream \subseteq BleRemotes
    BY <2>1 DEF StopAudioStream
  <2>10. h.r \in stream => h.r \in linkKnown
    BY <1>2, <2>1 DEF EndKnown
  <2>11. h.r \in stream' => h.r \in new
    BY <2>1, <2>4, <2>9, <2>10 DEF StopAudioStream
  <2>. HIDE DEF h
  <2>12. Held(line', stream', keys', apart')
    <3>1. ASSUME NEW r \in stream'
          PROVE  \/ r \in keys'.pressed \/ r \in apart'.deaf
                 \/ \E i \in 1..Len(line') : line'[i].kind = "voice_end" /\ line'[i].r = r
      BY <1>4, <2>3, <2>4, <2>5, <2>9, <2>11
    <3>. QED  BY <3>1 DEF Held
  <2>13. KnownRight(signals, line', devs, linkKnown, apart') /\ StreamKnown(line', stream', meta, linkKnown)
    <3>1. KnownRight(signals, line', devs, linkKnown, apart')
      BY <2>5, <2>8 DEF KnownRight
    <3>2. StreamKnown(line', stream', meta, linkKnown)
      BY <2>8, <2>9 DEF StreamKnown
    <3>. QED  BY <3>1, <3>2
  <2>. QED  BY <1>1, <1>2, <1>3, <1>7, <2>1, <2>3, <2>5, <2>7, <2>9, <2>12, <2>13
<1>. QED  BY <1>11, <1>12, <1>13, <1>14, <1>15, <1>16

\* The main thread does what it is asked for, and the program starts again.
LEMMA OthersKeep ==
    /\ LinkInv /\ (IrRequest \/ BleFactoryReset \/ HandleDeepsleep) => LinkInv'
    /\ \A now \in SUBSET BleRemotes : \A added \in SUBSET now, told \in {{}, now} :
          LinkInv /\ LinkRestart(now, added, told) => LinkInv'
<1>. USE DEF LinkInv, LinkTypes
<1>1. ASSUME LinkInv, IrRequest PROVE LinkInv'
  <2>1. /\ Note("waiting", "any") \in LineNotes /\ Note("waiting", "any").kind = "waiting"
        /\ line' = Append(line, Note("waiting", "any"))
    BY <1>1 DEF IrRequest, PushLine, Note, LineNotes
  <2>2. Note("waiting", "any").kind \notin Pairs /\ Note("waiting", "any").kind \notin Voices
    BY <2>1 DEF Pairs, Voices
  <2>3. line' \in Seq(LineNotes)
    BY <1>1, <2>1, AppendedNote
  <2>4. UNCHANGED <<devs, signals, meta, open, keys, linkKnown, stream, apart>>
    BY <1>1 DEF IrRequest
  <2>5. /\ LineRight(signals, line', devs, apart.missed) /\ KnownRight(signals, line', devs, linkKnown, apart)
        /\ MetaPaired(line', meta) /\ StreamKnown(line', stream, meta, linkKnown)
    BY <1>1, <2>1, <2>2, OtherGets
  <2>6. OneVoice(line', keys) /\ EndKnown(line', stream, linkKnown) /\ Held(line', stream, keys, apart)
    BY <1>1, <2>1, <2>2, LineGets
  <2>. QED  BY <1>1, <2>3, <2>4, <2>5, <2>6 DEF FdsOwned
<1>2. ASSUME LinkInv, BleFactoryReset PROVE LinkInv'
  BY <1>2 DEF BleFactoryReset, FdsOwned
<1>3. ASSUME LinkInv, HandleDeepsleep PROVE LinkInv'
  <2>1. UNCHANGED <<devs, signals, keys, linkKnown, line, stream, apart>>
    BY <1>3 DEF HandleDeepsleep
  <2>2. /\ open' = [r \in BleRemotes |-> InputClosed(r)[r]]
        /\ meta' = [r \in BleRemotes |-> IF meta[r] = "open" THEN "closed" ELSE meta[r]]
    BY <1>3 DEF HandleDeepsleep
  <2>3. meta' \in [BleRemotes -> {"none", "closed", "open"}]
    BY <1>3, <2>2
  <2>4. \A r \in BleRemotes : InputClosed(r)[r] = 0
    BY <1>3 DEF InputClosed, FdsOwned
  <2>5. FdsOwned' /\ open' \in [BleRemotes -> Int]
    <3>1. \A r \in BleRemotes : open'[r] = 0 /\ meta'[r] # "open"
      BY <1>3, <2>2, <2>4
    <3>2. open' \in [BleRemotes -> Int]
      BY <2>2, <2>4
    <3>. QED  BY <3>1, <3>2 DEF FdsOwned
  <2>6. MetaPaired(line, meta') /\ StreamKnown(line, stream, meta', linkKnown)
    <3>1. \A r \in BleRemotes : meta'[r] # "none" => meta[r] # "none"
      BY <2>2
    <3>. QED  BY <1>3, <3>1, Fewer
  <2>. QED  BY <1>3, <2>1, <2>3, <2>5, <2>6
<1>4. ASSUME NEW now \in SUBSET BleRemotes, NEW added \in SUBSET now, NEW told \in {{}, now},
             LinkInv, LinkRestart(now, added, told)
      PROVE  LinkInv'
  <2>1. /\ devs' = now /\ signals' = <<>> /\ line' = <<>> /\ stream' = {} /\ keys' = NoKeys
        /\ meta' = [r \in BleRemotes |-> IF r \in added THEN "closed" ELSE "none"]
        /\ open' = [r \in BleRemotes |-> 0]
        /\ linkKnown' = linkKnown \cup told
        /\ apart' = [lost |-> linkKnown \ now, missed |-> now \ told, deaf |-> {}]
    BY <1>4 DEF LinkRestart
  <2>2. told \in SUBSET now /\ linkKnown \in SUBSET BleRemotes
    BY <1>4
  <2>3. \A i \in 1..Len(<<>>) : FALSE
    OBVIOUS
  <2>4. /\ devs' \in SUBSET BleRemotes /\ linkKnown' \in SUBSET BleRemotes /\ stream' \in SUBSET BleRemotes
        /\ signals' \in Seq(SignalNotes) /\ line' \in Seq(LineNotes)
        /\ meta' \in [BleRemotes -> {"none", "closed", "open"}] /\ open' \in [BleRemotes -> Int]
        /\ keys' \in KeyThread
    BY <1>4, <2>1, <2>2 DEF NoKeys, KeyThread
  <2>5. apart' \in Aparts /\ apart'.lost = linkKnown \ now /\ apart'.missed = now \ told
    BY <2>1, <2>2 DEF Aparts
  <2>6. FdsOwned'
    BY <2>1 DEF FdsOwned
  <2>7. SignalsRight(<<>>, now) /\ LineRight(<<>>, <<>>, now, apart'.missed)
    BY <2>3 DEF SignalsRight, LineRight
  <2>8. KnownRight(<<>>, <<>>, now, linkKnown', apart')
    BY <2>1, <2>2, <2>5 DEF KnownRight
  <2>9. OneVoice(<<>>, keys') /\ EndKnown(<<>>, {}, linkKnown')
    BY <2>1, <2>3 DEF OneVoice, EndKnown, NoKeys
  <2>10. MetaPaired(<<>>, meta') /\ StreamKnown(<<>>, {}, meta', linkKnown') /\ Held(<<>>, {}, keys', apart')
    BY <2>3 DEF MetaPaired, StreamKnown, Held
  <2>. QED  BY <2>1, <2>4, <2>5, <2>6, <2>7, <2>8, <2>9, <2>10
<1>. QED  BY <1>1, <1>2, <1>3, <1>4

\* What was found right at the start stays right.
LEMMA LinkStep == LinkInv /\ [LinkNext]_linkVars => LinkInv'
<1>1. LinkInv /\ UNCHANGED linkVars => LinkInv'
  BY DEF linkVars, LinkInv, LinkTypes, FdsOwned
<1>. QED  BY <1>1, DaemonKeeps, SignalKeeps, KeysKeep, MessageKeeps, OthersKeep DEF LinkNext, LinkMain

\* What the queues say makes the parts agree when nothing is under way.
LEMMA LinkImplies == LinkInv => LinkSound
<1>. SUFFICES ASSUME LinkInv PROVE LinkSound
  OBVIOUS
<1>. USE DEF LinkInv, LinkTypes
<1>1. DOMAIN line = 1..Len(line) /\ DOMAIN signals = 1..Len(signals)
  OBVIOUS
<1>2. ControllersAreDevices
  <2>1. ASSUME NoneOf({"added", "removed", "paired", "unpaired"}), NEW r \in BleRemotes
        PROVE  Silent(signals, Adds, r) /\ Silent(line, Pairs, r)
    BY <1>1, <2>1 DEF NoneOf, Silent, Adds, Pairs
  <2>. QED  BY <2>1 DEF ControllersAreDevices, KnownRight
<1>3. StreamsWhileHeld
  <2>1. ASSUME NEW r \in stream, NEW i \in 1..Len(line), line[i].kind = "voice_end", line[i].r = r
        PROVE  r \in {line[l].r : l \in {j \in DOMAIN line : line[j].kind = "voice_end"}}
    BY <1>1, <2>1
  <2>. QED  BY <2>1 DEF StreamsWhileHeld, Held
<1>4. KeysWaitForMain
  BY <1>1 DEF KeysWaitForMain, NoneOf, OneVoice, Voices
<1>. QED  BY <1>2, <1>3, <1>4 DEF LinkSound

\* The key thread, the D-Bus signals and the main thread of the program agree on the
\* devices of BLE remotes, whatever their number and that of the messages
\* (ble/ctrlm_hal_ble.cpp, ble/ctrlm_ble_network.cpp).
THEOREM LinksAgree == LinkSpec => []LinkSound
<1>1. LinkInit => LinkInv
  <2>. SUFFICES ASSUME LinkInit PROVE LinkInv
    OBVIOUS
  <2>. USE DEF LinkInit
  <2>1. \A i \in 1..Len(<<>>) : FALSE
    OBVIOUS
  <2>2. LinkTypes
    BY DEF LinkTypes, NoKeys, KeyThread, Aparts
  <2>3. FdsOwned
    BY DEF FdsOwned
  <2>4. SignalsRight(signals, devs) /\ LineRight(signals, line, devs, apart.missed)
    BY <2>1 DEF SignalsRight, LineRight
  <2>5. KnownRight(signals, line, devs, linkKnown, apart) /\ stream \subseteq devs
    BY DEF KnownRight
  <2>6. OneVoice(line, keys) /\ EndKnown(line, stream, linkKnown)
    BY <2>1 DEF OneVoice, EndKnown, NoKeys
  <2>7. MetaPaired(line, meta) /\ StreamKnown(line, stream, meta, linkKnown) /\ Held(line, stream, keys, apart)
    BY <2>1 DEF MetaPaired, StreamKnown, Held
  <2>. QED  BY <2>2, <2>3, <2>4, <2>5, <2>6, <2>7 DEF LinkInv
<1>. QED  BY <1>1, LinkStep, LinkImplies, PTL DEF LinkSpec

=============================================================================
