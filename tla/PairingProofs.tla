---------------------------- MODULE PairingProofs -----------------------------
(***************************************************************************)
(* What is proved of how RF4CE remotes are paired and validated: that the  *)
(* table, the validation and what is on its way to it agree, and that a    *)
(* bound controller is kept, for any remotes, ids, modes, codes and room,  *)
(* where the main thread is prompt and a request finds nothing left; and   *)
(* what of it holds still where a request may find anything.               *)
(***************************************************************************)
EXTENDS Pairing,
        FunctionTheorems, SequenceTheorems, FiniteSetTheorems, WellFoundedInduction, TLAPS

\* Where the passing run is: the main thread is prompt, and requests find nothing left.
PairingAssumption == Prompt /\ ~Leftovers

-----------------------------------------------------------------------------
(* The inductive invariant. *)

\* What waits in the queue, and the answers of the HAL that were taken.
Kinds == {"auto", "precommission", "interactive"}
Message ==
    [type : {"begin", "configured", "failed"}, id : Ids]
    \cup [type : {"paired"}, id : Ids, ieee : Remotes, ok : BOOLEAN]
    \cup [type : {"end"}, id : Ids, kind : Kinds, result : Results]
Answer == [id : Ids, ieee : Remotes, late : BOOLEAN, refused : {FALSE}]

\* A controller of the table, a timer of a failed validation, and the network that has them.
Controller ==
    [ieee : Remotes \cup {NoRemote}, result : Results, bound : BOOLEAN,
     conf : {"pending", "success"}, backup : BOOLEAN, mode : Modes \cup {"normal"}]
Failure == [id : Ids, armed : BOOLEAN]
Network ==
    [ctrl : [Ids -> Controller], binding : BOOLEAN, tag : BOOLEAN, fails : Seq(Failure), evict : Ids \cup {NoId}]

\* The validation, its timers and how far its code has been entered.
Validation ==
    [validating : BOOLEAN, configuring : BOOLEAN, id : Ids \cup {NoId}, timer : BOOLEAN,
     stray : Nat, matched : 0..(CodeLength - 1), wrong : 0..(MaxWrong - 1)]
TypesOK == net \in Network /\ val \in Validation /\ proven \subseteq Remotes /\ pairs \in 0..MaxPairs

\* What is queued; the ids with a timer of a failed validation that goes on, or with its message.
Queued == {mq[k] : k \in DOMAIN mq}
OfType(type) == {m \in Queued : m.type = type}
IsQueued(type, id) == \E m \in Queued : m.type = type /\ m.id = id
Armed == {id \in Ids : \E k \in DOMAIN net.fails : net.fails[k].id = id /\ net.fails[k].armed}
Failing == Armed \cup {id \in Ids : IsQueued("failed", id)}

\* The main thread is prompt: one message waits, and only the result of a pairing may follow.
\* The HAL has one answer for an id, and one that is not late.
QueueOK ==
    /\ mq \in Seq(Message) /\ Len(mq) <= 2
    /\ Len(mq) = 2 => mq[1].type \in {"configured", "failed"} /\ mq[2].type = "paired"
HalOK ==
    /\ hal \subseteq Answer
    /\ \A m, n \in hal : m.id = n.id \/ (~m.late /\ ~n.late) => m = n

\* The end of a validation that was not begun: by precommission, or as another is under way.
Unbegun(m) == m.type = "end" /\ (m.kind = "precommission" \/ m.result = "in progress")

\* The HAL is asked about a controller, or its answer waits; and the one whose binding goes on.
Asked == (\E m \in hal : ~m.late) \/ OfType("paired") # {}
Current(id) ==
    \/ \E m \in hal : m.id = id /\ ~m.late
    \/ \E m \in Queued : m.id = id /\ (m.type \in {"paired", "begin"} \/ Unbegun(m))
    \/ val.validating /\ val.id = id

\* A binding is in one stage.
StagesOK ==
    /\ (\E m \in hal : ~m.late) => OfType("paired") = {}
    /\ Asked => ~val.validating /\ OfType("begin") = {} /\ OfType("end") = {}
    /\ (\E m \in Queued : m.type = "begin" \/ Unbegun(m)) => ~val.validating
    /\ val.validating => ~val.configuring /\ ~net.tag

\* There is one at most. It holds the binding, waits for its result, and neither is evicted nor
\* makes another go if it was bound before. It goes only with a message that ends its validation.
CurrentOK ==
    \A id \in Ids :
        Current(id) =>
            /\ \A other \in Ids : Current(other) => other = id
            /\ net.binding
            /\ IF Exists(net, id)
                 THEN /\ net.ctrl[id].result = "pending"
                      /\ net.evict # NoId => net.evict # id /\ ~net.ctrl[id].bound
                 ELSE EndMsg(id, "interactive", "failure") \in Queued

\* A controller is bound by success, has failed, or has a result to come, of the HAL or of its
\* own binding. One that was bound has a backup then. Those that failed are alone.
ControllersOK ==
    \A id \in Ids :
        Exists(net, id) =>
            \/ net.ctrl[id].result = "success" /\ net.ctrl[id].bound /\ \A m \in hal : m.id # id
            \/ /\ net.ctrl[id].result \in Ended \ {"failure"}
               /\ \A m \in hal : m.id # id
               /\ \A other \in Ids : ~Current(other)
            \/ /\ net.ctrl[id].result = "pending" /\ net.ctrl[id].conf = "pending"
               /\ net.ctrl[id].bound => net.ctrl[id].backup
               /\ Current(id) \/ \E m \in hal : m.id = id
\* A late answer is for a controller whose binding has ended.
LateOK == \A m \in hal : m.late => ~Current(m.id)

\* What an end that is queued ends.
EndOK(m) ==
    /\ \A id \in Ids : Current(id) => id = m.id
    /\ m.result # "pending"
    /\ m.kind = "auto" =>
          /\ m.result = "success" /\ Exists(net, m.id)
          /\ net.ctrl[m.id].result = "success" /\ net.ctrl[m.id].conf = "pending"
          /\ net.evict = NoId /\ ~val.validating
    /\ m.kind = "precommission" =>
          m.result = "success" /\ m.id \in Precommissioned /\ Exists(net, m.id) /\ ~InProgress(val)
    /\ m.kind = "interactive" =>
          /\ m.result \in {"success", "timeout", "abort", "failed"} =>
                val.validating /\ val.id = m.id /\ Exists(net, m.id)
          /\ m.result = "success" => net.ctrl[m.id].ieee \in proven /\ val.timer
          /\ m.result = "failure" => ~Exists(net, m.id)
          /\ m.result = "in progress" => val.configuring /\ val.id # m.id /\ Exists(net, m.id)
          /\ m.result = "collision" => Exists(net, m.id) /\ net.ctrl[m.id].result \in Ended
\* So every end that is queued.
EndsOK == \A m \in OfType("end") : EndOK(m)

\* Who is being validated or configured, and how long.
ValidationOK ==
    /\ InProgress(val) => val.id \in Ids
    /\ val.validating => val.timer \/ IsQueued("end", val.id)
    /\ val.configuring =>
          /\ val.timer \/ IsQueued("configured", val.id)
          /\ ~Current(val.id)
          /\ \/ \E m \in OfType("end") : m.kind = "auto"
             \/ IsQueued("configured", val.id)
             \/ Exists(net, val.id) /\ net.ctrl[val.id].result = "success" /\ net.ctrl[val.id].conf = "pending"

\* The timer of a failed validation finds its controller unbound, or none.
FailsOK == \A id \in Failing : Exists(net, id) => net.ctrl[id].result \in Ended /\ ~net.ctrl[id].bound

\* A timer is started by a pairing.
Counting(b) == IF b THEN 1 ELSE 0
Starting == Asked \/ \E m \in Queued : m.type = "begin" \/ (m.type = "end" /\ m.kind = "auto")
TimersOK == val.stray + Counting(val.timer) + Counting(Starting) <= pairs

\* The inductive invariant: every part needs the others.
PInv ==
    /\ TypesOK /\ OnlyProvenBound /\ QueueOK /\ HalOK /\ StagesOK /\ CurrentOK /\ ControllersOK
    /\ LateOK /\ EndsOK /\ ValidationOK /\ FailsOK /\ TimersOK

\* Nothing is said of a controller that does not exist: it is not bound.
AbsentOK == \A id \in Ids : net.ctrl[id].bound => Exists(net, id)

-----------------------------------------------------------------------------
(* The queue. *)

\* Nothing is queued in an empty queue.
LEMMA NothingQueued == ASSUME mq = <<>> PROVE Queued = {} /\ \A type : OfType(type) = {}
BY DEF Queued, OfType

\* A queue of one message or two.
LEMMA ShortQueue ==
    ASSUME NEW q \in Seq(Message), q # <<>>, Len(q) <= 2
    PROVE  /\ Len(q) \in {1, 2} /\ DOMAIN q = 1..Len(q) /\ Head(q) = q[1] /\ q[1] \in Message
           /\ Len(q) = 1 => Tail(q) = <<>>
           /\ Len(q) = 2 => q[2] \in Message /\ Tail(q) = <<q[2]>>
<1>. DEFINE S == Message
<1>0. q \in Seq(S)  OBVIOUS
<1>. HIDE DEF S
<1>1. Len(q) \in {1, 2} /\ DOMAIN q = 1..Len(q)
  <2>1. Len(q) \in Nat /\ Len(q) # 0 /\ DOMAIN q = 1..Len(q)  BY <1>0
  <2>. QED  BY <2>1
<1>2. Head(q) = q[1] /\ q[1] \in S  BY <1>0, <1>1
<1>3. /\ Tail(q) \in Seq(S) /\ Len(Tail(q)) = Len(q) - 1
      /\ Len(q) = 2 => q[2] \in S /\ Tail(q)[1] = q[2]
  BY <1>0, <1>1
<1>4. ASSUME Len(q) = 1 PROVE Tail(q) = <<>>
  <2>1. \A t \in Seq(S) : Len(t) = 0 => t = <<>>  OBVIOUS
  <2>2. Len(Tail(q)) = 0  BY <1>3, <1>4
  <2>. QED  BY <1>3, <2>1, <2>2
<1>5. ASSUME Len(q) = 2 PROVE Tail(q) = <<q[2]>>
  <2>1. \A t \in Seq(S) : Len(t) = 1 => t = <<t[1]>>  OBVIOUS
  <2>2. Len(Tail(q)) = 1 /\ Tail(q)[1] = q[2]
    <3>1. Len(Tail(q)) = Len(q) - 1 /\ Tail(q)[1] = q[2]  BY <1>3, <1>5
    <3>2. Len(q) = 2  BY <1>5
    <3>. QED  BY ONLY <3>1, <3>2
  <2>. QED  BY <1>3, <2>1, <2>2
<1>. QED  BY <1>1, <1>2, <1>3, <1>4, <1>5 DEF S

\* The first message is a message, and it is queued; it is alone, or the result of a pairing
\* follows it.
LEMMA FirstQueued ==
    ASSUME QueueOK, mq # <<>>
    PROVE  /\ Head(mq) \in Message /\ Head(mq) \in Queued /\ Queued \subseteq Message
           /\ Head(mq).type \notin {"configured", "failed"} => Tail(mq) = <<>> /\ Queued = {Head(mq)}
           /\ Tail(mq) # <<>> => Tail(mq) = <<mq[2]>> /\ Queued = {Head(mq), mq[2]} /\ mq[2].type = "paired"
           /\ Tail(mq) = <<>> => Queued = {Head(mq)}
<1>1. /\ Len(mq) \in {1, 2} /\ DOMAIN mq = 1..Len(mq) /\ Head(mq) = mq[1] /\ mq[1] \in Message
      /\ Len(mq) = 1 => Tail(mq) = <<>>
      /\ Len(mq) = 2 => mq[2] \in Message /\ Tail(mq) = <<mq[2]>>
  BY ShortQueue DEF QueueOK
<1>2. CASE Len(mq) = 1
  <2>1. Queued = {mq[1]}  BY <1>1, <1>2 DEF Queued
  <2>. QED  BY <1>1, <1>2, <2>1
<1>3. CASE Len(mq) = 2
  <2>1. Queued = {mq[1], mq[2]}  BY <1>1, <1>3 DEF Queued
  <2>2. mq[1].type \in {"configured", "failed"} /\ mq[2].type = "paired"  BY <1>3 DEF QueueOK
  <2>3. Tail(mq) = <<mq[2]>> /\ Tail(mq) # <<>>  BY <1>1, <1>3
  <2>. QED  BY <1>1, <2>1, <2>2, <2>3
<1>. QED  BY <1>1, <1>2, <1>3

\* The queue of one message.
LEMMA QueueOfOne ==
    ASSUME NEW e \in Message, mq' = <<e>>
    PROVE  QueueOK' /\ Queued' = {e}
BY DEF QueueOK, Queued

\* The main thread takes the first message.
LEMMA QueueTaken ==
    ASSUME QueueOK, mq # <<>>, mq' = Tail(mq)
    PROVE  QueueOK' /\ Queued' = Queued \ {Head(mq)}
<1>1. CASE Tail(mq) = <<>>
  <2>1. QueueOK' /\ Queued' = {}
    <3>1. <<>> \in Seq(Message) /\ Len(<<>>) = 0 /\ DOMAIN <<>> = {}  OBVIOUS
    <3>2. mq' \in Seq(Message) /\ Len(mq') = 0 /\ DOMAIN mq' = {}  BY <1>1, <3>1
    <3>3. QueueOK'
      <4>1. mq' \in Seq(Message) /\ Len(mq') <= 2 /\ Len(mq') # 2  BY <3>2
      <4>. QED  BY <4>1 DEF QueueOK
    <3>4. Queued' = {}  BY <3>2 DEF Queued
    <3>. QED  BY <3>3, <3>4
  <2>. QED  BY <1>1, <2>1, FirstQueued
<1>2. CASE Tail(mq) # <<>>
  <2>1. Tail(mq) = <<mq[2]>> /\ Queued = {Head(mq), mq[2]} /\ mq[2].type = "paired" /\ mq[2] \in Message
    BY <1>2, FirstQueued
  <2>2. Head(mq).type \in {"configured", "failed"}  BY <1>2, FirstQueued
  <2>3. QueueOK' /\ Queued' = {mq[2]}  BY <2>1, QueueOfOne
  <2>. QED  BY <2>1, <2>2, <2>3
<1>. QED  BY <1>1, <1>2

\* ... and sends itself another.
LEMMA QueueReplaced ==
    ASSUME QueueOK, mq # <<>>, Head(mq).type \notin {"configured", "failed"},
           NEW e \in Message, mq' = Append(Tail(mq), e)
    PROVE  QueueOK' /\ Queued = {Head(mq)} /\ Queued' = {e}
<1>1. Tail(mq) = <<>> /\ Queued = {Head(mq)}  BY FirstQueued
<1>2. mq' = <<e>>
  <2>1. Append(<<>>, e) = <<e>>  OBVIOUS
  <2>. QED  BY <1>1, <2>1
<1>. QED  BY <1>1, <1>2, QueueOfOne

\* A message to an empty queue.
LEMMA QueueSent ==
    ASSUME mq = <<>>, NEW e \in Message, mq' = Append(mq, e)
    PROVE  QueueOK' /\ Queued = {} /\ Queued' = {e}
BY QueueOfOne, NothingQueued

\* A queue of one message with another.
LEMMA QueueOfTwo ==
    ASSUME NEW q \in Seq(Message), Len(q) = 1, NEW x \in Message
    PROVE  /\ Append(q, x) \in Seq(Message) /\ Len(Append(q, x)) = 2
           /\ Append(q, x)[1] = q[1] /\ Append(q, x)[2] = x
<1>1. /\ Append(q, x) \in Seq(Message) /\ Len(Append(q, x)) = Len(q) + 1 /\ Append(q, x)[Len(q) + 1] = x
      /\ \A i \in 1..Len(q) : Append(q, x)[i] = q[i]
  OBVIOUS
<1>. QED  BY <1>1

\* The result of a pairing.
LEMMA QueueAnswered ==
    ASSUME QueueOK, NEW e \in Message, mq' = Append(mq, e), e.type = "paired",
           \A m \in Queued : m.type \in {"configured", "failed"}
    PROVE  QueueOK' /\ Queued' = Queued \cup {e}
<1>1. CASE mq = <<>>  BY <1>1, QueueSent
<1>2. CASE mq # <<>>
  <2>1. Head(mq).type \in {"configured", "failed"} /\ Head(mq) \in Message /\ Queued = {Head(mq)} /\ Tail(mq) = <<>>
    BY <1>2, FirstQueued
  <2>2. mq \in Seq(Message) /\ Len(mq) = 1 /\ mq[1] = Head(mq)
    BY <1>2, <2>1, ShortQueue DEF QueueOK
  <2>3. mq' \in Seq(Message) /\ Len(mq') = 2 /\ mq'[1] = mq[1] /\ mq'[2] = e
    BY <2>2, QueueOfTwo, Zenon
  <2>4. DOMAIN mq' = {1, 2}
    <3>1. DOMAIN mq' = 1..Len(mq')  BY <2>3
    <3>. QED  BY <2>3, <3>1
  <2>. QED  BY <2>1, <2>2, <2>3, <2>4 DEF QueueOK, Queued
<1>. QED  BY <1>1, <1>2

\* The queue as it was.
LEMMA QueueKept == ASSUME QueueOK, mq' = mq PROVE QueueOK' /\ Queued' = Queued
BY DEF QueueOK, Queued

\* The lowest of some ids is one of them.
LEMMA LowestOf ==
    ASSUME NEW S, S \subseteq Nat, S # {}
    PROVE  Lowest(S) \in S /\ \A d \in S : Lowest(S) <= d
<1>. DEFINE R == {p \in Nat \X Nat : p[1] < p[2]}
<1>1. IsWellFoundedOn(R, Nat)  BY NatLessThanWellFounded DEF OpToRel
<1>2. \A x, y \in Nat : x < y <=> <<x, y>> \in R  OBVIOUS
<1>. HIDE DEF R
<1>3. PICK x \in S : \A y \in S : ~(<<y, x>> \in R)  BY <1>1, WFMin
<1>4. \A y \in S : ~(y < x)  BY <1>2, <1>3
<1>5. \A y \in S : x <= y  BY <1>4
<1>. QED  BY <1>5 DEF Lowest

-----------------------------------------------------------------------------
(* Controllers. *)

\* Ids, and the values that stand for none.
LEMMA IdsFacts ==
    /\ Ids \subseteq Nat /\ NoId \notin Ids /\ NoRemote \notin Remotes
    /\ NoController \in Controller /\ NoController.ieee = NoRemote
    /\ MaxPairs \in Nat /\ CodeLength \in Nat \ {0} /\ MaxWrong \in Nat \ {0}
BY SetsAssumption, BoundsAssumption DEF NoId, NoController, Controller, Results

\* ... with what the assumption says.
LEMMA Ids0 ==
    ASSUME PairingAssumption
    PROVE  /\ Ids \subseteq Nat /\ NoId \notin Ids /\ NoRemote \notin Remotes /\ Prompt /\ ~Leftovers
           /\ NoController \in Controller /\ NoController.ieee = NoRemote
           /\ MaxPairs \in Nat /\ CodeLength \in Nat \ {0} /\ MaxWrong \in Nat \ {0}
BY IdsFacts DEF PairingAssumption

\* A controller in the table of another network, which is the same but for one controller.
LEMMA ControllerSet ==
    ASSUME NEW n \in Network, NEW id \in Ids, NEW c \in Controller
    PROVE  /\ [n EXCEPT !.ctrl[id] = c] \in Network
           /\ [n EXCEPT !.ctrl[id] = c] = [n EXCEPT !.ctrl = [n.ctrl EXCEPT ![id] = c]]
BY DEF Network

\* One timer of a failed validation less: the others are as they were.
LEMMA OneTimerLess ==
    ASSUME NEW s \in Seq(Failure), NEW k \in DOMAIN s
    PROVE  /\ RemoveAt(s, k) \in Seq(Failure)
           /\ \A i \in DOMAIN RemoveAt(s, k) : \E j \in DOMAIN s : RemoveAt(s, k)[i] = s[j]
<1>1. k \in 1..Len(s)  OBVIOUS
<1>2. /\ SubSeq(s, 1, k - 1) \in Seq(Failure) /\ Len(SubSeq(s, 1, k - 1)) = k - 1
      /\ \A i \in 1..(k - 1) : SubSeq(s, 1, k - 1)[i] = s[i]
  BY <1>1, SubSeqProperties
<1>3. /\ SubSeq(s, k + 1, Len(s)) \in Seq(Failure) /\ Len(SubSeq(s, k + 1, Len(s))) = Len(s) - k
      /\ \A i \in 1..(Len(s) - k) : SubSeq(s, k + 1, Len(s))[i] = s[k + i]
  <2>1. CASE k = Len(s)
    <3>1. SubSeq(s, k + 1, Len(s)) = <<>>  BY <2>1, <1>1, SubSeqProperties, EmptySeq
    <3>. QED  BY <2>1, <3>1
  <2>2. CASE k # Len(s)  BY <2>2, <1>1, SubSeqProperties
  <2>. QED  BY <2>1, <2>2
<1>4. /\ RemoveAt(s, k) \in Seq(Failure) /\ Len(RemoveAt(s, k)) = Len(s) - 1
      /\ \A i \in 1..(Len(s) - 1) : RemoveAt(s, k)[i] = IF i < k THEN s[i] ELSE s[i + 1]
  <2>. DEFINE a == SubSeq(s, 1, k - 1)
              b == SubSeq(s, k + 1, Len(s))
  <2>1. RemoveAt(s, k) = a \o b  BY DEF RemoveAt
  <2>2. /\ a \o b \in Seq(Failure) /\ Len(a \o b) = Len(a) + Len(b)
        /\ \A i \in 1..(Len(a) + Len(b)) : (a \o b)[i] = IF i <= Len(a) THEN a[i] ELSE b[i - Len(a)]
    BY <1>2, <1>3, ConcatProperties
  <2>. HIDE DEF a, b
  <2>3. Len(a) = k - 1 /\ Len(b) = Len(s) - k /\ Len(s) \in Nat
    BY <1>2, <1>3 DEF a, b
  <2>4. ASSUME NEW i \in 1..(Len(s) - 1) PROVE RemoveAt(s, k)[i] = IF i < k THEN s[i] ELSE s[i + 1]
    <3>1. CASE i < k
      <4>1. a[i] = s[i]  BY <1>1, <1>2, <2>3, <3>1 DEF a
      <4>. QED  BY <1>1, <2>1, <2>2, <2>3, <3>1, <4>1
    <3>2. CASE ~(i < k)
      <4>. DEFINE j == i - (k - 1)
      <4>1. j \in 1..(Len(s) - k) /\ k + j = i + 1  BY <1>1, <2>3, <3>2
      <4>2. b[j] = s[k + j]  BY <1>3, <4>1 DEF b
      <4>3. ~(i <= Len(a)) /\ i \in 1..(Len(a) + Len(b)) /\ i - Len(a) = j  BY <1>1, <2>3, <3>2
      <4>. HIDE DEF j
      <4>4. (a \o b)[i] = b[i - Len(a)]  BY <2>2, <4>3
      <4>. QED  BY <2>1, <3>2, <4>1, <4>2, <4>3, <4>4
    <3>. QED  BY <3>1, <3>2
  <2>5. Len(RemoveAt(s, k)) = Len(s) - 1  BY <1>1, <2>1, <2>2, <2>3
  <2>. QED  BY <2>1, <2>2, <2>4, <2>5
<1>5. \A i \in 1..(Len(s) - 1) : i \in DOMAIN s /\ i + 1 \in DOMAIN s  BY <1>1
<1>6. DOMAIN RemoveAt(s, k) = 1..(Len(s) - 1)  BY <1>4, LenProperties
<1>. QED  BY <1>4, <1>5, <1>6

\* validation_result_set gives a controller a result, and binds it if that is its first success.
LEMMA ResultSetFacts ==
    ASSUME NEW n \in Network, NEW id \in Ids, NEW result \in Results, NEW m, m = ResultSet(n, id, result)
    PROVE  /\ m \in Network
           /\ \A i \in Ids \ {id} : m.ctrl[i] = n.ctrl[i]
           /\ m.ctrl[id].result = result /\ m.ctrl[id].ieee = n.ctrl[id].ieee
           /\ m.ctrl[id].bound = (n.ctrl[id].bound \/ (n.ctrl[id].result = "pending" /\ result = "success"))
           /\ m.ctrl[id].conf = IF result = "pending" THEN "pending" ELSE n.ctrl[id].conf
           /\ m.ctrl[id].backup = n.ctrl[id].backup /\ m.ctrl[id].mode = n.ctrl[id].mode
           /\ m.binding = n.binding /\ m.tag = n.tag /\ m.fails = n.fails /\ m.evict = n.evict
<1>. DEFINE c == n.ctrl[id]
            d == m.ctrl[id]
<1>1. c \in Controller /\ n.ctrl \in [Ids -> Controller] /\ DOMAIN n.ctrl = Ids
  BY DEF Network
<1>2. PICK b, f : /\ b = (c.bound \/ (c.result = "pending" /\ result = "success"))
                  /\ f = IF result = "pending" THEN "pending" ELSE c.conf
  OBVIOUS
<1>3. b \in BOOLEAN /\ f \in {"pending", "success"}  BY <1>1, <1>2 DEF Controller
<1>4. PICK e : e = [c EXCEPT !.bound = b, !.conf = f, !.result = result]  OBVIOUS
<1>5. /\ e \in Controller /\ e.result = result /\ e.ieee = c.ieee /\ e.bound = b /\ e.conf = f
      /\ e.backup = c.backup /\ e.mode = c.mode
  BY <1>1, <1>3, <1>4 DEF Controller
<1>6. m = [n EXCEPT !.ctrl[id] = e]  BY <1>2, <1>4, ZenonT(60) DEF ResultSet
<1>7. m \in Network /\ m = [n EXCEPT !.ctrl = [n.ctrl EXCEPT ![id] = e]]  BY <1>5, <1>6, ControllerSet
<1>8. /\ m.ctrl = [n.ctrl EXCEPT ![id] = e]
      /\ m.binding = n.binding /\ m.tag = n.tag /\ m.fails = n.fails /\ m.evict = n.evict
  BY <1>7 DEF Network
<1>9. d = e /\ \A i \in Ids \ {id} : m.ctrl[i] = n.ctrl[i]  BY <1>1, <1>8
<1>. QED  BY <1>2, <1>5, <1>7, <1>8, <1>9

\* controller_remove leaves no controller under the id.
LEMMA RemovedFacts ==
    ASSUME NEW n \in Network, NEW id \in Ids, NEW m, m = Removed(n, id)
    PROVE  /\ m \in Network /\ m.ctrl[id] = NoController /\ \A i \in Ids \ {id} : m.ctrl[i] = n.ctrl[i]
           /\ m.binding = n.binding /\ m.tag = n.tag /\ m.fails = n.fails /\ m.evict = n.evict
<1>1. NoController \in Controller /\ m = [n EXCEPT !.ctrl[id] = NoController]  BY IdsFacts DEF Removed
<1>2. /\ m.ctrl \in [Ids -> Controller] /\ m.ctrl[id] = NoController /\ \A i \in Ids \ {id} : m.ctrl[i] = n.ctrl[i]
      /\ m.binding = n.binding /\ m.tag = n.tag /\ m.fails = n.fails /\ m.evict = n.evict
  BY <1>1 DEF Network
<1>3. m \in Network  BY <1>1, <1>2 DEF Network
<1>. QED  BY <1>2, <1>3

\* controller_restore makes a success of the result, if there is a backup.
LEMMA RestoredFacts ==
    ASSUME NEW n \in Network, NEW id \in Ids, NEW m, m = Restored(n, id)
    PROVE  /\ m \in Network /\ \A i \in Ids \ {id} : m.ctrl[i] = n.ctrl[i]
           /\ m.binding = n.binding /\ m.tag = n.tag /\ m.fails = n.fails /\ m.evict = n.evict
           /\ Exists(n, id) /\ n.ctrl[id].backup =>
                 /\ m.ctrl[id].result = "success" /\ m.ctrl[id].ieee = n.ctrl[id].ieee
                 /\ m.ctrl[id].bound = n.ctrl[id].bound /\ m.ctrl[id].conf = n.ctrl[id].conf
           /\ ~(Exists(n, id) /\ n.ctrl[id].backup) => m = n
<1>1. CASE Exists(n, id) /\ n.ctrl[id].backup
  <2>. DEFINE c == n.ctrl[id]
              d == m.ctrl[id]
  <2>1. c \in Controller /\ DOMAIN n.ctrl = Ids
    BY DEF Network
  <2>2. /\ m.ctrl \in [Ids -> Controller]
        /\ \A i \in Ids \ {id} : m.ctrl[i] = n.ctrl[i]
        /\ m.binding = n.binding /\ m.tag = n.tag /\ m.fails = n.fails /\ m.evict = n.evict
    BY <1>1, <2>1 DEF Restored, Network, Controller, Results
  <2>3. d.result = "success" /\ d.ieee = c.ieee /\ d.bound = c.bound /\ d.conf = c.conf
    BY <1>1, <2>1 DEF Restored, Network, Controller
  <2>4. m \in Network
    BY <1>1, <2>2 DEF Restored, Network
  <2>. QED  BY <1>1, <2>2, <2>3, <2>4
<1>2. CASE ~(Exists(n, id) /\ n.ctrl[id].backup)
  BY <1>2 DEF Restored
<1>. QED  BY <1>1, <1>2

\* bind_validation_timeout removes the controller, and a timer at most with it.
LEMMA TimedOutFacts ==
    ASSUME NEW n \in Network, NEW id \in Ids, NEW m, m = ValidationTimedOut(n, id)
    PROVE  /\ m \in Network
           /\ ~Exists(n, id) => m = n
           /\ ~Exists(m, id) /\ \A i \in Ids \ {id} : m.ctrl[i] = n.ctrl[i]
           /\ \A k \in DOMAIN m.fails : \E j \in DOMAIN n.fails : m.fails[k] = n.fails[j]
           /\ m.binding = n.binding /\ m.tag = n.tag /\ m.evict = n.evict
           /\ Exists(n, id) => m.ctrl[id] = NoController
<1>. DEFINE mine == {k \in DOMAIN n.fails : n.fails[k].id = id}
            left == IF mine = {} THEN n.fails ELSE RemoveAt(n.fails, Lowest(mine))
            less == [n EXCEPT !.fails = left]
<1>1. CASE ~Exists(n, id)
  BY <1>1 DEF ValidationTimedOut
<1>2. CASE Exists(n, id)
  <2>1. n.fails \in Seq(Failure)  BY DEF Network
  <2>2. left \in Seq(Failure) /\ \A k \in DOMAIN left : \E j \in DOMAIN n.fails : left[k] = n.fails[j]
    <3>1. CASE mine = {}  BY <2>1, <3>1
    <3>2. CASE mine # {}
      <4>1. mine \subseteq Nat /\ mine \subseteq DOMAIN n.fails  BY <2>1
      <4>2. Lowest(mine) \in DOMAIN n.fails  BY <3>2, <4>1, LowestOf
      <4>. QED  BY <2>1, <3>2, <4>2, OneTimerLess
    <3>. QED  BY <3>1, <3>2
  <2>. HIDE DEF left
  <2>3. /\ less \in Network /\ less.ctrl = n.ctrl /\ less.fails = left /\ less.binding = n.binding
        /\ less.tag = n.tag /\ less.evict = n.evict
    BY <2>2 DEF Network
  <2>4. m = Removed(less, id)  BY <1>2 DEF ValidationTimedOut, left
  <2>. HIDE DEF less
  <2>5. /\ m \in Network /\ m.ctrl[id] = NoController /\ \A i \in Ids \ {id} : m.ctrl[i] = less.ctrl[i]
        /\ m.binding = less.binding /\ m.tag = less.tag /\ m.fails = less.fails /\ m.evict = less.evict
    BY <2>3, <2>4, RemovedFacts
  <2>6. ~Exists(m, id)  BY <2>5 DEF Exists, NoController
  <2>. QED  BY <1>2, <2>2, <2>3, <2>5, <2>6
<1>. QED  BY <1>1, <1>2

\* What the end of a validation makes of the network: its controller is bound and the chosen one
\* goes, or the result is set and a timer started if the controller was not bound.
EndedAs(n, id, result) ==
    /\ n \in Network /\ ~n.binding /\ ~n.tag
    /\ ~Exists(net, id) => n.ctrl = net.ctrl /\ n.fails = net.fails /\ n.evict = net.evict
    /\ Exists(net, id) /\ result = "success" =>
          /\ n.fails = net.fails /\ n.evict = NoId
          /\ \A i \in Ids : i # id /\ i # net.evict => n.ctrl[i] = net.ctrl[i]
          /\ net.evict \in Ids => n.ctrl[net.evict] = NoController
          /\ id # net.evict =>
                /\ n.ctrl[id].result = "success" /\ n.ctrl[id].ieee = net.ctrl[id].ieee
                /\ n.ctrl[id].bound = (net.ctrl[id].bound \/ net.ctrl[id].result = "pending")
                /\ n.ctrl[id].conf = net.ctrl[id].conf
    /\ Exists(net, id) /\ result # "success" =>
          /\ n.evict = IF result = "collision" THEN net.evict ELSE NoId
          /\ \A i \in Ids \ {id} : n.ctrl[i] = net.ctrl[i]
          /\ n.ctrl[id].ieee = net.ctrl[id].ieee /\ n.ctrl[id].bound = net.ctrl[id].bound
          /\ n.ctrl[id].conf = net.ctrl[id].conf
          /\ ~net.ctrl[id].bound =>
                n.ctrl[id].result = result /\ n.fails = Append(net.fails, [id |-> id, armed |-> TRUE])
          /\ net.ctrl[id].bound =>
                n.fails = net.fails /\ (n.ctrl[id].result = result \/ (result = "timeout" /\ n.ctrl[id].result = "success"))

\* What the end of a validation leaves.
LEMMA EndLeaves ==
    ASSUME net \in Network, NEW id \in Ids, NEW result \in Results, result # "pending",
           NEW n, n = BindValidationEnd(net, id, result)
    PROVE  EndedAs(n, id, result)
<1>. USE DEF EndedAs
<1>. DEFINE released == [net EXCEPT !.binding = FALSE, !.tag = FALSE]
            set == ResultSet(released, id, result)
            done == IF result = "success"
                      THEN IF net.evict # NoId THEN Removed(set, net.evict) ELSE set
                    ELSE IF ~set.ctrl[id].bound
                      THEN [set EXCEPT !.fails = Append(@, [id |-> id, armed |-> TRUE])]
                    ELSE IF result = "timeout" THEN Restored(set, id) ELSE set
<1>1. /\ released \in Network /\ released.ctrl = net.ctrl /\ released.fails = net.fails /\ released.evict = net.evict
      /\ ~released.binding /\ ~released.tag
  BY DEF Network
<1>2. CASE ~Exists(net, id)
  <2>1. n = released  BY <1>2 DEF BindValidationEnd
  <2>. QED  BY <1>1, <1>2, <2>1
<1>3. CASE Exists(net, id)
  <2>1. n = [done EXCEPT !.evict = IF result = "collision" THEN @ ELSE NoId]
    BY <1>3 DEF BindValidationEnd
  <2>. HIDE DEF released, done
  <2>2. /\ set \in Network
        /\ \A i \in Ids \ {id} : set.ctrl[i] = net.ctrl[i]
        /\ set.ctrl[id].result = result /\ set.ctrl[id].ieee = net.ctrl[id].ieee
        /\ set.ctrl[id].bound = (net.ctrl[id].bound \/ (net.ctrl[id].result = "pending" /\ result = "success"))
        /\ set.ctrl[id].conf = net.ctrl[id].conf
        /\ ~set.binding /\ ~set.tag /\ set.fails = net.fails /\ set.evict = net.evict
    BY <1>1, ResultSetFacts
  <2>0. result # "success" => set.ctrl[id].bound = net.ctrl[id].bound
    <3>1. net.ctrl[id].bound \in BOOLEAN  BY DEF Network, Controller
    <3>. QED  BY <2>2, <3>1
  <2>. HIDE DEF set
  <2>3. done \in Network => /\ n \in Network /\ n.ctrl = done.ctrl /\ n.binding = done.binding /\ n.tag = done.tag
                            /\ n.fails = done.fails /\ n.evict = IF result = "collision" THEN done.evict ELSE NoId
    BY <2>1 DEF Network
  <2>4. CASE result = "success"
    <3>1. CASE net.evict = NoId
      <4>1. done = set  BY <2>4, <3>1 DEF done
      <4>. QED  BY <1>3, <2>2, <2>3, <2>4, <3>1, <4>1, IdsFacts
    <3>2. CASE net.evict # NoId
      <4>1. done = Removed(set, net.evict) /\ net.evict \in Ids  BY <2>4, <3>2 DEF done, Network
      <4>2. /\ done \in Network /\ done.ctrl[net.evict] = NoController
            /\ \A i \in Ids \ {net.evict} : done.ctrl[i] = set.ctrl[i]
            /\ done.binding = set.binding /\ done.tag = set.tag /\ done.fails = set.fails
        <5>. DEFINE e == net.evict
        <5>1. e \in Ids /\ done = Removed(set, e) /\ set \in Network  BY <2>2, <4>1
        <5>. HIDE DEF e, done
        <5>2. /\ done \in Network /\ done.ctrl[e] = NoController /\ \A i \in Ids \ {e} : done.ctrl[i] = set.ctrl[i]
              /\ done.binding = set.binding /\ done.tag = set.tag /\ done.fails = set.fails /\ done.evict = set.evict
          BY ONLY <5>1, RemovedFacts, SMTT(30)
        <5>. QED  BY <5>2 DEF e
      <4>. QED  BY <1>3, <2>2, <2>3, <2>4, <4>1, <4>2
    <3>. QED  BY <3>1, <3>2
  <2>5. CASE result # "success" /\ ~set.ctrl[id].bound
    <3>1. done = [set EXCEPT !.fails = Append(@, [id |-> id, armed |-> TRUE])]  BY <2>5 DEF done
    <3>0. set.fails \in Seq(Failure) /\ [id |-> id, armed |-> TRUE] \in Failure  BY <2>2 DEF Network, Failure
    <3>. DEFINE more == Append(set.fails, [id |-> id, armed |-> TRUE])
    <3>1a. more \in Seq(Failure)  BY <3>0
    <3>. HIDE DEF more
    <3>2. /\ done \in Network /\ done.ctrl = set.ctrl /\ done.binding = set.binding /\ done.tag = set.tag
          /\ done.evict = set.evict /\ done.fails = more
      <4>1. done = [set EXCEPT !.fails = more]  BY <3>1 DEF more
      <4>. QED  BY <2>2, <3>1a, <4>1 DEF Network
    <3>3. more = Append(net.fails, [id |-> id, armed |-> TRUE])  BY <2>2 DEF more
    <3>. QED  BY <1>3, <2>2, <2>3, <2>0, <2>5, <3>2, <3>3
  <2>6. CASE result # "success" /\ set.ctrl[id].bound /\ result = "timeout"
    <3>1. done = Restored(set, id)  BY <2>6 DEF done
    <3>2. Exists(set, id)  BY <1>3, <2>2 DEF Exists
    <3>3. /\ done \in Network /\ \A i \in Ids \ {id} : done.ctrl[i] = set.ctrl[i]
          /\ done.binding = set.binding /\ done.tag = set.tag /\ done.fails = set.fails /\ done.evict = set.evict
          /\ done.ctrl[id].result \in {"success", result} /\ done.ctrl[id].ieee = set.ctrl[id].ieee
          /\ done.ctrl[id].bound = set.ctrl[id].bound /\ done.ctrl[id].conf = set.ctrl[id].conf
      BY <2>2, <3>1, <3>2, RestoredFacts
    <3>. QED  BY <1>3, <2>0, <2>2, <2>3, <2>6, <3>3
  <2>7. CASE result # "success" /\ set.ctrl[id].bound /\ result # "timeout"
    <3>1. done = set  BY <2>7 DEF done
    <3>. QED  BY <1>3, <2>2, <2>3, <2>0, <2>7, <3>1
  <2>. QED  BY <2>4, <2>5, <2>6, <2>7
<1>. QED  BY <1>2, <1>3

\* A result that is reset is pending, and the configuration with it.
LEMMA PendingSet ==
    ASSUME NEW n \in Network, NEW id \in Ids, NEW m, m = ResultSet(n, id, "pending")
    PROVE  /\ m \in Network /\ \A i \in Ids \ {id} : m.ctrl[i] = n.ctrl[i]
           /\ m.fails = n.fails /\ m.evict = n.evict
           /\ m.ctrl[id].ieee = n.ctrl[id].ieee /\ m.ctrl[id].result = "pending"
           /\ m.ctrl[id].bound = n.ctrl[id].bound /\ m.ctrl[id].conf = "pending"
           /\ m.ctrl[id].backup = n.ctrl[id].backup
<1>. DEFINE result == "pending"
<1>1. result \in Results /\ m = ResultSet(n, id, result)  BY DEF Results
<1>. HIDE DEF result
<1>2. /\ m \in Network
      /\ \A i \in Ids \ {id} : m.ctrl[i] = n.ctrl[i]
      /\ m.ctrl[id].result = result /\ m.ctrl[id].ieee = n.ctrl[id].ieee
      /\ m.ctrl[id].bound = (n.ctrl[id].bound \/ (n.ctrl[id].result = "pending" /\ result = "success"))
      /\ m.ctrl[id].conf = IF result = "pending" THEN "pending" ELSE n.ctrl[id].conf
      /\ m.ctrl[id].backup = n.ctrl[id].backup
      /\ m.fails = n.fails /\ m.evict = n.evict
  BY <1>1, ResultSetFacts
<1>3. n.ctrl[id].bound \in BOOLEAN  BY DEF Network, Controller
<1>. QED  BY <1>2, <1>3 DEF result

\* A request under an id that is free, or that is its remote's and was not refused.
Unrefused(n, id, r) ==
    Exists(n, id) => n.ctrl[id].ieee = r /\ n.ctrl[id].result # "in progress"

\* What is under way when a pairing is accepted.
LEMMA AcceptedFacts ==
    \A n \in Network, id \in Ids, r \in Remotes, mode \in Modes : \A m :
        Unrefused(n, id, r) /\ r # NoRemote /\ m = Accepted(n, id, r, mode) =>
            /\ m \in Network /\ \A i \in Ids \ {id} : m.ctrl[i] = n.ctrl[i]
            /\ m.fails = n.fails /\ m.evict = n.evict
            /\ m.ctrl[id].ieee = r /\ m.ctrl[id].result = "pending" /\ m.ctrl[id].conf = "pending"
            /\ Exists(n, id) => m.ctrl[id].bound = n.ctrl[id].bound /\ m.ctrl[id].backup = TRUE
            /\ ~Exists(n, id) => m.ctrl[id].bound = FALSE
<1>. TAKE n \in Network, id \in Ids, r \in Remotes, mode \in Modes
<1>. TAKE m
<1>. HAVE Unrefused(n, id, r) /\ r # NoRemote /\ m = Accepted(n, id, r, mode)
<1>. DEFINE known == [n EXCEPT !.ctrl[id].backup = TRUE]
            fresh == [n EXCEPT !.ctrl[id] = [NoController EXCEPT !.ieee = r]]
            kept == IF ~Exists(n, id) THEN fresh ELSE ResultSet(known, id, "pending")
<1>1. m = [kept EXCEPT !.ctrl[id].mode = mode]
  BY DEF Accepted, Exists, Unrefused
<1>2. /\ kept \in Network /\ \A i \in Ids \ {id} : kept.ctrl[i] = n.ctrl[i]
      /\ kept.fails = n.fails /\ kept.evict = n.evict
      /\ kept.ctrl[id].ieee = r /\ kept.ctrl[id].result = "pending" /\ kept.ctrl[id].conf = "pending"
      /\ Exists(n, id) => kept.ctrl[id].bound = n.ctrl[id].bound /\ kept.ctrl[id].backup = TRUE
      /\ ~Exists(n, id) => kept.ctrl[id].bound = FALSE
  <2>1. CASE ~Exists(n, id)
    <3>. DEFINE c == [NoController EXCEPT !.ieee = r]
    <3>1. c \in Controller /\ c.ieee = r /\ c.result = "pending" /\ c.conf = "pending" /\ c.bound = FALSE
      BY DEF NoController, Controller, Results
    <3>2. kept = [n EXCEPT !.ctrl[id] = c]  BY <2>1
    <3>. HIDE DEF c, kept
    <3>3. /\ kept \in Network /\ kept.ctrl[id] = c /\ \A i \in Ids \ {id} : kept.ctrl[i] = n.ctrl[i]
          /\ kept.fails = n.fails /\ kept.evict = n.evict
      BY <3>1, <3>2 DEF Network
    <3>. QED  BY <2>1, <3>1, <3>3
  <2>2. CASE Exists(n, id)
    <3>1. /\ known \in Network /\ \A i \in Ids \ {id} : known.ctrl[i] = n.ctrl[i]
          /\ known.fails = n.fails /\ known.evict = n.evict /\ known.ctrl[id].ieee = n.ctrl[id].ieee
          /\ known.ctrl[id].bound = n.ctrl[id].bound /\ known.ctrl[id].backup = TRUE
      <4>. DEFINE c == [n.ctrl[id] EXCEPT !.backup = TRUE]
      <4>1. n.ctrl[id] \in Controller  BY DEF Network
      <4>2. /\ c \in Controller /\ c.ieee = n.ctrl[id].ieee /\ c.bound = n.ctrl[id].bound
            /\ c.backup = TRUE
        BY <4>1 DEF Controller
      <4>3. known = [n EXCEPT !.ctrl[id] = c]  OBVIOUS
      <4>. HIDE DEF c, known
      <4>4. known \in Network /\ known = [n EXCEPT !.ctrl = [n.ctrl EXCEPT ![id] = c]]
        BY <4>2, <4>3, ControllerSet
      <4>5. known.ctrl = [n.ctrl EXCEPT ![id] = c] /\ DOMAIN n.ctrl = Ids
            /\ known.fails = n.fails /\ known.evict = n.evict
        BY <4>4 DEF Network
      <4>. QED  BY <4>2, <4>4, <4>5
    <3>1a. n.ctrl[id].ieee = r /\ n.ctrl[id].result # "in progress"  BY <2>2 DEF Unrefused
    <3>2. kept = ResultSet(known, id, "pending") /\ "pending" \in Results  BY <2>2 DEF Results
    <3>. HIDE DEF known, kept
    <3>2a. known \in Network  BY <3>1
    <3>3. /\ kept \in Network /\ \A i \in Ids \ {id} : kept.ctrl[i] = known.ctrl[i]
          /\ kept.fails = known.fails /\ kept.evict = known.evict
          /\ kept.ctrl[id].ieee = known.ctrl[id].ieee /\ kept.ctrl[id].result = "pending"
          /\ kept.ctrl[id].bound = known.ctrl[id].bound /\ kept.ctrl[id].conf = "pending"
          /\ kept.ctrl[id].backup = known.ctrl[id].backup
      BY ONLY <3>2a, <3>2, PendingSet
    <3>. QED  BY <2>2, <3>1, <3>1a, <3>3
  <2>. QED  BY <2>1, <2>2
<1>. HIDE DEF kept
<1>3. /\ m \in Network /\ \A i \in Ids \ {id} : m.ctrl[i] = kept.ctrl[i]
      /\ m.fails = kept.fails /\ m.evict = kept.evict /\ m.ctrl[id].ieee = kept.ctrl[id].ieee
      /\ m.ctrl[id].result = kept.ctrl[id].result /\ m.ctrl[id].conf = kept.ctrl[id].conf
      /\ m.ctrl[id].bound = kept.ctrl[id].bound /\ m.ctrl[id].backup = kept.ctrl[id].backup
  <2>1. kept.ctrl \in [Ids -> Controller] /\ mode \in Modes /\ DOMAIN kept.ctrl = Ids  BY <1>2 DEF Network
  <2>2. m.ctrl = [kept.ctrl EXCEPT ![id].mode = mode] /\ m.fails = kept.fails /\ m.evict = kept.evict
        /\ m.binding = kept.binding /\ m.tag = kept.tag /\ (m.ctrl \in [Ids -> Controller] => m \in Network)
    BY <1>1, <1>2 DEF Network
  <2>. DEFINE c == kept.ctrl[id]
              d == [c EXCEPT !.mode = mode]
  <2>3. /\ d \in Controller /\ d.ieee = c.ieee /\ d.result = c.result /\ d.conf = c.conf
        /\ d.bound = c.bound /\ d.backup = c.backup
    BY <2>1 DEF Controller
  <2>4. m.ctrl = [kept.ctrl EXCEPT ![id] = d]  BY <2>2
  <2>. HIDE DEF c, d
  <2>5. m.ctrl \in [Ids -> Controller] /\ m.ctrl[id] = d /\ \A i \in Ids \ {id} : m.ctrl[i] = kept.ctrl[i]
    BY <2>1, <2>3, <2>4
  <2>. QED  BY <2>2, <2>3, <2>5 DEF c
<1>. QED  BY <1>2, <1>3

\* The progress of the code is reset, and nothing else.
LEMMA InformedFacts ==
    ASSUME NEW v \in Validation
    PROVE  /\ Informed(v) \in Validation
           /\ Informed(v).validating = v.validating /\ Informed(v).configuring = v.configuring
           /\ Informed(v).id = v.id /\ Informed(v).timer = v.timer /\ Informed(v).stray = v.stray
<1>1. 0 \in 0..(CodeLength - 1) /\ 0 \in 0..(MaxWrong - 1)  BY IdsFacts
<1>. DEFINE C == 0..(CodeLength - 1)
            W == 0..(MaxWrong - 1)
<1>2. 0 \in C /\ 0 \in W /\ v \in [validating : BOOLEAN, configuring : BOOLEAN, id : Ids \cup {NoId}, timer : BOOLEAN,
     stray : Nat, matched : C, wrong : W]
  BY <1>1 DEF Validation
<1>. HIDE DEF C, W
<1>3. Informed(v) \in [validating : BOOLEAN, configuring : BOOLEAN, id : Ids \cup {NoId}, timer : BOOLEAN,
     stray : Nat, matched : C, wrong : W]
  BY <1>2 DEF Informed
<1>. QED  BY <1>2, <1>3 DEF C, W, Informed, Validation

-----------------------------------------------------------------------------
(* Requests and their results. *)

\* Nothing is queued and no message of any type, where the queue is empty.
LEMMA EmptyQueue ==
    ASSUME mq = <<>>
    PROVE  Queued = {} /\ OfType("end") = {} /\ OfType("paired") = {} /\ OfType("begin") = {}
           /\ \A type, id : ~IsQueued(type, id)
BY NothingQueued DEF IsQueued

\* While nothing is queued, a binding is that of an answer of the HAL or of a validation.
LEMMA CurrentQuiet ==
    ASSUME PInv, mq = <<>>, NEW id \in Ids
    PROVE  /\ Current(id) <=> (\E m \in hal : m.id = id /\ ~m.late) \/ (val.validating /\ val.id = id)
           /\ Current(id) => net.binding /\ Exists(net, id) /\ net.ctrl[id].result = "pending"
BY EmptyQueue DEF PInv, Current, CurrentOK

\* A remote asks to pair.
LEMMA PairRequestKeeps ==
    ASSUME PairingAssumption, PInv, NEW r \in Remotes, NEW mode \in Modes, PairRequest(r, mode)
    PROVE  PInv'
<1>. DEFINE known == IdsOf(net, r) # {}
            chosen == IF known THEN Lowest(IdsOf(net, r)) ELSE Lowest(Free(net))
            full == ~known /\ Cardinality(Ids \ Free(net)) >= Room
            answer(id) == [id |-> id, ieee |-> r, late |-> FALSE, refused |-> net.ctrl[id].result = "in progress"]
            P(id) == /\ Clean(r, id) /\ hal' = {m \in hal : m.id # id} \cup {answer(id)}
                     /\ \E evict \in IF full THEN Ids \ Free(net) ELSE {net.evict} :
                          net' = [Accepted(net, id, r, mode) EXCEPT !.binding = TRUE, !.tag = TRUE, !.evict = evict]
<1>1. /\ mq = <<>> /\ mq' = mq /\ ~net.binding /\ pairs < MaxPairs /\ pairs' = pairs + 1
      /\ val' = val /\ proven' = proven
  BY Ids0 DEF PairRequest, Quiet
<1>1a. P(chosen) /\ (known \/ Free(net) # {})  BY Ids0 DEF PairRequest, Quiet
<1>2. TypesOK /\ net \in Network /\ NoRemote \notin Remotes  BY Ids0 DEF PInv, TypesOK
<1>3a. chosen \in Ids /\ (known <=> Exists(net, chosen)) /\ (known => net.ctrl[chosen].ieee = r)
  <2>1. CASE known
    <3>1. IdsOf(net, r) \subseteq Nat /\ IdsOf(net, r) # {}  BY <2>1, Ids0 DEF IdsOf
    <3>2. chosen \in IdsOf(net, r)  BY <2>1, <3>1, LowestOf
    <3>. QED  BY <1>2, <2>1, <3>2 DEF IdsOf, Exists
  <2>2. CASE ~known
    <3>1. Free(net) \subseteq Nat /\ Free(net) # {}  BY <1>1a, <2>2, Ids0 DEF Free
    <3>2. chosen \in Free(net)  BY <2>2, <3>1, LowestOf
    <3>. QED  BY <2>2, <3>2 DEF Free
  <2>. QED  BY <2>1, <2>2
<1>. HIDE DEF chosen, P
<1>3. PICK id \in Ids : P(id) /\ (known <=> Exists(net, id)) /\ (known => net.ctrl[id].ieee = r)
  BY <1>1a, <1>3a
<1>. DEFINE new == answer(id)
<1>3b. PICK a : a = Accepted(net, id, r, mode)  OBVIOUS
<1>4. /\ \A other \in Ids : net.ctrl[other].result \notin Ended
      /\ InProgress(val) => val.id \notin IdsOf(net, r)
      /\ id \notin Armed /\ net.evict = NoId
  BY <1>3 DEF P, Clean, Armed
<1>. HIDE DEF known
<1>5. PICK evict \in IF full THEN Ids \ Free(net) ELSE {net.evict} :
         net' = [a EXCEPT !.binding = TRUE, !.tag = TRUE, !.evict = evict]
  BY <1>3, <1>3b DEF P
<1>6. evict \in Ids \cup {NoId} /\ (evict # NoId => evict # id /\ ~Exists(net, id))
  <2>1. CASE full  BY <1>3, <1>5, <2>1 DEF Free
  <2>2. CASE ~full  BY <1>4, <1>5, <2>2
  <2>. QED  BY <2>1, <2>2
<1>7. net.ctrl[id].result # "in progress" /\ new.refused = FALSE  BY <1>3, <1>4 DEF Ended
<1>8. /\ a \in Network /\ \A i \in Ids \ {id} : a.ctrl[i] = net.ctrl[i]
      /\ a.fails = net.fails /\ a.evict = net.evict
      /\ a.ctrl[id].ieee = r /\ a.ctrl[id].result = "pending" /\ a.ctrl[id].conf = "pending"
      /\ Exists(net, id) => a.ctrl[id].bound = net.ctrl[id].bound /\ a.ctrl[id].backup = TRUE
      /\ ~Exists(net, id) => a.ctrl[id].bound = FALSE
  <2>1. Unrefused(net, id, r) /\ r # NoRemote  BY <1>2, <1>3, <1>7 DEF Unrefused
  <2>2. net \in Network /\ r \in Remotes /\ mode \in Modes /\ id \in Ids  BY <1>2
  <2>. QED  BY ONLY <1>3b, <2>1, <2>2, AcceptedFacts
<1>9. /\ net' \in Network /\ net'.ctrl = a.ctrl /\ net'.fails = a.fails /\ net'.evict = evict
      /\ net'.binding /\ net'.tag
  BY <1>5, <1>6, <1>8 DEF Network
<1>10. \A i \in Ids : ~Current(i)  BY <1>1, CurrentQuiet
<1>11. ~val.validating /\ \A m \in hal : m \in Answer /\ m.late /\ m.id \in Ids
  <2>1. \A m \in hal : m \in Answer /\ m.id \in Ids  BY DEF PInv, HalOK, Answer
  <2>. QED  BY <1>10, <2>1, <1>1, CurrentQuiet DEF PInv, HalOK, Answer, ValidationOK, InProgress
<1>12. /\ new \in Answer /\ new.id = id /\ ~new.late
       /\ \A m \in hal' : m = new \/ (m \in hal /\ m.id # id)
       /\ \A m \in hal : m.id # id => m \in hal'
       /\ new \in hal'
  BY <1>3, <1>7 DEF P, Answer
<1>. HIDE DEF new
<1>13. Queued = {} /\ Queued' = {} /\ QueueOK'  BY <1>1, EmptyQueue, QueueKept DEF PInv
<1>14. \A i \in Ids : Current(i)' <=> i = id
  <2>1. ASSUME NEW i \in Ids, Current(i)' PROVE i = id
    BY <1>1, <1>11, <1>12, <1>13, <2>1 DEF Current
  <2>2. Current(id)'  BY <1>12 DEF Current
  <2>. QED  BY <1>3, <2>1, <2>2
<1>15. \A i \in Ids : i # id => net'.ctrl[i] = net.ctrl[i] /\ (Exists(net', i) <=> Exists(net, i))
  BY <1>8, <1>9 DEF Exists
<1>16. Exists(net', id) /\ net'.ctrl[id].result = "pending" /\ net'.ctrl[id].conf = "pending"
  BY <1>2, <1>8, <1>9 DEF Exists
<1>17. TypesOK'  BY <1>1, <1>2, <1>9, Ids0 DEF TypesOK
<1>18. OnlyProvenBound'
  <2>1. OnlyProvenBound  BY DEF PInv
  <2>. QED  BY <1>1, <1>3, <1>8, <1>9, <2>1 DEF OnlyProvenBound
<1>19. HalOK'  BY <1>11, <1>12 DEF PInv, HalOK
<1>20. StagesOK'  BY <1>1, <1>11, <1>13 DEF StagesOK, OfType
<1>21. CurrentOK'  BY <1>6, <1>8, <1>9, <1>14, <1>16 DEF CurrentOK
<1>22. ControllersOK'
  <2>1. ASSUME NEW i \in Ids, Exists(net', i), i # id
        PROVE  \/ net'.ctrl[i].result = "success" /\ net'.ctrl[i].bound /\ \A m \in hal' : m.id # i
               \/ /\ net'.ctrl[i].result = "pending" /\ net'.ctrl[i].conf = "pending"
                  /\ net'.ctrl[i].bound => net'.ctrl[i].backup
                  /\ \E m \in hal' : m.id = i
    BY <1>4, <1>10, <1>12, <1>15, <2>1 DEF PInv, ControllersOK
  <2>2. (net'.ctrl[id].bound => net'.ctrl[id].backup) /\ Current(id)'
    BY <1>3, <1>8, <1>9, <1>14
  <2>. QED  BY <1>16, <2>1, <2>2 DEF ControllersOK
<1>23. LateOK'  BY <1>11, <1>12, <1>14 DEF LateOK
<1>24. EndsOK'  BY <1>13 DEF EndsOK, OfType
<1>25. ValidationOK'
  <2>1. ASSUME val.configuring
        PROVE  Exists(net, val.id) /\ net.ctrl[val.id].result = "success" /\ net.ctrl[val.id].conf = "pending"
               /\ val.id \in Ids /\ val.timer
    BY <1>1, <2>1, EmptyQueue DEF PInv, ValidationOK, InProgress
  <2>2. val.configuring => val.id # id
    BY <1>3, <1>4, <2>1 DEF InProgress, IdsOf
  <2>3. val.configuring =>
           /\ ~Current(val.id)' /\ val.id \in Ids /\ val.timer
           /\ Exists(net', val.id) /\ net'.ctrl[val.id].result = "success" /\ net'.ctrl[val.id].conf = "pending"
    BY <1>1, <1>14, <1>15, <2>1, <2>2
  <2>. QED  BY <1>1, <1>11, <2>3 DEF ValidationOK, InProgress
<1>26. FailsOK'
  <2>1. Failing' = Armed /\ Failing = Armed
    BY <1>8, <1>9, <1>13 DEF Failing, Armed, IsQueued
  <2>. QED  BY <1>4, <1>15, <2>1 DEF PInv, FailsOK, Armed
<1>27. TimersOK'
  <2>1. TimersOK /\ val.stray \in Nat /\ pairs \in Nat  BY <1>2 DEF PInv, TypesOK, Validation
  <2>. QED  BY <1>1, <2>1 DEF TimersOK, Counting
<1>. QED
  BY <1>13, <1>17, <1>18, <1>19, <1>20, <1>21, <1>22, <1>23, <1>24, <1>25, <1>26, <1>27 DEF PInv

-----------------------------------------------------------------------------
(* What the invariant says where the actions are taken. *)

\* While nothing is queued: one that is validated holds the binding and its timer runs, one that
\* is configured is bound and its timer runs.
LEMMA QuietFacts ==
    ASSUME PairingAssumption, PInv, mq = <<>>
    PROVE  /\ QueueOK /\ net \in Network /\ val \in Validation
           /\ val.validating =>
                 /\ val.id \in Ids /\ val.timer /\ ~val.configuring /\ Current(val.id) /\ ~net.tag
                 /\ Exists(net, val.id) /\ net.ctrl[val.id].result = "pending" /\ \A m \in hal : m.late
           /\ val.configuring =>
                 /\ val.id \in Ids /\ val.timer /\ ~val.validating /\ ~Current(val.id)
                 /\ Exists(net, val.id) /\ net.ctrl[val.id].result = "success"
                 /\ net.ctrl[val.id].conf = "pending"
           /\ (\A id \in Ids : ~Current(id)) => ~val.validating /\ \A m \in hal : m.late
           /\ Failing = Armed
<1>1. /\ QueueOK /\ net \in Network /\ val \in Validation /\ StagesOK /\ ValidationOK /\ HalOK
      /\ \A type, id : ~IsQueued(type, id)
  BY EmptyQueue DEF PInv, TypesOK
<1>2. OfType("end") = {} /\ Failing = Armed  BY <1>1, EmptyQueue DEF Failing, Armed
<1>3. ASSUME val.validating
      PROVE  /\ val.id \in Ids /\ val.timer /\ ~val.configuring /\ Current(val.id) /\ ~net.tag
             /\ Exists(net, val.id) /\ net.ctrl[val.id].result = "pending" /\ \A m \in hal : m.late
  <2>1. val.id \in Ids /\ val.timer /\ ~val.configuring /\ ~net.tag /\ ~Asked
    BY <1>1, <1>3 DEF ValidationOK, StagesOK, InProgress
  <2>2. \A m \in hal : m.late  BY <2>1 DEF Asked
  <2>3. Current(val.id)  BY <1>3 DEF Current
  <2>4. PICK id : id = val.id  OBVIOUS
  <2>5. Exists(net, id) /\ net.ctrl[id].result = "pending"  BY <2>1, <2>3, <2>4, CurrentQuiet
  <2>. QED  BY <2>1, <2>2, <2>3, <2>4, <2>5
<1>4. ASSUME val.configuring
      PROVE  /\ val.id \in Ids /\ val.timer /\ ~val.validating /\ ~Current(val.id)
             /\ Exists(net, val.id) /\ net.ctrl[val.id].result = "success"
             /\ net.ctrl[val.id].conf = "pending"
  BY <1>1, <1>2, <1>4 DEF ValidationOK, StagesOK, InProgress
<1>5. ASSUME \A id \in Ids : ~Current(id)
      PROVE  ~val.validating /\ \A m \in hal : m.late
  <2>1. ~val.validating  BY <1>3, <1>5
  <2>2. \A m \in hal : m.id \in Ids  BY <1>1 DEF HalOK, Answer
  <2>3. ASSUME NEW m \in hal, ~m.late PROVE FALSE
    <3>1. Current(m.id)  BY <2>3 DEF Current
    <3>. QED  BY <1>5, <2>2, <2>3, <3>1
  <2>. QED  BY <2>1, <2>3
<1>. QED  BY <1>1, <1>2, <1>3, <1>4, <1>5

\* A remote that reaches the network has been bound, has failed, or is being validated.
LEMMA ReachedFacts ==
    ASSUME PairingAssumption, PInv, NEW id \in Ids, Paired(id)
    PROVE  /\ mq = <<>> /\ Exists(net, id) /\ \A m \in hal : m.id # id
           /\ net.ctrl[id].result = "pending" => val.validating /\ val.id = id /\ Current(id)
           /\ net.ctrl[id].result = "success" => net.ctrl[id].bound /\ ~Current(id)
           /\ net.ctrl[id].result \in Ended =>
                 /\ net.ctrl[id].result # "failure" /\ ~val.validating
                 /\ (\A m \in hal : m.late) /\ \A i \in Ids : ~Current(i)
           /\ net.ctrl[id].result \in {"pending", "success"} \cup Ended
<1>1. mq = <<>> /\ Exists(net, id) /\ \A m \in hal : m.id # id
  BY Ids0 DEF Paired, Quiet
<1>2. net.ctrl[id].result \in Results  BY DEF PInv, TypesOK, Network, Controller
<1>3. Current(id) <=> val.validating /\ val.id = id  BY <1>1, CurrentQuiet
<1>4. Current(id) => net.ctrl[id].result = "pending"  BY <1>1, CurrentQuiet
<1>5. \/ net.ctrl[id].result = "success" /\ net.ctrl[id].bound
      \/ net.ctrl[id].result \in Ended \ {"failure"} /\ \A i \in Ids : ~Current(i)
      \/ net.ctrl[id].result = "pending" /\ Current(id)
  BY <1>1 DEF PInv, ControllersOK
<1>6. (\A i \in Ids : ~Current(i)) => ~val.validating /\ \A m \in hal : m.late  BY <1>1, QuietFacts
<1>. QED  BY <1>1, <1>2, <1>3, <1>4, <1>5, <1>6 DEF Results, Ended

-----------------------------------------------------------------------------
(* The HAL and the timer of the binding. *)

\* The first state.
LEMMA PInvInit == ASSUME PairingAssumption, Init PROVE PInv
<1>1. Queued = {} /\ OfType("end") = {} /\ OfType("paired") = {} /\ OfType("begin") = {}
      /\ \A type, id : ~IsQueued(type, id)
  BY EmptyQueue DEF Init
<1>2. \A id \in Ids : ~Exists(net, id) /\ ~Current(id) /\ ~net.ctrl[id].bound
  BY <1>1 DEF Init, Exists, NoController, Current
<1>3. net \in Network
  <2>1. [id \in Ids |-> NoController] \in [Ids -> Controller]  BY Ids0
  <2>. QED  BY <2>1 DEF Init, Network
<1>4. val \in Validation  BY Ids0 DEF Init, Validation
<1>5. TypesOK  BY <1>3, <1>4, Ids0 DEF TypesOK, Init
<1>6. QueueOK  BY DEF QueueOK, Init
<1>7. HalOK /\ LateOK  BY DEF Init, HalOK, LateOK
<1>8. StagesOK /\ ValidationOK  BY <1>1 DEF Init, StagesOK, Asked, ValidationOK, InProgress
<1>9. CurrentOK /\ ControllersOK /\ EndsOK /\ FailsOK /\ OnlyProvenBound
  BY <1>1, <1>2 DEF CurrentOK, ControllersOK, EndsOK, FailsOK, OnlyProvenBound, Failing, Armed
<1>10. TimersOK  BY <1>1 DEF Init, TimersOK, Counting, Starting, Asked
<1>. QED  BY <1>5, <1>6, <1>7, <1>8, <1>9, <1>10 DEF PInv

\* The HAL answers in time: the answer waits in its place.
LEMMA HalResultKeeps ==
    ASSUME PairingAssumption, PInv, NEW m, NEW ok \in BOOLEAN, HalResult(m, ok)
    PROVE  PInv'
<1>. DEFINE e == [type |-> "paired", id |-> m.id, ieee |-> m.ieee, ok |-> ok]
<1>1. /\ m \in hal /\ ~m.late /\ hal' = hal \ {m} /\ mq' = Append(mq, e)
      /\ net' = net /\ val' = val /\ proven' = proven /\ pairs' = pairs
  BY Ids0 DEF HalResult
<1>2. m \in Answer /\ m.id \in Ids /\ e \in Message /\ e.type = "paired" /\ e.id = m.id
  BY <1>1 DEF PInv, HalOK, Answer, Message
<1>. HIDE DEF e
<1>3. /\ OfType("paired") = {} /\ OfType("begin") = {} /\ OfType("end") = {} /\ ~val.validating
  BY <1>1 DEF PInv, StagesOK, Asked
<1>4. \A x \in Queued : x.type \in {"configured", "failed"}
  <2>1. Queued \subseteq Message  BY DEF PInv, QueueOK, Queued
  <2>. QED  BY <1>3, <2>1 DEF OfType, Message
<1>5. QueueOK' /\ Queued' = Queued \cup {e}  BY <1>1, <1>2, <1>4, QueueAnswered DEF PInv
<1>6. /\ OfType("begin")' = {} /\ OfType("end")' = {} /\ OfType("paired")' = {e}
      /\ \A type, id : IsQueued(type, id)' <=> IsQueued(type, id) \/ (type = "paired" /\ id = m.id)
  BY <1>2, <1>3, <1>5 DEF OfType, IsQueued
<1>7. \A x \in hal : x.id = m.id \/ ~x.late => x = m  BY <1>1 DEF PInv, HalOK
<1>8. Current(m.id) /\ Current(m.id)'  BY <1>1, <1>2, <1>5 DEF Current
<1>9. \A i \in Ids : Current(i)' <=> Current(i)
  BY <1>1, <1>2, <1>5, <1>7, <1>8 DEF Current, Unbegun
<1>10. TypesOK' /\ OnlyProvenBound'  BY <1>1 DEF PInv, TypesOK, OnlyProvenBound
<1>11. HalOK'  BY <1>1 DEF PInv, HalOK
<1>12. StagesOK'
  BY <1>1, <1>3, <1>4, <1>5, <1>6, <1>7, <1>2 DEF StagesOK, Unbegun
<1>13. CurrentOK'  BY <1>1, <1>5, <1>9 DEF PInv, CurrentOK
<1>14. ControllersOK'
  <2>1. \A i \in Ids : (\E x \in hal : x.id = i) => Current(i) \/ \E x \in hal' : x.id = i
    BY <1>1, <1>8
  <2>. QED  BY <1>1, <1>9, <2>1 DEF PInv, ControllersOK
<1>15. LateOK'
  <2>1. \A x \in hal : x.id \in Ids  BY DEF PInv, HalOK, Answer
  <2>. QED  BY <1>1, <1>9, <2>1 DEF PInv, LateOK
<1>16. EndsOK'  BY <1>6 DEF EndsOK
<1>17. ValidationOK'
  <2>1. ValidationOK  BY DEF PInv
  <2>2. InProgress(val') => val'.id \in Ids  BY <1>1, <2>1 DEF ValidationOK, InProgress
  <2>. QED  BY <1>1, <1>3, <1>6, <1>9, <2>1, <2>2 DEF ValidationOK, InProgress
<1>18. FailsOK'
  <2>1. Failing' = Failing  BY <1>1, <1>6 DEF Failing, Armed
  <2>. QED  BY <1>1, <2>1 DEF PInv, FailsOK
<1>19. TimersOK'
  <2>1. Starting  BY <1>1 DEF Starting, Asked
  <2>. QED  BY <1>1, <2>1 DEF PInv, TimersOK, TypesOK, Validation, Counting
<1>. QED
  BY <1>5, <1>10, <1>11, <1>12, <1>13, <1>14, <1>15, <1>16, <1>17, <1>18, <1>19 DEF PInv

\* The HAL has not answered in time: the binding is released, the answer is late.
LEMMA BindingTimeoutKeeps ==
    ASSUME PairingAssumption, PInv, BindingTimeout
    PROVE  PInv'
<1>1. /\ net.tag /\ mq = <<>> /\ mq' = mq /\ net' = [net EXCEPT !.binding = FALSE, !.tag = FALSE]
      /\ hal' = {[m EXCEPT !.late = TRUE] : m \in hal}
      /\ val' = val /\ proven' = proven /\ pairs' = pairs
  BY Ids0 DEF BindingTimeout, Quiet
<1>2. /\ net' \in Network /\ net'.ctrl = net.ctrl /\ net'.fails = net.fails /\ net'.evict = net.evict
  BY <1>1 DEF PInv, TypesOK, Network
<1>3. \A i \in Ids : Exists(net', i) <=> Exists(net, i)  BY <1>2 DEF Exists
<1>4. ~val.validating  BY <1>1, QuietFacts
<1>5. hal \subseteq Answer /\ \A m \in hal : m.id \in Ids  BY DEF PInv, HalOK, Answer
<1>6. \A m \in hal : [m EXCEPT !.late = TRUE] \in Answer /\ [m EXCEPT !.late = TRUE].late
                        /\ [m EXCEPT !.late = TRUE].id = m.id
  BY <1>5 DEF Answer
<1>7. /\ hal' \subseteq Answer /\ \A m \in hal' : m.late /\ \E x \in hal : x.id = m.id
      /\ \A x \in hal : \E m \in hal' : m.id = x.id
  BY <1>1, <1>6
<1>8. QueueOK' /\ Queued' = {} /\ Queued = {}  BY <1>1, EmptyQueue, QueueKept DEF PInv
<1>9. /\ OfType("begin")' = {} /\ OfType("end")' = {} /\ OfType("paired")' = {}
      /\ \A type, id : ~IsQueued(type, id)'
  BY <1>8 DEF OfType, IsQueued
<1>10. \A i \in Ids : ~Current(i)'  BY <1>1, <1>4, <1>7, <1>8 DEF Current
<1>11. TypesOK' /\ OnlyProvenBound'  BY <1>1, <1>2 DEF PInv, TypesOK, OnlyProvenBound
<1>12. HalOK'
  <2>1. \A m, n \in hal : m.id = n.id => m = n  BY DEF PInv, HalOK
  <2>2. ASSUME NEW m \in hal', NEW n \in hal', m.id = n.id PROVE m = n
    <3>1. PICK x \in hal, y \in hal : m = [x EXCEPT !.late = TRUE] /\ n = [y EXCEPT !.late = TRUE]  BY <1>1
    <3>2. x.id = y.id  BY <1>6, <2>2, <3>1
    <3>. QED  BY <2>1, <3>1, <3>2
  <2>. QED  BY <1>7, <2>2 DEF HalOK
<1>13. StagesOK'  BY <1>1, <1>4, <1>7, <1>8, <1>9 DEF StagesOK, Asked
<1>14. CurrentOK' /\ EndsOK'  BY <1>9, <1>10 DEF CurrentOK, EndsOK
<1>15. LateOK'  BY <1>5, <1>7, <1>10 DEF LateOK
<1>16. ControllersOK'
  <2>1. ASSUME NEW i \in Ids, Current(i) PROVE \E m \in hal : m.id = i
    BY <1>1, <1>4, <2>1, CurrentQuiet
  <2>. QED  BY <1>2, <1>3, <1>7, <1>10, <2>1 DEF PInv, ControllersOK
<1>17. ValidationOK'
  <2>1. val.configuring => /\ val.id \in Ids /\ val.timer /\ Exists(net, val.id)
                           /\ net.ctrl[val.id].result = "success" /\ net.ctrl[val.id].conf = "pending"
    BY <1>1, QuietFacts
  <2>. QED  BY <1>1, <1>2, <1>3, <1>4, <1>10, <2>1 DEF ValidationOK, InProgress
<1>18. FailsOK'
  <2>1. Failing' = Armed /\ Failing = Armed  BY <1>1, <1>2, <1>9, QuietFacts DEF Failing, Armed
  <2>. QED  BY <1>2, <1>3, <2>1 DEF PInv, FailsOK, Armed
<1>19. TimersOK'
  <2>1. ~Starting'  BY <1>7, <1>8 DEF Starting, Asked, OfType
  <2>. QED  BY <1>1, <2>1 DEF PInv, TimersOK, TypesOK, Validation, Counting
<1>. QED
  BY <1>8, <1>11, <1>12, <1>13, <1>14, <1>15, <1>16, <1>17, <1>18, <1>19 DEF PInv

-----------------------------------------------------------------------------
(* The main thread has the result of a pairing. *)

\* A result is that of the one binding: its controller is there, and waits for it.
LEMMA ResultFacts ==
    ASSUME PairingAssumption, PInv, Received("paired"), NEW id, id = Head(mq).id
    PROVE  /\ Queued = {Head(mq)} /\ Tail(mq) = <<>> /\ Head(mq) \in Message /\ id \in Ids
           /\ \A m \in hal : m.late /\ m.id # id
           /\ Current(id) /\ \A i \in Ids : Current(i) => i = id
           /\ ~val.validating /\ Failing = Armed
           /\ Exists(net, id) /\ net.binding /\ id \notin Failing
           /\ net.ctrl[id].result = "pending" /\ net.ctrl[id].conf = "pending"
           /\ net.ctrl[id].bound => net.ctrl[id].backup
           /\ net.evict # NoId => net.evict # id /\ ~net.ctrl[id].bound
           /\ val.configuring =>
                 /\ val.id \in Ids /\ val.id # id /\ val.timer /\ Exists(net, val.id)
                 /\ net.ctrl[val.id].result = "success" /\ net.ctrl[val.id].conf = "pending"
           /\ Starting
<1>1. mq # <<>> /\ Head(mq).type = "paired"  BY DEF Received
<1>2. /\ Queued = {Head(mq)} /\ Tail(mq) = <<>> /\ Head(mq) \in Message /\ id \in Ids
  <2>1. Queued = {Head(mq)} /\ Tail(mq) = <<>> /\ Head(mq) \in Message
    BY <1>1, FirstQueued DEF PInv
  <2>. QED  BY <1>1, <2>1 DEF Message
<1>3. OfType("paired") # {} /\ Asked /\ Starting  BY <1>1, <1>2 DEF OfType, Asked, Starting
<1>4. ~val.validating /\ \A m \in hal : m.late  BY <1>3 DEF PInv, StagesOK
<1>5. Current(id)  BY <1>1, <1>2 DEF Current
<1>6. \A m \in hal : m.id # id  BY <1>4, <1>5 DEF PInv, LateOK
<1>7. \A i \in Ids : Current(i) => i = id  BY <1>2, <1>5 DEF PInv, CurrentOK
<1>8. EndMsg(id, "interactive", "failure") \notin Queued  BY <1>1, <1>2 DEF EndMsg
<1>9. /\ Exists(net, id) /\ net.binding /\ net.ctrl[id].result = "pending"
      /\ net.evict # NoId => net.evict # id /\ ~net.ctrl[id].bound
  BY <1>2, <1>5, <1>8 DEF PInv, CurrentOK
<1>10. net.ctrl[id].conf = "pending" /\ (net.ctrl[id].bound => net.ctrl[id].backup)
  BY <1>2, <1>9 DEF PInv, ControllersOK, Ended
<1>11. id \notin Failing  BY <1>2, <1>9 DEF PInv, FailsOK, Ended
<1>12. /\ OfType("end") = {} /\ \A i : ~IsQueued("configured", i) /\ ~IsQueued("failed", i)
  BY <1>1, <1>2 DEF OfType, IsQueued
<1>13. Failing = Armed  BY <1>12 DEF Failing, Armed
<1>14. val.configuring =>
          /\ val.id \in Ids /\ val.id # id /\ val.timer /\ Exists(net, val.id)
          /\ net.ctrl[val.id].result = "success" /\ net.ctrl[val.id].conf = "pending"
  BY <1>5, <1>12 DEF PInv, ValidationOK, InProgress
<1>. QED  BY <1>2, <1>3, <1>4, <1>5, <1>6, <1>7, <1>9, <1>10, <1>11, <1>13, <1>14

\* The others are as they were when a binding ends: those whose result is pending have a late answer.
LEMMA OthersFacts ==
    ASSUME PInv, NEW id \in Ids, \A i \in Ids : Current(i) => i = id,
           NEW i \in Ids, i # id, Exists(net, i)
    PROVE  \/ net.ctrl[i].result = "success" /\ net.ctrl[i].bound /\ \A m \in hal : m.id # i
           \/ /\ net.ctrl[i].result \in Ended \ {"failure"} /\ \A m \in hal : m.id # i
              /\ \A other \in Ids : ~Current(other)
           \/ /\ net.ctrl[i].result = "pending" /\ net.ctrl[i].conf = "pending"
              /\ net.ctrl[i].bound => net.ctrl[i].backup
              /\ \E m \in hal : m.id = i
BY DEF PInv, ControllersOK

\* The pairing failed: the controller goes, or has its former pairing again.
LEMMA PairFailedKeeps ==
    ASSUME PairingAssumption, PInv, PairFailed
    PROVE  PInv'
<1>. DEFINE N(id) == IF ~Exists(net, id) THEN net
                     ELSE IF net.ctrl[id].bound THEN Restored(net, id) ELSE Removed(net, id)
<1>1. PICK id : id = Head(mq).id  OBVIOUS
<1>2. PICK n : n = N(id)  OBVIOUS
<1>3. /\ Received("paired") /\ mq # <<>> /\ mq' = Tail(mq)
      /\ net' = [n EXCEPT !.binding = FALSE, !.tag = FALSE]
      /\ val' = val /\ hal' = hal /\ proven' = proven /\ pairs' = pairs
  BY <1>1, <1>2 DEF PairFailed, Received
<1>4. /\ Queued = {Head(mq)} /\ id \in Ids /\ \A m \in hal : m.late /\ m.id # id
      /\ Current(id) /\ \A i \in Ids : Current(i) => i = id
      /\ ~val.validating /\ Failing = Armed /\ Exists(net, id) /\ id \notin Failing
      /\ net.ctrl[id].bound => net.ctrl[id].backup
      /\ val.configuring =>
            /\ val.id \in Ids /\ val.id # id /\ val.timer /\ Exists(net, val.id)
            /\ net.ctrl[val.id].result = "success" /\ net.ctrl[val.id].conf = "pending"
  BY <1>1, <1>3, ResultFacts
<1>5. net \in Network  BY DEF PInv, TypesOK
<1>6. /\ n \in Network /\ n.fails = net.fails /\ \A i \in Ids \ {id} : n.ctrl[i] = net.ctrl[i]
      /\ net.ctrl[id].bound => /\ n.ctrl[id].result = "success" /\ n.ctrl[id].bound
                               /\ n.ctrl[id].ieee = net.ctrl[id].ieee
      /\ ~net.ctrl[id].bound => n.ctrl[id] = NoController
  <2>1. CASE net.ctrl[id].bound
    <3>1. n = Restored(net, id) /\ net.ctrl[id].backup  BY <1>2, <1>4, <2>1
    <3>2. /\ n \in Network /\ n.fails = net.fails /\ \A i \in Ids \ {id} : n.ctrl[i] = net.ctrl[i]
          /\ n.ctrl[id].result = "success" /\ n.ctrl[id].ieee = net.ctrl[id].ieee
          /\ n.ctrl[id].bound = net.ctrl[id].bound
      BY <1>4, <1>5, <3>1, RestoredFacts
    <3>. QED  BY <2>1, <3>2
  <2>2. CASE ~net.ctrl[id].bound
    <3>1. n = Removed(net, id)  BY <1>2, <1>4, <2>2
    <3>2. /\ n \in Network /\ n.fails = net.fails /\ \A i \in Ids \ {id} : n.ctrl[i] = net.ctrl[i]
          /\ n.ctrl[id] = NoController
      BY <1>4, <1>5, <3>1, RemovedFacts
    <3>. QED  BY <2>2, <3>2
  <2>. QED  BY <2>1, <2>2
<1>7. net' \in Network /\ net'.ctrl = n.ctrl /\ net'.fails = n.fails  BY <1>3, <1>6 DEF Network
<1>8. QueueOK' /\ Queued' = {}  BY <1>3, <1>4, QueueTaken DEF PInv
<1>9. /\ OfType("begin")' = {} /\ OfType("end")' = {} /\ OfType("paired")' = {}
      /\ \A type, i : ~IsQueued(type, i)'
  BY <1>8 DEF OfType, IsQueued
<1>10. \A i \in Ids : ~Current(i)'  BY <1>3, <1>4, <1>8 DEF Current
<1>11. \A i \in Ids : i # id => net'.ctrl[i] = net.ctrl[i] /\ (Exists(net', i) <=> Exists(net, i))
  BY <1>6, <1>7 DEF Exists
<1>12. /\ Exists(net', id) => net.ctrl[id].bound /\ net'.ctrl[id].result = "success"
       /\ net'.ctrl[id].bound => net.ctrl[id].bound /\ net'.ctrl[id].ieee = net.ctrl[id].ieee
       /\ Exists(net', id) => net'.ctrl[id].bound
  BY <1>6, <1>7 DEF Exists, NoController
<1>13. TypesOK'  BY <1>3, <1>7 DEF PInv, TypesOK
<1>14. OnlyProvenBound'
  BY <1>3, <1>4, <1>11, <1>12 DEF PInv, OnlyProvenBound
<1>15. HalOK' /\ LateOK'
  <2>1. \A m \in hal : m.id \in Ids  BY DEF PInv, HalOK, Answer
  <2>. QED  BY <1>3, <1>10, <2>1 DEF PInv, HalOK, LateOK
<1>16. StagesOK'  BY <1>3, <1>4, <1>8, <1>9 DEF StagesOK, Asked
<1>17. CurrentOK' /\ EndsOK'  BY <1>9, <1>10 DEF CurrentOK, EndsOK
<1>18. ControllersOK'
  <2>1. ASSUME NEW i \in Ids, Exists(net', i), i # id
        PROVE  \/ net'.ctrl[i].result = "success" /\ net'.ctrl[i].bound /\ \A m \in hal' : m.id # i
               \/ /\ net'.ctrl[i].result = "pending" /\ net'.ctrl[i].conf = "pending"
                  /\ net'.ctrl[i].bound => net'.ctrl[i].backup
                  /\ \E m \in hal' : m.id = i
    BY <1>3, <1>4, <1>11, <2>1, OthersFacts
  <2>. QED  BY <1>3, <1>4, <1>12, <2>1 DEF ControllersOK
<1>19. ValidationOK'
  BY <1>3, <1>4, <1>10, <1>11 DEF ValidationOK, InProgress
<1>20. FailsOK'
  <2>1. Failing' = Armed  BY <1>6, <1>7, <1>9 DEF Failing, Armed
  <2>2. \A i \in Failing : i \in Ids /\ (Exists(net, i) => net.ctrl[i].result \in Ended /\ ~net.ctrl[i].bound)
    BY DEF PInv, FailsOK, Failing, Armed
  <2>3. \A i \in Armed : Exists(net', i) => net'.ctrl[i].result \in Ended /\ ~net'.ctrl[i].bound
    BY <1>4, <1>11, <2>2
  <2>. QED  BY <2>1, <2>3 DEF FailsOK
<1>21. TimersOK'
  <2>1. ~Starting'  BY <1>3, <1>4, <1>8 DEF Starting, Asked, OfType
  <2>. QED  BY <1>3, <2>1 DEF PInv, TimersOK, TypesOK, Validation, Counting
<1>. QED
  BY <1>8, <1>13, <1>14, <1>15, <1>16, <1>17, <1>18, <1>19, <1>20, <1>21 DEF PInv

\* The pairing was normal: the message that begins the validation is sent.
LEMMA PairedNormallyKeeps ==
    ASSUME PairingAssumption, PInv, PairedNormally
    PROVE  PInv'
<1>1. PICK id : id = Head(mq).id  OBVIOUS
<1>2. Received("paired") /\ mq # <<>> /\ Head(mq).type = "paired"  BY DEF PairedNormally, Received
<1>3. /\ Queued = {Head(mq)} /\ id \in Ids /\ \A m \in hal : m.late /\ m.id # id
      /\ Current(id) /\ \A i \in Ids : Current(i) => i = id
      /\ ~val.validating /\ Failing = Armed /\ Exists(net, id) /\ net.binding
      /\ net.ctrl[id].result = "pending" /\ net.ctrl[id].conf = "pending"
      /\ net.ctrl[id].bound => net.ctrl[id].backup
      /\ net.evict # NoId => net.evict # id /\ ~net.ctrl[id].bound
      /\ val.configuring =>
            /\ val.id \in Ids /\ val.id # id /\ val.timer /\ Exists(net, val.id)
            /\ net.ctrl[val.id].result = "success" /\ net.ctrl[val.id].conf = "pending"
      /\ Starting
  BY <1>1, <1>2, ResultFacts
<1>4. /\ mq' = Append(Tail(mq), BeginMsg(id)) /\ net' = net /\ val' = val /\ hal' = hal
      /\ proven' = proven /\ pairs' = pairs
  BY <1>1, <1>3 DEF PairedNormally
<1>. DEFINE e == BeginMsg(id)
<1>5. e \in Message /\ e.type = "begin" /\ e.id = id  BY <1>3 DEF BeginMsg, Message
<1>. HIDE DEF e
<1>6. QueueOK' /\ Queued' = {e}
  <2>1. mq' = Append(Tail(mq), e) /\ QueueOK  BY <1>4 DEF PInv, e
  <2>. QED  BY <1>2, <1>5, <2>1, QueueReplaced
<1>7. /\ OfType("begin")' = {e} /\ OfType("end")' = {} /\ OfType("paired")' = {}
      /\ \A type, i : IsQueued(type, i)' => type = "begin"
  BY <1>5, <1>6 DEF OfType, IsQueued
<1>8. \A i \in Ids : Current(i)' <=> i = id  BY <1>3, <1>4, <1>5, <1>6 DEF Current, Unbegun
<1>9. \A i \in Ids : Current(i)' <=> Current(i)  BY <1>3, <1>8
<1>10. TypesOK' /\ OnlyProvenBound' /\ HalOK'  BY <1>4 DEF PInv, TypesOK, OnlyProvenBound, HalOK
<1>11. LateOK'
  <2>1. \A m \in hal : m.id \in Ids  BY DEF PInv, HalOK, Answer
  <2>. QED  BY <1>3, <1>4, <1>8, <2>1 DEF LateOK
<1>12. StagesOK'  BY <1>3, <1>4, <1>5, <1>6, <1>7 DEF StagesOK, Asked, Unbegun
<1>13. CurrentOK'  BY <1>3, <1>4, <1>8 DEF CurrentOK
<1>14. ControllersOK'  BY <1>4, <1>9 DEF PInv, ControllersOK
<1>15. EndsOK'  BY <1>7 DEF EndsOK
<1>16. ValidationOK'  BY <1>3, <1>4, <1>8 DEF ValidationOK, InProgress
<1>17. FailsOK'
  <2>1. Failing' = Armed  BY <1>4, <1>7 DEF Failing, Armed
  <2>. QED  BY <1>3, <1>4, <2>1 DEF PInv, FailsOK
<1>18. TimersOK'  BY <1>3, <1>4 DEF PInv, TimersOK, TypesOK, Validation, Counting
<1>. QED
  BY <1>6, <1>10, <1>11, <1>12, <1>13, <1>14, <1>15, <1>16, <1>17, <1>18 DEF PInv

\* The pairing was automatic or by the button: the controller is bound, the chosen one goes,
\* and the message that ends the validation again is sent.
LEMMA PairedAutomaticallyKeeps ==
    ASSUME PairingAssumption, PInv, PairedAutomatically
    PROVE  PInv'
<1>1. PICK id : id = Head(mq).id  OBVIOUS
<1>2. Received("paired") /\ mq # <<>> /\ Head(mq).type = "paired"  BY DEF PairedAutomatically, Received
<1>3. /\ Queued = {Head(mq)} /\ id \in Ids /\ \A m \in hal : m.late /\ m.id # id
      /\ \A i \in Ids : Current(i) => i = id
      /\ ~val.validating /\ Failing = Armed /\ Exists(net, id) /\ id \notin Failing
      /\ net.ctrl[id].result = "pending" /\ net.ctrl[id].conf = "pending"
      /\ net.evict # NoId => net.evict # id /\ ~net.ctrl[id].bound
      /\ val.configuring =>
            /\ val.id \in Ids /\ val.id # id /\ val.timer /\ Exists(net, val.id)
            /\ net.ctrl[val.id].result = "success" /\ net.ctrl[val.id].conf = "pending"
      /\ Starting
  BY <1>1, <1>2, ResultFacts
<1>4. PICK n : n = BindValidationEnd(net, id, "success")  OBVIOUS
<1>. DEFINE e == EndMsg(id, "auto", "success")
<1>5. /\ mq' = Append(Tail(mq), e) /\ net' = n /\ val' = Informed(val) /\ hal' = hal
      /\ proven' = proven \cup {net.ctrl[id].ieee} /\ pairs' = pairs
  BY <1>1, <1>3, <1>4 DEF PairedAutomatically
<1>6. e \in Message /\ e.type = "end" /\ e.id = id /\ e.kind = "auto" /\ e.result = "success"
  BY <1>3 DEF EndMsg, Message, Kinds, Results
<1>. HIDE DEF e
<1>7. QueueOK' /\ Queued' = {e}
  <2>1. mq' = Append(Tail(mq), e) /\ QueueOK  BY <1>5 DEF PInv
  <2>. QED  BY <1>2, <1>6, <2>1, QueueReplaced
<1>8. net \in Network /\ net.evict \in Ids \cup {NoId}  BY DEF PInv, TypesOK, Network
<1>9. /\ n \in Network /\ n.fails = net.fails /\ n.evict = NoId
      /\ \A i \in Ids : i # id /\ i # net.evict => n.ctrl[i] = net.ctrl[i]
      /\ net.evict \in Ids => n.ctrl[net.evict] = NoController
      /\ n.ctrl[id].result = "success" /\ n.ctrl[id].ieee = net.ctrl[id].ieee
      /\ n.ctrl[id].bound = TRUE /\ n.ctrl[id].conf = "pending"
  <2>1. "success" \in Results /\ id # net.evict  BY <1>3, Ids0 DEF Results
  <2>2. /\ n \in Network /\ n.fails = net.fails /\ n.evict = NoId
        /\ \A i \in Ids : i # id /\ i # net.evict => n.ctrl[i] = net.ctrl[i]
        /\ net.evict \in Ids => n.ctrl[net.evict] = NoController
        /\ n.ctrl[id].result = "success" /\ n.ctrl[id].ieee = net.ctrl[id].ieee
        /\ n.ctrl[id].bound = (net.ctrl[id].bound \/ net.ctrl[id].result = "pending")
        /\ n.ctrl[id].conf = net.ctrl[id].conf
    <3>1. EndedAs(n, id, "success")  BY <1>3, <1>4, <1>8, <2>1, EndLeaves
    <3>. QED  BY <1>3, <2>1, <3>1 DEF EndedAs
  <2>. QED  BY <1>3, <2>2
<1>10. /\ OfType("begin")' = {} /\ OfType("end")' = {e} /\ OfType("paired")' = {}
       /\ \A type, i : IsQueued(type, i)' => type = "end"
  BY <1>6, <1>7 DEF OfType, IsQueued
<1>11. val' \in Validation /\ val'.validating = val.validating /\ val'.configuring = val.configuring
       /\ val'.id = val.id /\ val'.timer = val.timer /\ val'.stray = val.stray
  <2>1. val \in Validation  BY DEF PInv, TypesOK
  <2>. QED  BY <1>5, <2>1, InformedFacts
<1>12. \A i \in Ids : ~Current(i)'  BY <1>3, <1>5, <1>6, <1>7, <1>11 DEF Current, Unbegun
<1>13. /\ \A i \in Ids : i # id /\ i # net.evict => net'.ctrl[i] = net.ctrl[i] /\ (Exists(net', i) <=> Exists(net, i))
       /\ net.evict \in Ids => ~Exists(net', net.evict) /\ ~net'.ctrl[net.evict].bound
       /\ Exists(net', id)
  BY <1>3, <1>5, <1>9 DEF Exists, NoController
<1>14. TypesOK'
  <2>1. net.ctrl[id].ieee \in Remotes
    BY <1>3, <1>8 DEF Network, Controller, Exists
  <2>. QED  BY <1>5, <1>9, <1>11, <2>1 DEF PInv, TypesOK
<1>15. OnlyProvenBound'
  <2>1. \A i \in Ids : net.ctrl[i].bound => net.ctrl[i].ieee \in proven \/ i \in Precommissioned
    BY DEF PInv, OnlyProvenBound
  <2>. QED  BY <1>5, <1>9, <1>13, <2>1 DEF OnlyProvenBound
<1>16. HalOK' /\ LateOK'
  <2>1. \A m \in hal : m.id \in Ids  BY DEF PInv, HalOK, Answer
  <2>. QED  BY <1>5, <1>12, <2>1 DEF PInv, HalOK, LateOK
<1>17. StagesOK'
  BY <1>3, <1>5, <1>6, <1>7, <1>10, <1>11 DEF StagesOK, Asked, Unbegun
<1>18. CurrentOK'  BY <1>12 DEF CurrentOK
<1>19. ControllersOK'
  <2>1. ASSUME NEW i \in Ids, Exists(net', i), i # id
        PROVE  \/ net'.ctrl[i].result = "success" /\ net'.ctrl[i].bound /\ \A m \in hal' : m.id # i
               \/ /\ net'.ctrl[i].result \in Ended \ {"failure"} /\ \A m \in hal' : m.id # i
               \/ /\ net'.ctrl[i].result = "pending" /\ net'.ctrl[i].conf = "pending"
                  /\ net'.ctrl[i].bound => net'.ctrl[i].backup
                  /\ \E m \in hal' : m.id = i
    <3>1. i # net.evict  BY <1>13, <2>1
    <3>. QED  BY <1>3, <1>5, <1>13, <2>1, <3>1, OthersFacts
  <2>. QED  BY <1>3, <1>5, <1>9, <1>12, <2>1 DEF ControllersOK
<1>20. EndsOK'
  <2>1. Exists(net', e.id) /\ net'.ctrl[e.id].result = "success" /\ net'.ctrl[e.id].conf = "pending"
        /\ net'.evict = NoId /\ ~val'.validating
    BY <1>3, <1>5, <1>6, <1>9, <1>11, <1>13
  <2>2. EndOK(e)'  BY <1>6, <1>12, <2>1 DEF EndOK
  <2>. QED  BY <1>10, <2>2 DEF EndsOK
<1>21. ValidationOK'
  <2>1. \E m \in OfType("end")' : m.kind = "auto"  BY <1>6, <1>10
  <2>. QED  BY <1>3, <1>11, <1>12, <2>1 DEF ValidationOK, InProgress
<1>22. FailsOK'
  <2>1. Failing' = Armed  BY <1>5, <1>9, <1>10 DEF Failing, Armed
  <2>2. \A i \in Failing : i \in Ids /\ (Exists(net, i) => net.ctrl[i].result \in Ended /\ ~net.ctrl[i].bound)
    BY DEF PInv, FailsOK, Failing, Armed
  <2>3. \A i \in Armed : Exists(net', i) => net'.ctrl[i].result \in Ended /\ ~net'.ctrl[i].bound
    BY <1>3, <1>13, <2>2
  <2>. QED  BY <2>1, <2>3 DEF FailsOK
<1>23. TimersOK'  BY <1>3, <1>5, <1>11 DEF PInv, TimersOK, TypesOK, Validation, Counting
<1>. QED
  BY <1>7, <1>14, <1>15, <1>16, <1>17, <1>18, <1>19, <1>20, <1>21, <1>22, <1>23 DEF PInv

-----------------------------------------------------------------------------
(* The main thread begins and ends validations. *)

\* A validation that is to begin is that of the one binding.
LEMMA BeginFacts ==
    ASSUME PairingAssumption, PInv, Received("begin"), NEW id, id = Head(mq).id
    PROVE  /\ Queued = {Head(mq)} /\ Tail(mq) = <<>> /\ id \in Ids
           /\ \A m \in hal : m.late /\ m.id # id
           /\ \A i \in Ids : Current(i) <=> i = id
           /\ ~val.validating /\ Failing = Armed
           /\ Exists(net, id) /\ net.binding /\ net.ctrl[id].result = "pending"
           /\ net.evict # NoId => net.evict # id /\ ~net.ctrl[id].bound
           /\ val.configuring =>
                 /\ val.id \in Ids /\ val.id # id /\ val.timer /\ Exists(net, val.id)
                 /\ net.ctrl[val.id].result = "success" /\ net.ctrl[val.id].conf = "pending"
           /\ Starting
<1>1. mq # <<>> /\ Head(mq).type = "begin"  BY DEF Received
<1>2. Queued = {Head(mq)} /\ Tail(mq) = <<>> /\ id \in Ids
  <2>1. Queued = {Head(mq)} /\ Tail(mq) = <<>> /\ Head(mq) \in Message
    BY <1>1, FirstQueued DEF PInv
  <2>. QED  BY <1>1, <2>1 DEF Message
<1>3. OfType("begin") # {} /\ Starting  BY <1>1, <1>2 DEF OfType, Starting
<1>4. ~val.validating /\ \A m \in hal : m.late
  BY <1>1, <1>2, <1>3 DEF PInv, StagesOK, Asked
<1>5. Current(id)  BY <1>1, <1>2 DEF Current
<1>6. \A m \in hal : m.id # id  BY <1>4, <1>5 DEF PInv, LateOK
<1>7. \A i \in Ids : Current(i) <=> i = id  BY <1>2, <1>5 DEF PInv, CurrentOK
<1>8. EndMsg(id, "interactive", "failure") \notin Queued  BY <1>1, <1>2 DEF EndMsg
<1>9. /\ Exists(net, id) /\ net.binding /\ net.ctrl[id].result = "pending"
      /\ net.evict # NoId => net.evict # id /\ ~net.ctrl[id].bound
  BY <1>2, <1>5, <1>8 DEF PInv, CurrentOK
<1>10. /\ OfType("end") = {} /\ \A i : ~IsQueued("configured", i) /\ ~IsQueued("failed", i)
  BY <1>1, <1>2 DEF OfType, IsQueued
<1>11. Failing = Armed  BY <1>10 DEF Failing, Armed
<1>12. val.configuring =>
          /\ val.id \in Ids /\ val.id # id /\ val.timer /\ Exists(net, val.id)
          /\ net.ctrl[val.id].result = "success" /\ net.ctrl[val.id].conf = "pending"
  BY <1>5, <1>10 DEF PInv, ValidationOK, InProgress
<1>. QED  BY <1>2, <1>3, <1>4, <1>6, <1>7, <1>9, <1>11, <1>12

\* A validation that begins has a timer of its own; that of another goes on.
Begun(v, id) == [Overwritten(v) EXCEPT !.validating = TRUE, !.id = id, !.matched = 0, !.wrong = 0]

\* What the validation is when one has begun.
LEMMA BegunFacts ==
    ASSUME NEW v \in Validation, NEW id \in Ids
    PROVE  /\ Begun(v, id) \in Validation /\ Begun(v, id).validating = TRUE
           /\ Begun(v, id).configuring = v.configuring /\ Begun(v, id).id = id
           /\ Begun(v, id).timer = TRUE /\ Begun(v, id).stray = v.stray + Counting(v.timer)
<1>. DEFINE C == 0..(CodeLength - 1)
            W == 0..(MaxWrong - 1)
            V == [validating : BOOLEAN, configuring : BOOLEAN, id : Ids \cup {NoId}, timer : BOOLEAN,
                  stray : Nat, matched : C, wrong : W]
            w == Begun(v, id)
<1>1. 0 \in C /\ 0 \in W /\ v \in V  BY IdsFacts DEF Validation
<1>. HIDE DEF C, W
<1>2. PICK s : s = IF v.timer THEN v.stray + 1 ELSE v.stray  OBVIOUS
<1>3. s \in Nat /\ s = v.stray + Counting(v.timer)  BY <1>1, <1>2 DEF Counting
<1>4. w = [v EXCEPT !.timer = TRUE, !.stray = s, !.validating = TRUE, !.id = id, !.matched = 0, !.wrong = 0]
  BY <1>1, <1>2 DEF Begun, Overwritten
<1>. HIDE DEF w
<1>5. w \in V /\ w.validating = TRUE /\ w.configuring = v.configuring /\ w.id = id /\ w.timer = TRUE /\ w.stray = s
  BY <1>1, <1>3, <1>4
<1>. QED  BY <1>3, <1>5 DEF V, C, W, w, Validation

\* The timers of failed validations find what they found, where controllers are as they were.
LEMMA FailsKept ==
    ASSUME FailsOK, Failing' \subseteq Failing,
           \A i \in Failing : Exists(net', i) => Exists(net, i) /\ net'.ctrl[i] = net.ctrl[i]
    PROVE  FailsOK'
<1>1. \A i \in Failing : Exists(net', i) => net'.ctrl[i].result \in Ended /\ ~net'.ctrl[i].bound
  BY DEF FailsOK
<1>. QED  BY <1>1 DEF FailsOK

\* The message that begins a validation is taken: the validation begins, or its end is sent as another
\* is under way, or as the controller is known beforehand.
LEMMA ValidationBeginKeeps ==
    ASSUME PairingAssumption, PInv, ValidationBegin
    PROVE  PInv'
<1>1. PICK id : id = Head(mq).id  OBVIOUS
<1>2. Received("begin") /\ mq # <<>> /\ Head(mq).type = "begin"  BY DEF ValidationBegin, Received
<1>3. /\ Queued = {Head(mq)} /\ Tail(mq) = <<>> /\ id \in Ids
      /\ \A m \in hal : m.late /\ m.id # id
      /\ \A i \in Ids : Current(i) <=> i = id
      /\ ~val.validating /\ Failing = Armed
      /\ Exists(net, id) /\ net.binding /\ net.ctrl[id].result = "pending"
      /\ net.evict # NoId => net.evict # id /\ ~net.ctrl[id].bound
      /\ val.configuring =>
            /\ val.id \in Ids /\ val.id # id /\ val.timer /\ Exists(net, val.id)
            /\ net.ctrl[val.id].result = "success" /\ net.ctrl[val.id].conf = "pending"
      /\ Starting
  BY <1>1, <1>2, BeginFacts
<1>4. /\ net' = [net EXCEPT !.tag = FALSE] /\ hal' = hal /\ proven' = proven /\ pairs' = pairs
  BY DEF ValidationBegin, BindValidationBegin
<1>. DEFINE refuse == EndMsg(id, "interactive", "in progress")
            accept == EndMsg(id, "precommission", "success")
            begun == Begun(val, id)
<1>5. \/ val.configuring /\ mq' = Append(Tail(mq), refuse) /\ val' = Informed(val)
      \/ ~InProgress(val) /\ id \in Precommissioned /\ mq' = Append(Tail(mq), accept) /\ val' = Informed(val)
      \/ ~InProgress(val) /\ mq' = Tail(mq) /\ val' = begun
  BY <1>1, <1>3 DEF ValidationBegin, InProgress, Begun
<1>6. /\ refuse \in Message /\ refuse.type = "end" /\ refuse.id = id /\ refuse.kind = "interactive" /\ refuse.result = "in progress"
      /\ accept \in Message /\ accept.type = "end" /\ accept.id = id /\ accept.kind = "precommission" /\ accept.result = "success"
  BY <1>3 DEF EndMsg, Message, Kinds, Results, Ended
<1>7. net \in Network /\ val \in Validation /\ QueueOK  BY DEF PInv, TypesOK
<1>8. /\ net' \in Network /\ net'.ctrl = net.ctrl /\ net'.fails = net.fails /\ net'.evict = net.evict
      /\ net'.binding = net.binding /\ ~net'.tag
  BY <1>4, <1>7 DEF Network
<1>. HIDE DEF refuse, accept, begun
<1>9. \A i \in Ids : Exists(net', i) <=> Exists(net, i)  BY <1>8 DEF Exists
<1>10. /\ val' \in Validation
       /\ val' = Informed(val) => /\ val'.validating = val.validating /\ val'.configuring = val.configuring
                                  /\ val'.id = val.id /\ val'.timer = val.timer /\ val'.stray = val.stray
       /\ val' = begun => /\ val'.validating = TRUE /\ val'.configuring = val.configuring /\ val'.id = id
                          /\ val'.timer = TRUE /\ val'.stray = val.stray + Counting(val.timer)
  <2>1. /\ Informed(val) \in Validation
        /\ Informed(val).validating = val.validating /\ Informed(val).configuring = val.configuring
        /\ Informed(val).id = val.id /\ Informed(val).timer = val.timer /\ Informed(val).stray = val.stray
    BY <1>7, InformedFacts
  <2>2. /\ begun \in Validation /\ begun.validating = TRUE /\ begun.configuring = val.configuring /\ begun.id = id
        /\ begun.timer = TRUE /\ begun.stray = val.stray + Counting(val.timer)
    BY <1>3, <1>7, BegunFacts DEF begun
  <2>. QED  BY <1>5, <2>1, <2>2
<1>11. TypesOK' /\ OnlyProvenBound' /\ HalOK'
  BY <1>4, <1>8, <1>10 DEF PInv, TypesOK, OnlyProvenBound, HalOK
<1>12. \A m \in hal : m.id \in Ids  BY DEF PInv, HalOK, Answer
<1>13. ASSUME QueueOK', \A i \in Ids : Current(i)' <=> i = id, StagesOK', EndsOK', ValidationOK', TimersOK',
              \A type, i : ~IsQueued("failed", i)'
       PROVE  PInv'
  <2>1. LateOK'  BY <1>3, <1>4, <1>12, <1>13 DEF LateOK
  <2>2. CurrentOK'  BY <1>3, <1>8, <1>9, <1>13 DEF CurrentOK
  <2>3. \A i \in Ids : Current(i)' <=> Current(i)  BY <1>3, <1>13
  <2>4. ControllersOK'  BY <1>4, <1>8, <1>9, <2>3 DEF PInv, ControllersOK
  <2>5. FailsOK'
    <3>1. Failing' = Armed  BY <1>8, <1>13 DEF Failing, Armed
    <3>2. FailsOK /\ Armed \subseteq Ids  BY DEF PInv, Armed
    <3>. QED  BY <1>3, <1>8, <1>9, <3>1, <3>2, FailsKept
  <2>. QED  BY <1>11, <1>13, <2>1, <2>2, <2>4, <2>5 DEF PInv
<1>14. ASSUME NEW e \in {refuse, accept}, mq' = Append(Tail(mq), e), val' = Informed(val),
              e = refuse => val.configuring,
              e = accept => ~InProgress(val) /\ id \in Precommissioned
       PROVE  PInv'
  <2>1. e \in Message /\ e.type = "end" /\ e.id = id /\ Unbegun(e)  BY <1>6 DEF Unbegun
  <2>2. QueueOK' /\ Queued' = {e}  BY <1>2, <1>7, <1>14, <2>1, QueueReplaced
  <2>3. /\ OfType("begin")' = {} /\ OfType("paired")' = {} /\ OfType("end")' = {e}
        /\ \A type, i : IsQueued(type, i)' => type = "end"
    BY <2>1, <2>2 DEF OfType, IsQueued
  <2>4. \A i \in Ids : Current(i)' <=> i = id
    <3>1. ASSUME NEW i \in Ids, Current(i)' PROVE i = id
      BY <1>3, <1>4, <1>10, <1>14, <2>1, <2>2, <3>1 DEF Current
    <3>2. Current(id)'
      <4>1. e \in Queued' /\ e.id = id /\ Unbegun(e)  BY <2>1, <2>2
      <4>. QED  BY <4>1 DEF Current, Unbegun
    <3>. QED  BY <1>3, <3>1, <3>2
  <2>5. StagesOK'  BY <1>3, <1>4, <1>10, <1>14, <2>3 DEF StagesOK, Asked
  <2>6. EndsOK'
    <3>1. EndOK(e)'
      BY <1>3, <1>6, <1>9, <1>10, <1>14, <2>4, ZenonT(60) DEF EndOK, InProgress
    <3>. QED  BY <2>3, <3>1 DEF EndsOK
  <2>7. ValidationOK'  BY <1>3, <1>8, <1>9, <1>10, <1>14, <2>4 DEF ValidationOK, InProgress
  <2>8. TimersOK'  BY <1>3, <1>4, <1>7, <1>10, <1>14 DEF PInv, TimersOK, TypesOK, Validation, Counting
  <2>. QED  BY <1>13, <2>2, <2>3, <2>4, <2>5, <2>6, <2>7, <2>8
<1>15. ASSUME ~InProgress(val), mq' = Tail(mq), val' = begun
       PROVE  PInv'
  <2>2. QueueOK' /\ Queued' = {}  BY <1>2, <1>3, <1>7, <1>15, QueueTaken
  <2>3. /\ OfType("begin")' = {} /\ OfType("paired")' = {} /\ OfType("end")' = {}
        /\ \A type, i : ~IsQueued(type, i)'
    BY <2>2 DEF OfType, IsQueued
  <2>4. \A i \in Ids : Current(i)' <=> i = id  BY <1>3, <1>4, <1>10, <1>15, <2>2 DEF Current
  <2>5. StagesOK'  BY <1>3, <1>4, <1>8, <1>10, <1>15, <2>2, <2>3 DEF StagesOK, Asked, InProgress
  <2>6. EndsOK'  BY <2>3 DEF EndsOK
  <2>7. ValidationOK'  BY <1>3, <1>10, <1>15 DEF ValidationOK, InProgress
  <2>8. TimersOK'
    <3>1. ~Starting'  BY <1>3, <1>4, <2>2, <2>3 DEF Starting, Asked
    <3>2. val.stray + Counting(val.timer) + 1 <= pairs  BY <1>3 DEF PInv, TimersOK, Counting
    <3>3. val.stray \in Nat /\ pairs \in Nat /\ Counting(val.timer) \in Nat
      BY <1>7, Ids0 DEF Validation, Counting, PInv, TypesOK
    <3>4. Counting(TRUE) = 1 /\ Counting(FALSE) = 0  BY DEF Counting
    <3>5. Counting(Starting') = 0 /\ Counting(val'.timer) = 1  BY <1>10, <1>15, <3>1 DEF Counting
    <3>6. val'.stray + Counting(val'.timer) + Counting(Starting') <= pairs'
      BY <1>4, <1>10, <1>15, <3>2, <3>3, <3>5
    <3>. QED  BY <3>6 DEF TimersOK, Counting
  <2>. QED  BY <1>13, <2>2, <2>3, <2>4, <2>5, <2>6, <2>7, <2>8
<1>16. CASE val.configuring /\ mq' = Append(Tail(mq), refuse) /\ val' = Informed(val)
  BY <1>6, <1>14, <1>16
<1>17. CASE ~InProgress(val) /\ id \in Precommissioned /\ mq' = Append(Tail(mq), accept) /\ val' = Informed(val)
  BY <1>6, <1>14, <1>17
<1>. QED  BY <1>5, <1>15, <1>16, <1>17

\* An end is that of the binding, of a controller that has failed, or of one that is gone.
LEMMA EndFacts ==
    ASSUME PairingAssumption, PInv, Received("end"), NEW m, m = Head(mq)
    PROVE  /\ Queued = {m} /\ Tail(mq) = <<>> /\ m.id \in Ids /\ m.result \in Results /\ m.result # "pending"
           /\ m.kind \in Kinds
           /\ (\A x \in hal : x.late) /\ \A i \in Ids : Current(i) => i = m.id
           /\ Failing = Armed
           /\ Exists(net, m.id) => \A x \in hal : x.id # m.id
           /\ m.kind # "auto" /\ val.validating => val.id = m.id /\ ~val.configuring
           /\ m.kind # "auto" /\ val.configuring =>
                 /\ val.id \in Ids /\ val.id # m.id /\ val.timer /\ Exists(net, val.id)
                 /\ net.ctrl[val.id].result = "success" /\ net.ctrl[val.id].conf = "pending"
                 /\ m.result # "success"
           /\ \/ /\ m.kind = "auto" /\ m.result = "success" /\ Exists(net, m.id)
                 /\ net.ctrl[m.id].result = "success" /\ net.ctrl[m.id].bound /\ net.ctrl[m.id].conf = "pending"
                 /\ net.evict = NoId /\ ~val.validating /\ Starting
              \/ /\ m.kind # "auto" /\ m.result = "success" /\ Exists(net, m.id)
                 /\ net.ctrl[m.id].result = "pending" /\ net.ctrl[m.id].conf = "pending" /\ net.evict # m.id
                 /\ net.ctrl[m.id].ieee \in proven \/ m.id \in Precommissioned
                 /\ net.evict # NoId => ~net.ctrl[m.id].bound
                 /\ val.validating => val.timer
              \/ m.kind # "auto" /\ m.result \in Ended \ {"failure"} /\ Exists(net, m.id)
              \/ m.kind # "auto" /\ m.result = "failure" /\ ~Exists(net, m.id)
<1>1. mq # <<>> /\ m.type = "end"  BY DEF Received
<1>2. /\ Queued = {m} /\ Tail(mq) = <<>> /\ m.id \in Ids /\ m.kind \in Kinds /\ m.result \in Results
  <2>1. Queued = {m} /\ Tail(mq) = <<>> /\ m \in Message
    BY <1>1, FirstQueued DEF PInv
  <2>. QED  BY <1>1, <2>1 DEF Message
<1>3. OfType("end") = {m}  BY <1>1, <1>2 DEF OfType
<1>4. EndOK(m)  BY <1>3 DEF PInv, EndsOK
<1>5. \A x \in hal : x.late  BY <1>3 DEF PInv, StagesOK, Asked
<1>6. (\A i \in Ids : Current(i) => i = m.id) /\ m.result # "pending"  BY <1>4 DEF EndOK
<1>7. \A i : ~IsQueued("configured", i) /\ ~IsQueued("failed", i)  BY <1>1, <1>2 DEF IsQueued
<1>8. Failing = Armed  BY <1>7 DEF Failing, Armed
<1>9. Current(m.id) /\ Exists(net, m.id) =>
         /\ net.ctrl[m.id].result = "pending" /\ (net.evict # NoId => net.evict # m.id /\ ~net.ctrl[m.id].bound)
         /\ \A x \in hal : x.id # m.id
  <2>1. Current(m.id) => \A x \in hal : x.id # m.id  BY <1>5 DEF PInv, LateOK
  <2>. QED  BY <1>2, <2>1 DEF PInv, CurrentOK
<1>10. Exists(net, m.id) /\ net.ctrl[m.id].result # "pending" => \A x \in hal : x.id # m.id
  BY <1>2 DEF PInv, ControllersOK
<1>11. Exists(net, m.id) /\ net.ctrl[m.id].result = "pending" => net.ctrl[m.id].conf = "pending"
  BY <1>2 DEF PInv, ControllersOK, Ended
<1>12. Exists(net, m.id) /\ net.ctrl[m.id].result = "success" => net.ctrl[m.id].bound
  BY <1>2 DEF PInv, ControllersOK, Ended
<1>13. NoId \notin Ids  BY Ids0
<1>14. ASSUME val.validating PROVE val.id = m.id /\ Current(m.id) /\ ~val.configuring
  <2>1. Current(val.id) /\ val.id \in Ids /\ ~val.configuring
    BY <1>14 DEF PInv, ValidationOK, InProgress, StagesOK, Current
  <2>. QED  BY <1>6, <2>1
<1>15. ASSUME m.kind # "auto", val.configuring
       PROVE  /\ val.id \in Ids /\ val.timer /\ Exists(net, val.id) /\ ~Current(val.id)
              /\ net.ctrl[val.id].result = "success" /\ net.ctrl[val.id].conf = "pending"
  BY <1>3, <1>7, <1>15 DEF PInv, ValidationOK, InProgress
<1>16. CASE m.kind = "auto"
  <2>1. /\ m.result = "success" /\ Exists(net, m.id) /\ net.ctrl[m.id].result = "success"
        /\ net.ctrl[m.id].conf = "pending" /\ net.evict = NoId /\ ~val.validating
    BY <1>4, <1>16 DEF EndOK
  <2>2. Starting  BY <1>1, <1>2, <1>16 DEF Starting
  <2>. QED  BY <1>2, <1>5, <1>6, <1>8, <1>10, <1>12, <1>16, <2>1, <2>2
<1>17. CASE m.kind = "precommission"
  <2>1. m.result = "success" /\ m.id \in Precommissioned /\ Exists(net, m.id) /\ ~val.validating /\ ~val.configuring
    BY <1>4, <1>17 DEF EndOK, InProgress
  <2>2. Current(m.id)  BY <1>1, <1>2, <1>17 DEF Current, Unbegun
  <2>. QED  BY <1>2, <1>5, <1>6, <1>8, <1>9, <1>11, <1>13, <1>17, <2>1, <2>2
<1>18. CASE m.kind = "interactive" /\ m.result = "success"
  <2>1. val.validating /\ val.id = m.id /\ Exists(net, m.id) /\ net.ctrl[m.id].ieee \in proven /\ val.timer
    BY <1>4, <1>18 DEF EndOK
  <2>. QED  BY <1>2, <1>5, <1>6, <1>8, <1>9, <1>11, <1>13, <1>14, <1>18, <2>1
<1>19. CASE m.kind = "interactive" /\ m.result \in {"timeout", "abort", "failed"}
  <2>1. val.validating /\ val.id = m.id /\ Exists(net, m.id)  BY <1>4, <1>19 DEF EndOK
  <2>. QED  BY <1>2, <1>5, <1>6, <1>8, <1>9, <1>14, <1>19, <2>1 DEF Ended
<1>20. CASE m.kind = "interactive" /\ m.result = "failure"
  <2>1. ~Exists(net, m.id)  BY <1>4, <1>20 DEF EndOK
  <2>2. m.kind # "auto" /\ m.result # "success"  BY <1>20
  <2>3. val.configuring => val.id # m.id  BY <1>15, <2>1, <2>2
  <2>. QED  BY <1>2, <1>5, <1>6, <1>8, <1>14, <1>15, <1>20, <2>1, <2>2, <2>3
<1>21. CASE m.kind = "interactive" /\ m.result = "in progress"
  <2>1. val.configuring /\ val.id # m.id /\ Exists(net, m.id)  BY <1>4, <1>21 DEF EndOK
  <2>2. Current(m.id)  BY <1>1, <1>2, <1>21 DEF Current, Unbegun
  <2>3. m.kind # "auto" /\ m.result # "success" /\ m.result \in Ended \ {"failure"}  BY <1>21 DEF Ended
  <2>. QED  BY <1>2, <1>5, <1>6, <1>8, <1>9, <1>14, <1>15, <2>1, <2>2, <2>3
<1>22. CASE m.kind = "interactive" /\ m.result = "collision"
  <2>1. Exists(net, m.id) /\ net.ctrl[m.id].result \in Ended  BY <1>4, <1>22 DEF EndOK
  <2>2. net.ctrl[m.id].result # "pending" /\ net.ctrl[m.id].result # "success"  BY <2>1 DEF Ended
  <2>3. m.kind # "auto" /\ m.result # "success" /\ m.result \in Ended \ {"failure"}  BY <1>22 DEF Ended
  <2>4. val.configuring => val.id # m.id  BY <1>15, <2>2, <2>3
  <2>. QED  BY <1>2, <1>5, <1>6, <1>8, <1>10, <1>14, <1>15, <2>1, <2>2, <2>3, <2>4
<1>. QED  BY <1>2, <1>6, <1>16, <1>17, <1>18, <1>19, <1>20, <1>21, <1>22 DEF Kinds, Results, Ended

\* What the end of a validation makes of the global one: the configuration of a controller that was
\* paired automatically begins, or of the one that is validated if it succeeded.
ValidationEnded(w, v, id, kind, result) ==
    /\ w \in Validation
    /\ kind = "auto" =>
          /\ w.validating = v.validating /\ w.configuring = TRUE /\ w.id = id /\ w.timer = TRUE
          /\ w.stray = v.stray + Counting(v.timer)
    /\ kind # "auto" /\ v.validating /\ v.id = id =>
          /\ w.validating = FALSE /\ w.configuring = (v.configuring \/ result = "success") /\ w.id = id
          /\ w.timer = (result = "success") /\ w.stray = v.stray
    /\ kind # "auto" /\ ~(v.validating /\ v.id = id) => w = v

\* The end of a validation is what ValidationEnded says.
LEMMA ValidationEndFacts ==
    ASSUME NEW v \in Validation, NEW id \in Ids, NEW kind, NEW result,
           NEW w, w = ValidationEnd(v, id, kind, result)
    PROVE  ValidationEnded(w, v, id, kind, result)
<1>. USE DEF ValidationEnded
<1>. DEFINE C == 0..(CodeLength - 1)
            W == 0..(MaxWrong - 1)
            V == [validating : BOOLEAN, configuring : BOOLEAN, id : Ids \cup {NoId}, timer : BOOLEAN,
                  stray : Nat, matched : C, wrong : W]
<1>1. v \in V /\ (w \in V => w \in Validation)  BY DEF Validation
<1>. HIDE DEF C, W
<1>2. CASE kind = "auto"
  <2>1. PICK s : s = IF v.timer THEN v.stray + 1 ELSE v.stray  OBVIOUS
  <2>2. s \in Nat /\ s = v.stray + Counting(v.timer)  BY <1>1, <2>1 DEF Counting
  <2>3. w = [v EXCEPT !.timer = TRUE, !.stray = s, !.configuring = TRUE, !.id = id]
    BY <1>1, <1>2, <2>1 DEF ValidationEnd, Overwritten
  <2>4. w \in V /\ w.validating = v.validating /\ w.configuring = TRUE /\ w.id = id /\ w.timer = TRUE /\ w.stray = s
    BY <1>1, <2>2, <2>3
  <2>. HIDE DEF V
  <2>. QED  BY <1>1, <1>2, <2>2, <2>4
<1>3. CASE kind # "auto" /\ v.validating /\ v.id = id
  <2>1. PICK c \in BOOLEAN, t \in BOOLEAN : c = (v.configuring \/ result = "success") /\ t = (result = "success")
    BY <1>1
  <2>2. w = [v EXCEPT !.validating = FALSE, !.configuring = c, !.timer = t]
    BY <1>1, <1>3, <2>1 DEF ValidationEnd
  <2>3. w \in V /\ w.validating = FALSE /\ w.configuring = c /\ w.id = id /\ w.timer = t /\ w.stray = v.stray
    BY <1>1, <1>3, <2>2
  <2>. HIDE DEF V
  <2>. QED  BY <1>1, <1>3, <2>1, <2>3
<1>4. CASE kind # "auto" /\ ~(v.validating /\ v.id = id)
  <2>1. w = v  BY <1>4 DEF ValidationEnd
  <2>. QED  BY <1>4, <2>1
<1>. QED  BY <1>2, <1>3, <1>4

\* One more timer, of the id given, or as many as there were.
LEMMA OneTimerMore ==
    ASSUME net \in Network, NEW id \in Ids,
           net'.fails = net.fails \/ net'.fails = Append(net.fails, [id |-> id, armed |-> TRUE])
    PROVE  Armed' \subseteq Armed \cup {id}
<1>1. net.fails \in Seq(Failure)  BY DEF Network
<1>2. CASE net'.fails = net.fails  BY <1>2 DEF Armed
<1>3. CASE net'.fails = Append(net.fails, [id |-> id, armed |-> TRUE])
  <2>. DEFINE s == net.fails
              e == [id |-> id, armed |-> TRUE]
              t == Append(s, e)
  <2>1. ASSUME NEW k \in DOMAIN t PROVE t[k] = e \/ \E j \in DOMAIN s : t[k] = s[j]
    <3>. HIDE DEF s, e
    <3>1. s \in Seq(Failure)  BY <1>1 DEF s
    <3>2. Len(t) = Len(s) + 1 /\ DOMAIN t = 1..(Len(s) + 1) /\ t[Len(s) + 1] = e /\ DOMAIN s = 1..Len(s) /\ Len(s) \in Nat
          /\ \A j \in 1..Len(s) : t[j] = s[j]
      BY <3>1
    <3>. HIDE DEF t
    <3>. QED  BY <2>1, <3>2
  <2>2. e.id = id  OBVIOUS
  <2>. HIDE DEF s, e, t
  <2>3. net'.fails = t /\ net.fails = s  BY <1>3 DEF s, e, t
  <2>. QED  BY <2>1, <2>2, <2>3 DEF Armed
<1>. QED  BY <1>2, <1>3

\* A validation ends: the controller is bound and is configured, or its result is set; the
\* binding is released, whoever held it.
LEMMA ValidationEndsKeeps ==
    ASSUME PairingAssumption, PInv, ValidationEnds
    PROVE  PInv'
<1>1. PICK m : m = Head(mq)  OBVIOUS
<1>2. PICK id : id = m.id  OBVIOUS
<1>3. Received("end") /\ mq # <<>>  BY DEF ValidationEnds, Received
<1>4. /\ Queued = {m} /\ Tail(mq) = <<>> /\ id \in Ids /\ m.result \in Results /\ m.result # "pending" /\ m.kind \in Kinds
      /\ (\A x \in hal : x.late) /\ \A i \in Ids : Current(i) => i = id
      /\ Failing = Armed
      /\ Exists(net, id) => \A x \in hal : x.id # id
      /\ m.kind # "auto" /\ val.validating => val.id = id /\ ~val.configuring
      /\ m.kind # "auto" /\ val.configuring =>
            /\ val.id \in Ids /\ val.id # id /\ val.timer /\ Exists(net, val.id)
            /\ net.ctrl[val.id].result = "success" /\ net.ctrl[val.id].conf = "pending"
            /\ m.result # "success"
  BY <1>1, <1>2, <1>3, EndFacts
<1>5. \/ /\ m.kind = "auto" /\ m.result = "success" /\ Exists(net, id)
         /\ net.ctrl[id].result = "success" /\ net.ctrl[id].bound /\ net.ctrl[id].conf = "pending"
         /\ net.evict = NoId /\ ~val.validating /\ Starting
      \/ /\ m.kind # "auto" /\ m.result = "success" /\ Exists(net, id)
         /\ net.ctrl[id].result = "pending" /\ net.ctrl[id].conf = "pending" /\ net.evict # id
         /\ net.ctrl[id].ieee \in proven \/ id \in Precommissioned
         /\ val.validating => val.timer
      \/ m.kind # "auto" /\ m.result \in Ended \ {"failure"} /\ Exists(net, id)
      \/ m.kind # "auto" /\ m.result = "failure" /\ ~Exists(net, id)
  BY <1>1, <1>2, <1>3, EndFacts
<1>6. PICK n : n = BindValidationEnd(net, id, m.result)  OBVIOUS
<1>7. PICK w : w = ValidationEnd(val, id, m.kind, m.result)  OBVIOUS
<1>8. net' = n /\ val' = w /\ mq' = Tail(mq) /\ hal' = hal /\ proven' = proven /\ pairs' = pairs
  BY <1>1, <1>2, <1>6, <1>7 DEF ValidationEnds
<1>9. net \in Network /\ val \in Validation /\ QueueOK /\ NoId \notin Ids  BY Ids0 DEF PInv, TypesOK
<1>10. EndedAs(n, id, m.result)
  <2>1. PICK result \in Results : result = m.result  BY <1>4
  <2>2. n = BindValidationEnd(net, id, result) /\ result # "pending"  BY <1>4, <1>6, <2>1
  <2>3. EndedAs(n, id, result)  BY <1>4, <1>9, <2>2, EndLeaves
  <2>. QED  BY <2>1, <2>3
<1>11. /\ w \in Validation
       /\ m.kind = "auto" =>
             /\ w.validating = val.validating /\ w.configuring = TRUE /\ w.id = id /\ w.timer = TRUE
             /\ w.stray = val.stray + Counting(val.timer)
       /\ m.kind # "auto" /\ val.validating /\ val.id = id =>
             /\ w.validating = FALSE /\ w.configuring = (val.configuring \/ m.result = "success") /\ w.id = id
             /\ w.timer = (m.result = "success") /\ w.stray = val.stray
       /\ m.kind # "auto" /\ ~(val.validating /\ val.id = id) => w = val
  <2>1. ValidationEnded(w, val, id, m.kind, m.result)  BY <1>4, <1>7, <1>9, ValidationEndFacts
  <2>. QED  BY <2>1 DEF ValidationEnded
<1>12. n \in Network  BY <1>10 DEF EndedAs
<1>13. w.validating = FALSE
  <2>1. val.validating \in BOOLEAN  BY <1>9 DEF Validation
  <2>. QED  BY <1>4, <1>5, <1>11, <2>1
<1>14. QueueOK' /\ Queued' = {}  BY <1>1, <1>3, <1>4, <1>8, <1>9, QueueTaken
<1>15. /\ OfType("begin")' = {} /\ OfType("end")' = {} /\ OfType("paired")' = {}
       /\ \A type, i : ~IsQueued(type, i)'
  BY <1>14 DEF OfType, IsQueued
<1>16. \A i \in Ids : ~Current(i)'  BY <1>4, <1>8, <1>13, <1>14 DEF Current
\* The controller whose validation it was, and the others.
<1>17. /\ Exists(net, id) /\ m.result = "success" =>
             /\ n.ctrl[id].result = "success" /\ n.ctrl[id].ieee = net.ctrl[id].ieee
             /\ n.ctrl[id].bound = TRUE /\ n.ctrl[id].conf = "pending" /\ net.evict # id
       /\ Exists(net, id) /\ m.result # "success" =>
             /\ n.ctrl[id].ieee = net.ctrl[id].ieee /\ n.ctrl[id].bound = net.ctrl[id].bound
             /\ \/ n.ctrl[id].result = m.result
                \/ net.ctrl[id].bound /\ n.ctrl[id].result = "success"
             /\ ~net.ctrl[id].bound => n.ctrl[id].result = m.result
  <2>1. ASSUME Exists(net, id), m.result = "success"
        PROVE  net.evict # id /\ (net.ctrl[id].bound \/ net.ctrl[id].result = "pending") /\ net.ctrl[id].conf = "pending"
    BY <1>4, <1>5, <1>9, <2>1 DEF Ended
  <2>. QED  BY <1>10, <2>1 DEF EndedAs
<1>18. \A i \in Ids : i # id =>
          \/ n.ctrl[i] = net.ctrl[i] /\ (Exists(n, i) <=> Exists(net, i))
          \/ ~Exists(n, i) /\ ~n.ctrl[i].bound /\ m.result = "success"
  <2>1. ASSUME NEW i \in Ids, i # id, Exists(net, id), m.result = "success"
        PROVE  n.ctrl[i] = net.ctrl[i] \/ n.ctrl[i] = NoController
    BY <1>10, <2>1 DEF EndedAs
  <2>2. ASSUME NEW i \in Ids, i # id, ~(Exists(net, id) /\ m.result = "success")
        PROVE  n.ctrl[i] = net.ctrl[i]
    BY <1>10, <2>2 DEF EndedAs
  <2>. QED  BY <2>1, <2>2 DEF Exists, NoController
<1>19. /\ ~Exists(net, id) => ~Exists(n, id) /\ n.ctrl[id] = net.ctrl[id]
       /\ Exists(net, id) => Exists(n, id)
  BY <1>10, <1>17 DEF Exists, EndedAs
<1>20. n.fails = net.fails \/ (n.fails = Append(net.fails, [id |-> id, armed |-> TRUE]) /\ Exists(net, id) /\ ~net.ctrl[id].bound /\ m.result # "success")
  BY <1>10 DEF EndedAs
<1>21. TypesOK'  BY <1>8, <1>11, <1>12 DEF PInv, TypesOK
<1>22. OnlyProvenBound'
  <2>1. \A i \in Ids : net.ctrl[i].bound => net.ctrl[i].ieee \in proven \/ i \in Precommissioned
    BY DEF PInv, OnlyProvenBound
  <2>2. Exists(net, id) /\ m.result = "success" => net.ctrl[id].ieee \in proven \/ id \in Precommissioned
    BY <1>4, <1>5, <2>1 DEF Ended
  <2>3. ASSUME NEW i \in Ids, n.ctrl[i].bound PROVE n.ctrl[i].ieee \in proven \/ i \in Precommissioned
    BY <1>17, <1>18, <1>19, <2>1, <2>2, <2>3
  <2>. QED  BY <1>8, <2>3 DEF OnlyProvenBound
<1>23. HalOK' /\ LateOK'
  <2>1. \A x \in hal : x.id \in Ids  BY DEF PInv, HalOK, Answer
  <2>. QED  BY <1>8, <1>16, <2>1 DEF PInv, HalOK, LateOK
<1>24. StagesOK'  BY <1>4, <1>8, <1>13, <1>14, <1>15 DEF StagesOK, Asked
<1>25. CurrentOK' /\ EndsOK'  BY <1>15, <1>16 DEF CurrentOK, EndsOK
<1>26. ControllersOK'
  <2>1. ASSUME NEW i \in Ids, Exists(net', i), i # id
        PROVE  \/ net'.ctrl[i].result = "success" /\ net'.ctrl[i].bound /\ \A x \in hal' : x.id # i
               \/ /\ net'.ctrl[i].result \in Ended \ {"failure"} /\ \A x \in hal' : x.id # i
               \/ /\ net'.ctrl[i].result = "pending" /\ net'.ctrl[i].conf = "pending"
                  /\ net'.ctrl[i].bound => net'.ctrl[i].backup
                  /\ \E x \in hal' : x.id = i
    BY <1>4, <1>8, <1>18, <2>1, OthersFacts
  <2>2. ASSUME Exists(net', id)
        PROVE  /\ \A x \in hal' : x.id # id
               /\ \/ net'.ctrl[id].result = "success" /\ net'.ctrl[id].bound
                  \/ net'.ctrl[id].result \in Ended \ {"failure"}
    BY <1>4, <1>5, <1>8, <1>17, <1>19, <2>2
  <2>. QED  BY <1>16, <2>1, <2>2 DEF ControllersOK
<1>27. ValidationOK'
  <2>1. ASSUME w.configuring
        PROVE  w.timer /\ w.id \in Ids /\ Exists(n, w.id) /\ n.ctrl[w.id].result = "success" /\ n.ctrl[w.id].conf = "pending"
    <3>1. CASE m.kind = "auto"  BY <1>4, <1>5, <1>11, <1>17, <1>19, <3>1
    <3>2. CASE m.kind # "auto" /\ val.validating
      <4>1. w.id = id /\ m.result = "success" /\ w.timer  BY <1>4, <1>11, <2>1, <3>2
      <4>. QED  BY <1>4, <1>5, <1>17, <1>19, <4>1 DEF Ended
    <3>3. CASE m.kind # "auto" /\ ~val.validating
      <4>1. w = val  BY <1>11, <3>3
      <4>. QED  BY <1>4, <1>18, <2>1, <3>3, <4>1
    <3>. QED  BY <3>1, <3>2, <3>3
  <2>. QED  BY <1>8, <1>13, <1>16, <2>1 DEF ValidationOK, InProgress
<1>28. FailsOK'
  <2>1. Failing' = Armed'  BY <1>15 DEF Failing, Armed
  <2>2. Armed' \subseteq Armed \cup {id}  BY <1>4, <1>8, <1>9, <1>20, OneTimerMore
  <2>3. \A i \in Armed : i \in Ids /\ (Exists(net, i) => net.ctrl[i].result \in Ended /\ ~net.ctrl[i].bound)
    <3>1. \A i \in Failing : Exists(net, i) => net.ctrl[i].result \in Ended /\ ~net.ctrl[i].bound
      BY DEF PInv, FailsOK
    <3>. QED  BY <1>4, <3>1 DEF Armed
  <2>4. \A i \in Armed : i # id /\ Exists(n, i) => n.ctrl[i].result \in Ended /\ ~n.ctrl[i].bound
    BY <1>18, <2>3
  <2>5. ASSUME id \in Armed', Exists(n, id) PROVE n.ctrl[id].result \in Ended /\ ~n.ctrl[id].bound
    <3>1. Exists(net, id)  BY <1>19, <2>5
    <3>2. ~net.ctrl[id].bound /\ m.result # "success"
      <4>1. CASE n.fails = net.fails
        <5>1. id \in Armed  BY <1>8, <2>5, <4>1 DEF Armed
        <5>2. net.ctrl[id].result \in Ended /\ ~net.ctrl[id].bound  BY <2>3, <3>1, <5>1
        <5>. QED  BY <1>5, <5>2 DEF Ended
      <4>2. CASE n.fails # net.fails  BY <1>20, <4>2
      <4>. QED  BY <4>1, <4>2
    <3>3. m.result \in Ended  BY <1>4, <3>2 DEF Results
    <3>. QED  BY <1>17, <3>1, <3>2, <3>3
  <2>6. \A i \in Armed' : Exists(n, i) => n.ctrl[i].result \in Ended /\ ~n.ctrl[i].bound
    BY <2>2, <2>4, <2>5
  <2>. QED  BY <1>8, <2>1, <2>6 DEF FailsOK
<1>29. TimersOK'
  <2>1. ~Starting'  BY <1>4, <1>8, <1>14, <1>15 DEF Starting, Asked
  <2>2. val.stray \in Nat /\ pairs \in Nat /\ Counting(val.timer) \in Nat /\ Counting(TRUE) = 1 /\ Counting(FALSE) = 0
        /\ Counting(Starting') = 0
    BY <1>9, <2>1, Ids0 DEF Validation, Counting, PInv, TypesOK
  <2>3. val.stray + Counting(val.timer) + Counting(Starting) <= pairs  BY DEF PInv, TimersOK
  <2>4. w.stray + Counting(w.timer) <= pairs
    <3>1. CASE m.kind = "auto"
      <4>1. Starting  BY <1>5, <3>1
      <4>2. Counting(Starting) = 1 /\ Counting(w.timer) = 1 /\ w.stray = val.stray + Counting(val.timer)
        BY <1>11, <3>1, <4>1 DEF Counting
      <4>. QED  BY <2>2, <2>3, <4>2
    <3>2. Counting(Starting) \in {0, 1}  BY DEF Counting
    <3>3. CASE m.kind # "auto" /\ val.validating
      <4>1. w.stray = val.stray /\ w.timer = (m.result = "success")  BY <1>4, <1>11, <3>3
      <4>2. m.result = "success" => val.timer  BY <1>5, <3>3 DEF Ended
      <4>3. Counting(w.timer) <= Counting(val.timer)
        <5>1. CASE m.result = "success"
          <6>1. w.timer = TRUE /\ val.timer = TRUE  BY <1>9, <4>1, <4>2, <5>1 DEF Validation
          <6>. QED  BY <6>1 DEF Counting
        <5>2. CASE m.result # "success"
          <6>1. w.timer = FALSE  BY <4>1, <5>2
          <6>. QED  BY <6>1 DEF Counting
        <5>. QED  BY <5>1, <5>2
      <4>4. Counting(w.timer) \in {0, 1}  BY DEF Counting
      <4>. QED  BY <2>2, <2>3, <3>2, <4>1, <4>3, <4>4
    <3>4. CASE m.kind # "auto" /\ ~val.validating
      <4>1. w = val  BY <1>11, <3>4
      <4>. QED  BY <2>2, <2>3, <3>2, <4>1
    <3>. QED  BY <3>1, <3>3, <3>4
  <2>5. w.stray \in Nat /\ Counting(w.timer) \in Nat  BY <1>11 DEF Validation, Counting
  <2>6. val'.stray + Counting(val'.timer) + Counting(Starting') <= pairs'  BY <1>8, <2>2, <2>4, <2>5
  <2>. QED  BY <2>6 DEF TimersOK, Counting
<1>. QED
  BY <1>14, <1>21, <1>22, <1>23, <1>24, <1>25, <1>26, <1>27, <1>28, <1>29 DEF PInv

-----------------------------------------------------------------------------
(* The main thread ends configurations, and controllers that failed. *)

\* A message that ends a configuration, or a failed validation, may have the result of a pairing behind it.
LEMMA ShiftFacts ==
    ASSUME PairingAssumption, PInv, mq # <<>>, NEW h, h = Head(mq), h.type \in {"configured", "failed"},
           mq' = Tail(mq), hal' = hal, val'.validating = val.validating, val'.id = val.id
    PROVE  /\ QueueOK' /\ h.id \in Ids /\ Queued' = Queued \ {h} /\ h \in Queued
           /\ OfType("end") = {} /\ OfType("end")' = {} /\ OfType("begin") = {} /\ OfType("begin")' = {}
           /\ OfType("paired")' = OfType("paired")
           /\ \A type, i : IsQueued(type, i)' => type = "paired"
           /\ \A type, i : IsQueued(type, i) /\ type # "paired" => type = h.type /\ i = h.id
           /\ \A i : Current(i)' <=> Current(i)
           /\ Starting' <=> Starting
<1>1. /\ h \in Message /\ h \in Queued /\ QueueOK
      /\ Tail(mq) = <<>> => Queued = {h}
      /\ Tail(mq) # <<>> => Queued = {h, mq[2]} /\ mq[2].type = "paired"
  BY FirstQueued DEF PInv
<1>2. h.id \in Ids  BY <1>1 DEF Message
<1>3. QueueOK' /\ Queued' = Queued \ {h}  BY <1>1, QueueTaken
<1>4. \A m \in Queued : m = h \/ m.type = "paired"  BY <1>1
<1>5. /\ OfType("end") = {} /\ OfType("end")' = {} /\ OfType("begin") = {} /\ OfType("begin")' = {}
      /\ OfType("paired")' = OfType("paired")
  BY <1>3, <1>4 DEF OfType
<1>6. /\ \A type, i : IsQueued(type, i)' => type = "paired"
      /\ \A type, i : IsQueued(type, i) /\ type # "paired" => type = h.type /\ i = h.id
  BY <1>3, <1>4 DEF IsQueued
<1>7. \A i : Current(i)' <=> Current(i)
  BY <1>3, <1>4 DEF Current, Unbegun
<1>8. Starting' <=> Starting  BY <1>3, <1>4, <1>5 DEF Starting, Asked
<1>. QED  BY <1>1, <1>2, <1>3, <1>5, <1>6, <1>7, <1>8

\* What is on its way in a binding agrees, where the queue has lost or gained what says nothing of it.
LEMMA BindingKept ==
    ASSUME PInv, hal' = hal, net'.binding = net.binding, net'.evict = net.evict, net'.tag = net.tag,
           val'.validating = val.validating, val'.id = val.id, val'.configuring => val.configuring,
           \A i : Current(i)' <=> Current(i), OfType("paired")' = OfType("paired"),
           OfType("begin")' = {}, OfType("end")' = {}
    PROVE  StagesOK' /\ LateOK' /\ HalOK' /\ EndsOK'
<1>1. Asked' <=> Asked  BY DEF Asked
<1>2. \A m \in Queued' : m.type # "begin" /\ ~Unbegun(m)
  BY DEF OfType, Unbegun
<1>3. StagesOK'
  BY <1>1, <1>2 DEF PInv, StagesOK
<1>4. LateOK' /\ HalOK'  BY DEF PInv, LateOK, HalOK
<1>5. EndsOK'  BY DEF EndsOK
<1>. QED  BY <1>3, <1>4, <1>5

\* A failed validation has timed out: the controller goes, which has not been bound.
LEMMA ValidationFailedKeeps ==
    ASSUME PairingAssumption, PInv, ValidationFailed
    PROVE  PInv'
<1>1. PICK h : h = Head(mq)  OBVIOUS
<1>2. PICK id : id = h.id  OBVIOUS
<1>3. PICK n : n = ValidationTimedOut(net, id)  OBVIOUS
<1>4. /\ mq # <<>> /\ h.type = "failed" /\ mq' = Tail(mq) /\ net' = n
      /\ val' = val /\ hal' = hal /\ proven' = proven /\ pairs' = pairs
  BY <1>1, <1>2, <1>3 DEF ValidationFailed, Received
<1>5. /\ QueueOK' /\ id \in Ids /\ Queued' = Queued \ {h} /\ h \in Queued
      /\ OfType("end") = {} /\ OfType("end")' = {} /\ OfType("begin") = {} /\ OfType("begin")' = {}
      /\ OfType("paired")' = OfType("paired")
      /\ \A type, i : IsQueued(type, i)' => type = "paired"
      /\ \A type, i : IsQueued(type, i) /\ type # "paired" => type = "failed"
      /\ \A i : Current(i)' <=> Current(i)
      /\ Starting' <=> Starting
  BY <1>1, <1>2, <1>4, ShiftFacts
<1>6. net \in Network  BY DEF PInv, TypesOK
<1>7. /\ n \in Network /\ ~Exists(n, id) /\ \A i \in Ids \ {id} : n.ctrl[i] = net.ctrl[i]
      /\ ~Exists(net, id) => n = net
      /\ \A k \in DOMAIN n.fails : \E j \in DOMAIN net.fails : n.fails[k] = net.fails[j]
      /\ n.binding = net.binding /\ n.tag = net.tag /\ n.evict = net.evict
      /\ Exists(net, id) => n.ctrl[id] = NoController
  BY <1>3, <1>5, <1>6, TimedOutFacts
<1>8. Exists(net, id) => net.ctrl[id].result \in Ended
  <2>1. IsQueued("failed", id)  BY <1>2, <1>4, <1>5 DEF IsQueued
  <2>2. id \in Failing  BY <1>5, <2>1 DEF Failing
  <2>. QED  BY <2>2 DEF PInv, FailsOK
<1>9. Exists(net, id) => \A i \in Ids : ~Current(i)
  BY <1>5, <1>8 DEF PInv, ControllersOK, Ended
<1>10. \A i \in Ids : i # id => n.ctrl[i] = net.ctrl[i] /\ (Exists(n, i) <=> Exists(net, i))
  BY <1>7 DEF Exists
<1>11. TypesOK'  BY <1>4, <1>7 DEF PInv, TypesOK
<1>12. OnlyProvenBound'
  <2>1. ASSUME NEW i \in Ids, n.ctrl[i].bound PROVE n.ctrl[i].ieee \in proven \/ i \in Precommissioned
    BY <1>7, <2>1 DEF PInv, OnlyProvenBound, NoController
  <2>. QED  BY <1>4, <2>1 DEF OnlyProvenBound
<1>13. StagesOK' /\ LateOK' /\ HalOK' /\ EndsOK'  BY <1>4, <1>5, <1>7, BindingKept
<1>14. CurrentOK'
  <2>1. CASE Exists(net, id)  BY <1>5, <1>9, <2>1 DEF CurrentOK
  <2>2. CASE ~Exists(net, id)
    <3>1. \A i : EndMsg(i, "interactive", "failure") \in Queued => EndMsg(i, "interactive", "failure") \in Queued'
      BY <1>4, <1>5 DEF EndMsg
    <3>2. n = net  BY <1>7, <2>2
    <3>. QED  BY <1>4, <1>5, <3>1, <3>2 DEF PInv, CurrentOK
  <2>. QED  BY <2>1, <2>2
<1>15. ControllersOK'
  <2>1. ControllersOK  BY DEF PInv
  <2>. QED  BY <1>4, <1>5, <1>7, <1>10, <2>1 DEF ControllersOK
<1>16. ValidationOK'
  <2>1. ValidationOK /\ \A i : ~IsQueued("end", i) /\ ~IsQueued("configured", i)  BY <1>5 DEF PInv
  <2>2. ASSUME val.configuring
        PROVE  /\ val.timer /\ val.id \in Ids /\ ~Current(val.id) /\ Exists(n, val.id)
               /\ n.ctrl[val.id].result = "success" /\ n.ctrl[val.id].conf = "pending"
    <3>1. /\ val.timer /\ val.id \in Ids /\ ~Current(val.id) /\ Exists(net, val.id)
          /\ net.ctrl[val.id].result = "success" /\ net.ctrl[val.id].conf = "pending"
      BY <1>5, <2>1, <2>2 DEF ValidationOK, InProgress
    <3>2. val.id # id  BY <1>8, <3>1 DEF Ended
    <3>. QED  BY <1>10, <3>1, <3>2
  <2>3. val.validating => val.timer /\ val.id \in Ids  BY <2>1 DEF ValidationOK, InProgress
  <2>. QED  BY <1>4, <1>5, <2>2, <2>3 DEF ValidationOK, InProgress
<1>17. FailsOK'
  <2>1. Failing' \subseteq Failing  BY <1>4, <1>5, <1>7 DEF Failing, Armed
  <2>2. Failing \subseteq Ids /\ FailsOK  BY DEF PInv, Failing, Armed
  <2>. QED  BY <1>4, <1>7, <1>10, <2>1, <2>2, FailsKept
<1>18. TimersOK'
  <2>1. Counting(Starting') = Counting(Starting)  BY <1>5 DEF Counting
  <2>2. val.stray + Counting(val.timer) + Counting(Starting') <= pairs  BY <2>1 DEF PInv, TimersOK
  <2>. QED  BY <1>4, <2>2 DEF TimersOK, Counting
<1>. QED
  BY <1>5, <1>11, <1>12, <1>13, <1>14, <1>15, <1>16, <1>17, <1>18 DEF PInv

\* A configuration is over.
LEMMA ConfiguredKeeps ==
    ASSUME PairingAssumption, PInv, Configured
    PROVE  PInv'
<1>1. PICK h : h = Head(mq)  OBVIOUS
<1>2. PICK id : id = h.id  OBVIOUS
<1>3. PICK w : w = ConfigurationComplete(val, id)  OBVIOUS
<1>4. /\ mq # <<>> /\ h.type = "configured" /\ mq' = Tail(mq) /\ val' = w
      /\ net' = net /\ hal' = hal /\ proven' = proven /\ pairs' = pairs
  BY <1>1, <1>2, <1>3 DEF Configured, Received
<1>5. val \in Validation  BY DEF PInv, TypesOK
<1>6. /\ w \in Validation /\ w.validating = val.validating /\ w.id = val.id /\ w.stray = val.stray
      /\ val.configuring /\ val.id = id => w.configuring = FALSE /\ w.timer = FALSE
      /\ ~(val.configuring /\ val.id = id) => w = val
  BY <1>3, <1>5 DEF ConfigurationComplete, Validation
<1>7. /\ QueueOK' /\ id \in Ids /\ Queued' = Queued \ {h} /\ h \in Queued
      /\ OfType("end") = {} /\ OfType("end")' = {} /\ OfType("begin") = {} /\ OfType("begin")' = {}
      /\ OfType("paired")' = OfType("paired")
      /\ \A type, i : IsQueued(type, i)' => type = "paired"
      /\ \A type, i : IsQueued(type, i) /\ type # "paired" => type = "configured" /\ i = id
      /\ \A i : Current(i)' <=> Current(i)
      /\ Starting' <=> Starting
  BY <1>1, <1>2, <1>4, <1>6, ShiftFacts
<1>8. TypesOK' /\ OnlyProvenBound'  BY <1>4, <1>6 DEF PInv, TypesOK, OnlyProvenBound
<1>9. StagesOK' /\ LateOK' /\ HalOK' /\ EndsOK'  BY <1>4, <1>6, <1>7, BindingKept
<1>10. CurrentOK'
  <2>1. \A i : EndMsg(i, "interactive", "failure") \in Queued => EndMsg(i, "interactive", "failure") \in Queued'
    BY <1>4, <1>7 DEF EndMsg
  <2>. QED  BY <1>4, <1>7, <2>1 DEF PInv, CurrentOK
<1>11. ControllersOK'  BY <1>4, <1>7 DEF PInv, ControllersOK
<1>12. ValidationOK'
  <2>1. ValidationOK /\ StagesOK /\ \A i : ~IsQueued("end", i)  BY <1>7 DEF PInv
  <2>2. ASSUME val.configuring, val.id # id
        PROVE  /\ val.timer /\ val.id \in Ids /\ ~Current(val.id) /\ Exists(net, val.id)
               /\ net.ctrl[val.id].result = "success" /\ net.ctrl[val.id].conf = "pending"
    BY <1>7, <2>1, <2>2 DEF ValidationOK, InProgress
  <2>3. val.validating => val.timer /\ val.id \in Ids /\ ~val.configuring
    BY <2>1 DEF ValidationOK, InProgress, StagesOK
  <2>. QED  BY <1>4, <1>6, <1>7, <2>2, <2>3 DEF ValidationOK, InProgress
<1>13. FailsOK'
  <2>1. Failing' \subseteq Failing  BY <1>4, <1>7 DEF Failing, Armed
  <2>2. FailsOK  BY DEF PInv
  <2>. QED  BY <1>4, <2>1, <2>2, FailsKept
<1>14. TimersOK'
  <2>1. Counting(w.timer) <= Counting(val.timer) /\ Counting(w.timer) \in Nat /\ Counting(val.timer) \in Nat
    BY <1>6 DEF Counting
  <2>2. Counting(Starting') = Counting(Starting) /\ Counting(Starting) \in Nat  BY <1>7 DEF Counting
  <2>3. val.stray + Counting(val.timer) + Counting(Starting) <= pairs /\ val.stray \in Nat /\ pairs \in Nat
    BY <1>5, Ids0 DEF PInv, TimersOK, TypesOK, Validation
  <2>4. w.stray + Counting(w.timer) + Counting(Starting') <= pairs  BY <1>6, <2>1, <2>2, <2>3
  <2>. QED  BY <1>4, <2>4 DEF TimersOK, Counting
<1>. QED
  BY <1>7, <1>8, <1>9, <1>10, <1>11, <1>12, <1>13, <1>14 DEF PInv

-----------------------------------------------------------------------------
(* What happens while nothing is queued. *)

\* The end of a validation that is under way is sent.
LEMMA EndSent ==
    ASSUME PairingAssumption, PInv, mq = <<>>, val.validating,
           NEW result \in {"success", "timeout", "abort", "failed"},
           mq' = Append(mq, EndMsg(val.id, "interactive", result)),
           net' = net, hal' = hal, pairs' = pairs, proven' \subseteq Remotes, proven \subseteq proven',
           result = "success" => net.ctrl[val.id].ieee \in proven' /\ val'.timer,
           val' \in Validation, val'.validating = val.validating, val'.configuring = val.configuring,
           val'.id = val.id, val'.stray <= val.stray
    PROVE  PInv'
<1>1. PICK id : id = val.id  OBVIOUS
<1>2. PICK e : e = EndMsg(id, "interactive", result)  OBVIOUS
<1>3. /\ QueueOK /\ net \in Network /\ val \in Validation
      /\ id \in Ids /\ val.timer /\ ~val.configuring /\ Current(id) /\ ~net.tag
      /\ Exists(net, id) /\ net.ctrl[id].result = "pending" /\ \A m \in hal : m.late
      /\ Failing = Armed
  BY <1>1, QuietFacts
<1>4. e \in Message /\ e.type = "end" /\ e.id = id /\ e.kind = "interactive" /\ e.result = result
  BY <1>2, <1>3 DEF EndMsg, Message, Kinds, Results, Ended
<1>5. QueueOK' /\ Queued = {} /\ Queued' = {e}  BY <1>1, <1>2, <1>4, QueueSent
<1>6. /\ OfType("begin")' = {} /\ OfType("paired")' = {} /\ OfType("end")' = {e}
      /\ \A type, i : IsQueued(type, i)' => type = "end"
      /\ IsQueued("end", id)'
  BY <1>4, <1>5 DEF OfType, IsQueued
<1>7. \A i \in Ids : Current(i)' <=> Current(i)
  <2>1. ~Unbegun(e)  BY <1>4 DEF Unbegun
  <2>2. \A i \in Ids : Current(i) <=> (\E m \in hal : m.id = i /\ ~m.late) \/ (val.validating /\ val.id = i)
    BY CurrentQuiet
  <2>3. \A i \in Ids : Current(i)' <=> (\E m \in hal : m.id = i /\ ~m.late) \/ (val.validating /\ val.id = i)
    BY <1>4, <1>5, <2>1 DEF Current, Unbegun
  <2>. QED  BY <2>2, <2>3
<1>8. \A i \in Ids : Current(i) <=> i = id  BY <1>3 DEF PInv, CurrentOK
<1>9. TypesOK' /\ OnlyProvenBound' /\ HalOK'
  BY DEF PInv, TypesOK, OnlyProvenBound, HalOK
<1>10. StagesOK'  BY <1>3, <1>4, <1>5, <1>6 DEF StagesOK, Asked, Unbegun
<1>11. CurrentOK'  BY <1>5, <1>7 DEF PInv, CurrentOK
<1>12. ControllersOK'  BY <1>7 DEF PInv, ControllersOK
<1>13. LateOK'
  <2>1. \A m \in hal : m.id \in Ids  BY DEF PInv, HalOK, Answer
  <2>. QED  BY <1>7, <2>1 DEF PInv, LateOK
<1>14. EndsOK'
  <2>1. EndOK(e)'  BY <1>1, <1>3, <1>4, <1>7, <1>8 DEF EndOK
  <2>. QED  BY <1>6, <2>1 DEF EndsOK
<1>15. ValidationOK'  BY <1>1, <1>3, <1>6 DEF ValidationOK, InProgress
<1>16. FailsOK'
  <2>1. Failing' \subseteq Failing  BY <1>3, <1>6 DEF Failing, Armed
  <2>2. FailsOK  BY DEF PInv
  <2>. QED  BY <2>1, <2>2, FailsKept
<1>17. TimersOK'
  <2>1. ~Starting'  BY <1>3, <1>4, <1>5, <1>6 DEF Starting, Asked
  <2>2. Counting(val.timer) = 1 /\ Counting(Starting) \in Nat /\ Counting(Starting') = 0
        /\ Counting(val'.timer) \in {0, 1}
    BY <1>3, <2>1 DEF Counting
  <2>3. val.stray \in Nat /\ val'.stray \in Nat /\ pairs \in Nat
    BY <1>3, Ids0 DEF Validation, PInv, TypesOK
  <2>4. val.stray + Counting(val.timer) + Counting(Starting) <= pairs  BY DEF PInv, TimersOK
  <2>5. val'.stray + Counting(val'.timer) + Counting(Starting') <= pairs'  BY <2>2, <2>3, <2>4
  <2>. QED  BY <2>5 DEF TimersOK, Counting
<1>. QED
  BY <1>5, <1>9, <1>10, <1>11, <1>12, <1>13, <1>14, <1>15, <1>16, <1>17 DEF PInv

\* What is said of a binding holds still, where a message at most is sent that says nothing of it.
LEMMA QuietKept ==
    ASSUME PairingAssumption, PInv, mq = <<>>, QueueOK',
           \A m \in Queued' : m.type \in {"configured", "failed"},
           hal' = hal, pairs' = pairs, net'.binding = net.binding, net'.evict = net.evict, net'.tag = net.tag,
           val' \in Validation, val'.validating = val.validating, val'.configuring = val.configuring,
           val'.id = val.id, val'.stray <= val.stray, Counting(val'.timer) <= Counting(val.timer)
    PROVE  /\ StagesOK' /\ LateOK' /\ HalOK' /\ EndsOK' /\ TimersOK'
           /\ \A i : Current(i)' <=> Current(i)
           /\ \A i : ~IsQueued("end", i)'
           /\ (\A i : ~IsQueued("failed", i)') => Failing' = Armed'
<1>1. Queued = {} /\ OfType("paired") = {}  BY EmptyQueue
<1>2. OfType("paired")' = {} /\ OfType("begin")' = {} /\ OfType("end")' = {} /\ \A i : ~IsQueued("end", i)'
  BY DEF OfType, IsQueued
<1>3. \A i : Current(i)' <=> Current(i)
  BY <1>1 DEF Current, Unbegun
<1>4. StagesOK' /\ LateOK' /\ HalOK' /\ EndsOK'  BY <1>1, <1>2, <1>3, BindingKept
<1>5. Asked' <=> Asked  BY <1>1, <1>2 DEF Asked
<1>6. Starting' <=> Starting  BY <1>1, <1>5 DEF Starting
<1>7. TimersOK'
  <2>1. Counting(Starting') = Counting(Starting) /\ Counting(Starting) \in Nat /\ Counting(val.timer) \in Nat
        /\ Counting(val'.timer) \in Nat
    BY <1>6 DEF Counting
  <2>2. val.stray + Counting(val.timer) + Counting(Starting) <= pairs /\ val.stray \in Nat /\ pairs \in Nat
        /\ val'.stray \in Nat
    BY Ids0 DEF PInv, TimersOK, TypesOK, Validation
  <2>3. val'.stray + Counting(val'.timer) + Counting(Starting') <= pairs'  BY <2>1, <2>2
  <2>. QED  BY <2>3 DEF TimersOK, Counting
<1>8. (\A i : ~IsQueued("failed", i)') => Failing' = Armed'  BY DEF Failing, Armed
<1>. QED  BY <1>2, <1>3, <1>4, <1>7, <1>8

\* Nothing is sent, and the progress of the code or the timers of a validation change: it is watched still.
LEMMA ProgressKept ==
    ASSUME PairingAssumption, PInv, mq = <<>>, mq' = mq, net' = net, hal' = hal, proven' = proven, pairs' = pairs,
           val' \in Validation, val'.validating = val.validating, val'.configuring = val.configuring,
           val'.id = val.id, val'.stray <= val.stray, Counting(val'.timer) <= Counting(val.timer),
           InProgress(val) => val'.timer
    PROVE  PInv'
<1>1. QueueOK' /\ Queued' = {} /\ Queued = {}  BY EmptyQueue, QueueKept DEF PInv
<1>2. /\ StagesOK' /\ LateOK' /\ HalOK' /\ EndsOK' /\ TimersOK'
      /\ \A i : Current(i)' <=> Current(i)
      /\ (\A i : ~IsQueued("failed", i)') => Failing' = Armed'
  BY <1>1, QuietKept
<1>3. \A type, i : ~IsQueued(type, i)'  BY <1>1 DEF IsQueued
<1>4. TypesOK' /\ OnlyProvenBound' /\ CurrentOK' /\ ControllersOK'
  BY <1>1, <1>2 DEF PInv, TypesOK, OnlyProvenBound, CurrentOK, ControllersOK
<1>5. ValidationOK'
  BY <1>2, QuietFacts DEF ValidationOK, InProgress
<1>6. FailsOK'
  <2>1. Failing' = Failing  BY <1>2, <1>3, QuietFacts DEF Armed
  <2>2. FailsOK  BY DEF PInv
  <2>. QED  BY <2>1, <2>2, FailsKept
<1>. QED  BY <1>1, <1>2, <1>4, <1>5, <1>6 DEF PInv

\* The timer of a validation or of a configuration runs out: its end is sent.
LEMMA ValidationTimeoutKeeps ==
    ASSUME PairingAssumption, PInv, ValidationTimeout
    PROVE  PInv'
<1>. DEFINE told == IF val.validating /\ ~val.configuring THEN Informed(val) ELSE val
<1>1. /\ mq = <<>> /\ net' = net /\ hal' = hal /\ proven' = proven /\ pairs' = pairs
      /\ \/ val' = [told EXCEPT !.timer = FALSE]
         \/ val.stray > 0 /\ val' = [told EXCEPT !.timer = FALSE, !.stray = IF val.timer THEN @ ELSE @ - 1]
      /\ mq' = IF val.configuring THEN Append(mq, ConfMsg(val.id))
               ELSE IF val.validating THEN Append(mq, EndMsg(val.id, "interactive", "timeout"))
               ELSE mq
  BY Ids0 DEF ValidationTimeout, Quiet
<1>2. val \in Validation /\ proven \subseteq Remotes  BY DEF PInv, TypesOK
<1>3. /\ told \in Validation /\ told.validating = val.validating /\ told.configuring = val.configuring
      /\ told.id = val.id /\ told.timer = val.timer /\ told.stray = val.stray
  BY <1>2, InformedFacts
<1>. HIDE DEF told
<1>4. /\ val' \in Validation /\ val'.validating = val.validating /\ val'.configuring = val.configuring
      /\ val'.id = val.id /\ val'.timer = FALSE /\ val'.stray <= val.stray
  <2>. DEFINE C == 0..(CodeLength - 1)
              W == 0..(MaxWrong - 1)
              V == [validating : BOOLEAN, configuring : BOOLEAN, id : Ids \cup {NoId}, timer : BOOLEAN,
                    stray : Nat, matched : C, wrong : W]
  <2>1. V = Validation  BY DEF Validation
  <2>. HIDE DEF C, W
  <2>0. val.stray \in Nat  BY <1>2 DEF Validation
  <2>2. val.stray \in Nat /\ (val.stray > 0 => val.stray - 1 \in Nat /\ val.stray - 1 <= val.stray)
        /\ val.stray <= val.stray
    BY ONLY <2>0
  <2>3. told \in V  BY <1>3, <2>1
  <2>4. CASE val' = [told EXCEPT !.timer = FALSE]
    BY <1>3, <2>1, <2>2, <2>3, <2>4
  <2>5. CASE val.stray > 0 /\ val' = [told EXCEPT !.timer = FALSE, !.stray = IF val.timer THEN @ ELSE @ - 1]
    <3>1. PICK s : s = IF val.timer THEN val.stray ELSE val.stray - 1  OBVIOUS
    <3>2. s \in Nat /\ s <= val.stray  BY <2>2, <2>5, <3>1
    <3>3. val' = [told EXCEPT !.timer = FALSE, !.stray = s]  BY <1>3, <2>5, <3>1
    <3>. QED  BY <1>3, <2>1, <2>3, <3>2, <3>3
  <2>. QED  BY <1>1, <2>4, <2>5
<1>5. Counting(val'.timer) <= Counting(val.timer)  BY <1>4 DEF Counting
<1>6. CASE val.configuring
  <2>1. PICK id : id = val.id  OBVIOUS
  <2>2. /\ id \in Ids /\ ~val.validating /\ ~Current(id)
        /\ Exists(net, id) /\ net.ctrl[id].result = "success" /\ net.ctrl[id].conf = "pending"
        /\ Failing = Armed
    BY <1>1, <1>6, <2>1, QuietFacts
  <2>3. ConfMsg(id) \in Message /\ ConfMsg(id).type = "configured" /\ ConfMsg(id).id = id
    BY <2>2 DEF ConfMsg, Message
  <2>4. QueueOK' /\ Queued' = {ConfMsg(id)} /\ Queued = {}
    BY <1>1, <1>6, <2>1, <2>3, QueueSent
  <2>5. /\ StagesOK' /\ LateOK' /\ HalOK' /\ EndsOK' /\ TimersOK'
        /\ \A i : Current(i)' <=> Current(i)
        /\ (\A i : ~IsQueued("failed", i)') => Failing' = Armed'
    BY <1>1, <1>4, <1>5, <2>3, <2>4, QuietKept
  <2>6. IsQueued("configured", id)' /\ \A i : ~IsQueued("failed", i)'  BY <2>3, <2>4 DEF IsQueued
  <2>7. TypesOK' /\ OnlyProvenBound' /\ CurrentOK' /\ ControllersOK'
    BY <1>1, <1>4, <2>4, <2>5 DEF PInv, TypesOK, OnlyProvenBound, CurrentOK, ControllersOK
  <2>8. ValidationOK'
    BY <1>1, <1>4, <2>1, <2>2, <2>5, <2>6 DEF ValidationOK, InProgress
  <2>9. FailsOK'
    <3>1. Failing' = Failing  BY <1>1, <2>2, <2>5, <2>6 DEF Armed
    <3>2. FailsOK  BY DEF PInv
    <3>. QED  BY <1>1, <3>1, <3>2, FailsKept
  <2>. QED  BY <2>4, <2>5, <2>7, <2>8, <2>9 DEF PInv
<1>7. CASE ~val.configuring /\ val.validating
  <2>1. PICK result \in {"success", "timeout", "abort", "failed"} : result = "timeout"  OBVIOUS
  <2>2. mq' = Append(mq, EndMsg(val.id, "interactive", result)) /\ result # "success"  BY <1>1, <1>7, <2>1
  <2>. QED  BY <1>1, <1>2, <1>4, <1>7, <2>2, EndSent
<1>8. CASE ~val.configuring /\ ~val.validating
  <2>1. mq' = mq /\ ~InProgress(val)  BY <1>1, <1>8 DEF InProgress
  <2>. QED  BY <1>1, <1>4, <1>5, <2>1, ProgressKept
<1>. QED  BY <1>6, <1>7, <1>8

\* The timer of a failed validation runs out.
LEMMA FailedTimeoutKeeps ==
    ASSUME PairingAssumption, PInv, FailedTimeout
    PROVE  PInv'
<1>1. PICK k \in DOMAIN net.fails :
         /\ net.fails[k].armed /\ net' = [net EXCEPT !.fails[k].armed = FALSE]
         /\ mq' = Append(mq, FailedMsg(net.fails[k].id))
  BY DEF FailedTimeout
<1>2. mq = <<>> /\ val' = val /\ hal' = hal /\ proven' = proven /\ pairs' = pairs
  BY Ids0 DEF FailedTimeout, Quiet
<1>3. net \in Network /\ net.fails \in Seq(Failure) /\ val \in Validation /\ val.stray \in Nat
  BY DEF PInv, TypesOK, Network, Validation
<1>4. PICK id : id = net.fails[k].id  OBVIOUS
<1>5. id \in Ids /\ net.fails[k] \in Failure
  <2>1. net.fails \in Seq(Failure) /\ k \in DOMAIN net.fails  BY <1>1, <1>3
  <2>2. net.fails[k] \in Failure  BY ONLY <2>1
  <2>. QED  BY <1>4, <2>2 DEF Failure
<1>6. /\ net' \in Network /\ net'.ctrl = net.ctrl /\ net'.evict = net.evict /\ net'.binding = net.binding /\ net'.tag = net.tag
      /\ \A j \in DOMAIN net'.fails : j \in DOMAIN net.fails /\ net'.fails[j].id = net.fails[j].id
                                      /\ (net'.fails[j].armed => net.fails[j].armed)
  <2>. DEFINE f == net.fails[k]
              g == [f EXCEPT !.armed = FALSE]
              more == [net.fails EXCEPT ![k] = g]
  <2>1. g \in Failure /\ g.id = f.id /\ g.armed = FALSE  BY <1>5 DEF Failure
  <2>2. net' = [net EXCEPT !.fails = more]  BY <1>1, <1>3
  <2>3. more \in Seq(Failure) /\ DOMAIN more = DOMAIN net.fails
    <3>. HIDE DEF g
    <3>1. net.fails \in Seq(Failure) /\ g \in Failure /\ k \in DOMAIN net.fails  BY <1>1, <1>3, <2>1
    <3>. QED  BY ONLY <3>1
  <2>4. \A j \in DOMAIN net.fails : more[j] = IF j = k THEN g ELSE net.fails[j]  BY <1>1
  <2>. HIDE DEF more, g
  <2>5. net' \in Network /\ net'.ctrl = net.ctrl /\ net'.evict = net.evict /\ net'.binding = net.binding /\ net'.tag = net.tag
        /\ net'.fails = more
    BY <1>3, <2>2, <2>3 DEF Network
  <2>6. \A j \in DOMAIN net.fails : more[j].id = net.fails[j].id /\ (more[j].armed => net.fails[j].armed)
    BY <2>1, <2>4
  <2>. QED  BY <2>3, <2>5, <2>6
<1>7. FailedMsg(id) \in Message /\ FailedMsg(id).type = "failed" /\ FailedMsg(id).id = id
  BY <1>5 DEF FailedMsg, Message
<1>8. QueueOK' /\ Queued' = {FailedMsg(id)} /\ Queued = {}
  BY <1>1, <1>2, <1>4, <1>7, QueueSent
<1>9. Counting(val'.timer) <= Counting(val.timer) /\ val'.stray <= val.stray
  BY <1>2, <1>3 DEF Counting
<1>10. /\ StagesOK' /\ LateOK' /\ HalOK' /\ EndsOK' /\ TimersOK'
       /\ \A i : Current(i)' <=> Current(i)
  BY <1>2, <1>3, <1>6, <1>7, <1>8, <1>9, QuietKept
<1>11. \A type, i : IsQueued(type, i)' => type = "failed" /\ i = id  BY <1>7, <1>8 DEF IsQueued
<1>12. \A i : Exists(net', i) <=> Exists(net, i)  BY <1>6 DEF Exists
<1>13. TypesOK' /\ OnlyProvenBound'  BY <1>2, <1>6 DEF PInv, TypesOK, OnlyProvenBound
<1>14. CurrentOK' /\ ControllersOK'
  BY <1>2, <1>6, <1>8, <1>10, <1>12 DEF PInv, CurrentOK, ControllersOK
<1>15. ValidationOK'
  <2>1. /\ val.validating => val.id \in Ids /\ val.timer /\ ~val.configuring
        /\ val.configuring => /\ val.id \in Ids /\ val.timer /\ ~Current(val.id) /\ Exists(net, val.id)
                              /\ net.ctrl[val.id].result = "success" /\ net.ctrl[val.id].conf = "pending"
    BY <1>2, QuietFacts
  <2>. QED  BY <1>2, <1>6, <1>10, <1>12, <2>1 DEF ValidationOK, InProgress
<1>16. FailsOK'
  <2>1. Failing = Armed /\ id \in Armed  BY <1>1, <1>2, <1>4, <1>5, QuietFacts DEF Armed
  <2>2. Failing' \subseteq Failing  BY <1>6, <1>11, <2>1 DEF Failing, Armed
  <2>3. FailsOK  BY DEF PInv
  <2>. QED  BY <1>6, <1>12, <2>2, <2>3, FailsKept
<1>. QED
  BY <1>8, <1>10, <1>13, <1>14, <1>15, <1>16 DEF PInv

-----------------------------------------------------------------------------
(* What remotes and applications do. *)

\* A key that means something is that of a remote that is validated, or that has failed while
\* another is configured.
LEMMA SniffedFacts ==
    ASSUME PairingAssumption, PInv, NEW id \in Ids, Sniffed(id)
    PROVE  /\ mq = <<>> /\ Exists(net, id) /\ net.ctrl[id].ieee \in Remotes
           /\ val.id = id => val.validating /\ val.timer /\ ~val.configuring
           /\ val.id # id => /\ net.ctrl[id].result \in Ended /\ ~val.validating
                             /\ (\A m \in hal : m.late) /\ \A i \in Ids : ~Current(i)
<1>1. /\ Paired(id) /\ net.ctrl[id].result # "success" /\ InProgress(val)  BY DEF Sniffed
<1>2. /\ mq = <<>> /\ Exists(net, id)
      /\ net.ctrl[id].result = "pending" => val.validating /\ val.id = id
      /\ net.ctrl[id].result \in Ended =>
            ~val.validating /\ (\A m \in hal : m.late) /\ \A i \in Ids : ~Current(i)
      /\ net.ctrl[id].result \in {"pending", "success"} \cup Ended
  BY <1>1, ReachedFacts
<1>3. /\ val.validating => val.timer /\ ~val.configuring
      /\ val.configuring => net.ctrl[val.id].result = "success"
  BY <1>2, QuietFacts
<1>4. net.ctrl[id].ieee \in Remotes
  BY <1>2 DEF PInv, TypesOK, Network, Controller, Exists
<1>5. val.id = id => val.validating  BY <1>1, <1>3 DEF InProgress
<1>. QED  BY <1>1, <1>2, <1>3, <1>4, <1>5

\* The timer of a validation is started again, whatever its progress becomes.
LEMMA RearmedFacts ==
    ASSUME NEW v \in Validation
    PROVE  /\ Rearmed(v) \in Validation /\ Rearmed(v).timer = TRUE
           /\ Rearmed(v).validating = v.validating /\ Rearmed(v).configuring = v.configuring
           /\ Rearmed(v).id = v.id /\ Rearmed(v).stray = v.stray
           /\ Rearmed(v).matched = v.matched /\ Rearmed(v).wrong = v.wrong
<1>. DEFINE C == 0..(CodeLength - 1)
            W == 0..(MaxWrong - 1)
            V == [validating : BOOLEAN, configuring : BOOLEAN, id : Ids \cup {NoId}, timer : BOOLEAN,
                  stray : Nat, matched : C, wrong : W]
<1>1. V = Validation  BY DEF Validation
<1>. HIDE DEF C, W
<1>. QED  BY <1>1 DEF Rearmed

\* The progress of the code is set to what it may be.
LEMMA ProgressFacts ==
    ASSUME NEW a \in 0..(CodeLength - 1), NEW b \in 0..(MaxWrong - 1)
    PROVE  \A v \in Validation : \A w : w = [v EXCEPT !.matched = a, !.wrong = b] =>
              /\ w \in Validation /\ w.timer = v.timer /\ w.stray = v.stray
              /\ w.validating = v.validating /\ w.configuring = v.configuring /\ w.id = v.id
<1>. TAKE v \in Validation
<1>. TAKE w
<1>. HAVE w = [v EXCEPT !.matched = a, !.wrong = b]
<1>. DEFINE C == 0..(CodeLength - 1)
            W == 0..(MaxWrong - 1)
            V == [validating : BOOLEAN, configuring : BOOLEAN, id : Ids \cup {NoId}, timer : BOOLEAN,
                  stray : Nat, matched : C, wrong : W]
<1>1. V = Validation /\ a \in C /\ b \in W  BY DEF Validation
<1>. HIDE DEF C, W
<1>. QED  BY <1>1

\* The key that aborts a validation.
LEMMA KeyAbortKeeps ==
    ASSUME PairingAssumption, PInv, NEW id \in Ids, KeyAbort(id)
    PROVE  PInv'
<1>1. /\ Sniffed(id) /\ val.id = id /\ mq' = Append(mq, EndMsg(id, "interactive", "abort"))
      /\ val' = Informed(val) /\ net' = net /\ hal' = hal /\ proven' = proven /\ pairs' = pairs
  BY DEF KeyAbort
<1>2. mq = <<>> /\ val.validating  BY <1>1, SniffedFacts
<1>3. val \in Validation /\ proven \subseteq Remotes /\ val.stray \in Nat
  BY DEF PInv, TypesOK, Validation
<1>4. /\ val' \in Validation /\ val'.validating = val.validating /\ val'.configuring = val.configuring
      /\ val'.id = val.id /\ val'.stray <= val.stray
  BY <1>1, <1>3, InformedFacts
<1>5. PICK result \in {"success", "timeout", "abort", "failed"} : result = "abort"  OBVIOUS
<1>6. mq' = Append(mq, EndMsg(val.id, "interactive", result)) /\ result # "success"  BY <1>1, <1>5
<1>. QED  BY <1>1, <1>2, <1>3, <1>4, <1>6, EndSent

\* The next key of the code: the validation succeeds with the last.
LEMMA KeyRightKeeps ==
    ASSUME PairingAssumption, PInv, NEW id \in Ids, KeyRight(id)
    PROVE  PInv'
<1>1. /\ Sniffed(id) /\ val.id = id /\ net' = net /\ hal' = hal /\ pairs' = pairs
      /\ IF val.matched + 1 = CodeLength
           THEN /\ mq' = Append(mq, EndMsg(id, "interactive", "success"))
                /\ val' = Informed(Rearmed(val)) /\ proven' = proven \cup {net.ctrl[id].ieee}
           ELSE val' = [Rearmed(val) EXCEPT !.matched = @ + 1] /\ mq' = mq /\ proven' = proven
  BY DEF KeyRight
<1>2. mq = <<>> /\ val.validating /\ val.timer /\ net.ctrl[id].ieee \in Remotes  BY <1>1, SniffedFacts
<1>3. val \in Validation /\ proven \subseteq Remotes  BY DEF PInv, TypesOK
<1>4. /\ val.stray \in Nat /\ val.matched \in 0..(CodeLength - 1) /\ val.wrong \in 0..(MaxWrong - 1)
  BY <1>3 DEF Validation
<1>5. CASE val.matched + 1 = CodeLength
  <2>1. PICK v : v = Rearmed(val)  OBVIOUS
  <2>2. /\ v \in Validation /\ v.validating = val.validating /\ v.configuring = val.configuring
        /\ v.id = val.id /\ v.stray = val.stray /\ v.timer = TRUE
    BY <1>3, <2>1, RearmedFacts
  <2>3. /\ val' \in Validation /\ val'.validating = val.validating /\ val'.configuring = val.configuring
        /\ val'.id = val.id /\ val'.stray <= val.stray /\ val'.timer
    BY <1>1, <1>4, <1>5, <2>1, <2>2, InformedFacts
  <2>4. PICK result \in {"success", "timeout", "abort", "failed"} : result = "success"  OBVIOUS
  <2>5. /\ mq' = Append(mq, EndMsg(val.id, "interactive", result))
        /\ proven' = proven \cup {net.ctrl[val.id].ieee} /\ net.ctrl[val.id].ieee \in Remotes
    BY <1>1, <1>2, <1>5, <2>4
  <2>6. /\ proven' \subseteq Remotes /\ proven \subseteq proven' /\ net.ctrl[val.id].ieee \in proven'
    BY <1>3, <2>5
  <2>. QED  BY <1>1, <1>2, <2>3, <2>5, <2>6, EndSent
<1>6. CASE val.matched + 1 # CodeLength
  <2>1. PICK a : a = val.matched + 1  OBVIOUS
  <2>2. PICK b : b = val.wrong  OBVIOUS
  <2>3. a \in 0..(CodeLength - 1)  BY <1>4, <1>6, <2>1, Ids0
  <2>4. b \in 0..(MaxWrong - 1)  BY <1>4, <2>2
  <2>5. PICK v : v = Rearmed(val)  OBVIOUS
  <2>9. /\ v \in Validation /\ v.validating = val.validating /\ v.configuring = val.configuring
         /\ v.id = val.id /\ v.stray = val.stray /\ v.timer = TRUE
         /\ v.matched = val.matched /\ v.wrong = val.wrong
    BY <1>3, <2>5, RearmedFacts
  <2>10. val' = [v EXCEPT !.matched = a, !.wrong = b]
    <3>1. val' = [v EXCEPT !.matched = a]  BY <1>1, <1>6, <2>1, <2>5, <2>9
    <3>. QED  BY <2>2, <2>9, <3>1 DEF Validation
  <2>6. /\ val' \in Validation /\ val'.timer = TRUE /\ val'.stray = val.stray
        /\ val'.validating = val.validating /\ val'.configuring = val.configuring /\ val'.id = val.id
    BY <2>3, <2>4, <2>9, <2>10, ProgressFacts
  <2>7. Counting(val'.timer) <= Counting(val.timer) /\ val'.stray <= val.stray
    BY <1>2, <1>4, <2>6 DEF Counting
  <2>8. mq' = mq /\ proven' = proven  BY <1>1, <1>6
  <2>. QED  BY <1>1, <1>2, <2>6, <2>7, <2>8, ProgressKept
<1>. QED  BY <1>5, <1>6

\* Another key: the validation fails with the last that it allows.
LEMMA KeyWrongKeeps ==
    ASSUME PairingAssumption, PInv, NEW id \in Ids, KeyWrong(id)
    PROVE  PInv'
<1>1. /\ Sniffed(id) /\ val.id = id /\ net' = net /\ hal' = hal /\ pairs' = pairs /\ proven' = proven
      /\ IF val.wrong + 1 >= MaxWrong
           THEN mq' = Append(mq, EndMsg(id, "interactive", "failed")) /\ val' = Informed(Rearmed(val))
           ELSE val' = [Rearmed(val) EXCEPT !.matched = 0, !.wrong = @ + 1] /\ mq' = mq
  BY DEF KeyWrong
<1>2. mq = <<>> /\ val.validating /\ val.timer  BY <1>1, SniffedFacts
<1>3. val \in Validation /\ proven \subseteq Remotes  BY DEF PInv, TypesOK
<1>4. /\ val.stray \in Nat /\ val.matched \in 0..(CodeLength - 1) /\ val.wrong \in 0..(MaxWrong - 1)
  BY <1>3 DEF Validation
<1>5. CASE val.wrong + 1 >= MaxWrong
  <2>1. PICK v : v = Rearmed(val)  OBVIOUS
  <2>2. /\ v \in Validation /\ v.validating = val.validating /\ v.configuring = val.configuring
        /\ v.id = val.id /\ v.stray = val.stray
    BY <1>3, <2>1, RearmedFacts
  <2>3. /\ val' \in Validation /\ val'.validating = val.validating /\ val'.configuring = val.configuring
        /\ val'.id = val.id /\ val'.stray <= val.stray
    BY <1>1, <1>4, <1>5, <2>1, <2>2, InformedFacts
  <2>4. PICK result \in {"success", "timeout", "abort", "failed"} : result = "failed"  OBVIOUS
  <2>5. mq' = Append(mq, EndMsg(val.id, "interactive", result)) /\ result # "success"
    BY <1>1, <1>5, <2>4
  <2>. QED  BY <1>1, <1>2, <1>3, <2>3, <2>5, EndSent
<1>6. CASE ~(val.wrong + 1 >= MaxWrong)
  <2>1. PICK a : a = 0  OBVIOUS
  <2>2. PICK b : b = val.wrong + 1  OBVIOUS
  <2>3. a \in 0..(CodeLength - 1)  BY <2>1, Ids0
  <2>4. b \in 0..(MaxWrong - 1)  BY <1>4, <1>6, <2>2, Ids0
  <2>5. PICK v : v = Rearmed(val)  OBVIOUS
  <2>9. /\ v \in Validation /\ v.validating = val.validating /\ v.configuring = val.configuring
         /\ v.id = val.id /\ v.stray = val.stray /\ v.timer = TRUE /\ v.wrong = val.wrong
    BY <1>3, <2>5, RearmedFacts
  <2>10. val' = [v EXCEPT !.matched = a, !.wrong = b]
    BY <1>1, <1>6, <2>1, <2>2, <2>5, <2>9
  <2>6. /\ val' \in Validation /\ val'.timer = TRUE /\ val'.stray = val.stray
        /\ val'.validating = val.validating /\ val'.configuring = val.configuring /\ val'.id = val.id
    BY <2>3, <2>4, <2>9, <2>10, ProgressFacts
  <2>7. Counting(val'.timer) <= Counting(val.timer) /\ val'.stray <= val.stray
    BY <1>2, <1>4, <2>6 DEF Counting
  <2>8. mq' = mq  BY <1>1, <1>6
  <2>. QED  BY <1>1, <1>2, <2>6, <2>7, <2>8, ProgressKept
<1>. QED  BY <1>5, <1>6

\* The application answers for the controller that is validated.
LEMMA AppFinishKeeps ==
    ASSUME PairingAssumption, PInv, NEW id \in Ids, NEW result \in {"success", "failed"}, AppFinish(id, result)
    PROVE  PInv'
<1>1. /\ mq = <<>> /\ Exists(net, id) /\ val.validating /\ val.id = id
      /\ mq' = Append(mq, EndMsg(id, "interactive", result)) /\ val' = Informed(val)
      /\ proven' = IF result = "success" THEN proven \cup {net.ctrl[id].ieee} ELSE proven
      /\ net' = net /\ hal' = hal /\ pairs' = pairs
  BY Ids0 DEF AppFinish, Quiet
<1>2. val.timer  BY <1>1, QuietFacts
<1>3. val \in Validation /\ proven \subseteq Remotes /\ val.stray \in Nat /\ net.ctrl[id].ieee \in Remotes
  BY <1>1 DEF PInv, TypesOK, Validation, Network, Controller, Exists
<1>4. /\ val' \in Validation /\ val'.validating = val.validating /\ val'.configuring = val.configuring
      /\ val'.id = val.id /\ val'.stray <= val.stray /\ val'.timer = val.timer
  <2>1. /\ Informed(val) \in Validation
        /\ Informed(val).validating = val.validating /\ Informed(val).configuring = val.configuring
        /\ Informed(val).id = val.id /\ Informed(val).timer = val.timer /\ Informed(val).stray = val.stray
    BY <1>3, InformedFacts
  <2>2. val.stray <= val.stray  BY <1>3
  <2>. QED  BY <1>1, <2>1, <2>2
<1>5. /\ proven' \subseteq Remotes /\ proven \subseteq proven'
      /\ result = "success" => net.ctrl[val.id].ieee \in proven' /\ val'.timer
  BY <1>1, <1>2, <1>3, <1>4
<1>6. result \in {"success", "timeout", "abort", "failed"} /\ mq' = Append(mq, EndMsg(val.id, "interactive", result))
  BY <1>1
<1>. QED  BY <1>1, <1>4, <1>5, <1>6, EndSent

\* The end of a validation that is not that of the binding, or of a controller that goes, is sent.
LEMMA EndQueued ==
    ASSUME PairingAssumption, PInv, mq = <<>>, NEW id \in Ids, NEW result \in {"collision", "failure"},
           mq' = Append(mq, EndMsg(id, "interactive", result)), val' = Informed(val),
           hal' = hal, pairs' = pairs, net'.tag = net.tag, \A m \in hal : m.late
    PROVE  /\ QueueOK' /\ HalOK' /\ StagesOK' /\ LateOK' /\ TimersOK' /\ Failing' = Armed'
           /\ Queued' = {EndMsg(id, "interactive", result)}
           /\ \A i \in Ids : Current(i)' <=> Current(i)
           /\ val' \in Validation /\ val'.validating = val.validating /\ val'.configuring = val.configuring
           /\ val'.id = val.id /\ val'.timer = val.timer
<1>1. PICK e : e = EndMsg(id, "interactive", result)  OBVIOUS
<1>2. e \in Message /\ e.type = "end" /\ e.id = id /\ e.kind = "interactive" /\ e.result = result
  BY <1>1 DEF EndMsg, Message, Kinds, Results, Ended
<1>3. QueueOK' /\ Queued = {} /\ Queued' = {e}  BY <1>1, <1>2, QueueSent
<1>4. /\ OfType("begin")' = {} /\ OfType("paired")' = {} /\ OfType("end")' = {e}
      /\ \A type, i : IsQueued(type, i)' => type = "end"
  BY <1>2, <1>3 DEF OfType, IsQueued
<1>5. val \in Validation /\ val.stray \in Nat /\ pairs \in Nat
  BY Ids0 DEF PInv, TypesOK, Validation
<1>6. /\ val' \in Validation /\ val'.validating = val.validating /\ val'.configuring = val.configuring
      /\ val'.id = val.id /\ val'.timer = val.timer /\ val'.stray = val.stray
  <2>1. /\ Informed(val) \in Validation
        /\ Informed(val).validating = val.validating /\ Informed(val).configuring = val.configuring
        /\ Informed(val).id = val.id /\ Informed(val).timer = val.timer /\ Informed(val).stray = val.stray
    BY <1>5, InformedFacts
  <2>. QED  BY <2>1
<1>7. \A i \in Ids : Current(i)' <=> Current(i)
  <2>1. ~Unbegun(e)  BY <1>2 DEF Unbegun
  <2>2. \A i \in Ids : Current(i) <=> (\E m \in hal : m.id = i /\ ~m.late) \/ (val.validating /\ val.id = i)
    BY CurrentQuiet
  <2>3. \A i \in Ids : Current(i)' <=> (\E m \in hal : m.id = i /\ ~m.late) \/ (val.validating /\ val.id = i)
    BY <1>2, <1>3, <1>6, <2>1 DEF Current, Unbegun
  <2>. QED  BY <2>2, <2>3
<1>8. HalOK'  BY DEF PInv, HalOK
<1>9. StagesOK'
  <2>1. val.validating => ~val.configuring /\ ~net.tag  BY DEF PInv, StagesOK
  <2>. QED  BY <1>2, <1>3, <1>4, <1>6, <2>1 DEF StagesOK, Asked, Unbegun
<1>10. LateOK'
  <2>1. \A m \in hal : m.id \in Ids  BY DEF PInv, HalOK, Answer
  <2>. QED  BY <1>7, <2>1 DEF PInv, LateOK
<1>11. Failing' = Armed'  BY <1>4 DEF Failing, Armed
<1>12. TimersOK'
  <2>1. ~Starting'  BY <1>2, <1>3, <1>4 DEF Starting, Asked
  <2>2. Counting(val.timer) \in Nat /\ Counting(Starting) \in Nat /\ Counting(Starting') = 0
        /\ Counting(val'.timer) = Counting(val.timer)
    BY <1>6, <2>1 DEF Counting
  <2>3. val.stray + Counting(val.timer) + Counting(Starting) <= pairs  BY DEF PInv, TimersOK
  <2>4. val'.stray + Counting(val'.timer) + Counting(Starting') <= pairs'  BY <1>5, <1>6, <2>2, <2>3
  <2>. QED  BY <2>4 DEF TimersOK, Counting
<1>. QED  BY <1>1, <1>3, <1>6, <1>7, <1>8, <1>9, <1>10, <1>11, <1>12

\* A key of a remote that has failed, while another is configured.
LEMMA KeyCollisionKeeps ==
    ASSUME PairingAssumption, PInv, NEW id \in Ids, KeyCollision(id)
    PROVE  PInv'
<1>1. /\ Sniffed(id) /\ val.id # id /\ mq' = Append(mq, EndMsg(id, "interactive", "collision"))
      /\ val' = Informed(val) /\ net' = net /\ hal' = hal /\ proven' = proven /\ pairs' = pairs
  BY DEF KeyCollision
<1>2. /\ mq = <<>> /\ Exists(net, id) /\ net.ctrl[id].result \in Ended /\ ~val.validating
      /\ (\A m \in hal : m.late) /\ \A i \in Ids : ~Current(i)
  BY <1>1, SniffedFacts
<1>3. PICK e : e = EndMsg(id, "interactive", "collision")  OBVIOUS
<1>4. /\ QueueOK' /\ HalOK' /\ StagesOK' /\ LateOK' /\ TimersOK' /\ Failing' = Armed'
      /\ Queued' = {e} /\ \A i \in Ids : ~Current(i)'
      /\ val' \in Validation /\ val'.validating = val.validating /\ val'.configuring = val.configuring
      /\ val'.id = val.id /\ val'.timer = val.timer
  <2>1. PICK result \in {"collision", "failure"} : result = "collision"  OBVIOUS
  <2>2. mq' = Append(mq, EndMsg(id, "interactive", result)) /\ net'.tag = net.tag /\ e = EndMsg(id, "interactive", result)
    BY <1>1, <1>3, <2>1
  <2>. QED  BY <1>1, <1>2, <2>2, EndQueued
<1>5. e.type = "end" /\ e.id = id /\ e.kind = "interactive" /\ e.result = "collision"
  BY <1>3 DEF EndMsg
<1>6. TypesOK' /\ OnlyProvenBound'  BY <1>1, <1>4 DEF PInv, TypesOK, OnlyProvenBound
<1>7. CurrentOK'  BY <1>4 DEF CurrentOK
<1>8. ControllersOK'  BY <1>1, <1>2, <1>4 DEF PInv, ControllersOK
<1>9. EndsOK'
  <2>1. EndOK(e)'  BY <1>1, <1>2, <1>4, <1>5 DEF EndOK
  <2>. QED  BY <1>4, <2>1 DEF EndsOK, OfType
<1>10. ValidationOK'
  <2>1. val.configuring => /\ val.id \in Ids /\ val.timer /\ Exists(net, val.id)
                           /\ net.ctrl[val.id].result = "success" /\ net.ctrl[val.id].conf = "pending"
    BY <1>2, QuietFacts
  <2>. QED  BY <1>1, <1>2, <1>4, <2>1 DEF ValidationOK, InProgress
<1>11. FailsOK'
  <2>1. Failing' = Failing  BY <1>1, <1>2, <1>4, QuietFacts DEF Armed
  <2>2. FailsOK  BY DEF PInv
  <2>. QED  BY <1>1, <2>1, <2>2, FailsKept
<1>. QED
  BY <1>4, <1>6, <1>7, <1>8, <1>9, <1>10, <1>11 DEF PInv

\* A remote reads that its validation has failed: its former pairing is restored, or it is removed.
LEMMA CheckValidationKeeps ==
    ASSUME PairingAssumption, PInv, NEW id \in Ids, CheckValidation(id)
    PROVE  PInv'
<1>1. /\ Paired(id) /\ net.ctrl[id].result \in Ended
      /\ net' = IF net.ctrl[id].bound /\ net.ctrl[id].result # "failure" THEN Restored(net, id)
                ELSE ValidationTimedOut(net, id)
      /\ mq' = mq /\ val' = val /\ hal' = hal /\ proven' = proven /\ pairs' = pairs
  BY DEF CheckValidation
<1>2. /\ mq = <<>> /\ Exists(net, id) /\ (\A m \in hal : m.id # id)
      /\ net.ctrl[id].result # "failure" /\ ~val.validating /\ \A i \in Ids : ~Current(i)
  BY <1>1, ReachedFacts
<1>3. /\ net \in Network /\ val \in Validation /\ val.stray \in Nat  BY DEF PInv, TypesOK, Validation
<1>4. /\ net' \in Network /\ \A i \in Ids \ {id} : net'.ctrl[i] = net.ctrl[i]
      /\ net'.binding = net.binding /\ net'.tag = net.tag /\ net'.evict = net.evict
      /\ \A k \in DOMAIN net'.fails : \E j \in DOMAIN net.fails : net'.fails[k] = net.fails[j]
      /\ \/ ~Exists(net', id) /\ ~net'.ctrl[id].bound
         \/ /\ net'.ctrl[id].result = "success" /\ net.ctrl[id].bound /\ net'.ctrl[id].bound
            /\ net'.ctrl[id].ieee = net.ctrl[id].ieee
         \/ net' = net
  <2>1. CASE net.ctrl[id].bound
    <3>1. PICK m : m = Restored(net, id)  OBVIOUS
    <3>2. net' = m  BY <1>1, <1>2, <2>1, <3>1
    <3>3. /\ m \in Network /\ \A i \in Ids \ {id} : m.ctrl[i] = net.ctrl[i]
          /\ m.binding = net.binding /\ m.tag = net.tag /\ m.fails = net.fails /\ m.evict = net.evict
          /\ net.ctrl[id].backup =>
                /\ m.ctrl[id].result = "success" /\ m.ctrl[id].ieee = net.ctrl[id].ieee
                /\ m.ctrl[id].bound = net.ctrl[id].bound
          /\ ~net.ctrl[id].backup => m = net
      BY <1>2, <1>3, <3>1, RestoredFacts
    <3>. QED  BY <2>1, <3>2, <3>3
  <2>2. CASE ~net.ctrl[id].bound
    <3>1. PICK m : m = ValidationTimedOut(net, id)  OBVIOUS
    <3>2. net' = m  BY <1>1, <2>2, <3>1
    <3>3. /\ m \in Network /\ \A i \in Ids \ {id} : m.ctrl[i] = net.ctrl[i]
          /\ m.binding = net.binding /\ m.tag = net.tag /\ m.evict = net.evict
          /\ \A k \in DOMAIN m.fails : \E j \in DOMAIN net.fails : m.fails[k] = net.fails[j]
          /\ m.ctrl[id] = NoController
      BY <1>2, <1>3, <3>1, TimedOutFacts
    <3>4. ~Exists(m, id) /\ ~m.ctrl[id].bound  BY <3>3 DEF Exists, NoController
    <3>. QED  BY <3>2, <3>3, <3>4
  <2>. QED  BY <2>1, <2>2
<1>5. QueueOK' /\ Queued' = {} /\ Queued = {}  BY <1>1, <1>2, EmptyQueue, QueueKept DEF PInv
<1>6. val'.stray <= val.stray /\ Counting(val'.timer) <= Counting(val.timer)
  BY <1>1, <1>3 DEF Counting
<1>7. /\ StagesOK' /\ LateOK' /\ HalOK' /\ EndsOK' /\ TimersOK'
      /\ \A i : Current(i)' <=> Current(i)
      /\ (\A i : ~IsQueued("failed", i)') => Failing' = Armed'
  BY <1>1, <1>2, <1>3, <1>4, <1>5, <1>6, QuietKept
<1>8. \A type, i : ~IsQueued(type, i)'  BY <1>5 DEF IsQueued
<1>9. \A i \in Ids : i # id => (Exists(net', i) <=> Exists(net, i))  BY <1>4 DEF Exists
<1>10. TypesOK'  BY <1>1, <1>4 DEF PInv, TypesOK
<1>11. OnlyProvenBound'  BY <1>1, <1>4 DEF PInv, OnlyProvenBound
<1>12. CurrentOK'  BY <1>2, <1>7 DEF CurrentOK
<1>13. ControllersOK'
  <2>1. ASSUME NEW i \in Ids, Exists(net', i), i # id
        PROVE  /\ Exists(net, i) /\ net'.ctrl[i] = net.ctrl[i]
    BY <1>4, <1>9, <2>1
  <2>2. CASE net' = net  BY <1>1, <1>7, <2>2 DEF PInv, ControllersOK
  <2>3. CASE net' # net
    <3>1. Exists(net', id) => net'.ctrl[id].result = "success" /\ net'.ctrl[id].bound /\ \A m \in hal' : m.id # id
      BY <1>1, <1>2, <1>4, <2>3
    <3>. QED  BY <1>1, <1>7, <2>1, <3>1 DEF PInv, ControllersOK
  <2>. QED  BY <2>2, <2>3
<1>14. ValidationOK'
  <2>1. val.configuring => /\ val.id \in Ids /\ val.timer /\ Exists(net, val.id)
                           /\ net.ctrl[val.id].result = "success" /\ net.ctrl[val.id].conf = "pending"
    BY <1>2, QuietFacts
  <2>2. val.configuring => val.id # id  BY <1>1, <2>1 DEF Ended
  <2>. QED  BY <1>1, <1>2, <1>4, <1>7, <1>9, <2>1, <2>2 DEF ValidationOK, InProgress
<1>15. FailsOK'
  <2>1. Failing = Armed  BY <1>2, QuietFacts
  <2>2. Failing' \subseteq Failing  BY <1>4, <1>7, <1>8, <2>1 DEF Armed
  <2>3. FailsOK  BY DEF PInv
  <2>4. net.ctrl[id].bound => id \notin Failing  BY <1>2, <2>3 DEF FailsOK
  <2>5. \A i \in Failing : Exists(net', i) => Exists(net, i) /\ net'.ctrl[i] = net.ctrl[i]
    <3>1. Failing \subseteq Ids  BY <2>1 DEF Armed
    <3>. QED  BY <1>2, <1>4, <1>9, <2>4, <3>1
  <2>. QED  BY <2>2, <2>3, <2>5, FailsKept
<1>. QED
  BY <1>5, <1>7, <1>10, <1>11, <1>12, <1>13, <1>14, <1>15 DEF PInv

\* A remote reads the end of its configuration.
LEMMA ConfigurationReadKeeps ==
    ASSUME PairingAssumption, PInv, NEW id \in Ids, ConfigurationRead(id)
    PROVE  PInv'
<1>1. /\ Paired(id) /\ net.ctrl[id].result = "success" /\ net.ctrl[id].conf = "pending"
      /\ net' = [net EXCEPT !.ctrl[id].conf = "success"] /\ mq' = Append(mq, ConfMsg(id))
      /\ val' = val /\ hal' = hal /\ proven' = proven /\ pairs' = pairs
  BY DEF ConfigurationRead
<1>2. /\ mq = <<>> /\ Exists(net, id) /\ (\A m \in hal : m.id # id) /\ net.ctrl[id].bound /\ ~Current(id)
  BY <1>1, ReachedFacts
<1>3. /\ net \in Network /\ val \in Validation /\ val.stray \in Nat  BY DEF PInv, TypesOK, Validation
<1>4. /\ net' \in Network /\ \A i \in Ids \ {id} : net'.ctrl[i] = net.ctrl[i]
      /\ net'.binding = net.binding /\ net'.tag = net.tag /\ net'.evict = net.evict /\ net'.fails = net.fails
      /\ net'.ctrl[id].result = "success" /\ net'.ctrl[id].bound = net.ctrl[id].bound
      /\ net'.ctrl[id].ieee = net.ctrl[id].ieee
  <2>. DEFINE c == [net.ctrl[id] EXCEPT !.conf = "success"]
  <2>1. net.ctrl[id] \in Controller  BY <1>3 DEF Network
  <2>2. /\ c \in Controller /\ c.result = net.ctrl[id].result /\ c.bound = net.ctrl[id].bound
        /\ c.ieee = net.ctrl[id].ieee
    BY <2>1 DEF Controller
  <2>3. net' = [net EXCEPT !.ctrl[id] = c]  BY <1>1
  <2>. HIDE DEF c
  <2>4. net' \in Network /\ net' = [net EXCEPT !.ctrl = [net.ctrl EXCEPT ![id] = c]]
    BY <1>3, <2>2, <2>3, ControllerSet
  <2>5. /\ net'.ctrl = [net.ctrl EXCEPT ![id] = c] /\ DOMAIN net.ctrl = Ids
        /\ net'.binding = net.binding /\ net'.tag = net.tag /\ net'.evict = net.evict /\ net'.fails = net.fails
    BY <1>3, <2>4 DEF Network
  <2>. QED  BY <1>1, <2>2, <2>4, <2>5
<1>5. \A i \in Ids : Exists(net', i) <=> Exists(net, i)  BY <1>4 DEF Exists
<1>6. ConfMsg(id) \in Message /\ ConfMsg(id).type = "configured" /\ ConfMsg(id).id = id
  BY DEF ConfMsg, Message
<1>7. QueueOK' /\ Queued' = {ConfMsg(id)} /\ Queued = {}  BY <1>1, <1>2, <1>6, QueueSent
<1>8. val'.stray <= val.stray /\ Counting(val'.timer) <= Counting(val.timer)
  BY <1>1, <1>3 DEF Counting
<1>9. /\ StagesOK' /\ LateOK' /\ HalOK' /\ EndsOK' /\ TimersOK'
      /\ \A i : Current(i)' <=> Current(i)
      /\ (\A i : ~IsQueued("failed", i)') => Failing' = Armed'
  BY <1>1, <1>2, <1>3, <1>4, <1>6, <1>7, <1>8, QuietKept
<1>10. IsQueued("configured", id)' /\ \A i : ~IsQueued("failed", i)'  BY <1>6, <1>7 DEF IsQueued
<1>11. TypesOK'  BY <1>1, <1>4 DEF PInv, TypesOK
<1>12. OnlyProvenBound'  BY <1>1, <1>4 DEF PInv, OnlyProvenBound
<1>13. CurrentOK'
  <2>1. \A i \in Ids : Current(i)' => i # id  BY <1>2, <1>9
  <2>. QED  BY <1>4, <1>5, <1>7, <1>9, <2>1 DEF PInv, CurrentOK
<1>14. ControllersOK'
  <2>1. net'.ctrl[id].result = "success" /\ net'.ctrl[id].bound /\ \A m \in hal' : m.id # id
    BY <1>1, <1>2, <1>4
  <2>. QED  BY <1>1, <1>4, <1>5, <1>9, <2>1 DEF PInv, ControllersOK
<1>15. ValidationOK'
  <2>1. /\ val.validating => val.id \in Ids /\ val.timer /\ ~val.configuring
        /\ val.configuring => /\ val.id \in Ids /\ val.timer /\ ~Current(val.id) /\ Exists(net, val.id)
                              /\ net.ctrl[val.id].result = "success" /\ net.ctrl[val.id].conf = "pending"
    BY <1>2, QuietFacts
  <2>2. ASSUME val.configuring
        PROVE  \/ IsQueued("configured", val.id)'
               \/ Exists(net', val.id) /\ net'.ctrl[val.id].result = "success" /\ net'.ctrl[val.id].conf = "pending"
    <3>1. PICK v : v = val.id  OBVIOUS
    <3>2. v = id \/ (v \in Ids /\ Exists(net', v) /\ net'.ctrl[v] = net.ctrl[v])  BY <1>4, <1>5, <2>1, <2>2, <3>1
    <3>3. IsQueued("configured", v)' \/ (Exists(net', v) /\ net'.ctrl[v].result = "success" /\ net'.ctrl[v].conf = "pending")
      BY <1>10, <2>1, <2>2, <3>1, <3>2
    <3>. QED  BY <1>1, <3>1, <3>3 DEF IsQueued
  <2>3. val.configuring => ~Current(val.id)'
    <3>1. PICK v : v = val.id  OBVIOUS
    <3>. QED  BY <1>1, <1>9, <2>1, <3>1
  <2>. QED  BY <1>1, <2>1, <2>2, <2>3 DEF ValidationOK, InProgress, IsQueued
<1>16. FailsOK'
  <2>0. Failing = Armed /\ Failing' = Armed'  BY <1>2, <1>9, <1>10, QuietFacts
  <2>1. Failing = Armed /\ Failing' = Failing  BY <1>4, <2>0 DEF Armed
  <2>2. FailsOK  BY DEF PInv
  <2>3. id \notin Failing  BY <1>2, <2>2 DEF FailsOK
  <2>4. \A i \in Failing : Exists(net', i) => Exists(net, i) /\ net'.ctrl[i] = net.ctrl[i]
    <3>1. Failing \subseteq Ids  BY <2>1 DEF Armed
    <3>. QED  BY <1>4, <1>5, <2>3, <3>1
  <2>. QED  BY <2>1, <2>2, <2>4, FailsKept
<1>. QED
  BY <1>7, <1>9, <1>11, <1>12, <1>13, <1>14, <1>15, <1>16 DEF PInv

\* What the removal of one that unpairs leaves as it is.
LEMMA UnpairedFacts ==
    ASSUME PairingAssumption, PInv, NEW id \in Ids, mq = <<>>, net' = Removed(net, id)
    PROVE  /\ net' \in Network /\ ~Exists(net', id) /\ ~net'.ctrl[id].bound
           /\ \A i \in Ids \ {id} : net'.ctrl[i] = net.ctrl[i] /\ (Exists(net', i) <=> Exists(net, i))
           /\ net'.binding = net.binding /\ net'.tag = net.tag /\ net'.evict = net.evict
           /\ Armed' = Armed
           /\ Failing' = Armed' => FailsOK'
           /\ proven' = proven => OnlyProvenBound'
<1>1. net \in Network  BY DEF PInv, TypesOK
<1>2. PICK m : m = Removed(net, id)  OBVIOUS
<1>3. /\ m \in Network /\ m.ctrl[id] = NoController /\ \A i \in Ids \ {id} : m.ctrl[i] = net.ctrl[i]
      /\ m.binding = net.binding /\ m.tag = net.tag /\ m.fails = net.fails /\ m.evict = net.evict
  BY <1>1, <1>2, RemovedFacts
<1>4. /\ net' \in Network /\ ~Exists(net', id) /\ ~net'.ctrl[id].bound
      /\ \A i \in Ids \ {id} : net'.ctrl[i] = net.ctrl[i] /\ (Exists(net', i) <=> Exists(net, i))
      /\ net'.binding = net.binding /\ net'.tag = net.tag /\ net'.evict = net.evict /\ net'.fails = net.fails
  BY <1>2, <1>3 DEF Exists, NoController
<1>5. Armed' = Armed  BY <1>4 DEF Armed
<1>6. ASSUME Failing' = Armed' PROVE FailsOK'
  <2>1. Failing' \subseteq Failing /\ Failing \subseteq Ids  BY <1>5, <1>6 DEF Failing, Armed
  <2>2. FailsOK  BY DEF PInv
  <2>3. \A i \in Failing : Exists(net', i) => Exists(net, i) /\ net'.ctrl[i] = net.ctrl[i]
    BY <1>4, <2>1
  <2>. QED  BY <2>1, <2>2, <2>3, FailsKept
<1>7. ASSUME proven' = proven PROVE OnlyProvenBound'
  BY <1>4, <1>7 DEF PInv, OnlyProvenBound
<1>. QED  BY <1>4, <1>5, <1>6, <1>7

\* A remote unpairs: it goes, and what is under way for it ends.
LEMMA UnpairKeeps ==
    ASSUME PairingAssumption, PInv, NEW id \in Ids, Unpair(id)
    PROVE  PInv'
<1>1. /\ Paired(id) /\ net' = Removed(net, id) /\ hal' = hal /\ proven' = proven /\ pairs' = pairs
      /\ IF net.ctrl[id].result \in {"pending", "in progress"}
           THEN mq' = Append(mq, EndMsg(id, "interactive", "failure")) /\ val' = Informed(val)
         ELSE /\ mq' = IF net.ctrl[id].result = "success" /\ net.ctrl[id].conf = "pending"
                         THEN Append(mq, ConfMsg(id)) ELSE mq
              /\ val' = val
  BY DEF Unpair
<1>2. /\ mq = <<>> /\ Exists(net, id) /\ (\A m \in hal : m.id # id)
      /\ net.ctrl[id].result = "pending" => val.validating /\ val.id = id /\ Current(id)
      /\ net.ctrl[id].result = "success" => ~Current(id)
      /\ net.ctrl[id].result \in Ended =>
            ~val.validating /\ (\A m \in hal : m.late) /\ \A i \in Ids : ~Current(i)
      /\ net.ctrl[id].result \in {"pending", "success"} \cup Ended
  BY <1>1, ReachedFacts
<1>3. /\ net' \in Network /\ ~Exists(net', id) /\ ~net'.ctrl[id].bound
      /\ \A i \in Ids \ {id} : net'.ctrl[i] = net.ctrl[i] /\ (Exists(net', i) <=> Exists(net, i))
      /\ net'.binding = net.binding /\ net'.tag = net.tag /\ net'.evict = net.evict
      /\ Failing' = Armed' => FailsOK'
      /\ OnlyProvenBound'
  BY <1>1, <1>2, UnpairedFacts
<1>4. /\ val \in Validation /\ val.stray \in Nat /\ TypesOK /\ ControllersOK /\ CurrentOK
  BY DEF PInv, TypesOK, Validation
<1>5. /\ val.validating => val.id \in Ids /\ val.timer /\ ~val.configuring /\ \A m \in hal : m.late
      /\ val.configuring => /\ val.id \in Ids /\ val.timer /\ ~Current(val.id) /\ Exists(net, val.id) /\ ~val.validating
                            /\ net.ctrl[val.id].result = "success" /\ net.ctrl[val.id].conf = "pending"
  BY <1>2, QuietFacts
<1>6. ASSUME val' \in Validation PROVE TypesOK'  BY <1>1, <1>3, <1>4, <1>6 DEF TypesOK
<1>7. ASSUME \A i \in Ids : Current(i)' <=> Current(i) PROVE ControllersOK'
  <2>1. \A i \in Ids : Exists(net', i) => i # id /\ Exists(net, i) /\ net'.ctrl[i] = net.ctrl[i]
    BY <1>3
  <2>2. ControllersOK /\ hal' = hal  BY <1>1, <1>4
  <2>. QED  BY <1>7, <2>1, <2>2 DEF ControllersOK
<1>8. CASE net.ctrl[id].result \in {"pending", "in progress"}
  <2>1. PICK e : e = EndMsg(id, "interactive", "failure")  OBVIOUS
  <2>2. e.type = "end" /\ e.id = id /\ e.kind = "interactive" /\ e.result = "failure"
    BY <2>1 DEF EndMsg
  <2>3. /\ \A m \in hal : m.late
        /\ \A i \in Ids : Current(i) => i = id
    BY <1>2, <1>4, <1>5, <1>8 DEF Ended, CurrentOK
  <2>4. /\ QueueOK' /\ HalOK' /\ StagesOK' /\ LateOK' /\ TimersOK' /\ Failing' = Armed'
        /\ Queued' = {e} /\ \A i \in Ids : Current(i)' <=> Current(i)
        /\ val' \in Validation /\ val'.validating = val.validating /\ val'.configuring = val.configuring
        /\ val'.id = val.id /\ val'.timer = val.timer
    <3>1. PICK result \in {"collision", "failure"} : result = "failure"  OBVIOUS
    <3>2. /\ mq' = Append(mq, EndMsg(id, "interactive", result)) /\ val' = Informed(val)
          /\ e = EndMsg(id, "interactive", result)
      BY <1>1, <1>8, <2>1, <3>1
    <3>. QED  BY <1>1, <1>2, <1>3, <2>3, <3>2, EndQueued
  <2>5. CurrentOK'
    <3>1. \A i \in Ids : Current(i)' => i = id /\ net'.binding
      BY <1>3, <1>4, <2>3, <2>4 DEF CurrentOK
    <3>2. EndMsg(id, "interactive", "failure") \in Queued' /\ ~Exists(net', id)  BY <1>3, <2>1, <2>4
    <3>. QED  BY <3>1, <3>2 DEF CurrentOK
  <2>6. EndsOK'
    <3>1. EndOK(e)'  BY <1>3, <2>2, <2>3, <2>4 DEF EndOK
    <3>. QED  BY <2>4, <3>1 DEF EndsOK, OfType
  <2>7. ValidationOK'
    <3>1. val.configuring => val.id # id
      BY <1>5, <1>8
    <3>2. PICK v : v = val.id  OBVIOUS
    <3>3. val.configuring => /\ ~Current(v)' /\ Exists(net', v) /\ net'.ctrl[v].result = "success"
                             /\ net'.ctrl[v].conf = "pending"
      BY <1>3, <1>5, <2>4, <3>1, <3>2
    <3>. QED  BY <1>5, <2>4, <3>2, <3>3 DEF ValidationOK, InProgress
  <2>. QED  BY <1>3, <1>6, <1>7, <2>4, <2>5, <2>6, <2>7 DEF PInv
<1>9. CASE net.ctrl[id].result \notin {"pending", "in progress"}
  <2>. DEFINE sends == net.ctrl[id].result = "success" /\ net.ctrl[id].conf = "pending"
  <2>1. mq' = (IF sends THEN Append(mq, ConfMsg(id)) ELSE mq) /\ val' = val  BY <1>1, <1>9
  <2>2. ConfMsg(id) \in Message /\ ConfMsg(id).type = "configured" /\ ConfMsg(id).id = id
    BY DEF ConfMsg, Message
  <2>3. QueueOK' /\ Queued = {} /\ Queued' = IF sends THEN {ConfMsg(id)} ELSE {}
    <3>1. CASE sends  BY <1>2, <2>1, <2>2, <3>1, QueueSent
    <3>2. CASE ~sends  BY <1>2, <2>1, <3>2, EmptyQueue, QueueKept DEF PInv
    <3>. QED  BY <3>1, <3>2
  <2>4. \A m \in Queued' : m.type = "configured" /\ m.id = id  BY <2>2, <2>3
  <2>5. val'.stray <= val.stray /\ Counting(val'.timer) <= Counting(val.timer)
    BY <1>4, <2>1 DEF Counting
  <2>6. /\ StagesOK' /\ LateOK' /\ HalOK' /\ EndsOK' /\ TimersOK'
        /\ \A i : Current(i)' <=> Current(i)
        /\ (\A i : ~IsQueued("failed", i)') => Failing' = Armed'
    BY <1>1, <1>2, <1>3, <1>4, <2>1, <2>3, <2>4, <2>5, QuietKept
  <2>7. \A i : ~IsQueued("failed", i)'  BY <2>4 DEF IsQueued
  <2>8. sends => IsQueued("configured", id)'  BY <2>2, <2>3 DEF IsQueued
  <2>9. ~Current(id)  BY <1>2, <1>9
  <2>10. CurrentOK'
    <3>1. \A i \in Ids : Current(i)' => i # id  BY <2>6, <2>9
    <3>. QED  BY <1>3, <1>4, <2>3, <2>6, <3>1 DEF CurrentOK
  <2>11. ValidationOK'
    <3>1. PICK v : v = val.id  OBVIOUS
    <3>2. val.configuring /\ v = id => sends  BY <1>5, <3>1
    <3>. HIDE DEF sends
    <3>3. val.configuring =>
             /\ ~Current(v)'
             /\ \/ IsQueued("configured", v)'
                \/ Exists(net', v) /\ net'.ctrl[v].result = "success" /\ net'.ctrl[v].conf = "pending"
      BY <1>3, <1>5, <2>6, <2>8, <3>1, <3>2
    <3>. QED  BY <1>5, <2>1, <3>1, <3>3 DEF ValidationOK, InProgress
  <2>. QED  BY <1>3, <1>4, <1>6, <1>7, <2>1, <2>3, <2>6, <2>7, <2>10, <2>11 DEF PInv
<1>. QED  BY <1>8, <1>9

-----------------------------------------------------------------------------
(* The invariant and what it says. *)

\* Every step keeps the invariant.
LEMMA PInvStep ==
    ASSUME PairingAssumption, PInv, [Next]_vars
    PROVE  PInv'
<1>1. CASE UNCHANGED vars
  <2>1. net' = net /\ val' = val /\ mq' = mq /\ hal' = hal /\ proven' = proven /\ pairs' = pairs
    BY <1>1 DEF vars
  <2>2. Queued' = Queued  BY <2>1 DEF Queued
  <2>3. /\ \A type : OfType(type)' = OfType(type)
        /\ \A type, id : IsQueued(type, id)' <=> IsQueued(type, id)
    BY <2>2 DEF OfType, IsQueued
  <2>4. /\ \A id : Current(id)' <=> Current(id)
        /\ Asked' <=> Asked
        /\ Failing' = Failing
    BY <2>1, <2>2, <2>3 DEF Current, Asked, Failing, Armed
  <2>5. Starting' <=> Starting  BY <2>2, <2>4 DEF Starting
  <2>6. TypesOK' /\ OnlyProvenBound' /\ QueueOK' /\ HalOK'
    BY <2>1 DEF PInv, TypesOK, OnlyProvenBound, QueueOK, HalOK
  <2>7. StagesOK' /\ LateOK'  BY <2>1, <2>2, <2>3, <2>4 DEF PInv, StagesOK, LateOK
  <2>8. CurrentOK' /\ ControllersOK'  BY <2>1, <2>2, <2>4 DEF PInv, CurrentOK, ControllersOK
  <2>9. EndsOK'  BY <2>1, <2>3, <2>4 DEF PInv, EndsOK, EndOK
  <2>10. ValidationOK'  BY <2>1, <2>3, <2>4 DEF PInv, ValidationOK
  <2>11. FailsOK' /\ TimersOK'  BY <2>1, <2>4, <2>5 DEF PInv, FailsOK, TimersOK, Counting
  <2>. QED  BY <2>6, <2>7, <2>8, <2>9, <2>10, <2>11 DEF PInv
<1>2. CASE MainThread
  BY <1>2, PairFailedKeeps, PairedAutomaticallyKeeps, PairedNormallyKeeps, ValidationBeginKeeps,
     ValidationEndsKeeps, ValidationFailedKeeps, ConfiguredKeeps DEF MainThread
<1>3. CASE Timers
  BY <1>3, BindingTimeoutKeeps, ValidationTimeoutKeeps, FailedTimeoutKeeps DEF Timers
<1>4. CASE HalReports
  BY <1>4, HalResultKeeps DEF HalReports
<1>5. ASSUME NEW r \in Remotes, NEW mode \in Modes, PairRequest(r, mode) PROVE PInv'
  BY <1>5, PairRequestKeeps
<1>6. ASSUME NEW id \in Ids,
             \/ KeyCollision(id) \/ KeyAbort(id) \/ KeyRight(id) \/ KeyWrong(id)
             \/ \E result \in {"success", "failed"} : AppFinish(id, result)
             \/ CheckValidation(id) \/ ConfigurationRead(id) \/ Unpair(id)
      PROVE  PInv'
  BY <1>6, KeyCollisionKeeps, KeyAbortKeeps, KeyRightKeeps, KeyWrongKeeps, AppFinishKeeps,
     CheckValidationKeeps, ConfigurationReadKeeps, UnpairKeeps
<1>. QED  BY <1>1, <1>2, <1>3, <1>4, <1>5, <1>6 DEF Next

\* Types and ranges: as many timers as were started by pairings, and no more.
LEMMA PInvTypes == ASSUME PairingAssumption, PInv PROVE TypeOK
<1>1. /\ net \in Network /\ val \in Validation /\ proven \subseteq Remotes /\ pairs \in 0..MaxPairs /\ TimersOK
  BY DEF PInv, TypesOK
<1>2. val.stray \in 0..MaxPairs
  <2>1. val.stray \in Nat /\ pairs \in Nat /\ MaxPairs \in Nat /\ pairs <= MaxPairs
    BY <1>1, Ids0 DEF Validation
  <2>2. Counting(val.timer) \in Nat /\ Counting(Starting) \in Nat  BY DEF Counting
  <2>3. val.stray + Counting(val.timer) + Counting(Starting) <= pairs  BY <1>1 DEF TimersOK
  <2>. QED  BY <2>1, <2>2, <2>3
<1>3. val \in [validating : BOOLEAN, configuring : BOOLEAN, id : Ids \cup {NoId}, timer : BOOLEAN,
               stray : 0..MaxPairs, matched : 0..(CodeLength - 1), wrong : 0..(MaxWrong - 1)]
  <2>. DEFINE C == 0..(CodeLength - 1)
              W == 0..(MaxWrong - 1)
              M == 0..MaxPairs
  <2>1. /\ val \in [validating : BOOLEAN, configuring : BOOLEAN, id : Ids \cup {NoId}, timer : BOOLEAN,
                    stray : Nat, matched : C, wrong : W]
        /\ val.stray \in M
    BY <1>1, <1>2 DEF Validation
  <2>. HIDE DEF C, W, M
  <2>2. val \in [validating : BOOLEAN, configuring : BOOLEAN, id : Ids \cup {NoId}, timer : BOOLEAN,
                 stray : M, matched : C, wrong : W]
    BY <2>1
  <2>. QED  BY <2>2 DEF C, W, M
<1>. QED  BY <1>1, <1>3 DEF TypeOK, Network, Controller, Failure

\* A message is waiting if it is queued.
LEMMA WaitingQueued ==
    ASSUME NEW type, NEW id
    PROVE  Waiting(type, id) <=> IsQueued(type, id)
BY DEF Waiting, IsQueued, Queued

\* The table, the validation and what is on its way to it agree.
LEMMA PInvSound == ASSUME PairingAssumption, PInv PROVE PairingSound
<1>1. TypeOK /\ OnlyProvenBound  BY PInvTypes DEF PInv
<1>2. OneBinding
  <2>1. \A id \in Ids : Current(id) => net.binding  BY DEF PInv, CurrentOK
  <2>2. ASSUME Expected # {} PROVE net.binding
    <3>1. PICK m \in hal : ~m.late  BY <2>2 DEF Expected
    <3>2. m.id \in Ids /\ Current(m.id)  BY <3>1 DEF PInv, HalOK, Answer, Current
    <3>. QED  BY <2>1, <3>2
  <2>3. ASSUME NEW id \in Ids, Waiting("begin", id) PROVE net.binding
    <3>1. PICK m \in Queued : m.type = "begin" /\ m.id = id  BY <2>3, WaitingQueued DEF IsQueued
    <3>2. Current(id)  BY <3>1 DEF Current
    <3>. QED  BY <2>1, <3>2
  <2>4. ASSUME val.validating PROVE net.binding
    <3>1. val.id \in Ids /\ Current(val.id)  BY <2>4 DEF PInv, ValidationOK, InProgress, Current
    <3>. QED  BY <2>1, <3>1
  <2>6. Cardinality(Expected) <= 1
    <3>1. \A m, n \in Expected : m = n  BY DEF Expected, PInv, HalOK
    <3>2. CASE Expected = {}  BY <3>2, FS_EmptySet
    <3>3. CASE Expected # {}
      <4>1. PICK m : m \in Expected  BY <3>3
      <4>2. Expected = {m}  BY <3>1, <4>1
      <4>. QED  BY <4>2, FS_Singleton
    <3>. QED  BY <3>2, <3>3
  <2>. QED  BY <2>2, <2>3, <2>4, <2>6 DEF OneBinding
<1>3. Watched
  BY WaitingQueued DEF PInv, ValidationOK, Watched, InProgress
<1>4. PendingProgresses
  <2>1. ASSUME NEW id \in Ids, Exists(net, id), net.ctrl[id].result = "pending"
        PROVE  \/ \E m \in hal : m.id = id
               \/ \E type \in {"paired", "begin", "end"} : Waiting(type, id)
               \/ val.validating /\ val.id = id
    <3>1. Current(id) \/ \E m \in hal : m.id = id  BY <2>1 DEF PInv, ControllersOK, Ended
    <3>2. Current(id) => \/ \E m \in hal : m.id = id
                         \/ \E type \in {"paired", "begin", "end"} : IsQueued(type, id)
                         \/ val.validating /\ val.id = id
      BY DEF Current, Unbegun, IsQueued
    <3>. QED  BY <3>1, <3>2, WaitingQueued
  <2>. QED  BY <2>1 DEF PendingProgresses
<1>. QED  BY <1>1, <1>2, <1>3, <1>4 DEF PairingSound

\* The invariant holds from the start.
THEOREM PInvInvariant == ASSUME PairingAssumption PROVE Spec => []PInv
<1>1. Init => PInv  BY PInvInit
<1>2. PInv /\ [Next]_vars => PInv'  BY PInvStep
<1>. QED  BY <1>1, <1>2, PTL DEF Spec

\* The table of controllers, the validation and what is on its way to it agree whenever a message, a
\* key or a timer is handled: who is bound is proven, one binding is under way and holds the flag that
\* keeps the others out, who is validated or configured is watched, and no result is left pending.
THEOREM PairingIsSound == ASSUME PairingAssumption PROVE Spec => []PairingSound
<1>1. PInv => PairingSound  BY PInvSound
<1>. QED  BY <1>1, PInvInvariant, PTL

-----------------------------------------------------------------------------
(* No step removes a bound controller, or takes back a success, but for the reasons there are. *)

\* What BoundKept says of every controller, in a step.
Kept == \A id \in Ids : GoesRightly(id) /\ SuccessStays(id)

\* The controllers are what they were.
LEMMA SameKept ==
    ASSUME AbsentOK, net'.ctrl = net.ctrl
    PROVE  AbsentOK' /\ Kept
<1>1. \A i \in Ids : Exists(net', i) <=> Exists(net, i)  BY DEF Exists
<1>. QED  BY <1>1 DEF AbsentOK, Kept, GoesRightly, SuccessStays

\* One controller changes, and goes or succeeds rightly.
LEMMA OneKept ==
    ASSUME AbsentOK, NEW id \in Ids, \A i \in Ids \ {id} : net'.ctrl[i] = net.ctrl[i],
           net'.ctrl[id].bound => Exists(net', id), GoesRightly(id), SuccessStays(id)
    PROVE  AbsentOK' /\ Kept
<1>1. \A i \in Ids \ {id} : Exists(net', i) <=> Exists(net, i)  BY DEF Exists
<1>2. \A i \in Ids \ {id} : GoesRightly(i) /\ SuccessStays(i)
  BY <1>1 DEF AbsentOK, GoesRightly, SuccessStays
<1>3. AbsentOK'  BY <1>1 DEF AbsentOK
<1>. QED  BY <1>2, <1>3 DEF Kept

\* A request keeps the controller bound that it takes again.
LEMMA PairRequestKept ==
    ASSUME PairingAssumption, PInv, AbsentOK, NEW r \in Remotes, NEW mode \in Modes, PairRequest(r, mode)
    PROVE  AbsentOK' /\ Kept
<1>. DEFINE known == IdsOf(net, r) # {}
            chosen == IF known THEN Lowest(IdsOf(net, r)) ELSE Lowest(Free(net))
            full == ~known /\ Cardinality(Ids \ Free(net)) >= Room
<1>1. /\ Clean(r, chosen)
      /\ \E evict \in IF full THEN Ids \ Free(net) ELSE {net.evict} :
            net' = [Accepted(net, chosen, r, mode) EXCEPT !.binding = TRUE, !.tag = TRUE, !.evict = evict]
      /\ known \/ Free(net) # {}
  BY Ids0 DEF PairRequest, Quiet
<1>2. net \in Network /\ NoRemote \notin Remotes  BY Ids0 DEF PInv, TypesOK
<1>3. chosen \in Ids /\ (Exists(net, chosen) => net.ctrl[chosen].ieee = r)
  <2>1. CASE known
    <3>1. IdsOf(net, r) \subseteq Nat /\ IdsOf(net, r) # {}  BY <2>1, Ids0 DEF IdsOf
    <3>2. chosen \in IdsOf(net, r)  BY <2>1, <3>1, LowestOf
    <3>. QED  BY <3>2 DEF IdsOf
  <2>2. CASE ~known
    <3>1. Free(net) \subseteq Nat /\ Free(net) # {}  BY <1>1, <2>2, Ids0 DEF Free
    <3>2. chosen \in Free(net)  BY <2>2, <3>1, LowestOf
    <3>. QED  BY <3>2 DEF Free
  <2>. QED  BY <2>1, <2>2
<1>. HIDE DEF chosen, full, known
<1>4. PICK id \in Ids : id = chosen  BY <1>3
<1>5. PICK a : a = Accepted(net, id, r, mode)  OBVIOUS
<1>6. PICK evict : net' = [a EXCEPT !.binding = TRUE, !.tag = TRUE, !.evict = evict]
  BY <1>1, <1>4, <1>5
<1>7. net.ctrl[id].result \notin Ended  BY <1>1, <1>4 DEF Clean
<1>8. /\ a \in Network /\ \A i \in Ids \ {id} : a.ctrl[i] = net.ctrl[i]
      /\ a.ctrl[id].ieee = r /\ a.ctrl[id].result = "pending"
  <2>1. Unrefused(net, id, r) /\ r # NoRemote  BY <1>2, <1>3, <1>4, <1>7 DEF Unrefused, Ended
  <2>2. net \in Network /\ r \in Remotes /\ mode \in Modes /\ id \in Ids  BY <1>2
  <2>. QED  BY ONLY <1>5, <2>1, <2>2, AcceptedFacts
<1>9. net'.ctrl = a.ctrl  BY <1>6, <1>8 DEF Network
<1>10. Exists(net', id) /\ net'.ctrl[id].result = "pending"  BY <1>2, <1>8, <1>9 DEF Exists
<1>11. GoesRightly(id) /\ SuccessStays(id)  BY <1>10 DEF GoesRightly, SuccessStays
<1>. QED  BY <1>8, <1>9, <1>10, <1>11, OneKept

\* A bound controller has its former pairing again when a pairing fails.
LEMMA PairFailedKept ==
    ASSUME PairingAssumption, PInv, AbsentOK, PairFailed
    PROVE  AbsentOK' /\ Kept
<1>. DEFINE N(id) == IF ~Exists(net, id) THEN net
                     ELSE IF net.ctrl[id].bound THEN Restored(net, id) ELSE Removed(net, id)
<1>1. PICK id : id = Head(mq).id  OBVIOUS
<1>2. PICK n : n = N(id)  OBVIOUS
<1>3. Received("paired") /\ net' = [n EXCEPT !.binding = FALSE, !.tag = FALSE]
  BY <1>1, <1>2 DEF PairFailed
<1>4. /\ id \in Ids /\ Exists(net, id) /\ net.ctrl[id].result = "pending"
      /\ net.ctrl[id].bound => net.ctrl[id].backup
  BY <1>1, <1>3, ResultFacts
<1>5. net \in Network  BY DEF PInv, TypesOK
<1>6. /\ n \in Network /\ \A i \in Ids \ {id} : n.ctrl[i] = net.ctrl[i]
      /\ net.ctrl[id].bound => n.ctrl[id].ieee = net.ctrl[id].ieee
      /\ ~net.ctrl[id].bound => n.ctrl[id] = NoController
  <2>1. CASE net.ctrl[id].bound
    <3>1. n = Restored(net, id) /\ net.ctrl[id].backup  BY <1>2, <1>4, <2>1
    <3>2. /\ n \in Network /\ \A i \in Ids \ {id} : n.ctrl[i] = net.ctrl[i]
          /\ n.ctrl[id].ieee = net.ctrl[id].ieee
      BY <1>4, <1>5, <3>1, RestoredFacts
    <3>. QED  BY <2>1, <3>2
  <2>2. CASE ~net.ctrl[id].bound
    <3>1. n = Removed(net, id)  BY <1>2, <1>4, <2>2
    <3>2. /\ n \in Network /\ n.ctrl[id] = NoController /\ \A i \in Ids \ {id} : n.ctrl[i] = net.ctrl[i]
      BY <1>4, <1>5, <3>1, RemovedFacts
    <3>. QED  BY <2>2, <3>2
  <2>. QED  BY <2>1, <2>2
<1>7. net'.ctrl = n.ctrl  BY <1>3, <1>6 DEF Network
<1>8. GoesRightly(id)  BY <1>4, <1>6, <1>7 DEF GoesRightly, Exists
<1>9. SuccessStays(id)  BY <1>4 DEF SuccessStays
<1>10. net'.ctrl[id].bound => Exists(net', id)
  BY <1>4, <1>6, <1>7 DEF Exists, NoController
<1>. QED  BY <1>4, <1>6, <1>7, <1>8, <1>9, <1>10, OneKept

\* What the end of a validation keeps: the one that is bound before it stays, and one that
\* makes room for another goes.
LEMMA EndKept ==
    ASSUME PInv, AbsentOK, NEW id \in Ids, Exists(net, id), NEW result, EndedAs(net', id, result),
           \/ /\ result = "success"
              /\ \/ net.evict = NoId
                 \/ net.evict # id /\ net.ctrl[id].result = "pending" /\ ~net.ctrl[id].bound
           \/ result # "success" /\ (net.ctrl[id].result # "success" \/ (val.validating /\ val.id = id))
    PROVE  AbsentOK' /\ Kept
<1>1. CASE result # "success"
  <2>1. /\ \A i \in Ids \ {id} : net'.ctrl[i] = net.ctrl[i]
        /\ net'.ctrl[id].ieee = net.ctrl[id].ieee
    BY <1>1 DEF EndedAs
  <2>2. Exists(net', id)  BY <2>1 DEF Exists
  <2>3. GoesRightly(id) /\ SuccessStays(id)  BY <1>1, <2>2 DEF GoesRightly, SuccessStays
  <2>. QED  BY <2>1, <2>2, <2>3, OneKept
<1>2. CASE result = "success" /\ net.evict \notin Ids
  <2>1. id # net.evict  BY <1>2
  <2>2. /\ \A i \in Ids \ {id} : net'.ctrl[i] = net.ctrl[i]
        /\ net'.ctrl[id].result = "success" /\ net'.ctrl[id].ieee = net.ctrl[id].ieee
    BY <1>2, <2>1 DEF EndedAs
  <2>3. Exists(net', id)  BY <2>2 DEF Exists
  <2>4. GoesRightly(id) /\ SuccessStays(id)  BY <2>2, <2>3 DEF GoesRightly, SuccessStays
  <2>. QED  BY <2>2, <2>3, <2>4, OneKept
<1>3. CASE result = "success" /\ net.evict \in Ids
  <2>1. NoId \notin Ids  BY SetsAssumption DEF NoId
  <2>2. PICK old \in Ids : old = net.evict  BY <1>3
  <2>3. old # id /\ net.ctrl[id].result = "pending" /\ ~net.ctrl[id].bound  BY <1>3, <2>1, <2>2
  <2>4. /\ \A i \in Ids : i # id /\ i # old => net'.ctrl[i] = net.ctrl[i]
        /\ net'.ctrl[old] = NoController
        /\ net'.ctrl[id].result = "success" /\ net'.ctrl[id].ieee = net.ctrl[id].ieee
        /\ net'.ctrl[id].bound = TRUE
    BY <1>3, <2>2, <2>3 DEF EndedAs
  <2>5. Exists(net', id) /\ ~Exists(net', old) /\ ~net'.ctrl[old].bound
    BY <2>4 DEF Exists, NoController
  <2>6. \A i \in Ids : i # id /\ i # old => (Exists(net', i) <=> Exists(net, i))  BY <2>4 DEF Exists
  <2>7. GoesRightly(old) /\ SuccessStays(old)
    <3>1. id \in Ids \ {old} /\ ~net.ctrl[id].bound /\ net'.ctrl[id].bound  BY <2>3, <2>4
    <3>. QED  BY <2>2, <2>5, <3>1 DEF GoesRightly, SuccessStays
  <2>8. GoesRightly(id) /\ SuccessStays(id)  BY <2>4, <2>5 DEF GoesRightly, SuccessStays
  <2>9. ASSUME NEW i \in Ids, i # id, i # old PROVE GoesRightly(i) /\ SuccessStays(i)
    BY <2>4, <2>6, <2>9 DEF GoesRightly, SuccessStays, AbsentOK
  <2>10. AbsentOK'  BY <2>4, <2>5, <2>6 DEF AbsentOK
  <2>. QED  BY <2>7, <2>8, <2>9, <2>10 DEF Kept
<1>. QED  BY <1>1, <1>2, <1>3

\* The one paired automatically is bound, and makes another go only if it was not bound before.
LEMMA PairedAutomaticallyKept ==
    ASSUME PairingAssumption, PInv, AbsentOK, PairedAutomatically
    PROVE  AbsentOK' /\ Kept
<1>1. PICK id : id = Head(mq).id  OBVIOUS
<1>2. Received("paired")  BY DEF PairedAutomatically
<1>3. /\ id \in Ids /\ Exists(net, id) /\ net.ctrl[id].result = "pending"
      /\ net.evict # NoId => net.evict # id /\ ~net.ctrl[id].bound
  BY <1>1, <1>2, ResultFacts
<1>4. net' = BindValidationEnd(net, id, "success")  BY <1>1 DEF PairedAutomatically
<1>5. net \in Network /\ "success" \in Results  BY DEF PInv, TypesOK, Results
<1>6. PICK n : n = BindValidationEnd(net, id, "success")  OBVIOUS
<1>7. EndedAs(n, id, "success")  BY <1>3, <1>5, <1>6, EndLeaves
<1>8. EndedAs(net', id, "success")  BY <1>4, <1>6, <1>7
<1>. QED  BY <1>3, <1>8, EndKept

\* The end of a validation takes no success back, but that of the validation it ends.
LEMMA ValidationEndsKept ==
    ASSUME PairingAssumption, PInv, AbsentOK, ValidationEnds
    PROVE  AbsentOK' /\ Kept
<1>1. PICK m : m = Head(mq)  OBVIOUS
<1>2. PICK id : id = m.id  OBVIOUS
<1>3. Received("end")  BY DEF ValidationEnds
<1>4. /\ Queued = {m} /\ id \in Ids /\ m.result \in Results /\ m.result # "pending" /\ m.kind \in Kinds
      /\ \/ m.kind = "auto" /\ m.result = "success" /\ Exists(net, id) /\ net.evict = NoId
         \/ /\ m.kind # "auto" /\ m.result = "success" /\ Exists(net, id)
            /\ net.ctrl[id].result = "pending" /\ net.evict # id
            /\ net.evict # NoId => ~net.ctrl[id].bound
         \/ m.kind # "auto" /\ m.result \in Ended \ {"failure"} /\ Exists(net, id)
         \/ m.kind # "auto" /\ m.result = "failure" /\ ~Exists(net, id)
  BY <1>1, <1>2, <1>3, EndFacts
<1>5. PICK n : n = BindValidationEnd(net, id, m.result)  OBVIOUS
<1>6. net' = n  BY <1>1, <1>2, <1>5 DEF ValidationEnds
<1>7. net \in Network  BY DEF PInv, TypesOK
<1>8. PICK result : result = m.result  OBVIOUS
<1>9. EndedAs(net', id, result)
  <2>1. EndedAs(n, id, result)  BY <1>4, <1>5, <1>7, <1>8, EndLeaves
  <2>. QED  BY <1>6, <2>1
<1>10. CASE ~Exists(net, id)
  <2>1. net'.ctrl = net.ctrl  BY <1>9, <1>10 DEF EndedAs
  <2>. QED  BY <2>1, SameKept
<1>11. CASE result = "success" /\ Exists(net, id)
  <2>1. \/ net.evict = NoId
        \/ net.evict # id /\ net.ctrl[id].result = "pending" /\ ~net.ctrl[id].bound
    BY <1>4, <1>8, <1>11 DEF Ended
  <2>. QED  BY <1>4, <1>9, <1>11, <2>1, EndKept
<1>12. CASE result # "success" /\ Exists(net, id)
  <2>1. EndOK(m)
    <3>1. m \in OfType("end")  BY <1>1, <1>3, <1>4 DEF OfType, Received
    <3>. QED  BY <3>1 DEF PInv, EndsOK
  <2>2. m.type = "end"  BY <1>1, <1>3 DEF Received
  <2>3. net.ctrl[id].result # "success" \/ (val.validating /\ val.id = id)
    <3>1. m.kind = "interactive" /\ m.result \in Ended \ {"failure"}
      BY <1>4, <1>8, <1>12, <2>1 DEF EndOK, Kinds
    <3>2. CASE m.result \in {"timeout", "abort", "failed"}
      BY <1>2, <2>1, <3>1, <3>2 DEF EndOK
    <3>3. CASE m.result = "collision"
      BY <1>2, <2>1, <3>1, <3>3 DEF EndOK, Ended
    <3>4. CASE m.result = "in progress"
      <4>1. Current(id)  BY <1>2, <1>4, <2>2, <3>4 DEF Current, Unbegun
      <4>2. net.ctrl[id].result = "pending"  BY <1>4, <1>12, <4>1 DEF PInv, CurrentOK
      <4>. QED  BY <4>2
    <3>. QED  BY <3>1, <3>2, <3>3, <3>4 DEF Ended
  <2>. QED  BY <1>4, <1>9, <1>12, <2>3, EndKept
<1>. QED  BY <1>10, <1>11, <1>12

\* A controller whose validation failed goes; it was not bound.
LEMMA ValidationFailedKept ==
    ASSUME PairingAssumption, PInv, AbsentOK, ValidationFailed
    PROVE  AbsentOK' /\ Kept
<1>1. PICK h : h = Head(mq)  OBVIOUS
<1>2. PICK id : id = h.id  OBVIOUS
<1>3. PICK n : n = ValidationTimedOut(net, id)  OBVIOUS
<1>4. mq # <<>> /\ h.type = "failed" /\ net' = n
  BY <1>1, <1>2, <1>3 DEF ValidationFailed, Received
<1>5. h \in Message /\ h \in Queued  BY <1>1, <1>4, FirstQueued DEF PInv
<1>6. id \in Ids  BY <1>2, <1>4, <1>5 DEF Message
<1>7. net \in Network  BY DEF PInv, TypesOK
<1>8. /\ ~Exists(n, id) /\ \A i \in Ids \ {id} : n.ctrl[i] = net.ctrl[i]
      /\ ~Exists(net, id) => n = net
      /\ Exists(net, id) => n.ctrl[id] = NoController
  BY <1>3, <1>6, <1>7, TimedOutFacts
<1>9. CASE ~Exists(net, id)
  <2>1. net'.ctrl = net.ctrl  BY <1>4, <1>8, <1>9
  <2>. QED  BY <2>1, SameKept
<1>10. CASE Exists(net, id)
  <2>1. id \in Failing  BY <1>2, <1>4, <1>5, <1>6 DEF Failing, IsQueued
  <2>2. ~net.ctrl[id].bound  BY <1>10, <2>1 DEF PInv, FailsOK
  <2>3. ~n.ctrl[id].bound  BY <1>8, <1>10 DEF NoController
  <2>4. GoesRightly(id) /\ SuccessStays(id)
    BY <1>4, <1>8, <2>2 DEF GoesRightly, SuccessStays
  <2>. QED  BY <1>4, <1>6, <1>8, <2>3, <2>4, OneKept
<1>. QED  BY <1>9, <1>10

\* A remote that reads that its validation failed has its former pairing again, or was not bound.
LEMMA CheckValidationKept ==
    ASSUME PairingAssumption, PInv, AbsentOK, NEW id \in Ids, CheckValidation(id)
    PROVE  AbsentOK' /\ Kept
<1>1. /\ Paired(id) /\ net.ctrl[id].result \in Ended
      /\ net' = IF net.ctrl[id].bound /\ net.ctrl[id].result # "failure" THEN Restored(net, id)
                ELSE ValidationTimedOut(net, id)
  BY DEF CheckValidation
<1>2. Exists(net, id) /\ net.ctrl[id].result # "failure"  BY <1>1, ReachedFacts
<1>3. net \in Network  BY DEF PInv, TypesOK
<1>4. SuccessStays(id)  BY <1>1 DEF SuccessStays, Ended
<1>5. CASE net.ctrl[id].bound
  <2>1. PICK m : m = Restored(net, id)  OBVIOUS
  <2>2. net' = m  BY <1>1, <1>2, <1>5, <2>1
  <2>3. /\ \A i \in Ids \ {id} : m.ctrl[i] = net.ctrl[i]
        /\ m.ctrl[id].ieee = net.ctrl[id].ieee
    BY <1>3, <2>1, RestoredFacts
  <2>4. Exists(net', id)  BY <1>2, <2>2, <2>3 DEF Exists
  <2>5. GoesRightly(id)  BY <2>4 DEF GoesRightly
  <2>. QED  BY <1>4, <2>2, <2>3, <2>4, <2>5, OneKept
<1>6. CASE ~net.ctrl[id].bound
  <2>1. PICK m : m = ValidationTimedOut(net, id)  OBVIOUS
  <2>2. net' = m  BY <1>1, <1>6, <2>1
  <2>3. /\ \A i \in Ids \ {id} : m.ctrl[i] = net.ctrl[i]
        /\ m.ctrl[id] = NoController
    BY <1>2, <1>3, <2>1, TimedOutFacts
  <2>4. ~net'.ctrl[id].bound  BY <2>2, <2>3 DEF NoController
  <2>5. GoesRightly(id)  BY <1>6 DEF GoesRightly
  <2>. QED  BY <1>4, <2>2, <2>3, <2>4, <2>5, OneKept
<1>. QED  BY <1>5, <1>6

\* A remote reads its configuration: its controller has a success still.
LEMMA ConfigurationReadKept ==
    ASSUME PairingAssumption, PInv, AbsentOK, NEW id \in Ids, ConfigurationRead(id)
    PROVE  AbsentOK' /\ Kept
<1>1. /\ Paired(id) /\ net.ctrl[id].result = "success"
      /\ net' = [net EXCEPT !.ctrl[id].conf = "success"]
  BY DEF ConfigurationRead
<1>2. Exists(net, id)  BY <1>1, ReachedFacts
<1>3. net \in Network  BY DEF PInv, TypesOK
<1>4. /\ \A i \in Ids \ {id} : net'.ctrl[i] = net.ctrl[i]
      /\ net'.ctrl[id].result = net.ctrl[id].result /\ net'.ctrl[id].ieee = net.ctrl[id].ieee
  <2>. DEFINE c == [net.ctrl[id] EXCEPT !.conf = "success"]
  <2>1. net.ctrl[id] \in Controller  BY <1>3 DEF Network
  <2>2. c \in Controller /\ c.result = net.ctrl[id].result /\ c.ieee = net.ctrl[id].ieee
    BY <2>1 DEF Controller
  <2>3. net' = [net EXCEPT !.ctrl[id] = c]  BY <1>1
  <2>. HIDE DEF c
  <2>4. net' = [net EXCEPT !.ctrl = [net.ctrl EXCEPT ![id] = c]]  BY <1>3, <2>2, <2>3, ControllerSet
  <2>5. net'.ctrl = [net.ctrl EXCEPT ![id] = c] /\ DOMAIN net.ctrl = Ids  BY <1>3, <2>4 DEF Network
  <2>. QED  BY <2>2, <2>5
<1>5. Exists(net', id)  BY <1>2, <1>4 DEF Exists
<1>6. GoesRightly(id) /\ SuccessStays(id)  BY <1>1, <1>4, <1>5 DEF GoesRightly, SuccessStays
<1>. QED  BY <1>4, <1>5, <1>6, OneKept

\* A remote unpairs: its controller goes, and no other.
LEMMA UnpairKept ==
    ASSUME PairingAssumption, PInv, AbsentOK, NEW id \in Ids, Unpair(id)
    PROVE  AbsentOK' /\ Kept
<1>1. Paired(id) /\ net' = Removed(net, id)  BY DEF Unpair
<1>2. mq = <<>>  BY <1>1, ReachedFacts
<1>3. /\ ~Exists(net', id) /\ ~net'.ctrl[id].bound
      /\ \A i \in Ids \ {id} : net'.ctrl[i] = net.ctrl[i]
  BY <1>1, <1>2, UnpairedFacts
<1>4. GoesRightly(id)  BY DEF GoesRightly
<1>5. SuccessStays(id)  BY <1>3 DEF SuccessStays
<1>. QED  BY <1>3, <1>4, <1>5, OneKept

\* The main loop releases the binding, or destroys a timer; the table stays.
LEMMA TimersKept ==
    ASSUME PairingAssumption, PInv, AbsentOK, Timers
    PROVE  AbsentOK' /\ Kept
<1>1. net \in Network  BY DEF PInv, TypesOK
<1>2. ASSUME BindingTimeout PROVE net'.ctrl = net.ctrl
  <2>1. net' = [net EXCEPT !.binding = FALSE, !.tag = FALSE]  BY <1>2 DEF BindingTimeout
  <2>. QED  BY <1>1, <2>1 DEF Network
<1>3. ASSUME ValidationTimeout PROVE net'.ctrl = net.ctrl
  BY <1>3 DEF ValidationTimeout
<1>4. ASSUME FailedTimeout PROVE net'.ctrl = net.ctrl
  <2>1. PICK k \in DOMAIN net.fails : net' = [net EXCEPT !.fails[k].armed = FALSE]
    BY <1>4 DEF FailedTimeout
  <2>. QED  BY <1>1, <2>1 DEF Network
<1>. QED  BY <1>2, <1>3, <1>4, SameKept DEF Timers

\* Every step keeps what it must.
LEMMA KeptStep ==
    ASSUME PairingAssumption, PInv, AbsentOK, [Next]_vars
    PROVE  AbsentOK' /\ [Kept]_vars
<1>1. CASE UNCHANGED vars
  <2>1. net'.ctrl = net.ctrl  BY <1>1 DEF vars
  <2>. QED  BY <2>1, SameKept
<1>2. CASE MainThread
  <2>1. net \in Network  BY DEF PInv, TypesOK
  <2>2. ASSUME PairedNormally PROVE net'.ctrl = net.ctrl  BY <2>2 DEF PairedNormally
  <2>3. ASSUME ValidationBegin PROVE net'.ctrl = net.ctrl
    <3>1. net' = [net EXCEPT !.tag = FALSE]  BY <2>3 DEF ValidationBegin, BindValidationBegin
    <3>. QED  BY <2>1, <3>1 DEF Network
  <2>4. ASSUME Configured PROVE net'.ctrl = net.ctrl  BY <2>4 DEF Configured
  <2>5. AbsentOK' /\ Kept
    BY <1>2, <2>2, <2>3, <2>4, SameKept, PairFailedKept, PairedAutomaticallyKept, ValidationEndsKept,
       ValidationFailedKept DEF MainThread
  <2>. QED  BY <2>5
<1>3. CASE Timers  BY <1>3, TimersKept
<1>4. CASE HalReports
  <2>1. net'.ctrl = net.ctrl  BY <1>4 DEF HalReports, HalResult
  <2>. QED  BY <2>1, SameKept
<1>5. ASSUME NEW r \in Remotes, NEW mode \in Modes, PairRequest(r, mode) PROVE AbsentOK' /\ Kept
  BY <1>5, PairRequestKept
<1>6. ASSUME NEW id \in Ids,
             \/ KeyCollision(id) \/ KeyAbort(id) \/ KeyRight(id) \/ KeyWrong(id)
             \/ \E result \in {"success", "failed"} : AppFinish(id, result)
             \/ CheckValidation(id) \/ ConfigurationRead(id) \/ Unpair(id)
      PROVE  AbsentOK' /\ Kept
  <2>1. ASSUME \/ KeyCollision(id) \/ KeyAbort(id) \/ KeyRight(id) \/ KeyWrong(id)
               \/ \E result \in {"success", "failed"} : AppFinish(id, result)
        PROVE  net'.ctrl = net.ctrl
    BY <2>1 DEF KeyCollision, KeyAbort, KeyRight, KeyWrong, AppFinish
  <2>. QED  BY <1>6, <2>1, SameKept, CheckValidationKept, ConfigurationReadKept, UnpairKept
<1>. QED  BY <1>1, <1>2, <1>3, <1>4, <1>5, <1>6 DEF Next

\* A bound controller goes only when its remote unpairs or to make room for another, and what
\* validation succeeded stays so until the remote pairs again: no failure of a new pairing, no timer
\* of an earlier one and no late message does otherwise.
THEOREM BoundIsKept == ASSUME PairingAssumption PROVE Spec => BoundKept
<1>1. Init => AbsentOK  BY DEF Init, AbsentOK, NoController
<1>2. PInv /\ AbsentOK /\ [Next]_vars => AbsentOK' /\ [\A id \in Ids : GoesRightly(id) /\ SuccessStays(id)]_vars
  BY KeptStep DEF Kept
<1>. QED  BY <1>1, <1>2, PInvInvariant, PTL DEF Spec, BoundKept

-----------------------------------------------------------------------------
(* Where requests may find what an earlier pairing has left, the main thread *)
(* being prompt: still nobody is bound without being proven, and whatever is *)
(* under way is watched.                                                     *)

\* The answers of the HAL, those to requests that were refused among them.
AllAnswers == [id : Ids, ieee : Remotes, late : BOOLEAN, refused : BOOLEAN]

\* Whoever has the id may be bound; nobody has it, perhaps.
ProvenIn(n, p, id) == n.ctrl[id].ieee \in p \/ id \in Precommissioned
Admissible(n, p, id) == n.ctrl[id].ieee = NoRemote \/ ProvenIn(n, p, id)

\* A success that is queued is of one who may be bound.
EndRight(m, n, p) ==
    m.type = "end" => m.result # "pending" /\ (m.result = "success" => Admissible(n, p, m.id))
ProvenOK == OnlyProvenBound /\ \A m \in Queued : EndRight(m, net, proven)

\* The first message ends the validation, or the configuration.
EndsNext(q, v) == q # <<>> /\ Head(q).type = "end" /\ Head(q).kind # "auto" /\ Head(q).id = v.id
ConfiguredNext(q, v) == q # <<>> /\ Head(q).type = "configured" /\ Head(q).id = v.id

\* Both are watched, or end with the next message; with both there are two timers.
WatchOK(v, q) ==
    /\ InProgress(v) => v.id \in Ids
    /\ v.configuring => v.timer \/ v.stray > 0 \/ ConfiguredNext(q, v)
    /\ v.validating => v.timer \/ v.stray > 0 \/ EndsNext(q, v)
    /\ v.validating /\ v.configuring => v.stray > 0 /\ (v.timer \/ ConfiguredNext(q, v))

TypesLeft == net \in Network /\ val \in Validation /\ mq \in Seq(Message) /\ hal \subseteq AllAnswers

LeftInv == TypesLeft /\ ProvenOK /\ WatchOK(val, mq)

\* A step leaves the controller of an id, binds who may be bound, or removes it.
Rightly(n, p, i) ==
    \/ n.ctrl[i].ieee = net.ctrl[i].ieee /\ (n.ctrl[i].bound => net.ctrl[i].bound \/ ProvenIn(net, p, i))
    \/ n.ctrl[i].ieee = NoRemote /\ n.ctrl[i].bound = FALSE

\* Steps that do only that, and queue no success of others.
LEMMA ProvenStill ==
    ASSUME TypesLeft, ProvenOK, proven \subseteq proven', \A i \in Ids : Rightly(net', proven', i),
           \A m \in Queued' : m \in Queued \/ EndRight(m, net', proven')
    PROVE  ProvenOK'
<1>1. OnlyProvenBound'
  <2>1. ASSUME NEW i \in Ids, net'.ctrl[i].bound PROVE net'.ctrl[i].ieee \in proven' \/ i \in Precommissioned
    BY <2>1 DEF Rightly, ProvenIn, ProvenOK, OnlyProvenBound
  <2>. QED  BY <2>1 DEF OnlyProvenBound
<1>2. ASSUME NEW m \in Queued, m.type = "end" PROVE EndRight(m, net', proven')
  <2>1. Queued \subseteq Message  BY DEF Queued, TypesLeft
  <2>2. m.id \in Ids  BY <1>2, <2>1 DEF Message
  <2>3. EndRight(m, net, proven)  BY DEF ProvenOK
  <2>. QED  BY <1>2, <2>2, <2>3 DEF EndRight, Admissible, ProvenIn, Rightly
<1>3. \A m \in Queued' : EndRight(m, net', proven')
  <2>1. \A m \in Queued : EndRight(m, net', proven')  BY <1>2 DEF EndRight
  <2>. QED  BY <2>1
<1>. QED  BY <1>1, <1>3 DEF ProvenOK

\* A sequence with one element more.
LEMMA OneMore ==
    ASSUME NEW S, NEW s \in Seq(S), NEW e \in S, NEW t, t = Append(s, e)
    PROVE  /\ t \in Seq(S) /\ DOMAIN s = 1..Len(s) /\ DOMAIN t = 1..(Len(s) + 1) /\ Len(s) \in Nat
           /\ t[Len(s) + 1] = e /\ \A i \in 1..Len(s) : t[i] = s[i]
BY AppendProperties, LenProperties

\* Its elements are those and the new one.
LEMMA ElementsOfMore ==
    ASSUME NEW S, NEW s \in Seq(S), NEW e \in S, NEW t, t = Append(s, e)
    PROVE  \A k \in DOMAIN t : t[k] = e \/ \E i \in DOMAIN s : t[k] = s[i]
<1>1. PICK n \in Nat : n = Len(s)  BY LenProperties
<1>2. DOMAIN s = 1..n /\ DOMAIN t = 1..(n + 1) /\ t[n + 1] = e /\ \A i \in 1..n : t[i] = s[i]
  BY <1>1, OneMore
<1>3. \A k \in 1..(n + 1) : k \in 1..n \/ k = n + 1  BY <1>1
<1>. QED  BY <1>2, <1>3

\* A message more: it comes after those that wait.
LEMMA QueueWith ==
    ASSUME mq \in Seq(Message), NEW e \in Message, mq' = Append(mq, e)
    PROVE  /\ mq' \in Seq(Message) /\ Queued' = Queued \cup {e} /\ mq' # <<>>
           /\ Head(mq') = IF mq = <<>> THEN e ELSE Head(mq)
<1>. DEFINE n == Len(mq)
<1>1. /\ n \in Nat /\ DOMAIN mq = 1..n /\ mq' \in Seq(Message) /\ DOMAIN mq' = 1..(n + 1)
      /\ mq'[n + 1] = e /\ \A i \in 1..n : mq'[i] = mq[i]
      /\ mq = <<>> <=> n = 0
  BY AppendProperties, LenProperties, EmptySeq
<1>2. mq' # <<>> /\ Head(mq') = mq'[1] /\ (mq # <<>> => Head(mq) = mq[1])
  BY <1>1, EmptySeq, HeadTailProperties
<1>3. Queued' = Queued \cup {e}
  <2>1. \A x : x \in Queued' <=> \E k \in 1..(n + 1) : x = mq'[k]  BY <1>1 DEF Queued
  <2>2. \A x : x \in Queued <=> \E k \in 1..n : x = mq[k]  BY <1>1 DEF Queued
  <2>3. \A k \in 1..(n + 1) : k \in 1..n \/ k = n + 1  BY <1>1
  <2>4. \A k \in 1..n : k \in 1..(n + 1)  BY <1>1
  <2>5. n + 1 \in 1..(n + 1)  BY <1>1
  <2>. QED  BY <1>1, <2>1, <2>2, <2>3, <2>4, <2>5
<1>. QED  BY <1>1, <1>2, <1>3

\* The first message is taken, and perhaps another queued.
LEMMA QueueNext ==
    ASSUME mq \in Seq(Message), mq # <<>>
    PROVE  /\ Head(mq) \in Message /\ Head(mq) \in Queued
           /\ mq' = Tail(mq) => mq' \in Seq(Message) /\ Queued' \subseteq Queued
           /\ \A e \in Message : mq' = Append(Tail(mq), e) => mq' \in Seq(Message) /\ Queued' \subseteq Queued \cup {e}
<1>. DEFINE n == Len(mq)
            r == Tail(mq)
<1>1. /\ n \in Nat \ {0} /\ DOMAIN mq = 1..n /\ Head(mq) = mq[1] /\ Head(mq) \in Message
      /\ r \in Seq(Message) /\ Len(r) = n - 1 /\ \A i \in 1..(n - 1) : r[i] = mq[i + 1]
  <2>1. n \in Nat /\ n # 0 /\ DOMAIN mq = 1..n  BY EmptySeq, LenProperties
  <2>. QED  BY <2>1, HeadTailProperties
<1>2. Head(mq) \in Queued  BY <1>1 DEF Queued
<1>3. \A i \in 1..(n - 1) : r[i] \in Queued
  <2>1. \A i \in 1..(n - 1) : i + 1 \in DOMAIN mq  BY <1>1
  <2>. QED  BY <1>1, <2>1 DEF Queued
<1>. HIDE DEF r
<1>4. ASSUME mq' = r PROVE mq' \in Seq(Message) /\ Queued' \subseteq Queued
  <2>1. DOMAIN mq' = 1..(n - 1)  BY <1>1, <1>4, LenProperties
  <2>. QED  BY <1>1, <1>3, <1>4, <2>1 DEF Queued
<1>5. ASSUME NEW e \in Message, mq' = Append(r, e) PROVE mq' \in Seq(Message) /\ Queued' \subseteq Queued \cup {e}
  <2>1. r \in Seq(Message) /\ DOMAIN r = 1..(n - 1)  BY <1>1, LenProperties
  <2>. HIDE DEF n
  <2>2. mq' \in Seq(Message)  BY <1>5, <2>1, OneMore
  <2>3. PICK q : q = mq'  OBVIOUS
  <2>3a. \A k \in DOMAIN q : q[k] = e \/ \E i \in DOMAIN r : q[k] = r[i]
    <3>1. q = Append(r, e) /\ r \in Seq(Message)  BY <1>5, <2>1, <2>3
    <3>. HIDE DEF r
    <3>. QED  BY ONLY <3>1, e \in Message, ElementsOfMore
  <2>4. \A k \in DOMAIN mq' : mq'[k] \in Queued \cup {e}  BY <1>3, <2>1, <2>3, <2>3a
  <2>. QED  BY <2>2, <2>4 DEF Queued
<1>. QED  BY <1>1, <1>2, <1>4, <1>5 DEF r

\* The validation goes on, and the first message is the same.
LEMMA WatchRests ==
    ASSUME WatchOK(val, mq), NEW v, NEW q, v.validating = val.validating, v.configuring = val.configuring,
           v.id = val.id, v.stray = val.stray, val.timer => v.timer,
           mq # <<>> => q # <<>> /\ Head(q) = Head(mq)
    PROVE  WatchOK(v, q)
BY DEF WatchOK, EndsNext, ConfiguredNext, InProgress

\* It goes on, and the first message was none that ends it.
LEMMA WatchPasses ==
    ASSUME WatchOK(val, mq), NEW v, NEW q, v.validating = val.validating, v.configuring = val.configuring,
           v.id = val.id, v.stray = val.stray, v.timer = val.timer,
           val.validating => ~EndsNext(mq, val), val.configuring => ~ConfiguredNext(mq, val)
    PROVE  WatchOK(v, q)
BY DEF WatchOK, InProgress

\* Where the table is left as it is.
LEMMA TableLeft ==
    ASSUME TypesLeft, net'.ctrl = net.ctrl
    PROVE  \A i \in Ids : Rightly(net', proven', i)
BY DEF Rightly

\* Where one controller is removed, or only loses.
LEMMA OneLeft ==
    ASSUME TypesLeft, NEW id \in Ids, \A i \in Ids \ {id} : net'.ctrl[i] = net.ctrl[i],
           \/ net'.ctrl[id] = NoController
           \/ net'.ctrl[id].ieee = net.ctrl[id].ieee /\ net'.ctrl[id].bound = net.ctrl[id].bound
    PROVE  \A i \in Ids : Rightly(net', proven', i)
BY DEF Rightly, NoController

\* A request is accepted: nobody is bound by it.
LEMMA AcceptedLeft ==
    \A n \in Network, id \in Ids, r \in Remotes, mode \in Modes : \A m :
        m = Accepted(n, id, r, mode) =>
            /\ m \in Network /\ \A i \in Ids \ {id} : m.ctrl[i] = n.ctrl[i] /\ m.evict = n.evict
            /\ Exists(n, id) => m.ctrl[id].ieee = n.ctrl[id].ieee /\ m.ctrl[id].bound = n.ctrl[id].bound
            /\ ~Exists(n, id) => m.ctrl[id].bound = FALSE
<1>. TAKE n \in Network, id \in Ids, r \in Remotes, mode \in Modes
<1>. TAKE m
<1>. HAVE m = Accepted(n, id, r, mode)
<1>. DEFINE known == [n EXCEPT !.ctrl[id].backup = TRUE]
            fresh == [n EXCEPT !.ctrl[id] = [NoController EXCEPT !.ieee = r]]
            kept == IF ~Exists(n, id) THEN fresh
                    ELSE IF n.ctrl[id].result = "in progress" THEN known
                    ELSE ResultSet(known, id, "pending")
<1>1. m = [kept EXCEPT !.ctrl[id].mode = mode]  BY DEF Accepted
<1>2. /\ kept \in Network /\ \A i \in Ids \ {id} : kept.ctrl[i] = n.ctrl[i] /\ kept.evict = n.evict
      /\ Exists(n, id) => kept.ctrl[id].ieee = n.ctrl[id].ieee /\ kept.ctrl[id].bound = n.ctrl[id].bound
      /\ ~Exists(n, id) => kept.ctrl[id].bound = FALSE
  <2>1. CASE ~Exists(n, id)
    <3>. DEFINE c == [NoController EXCEPT !.ieee = r]
    <3>1. c \in Controller /\ c.bound = FALSE  BY DEF NoController, Controller, Results
    <3>2. kept = [n EXCEPT !.ctrl[id] = c]  BY <2>1
    <3>. HIDE DEF c, kept
    <3>3. /\ kept \in Network /\ kept.ctrl[id] = c /\ kept.evict = n.evict
          /\ \A i \in Ids \ {id} : kept.ctrl[i] = n.ctrl[i]
      BY <3>1, <3>2 DEF Network
    <3>. QED  BY <2>1, <3>1, <3>3
  <2>2. CASE Exists(n, id)
    <3>1. /\ known \in Network /\ \A i \in Ids \ {id} : known.ctrl[i] = n.ctrl[i]
          /\ known.ctrl[id].ieee = n.ctrl[id].ieee /\ known.ctrl[id].bound = n.ctrl[id].bound
          /\ known.evict = n.evict
      <4>. DEFINE c == [n.ctrl[id] EXCEPT !.backup = TRUE]
      <4>1. n.ctrl[id] \in Controller  BY DEF Network
      <4>2. c \in Controller /\ c.ieee = n.ctrl[id].ieee /\ c.bound = n.ctrl[id].bound
        BY <4>1 DEF Controller
      <4>3. known = [n EXCEPT !.ctrl[id] = c]  OBVIOUS
      <4>. HIDE DEF c, known
      <4>4. known \in Network /\ known = [n EXCEPT !.ctrl = [n.ctrl EXCEPT ![id] = c]]
        BY <4>2, <4>3, ControllerSet
      <4>5. known.ctrl = [n.ctrl EXCEPT ![id] = c] /\ DOMAIN n.ctrl = Ids /\ known.evict = n.evict
        BY <4>4 DEF Network
      <4>. QED  BY <4>2, <4>4, <4>5
    <3>2. kept = known \/ kept = ResultSet(known, id, "pending")  BY <2>2
    <3>. HIDE DEF known, kept
    <3>3. PICK s : s = ResultSet(known, id, "pending")  OBVIOUS
    <3>4. /\ s \in Network /\ \A i \in Ids \ {id} : s.ctrl[i] = known.ctrl[i]
          /\ s.ctrl[id].ieee = known.ctrl[id].ieee /\ s.ctrl[id].bound = known.ctrl[id].bound
          /\ s.evict = known.evict
      <4>1. known \in Network  BY <3>1
      <4>. QED  BY ONLY <3>3, <4>1, PendingSet
    <3>. QED  BY <2>2, <3>1, <3>2, <3>3, <3>4
  <2>. QED  BY <2>1, <2>2
<1>. HIDE DEF kept
<1>3. /\ m \in Network /\ \A i \in Ids \ {id} : m.ctrl[i] = kept.ctrl[i]
      /\ m.ctrl[id].ieee = kept.ctrl[id].ieee /\ m.ctrl[id].bound = kept.ctrl[id].bound /\ m.evict = kept.evict
  <2>. DEFINE c == kept.ctrl[id]
              d == [c EXCEPT !.mode = mode]
  <2>1. kept.ctrl \in [Ids -> Controller] /\ DOMAIN kept.ctrl = Ids /\ c \in Controller  BY <1>2 DEF Network
  <2>2. d \in Controller /\ d.ieee = c.ieee /\ d.bound = c.bound  BY <2>1 DEF Controller
  <2>3. m = [kept EXCEPT !.ctrl[id] = d]  BY <1>1
  <2>. HIDE DEF d
  <2>4. m \in Network /\ m = [kept EXCEPT !.ctrl = [kept.ctrl EXCEPT ![id] = d]]
    BY <1>2, <2>2, <2>3, ControllerSet
  <2>5. m.ctrl = [kept.ctrl EXCEPT ![id] = d] /\ m.evict = kept.evict  BY <1>2, <2>4 DEF Network
  <2>. QED  BY <2>1, <2>2, <2>4, <2>5
<1>. QED  BY <1>2, <1>3

\* A pair request, which finds an empty queue.
LEMMA PairRequestLeft ==
    ASSUME Prompt, LeftInv, NEW r \in Remotes, NEW mode \in Modes, PairRequest(r, mode)
    PROVE  LeftInv'
<1>. DEFINE known == IdsOf(net, r) # {}
            chosen == IF known THEN Lowest(IdsOf(net, r)) ELSE Lowest(Free(net))
            full == ~known /\ Cardinality(Ids \ Free(net)) >= Room
<1>1. /\ \E evict \in IF full THEN Ids \ Free(net) ELSE {net.evict} :
            net' = [Accepted(net, chosen, r, mode) EXCEPT !.binding = TRUE, !.tag = TRUE, !.evict = evict]
      /\ known \/ Free(net) # {}
      /\ hal' = {m \in hal : m.id # chosen}
                   \cup {[id |-> chosen, ieee |-> r, late |-> FALSE,
                          refused |-> net.ctrl[chosen].result = "in progress"]}
      /\ mq = <<>> /\ mq' = mq /\ val' = val /\ proven' = proven
  BY DEF PairRequest, Quiet
<1>2. TypesLeft /\ net \in Network  BY DEF LeftInv, TypesLeft
<1>3. chosen \in Ids
  <2>1. CASE known
    <3>1. IdsOf(net, r) \subseteq Nat /\ IdsOf(net, r) # {}  BY <2>1, IdsFacts DEF IdsOf
    <3>2. chosen \in IdsOf(net, r)  BY <2>1, <3>1, LowestOf
    <3>. QED  BY <3>2 DEF IdsOf
  <2>2. CASE ~known
    <3>1. Free(net) \subseteq Nat /\ Free(net) # {}  BY <1>1, <2>2, IdsFacts DEF Free
    <3>2. chosen \in Free(net)  BY <2>2, <3>1, LowestOf
    <3>. QED  BY <3>2 DEF Free
  <2>. QED  BY <2>1, <2>2
<1>. HIDE DEF chosen, known
<1>4. PICK id \in Ids : id = chosen  BY <1>3
<1>5. PICK a : a = Accepted(net, id, r, mode)  OBVIOUS
<1>6. PICK evict \in Ids \cup {NoId} : net' = [a EXCEPT !.binding = TRUE, !.tag = TRUE, !.evict = evict]
  <2>1. net.evict \in Ids \cup {NoId}  BY <1>2 DEF Network
  <2>. QED  BY <1>1, <1>4, <1>5, <2>1
<1>7. /\ a \in Network /\ \A i \in Ids \ {id} : a.ctrl[i] = net.ctrl[i]
      /\ Exists(net, id) => a.ctrl[id].ieee = net.ctrl[id].ieee /\ a.ctrl[id].bound = net.ctrl[id].bound
      /\ ~Exists(net, id) => a.ctrl[id].bound = FALSE
  <2>1. net \in Network /\ r \in Remotes /\ mode \in Modes /\ id \in Ids  BY <1>2
  <2>. QED  BY ONLY <1>5, <2>1, AcceptedLeft
<1>8. net' \in Network /\ net'.ctrl = a.ctrl  BY <1>6, <1>7 DEF Network
<1>9. hal' \subseteq AllAnswers
  <2>1. PICK b \in BOOLEAN : b = (net.ctrl[id].result = "in progress")  OBVIOUS
  <2>2. hal \subseteq AllAnswers  BY DEF LeftInv, TypesLeft
  <2>3. [id |-> id, ieee |-> r, late |-> FALSE, refused |-> b] \in AllAnswers  BY DEF AllAnswers
  <2>4. hal' \subseteq hal \cup {[id |-> id, ieee |-> r, late |-> FALSE, refused |-> b]}
    BY <1>1, <1>4, <2>1
  <2>. QED  BY <2>2, <2>3, <2>4
<1>10. OnlyProvenBound'
  <2>1. ASSUME NEW i \in Ids, net'.ctrl[i].bound PROVE net'.ctrl[i].ieee \in proven \/ i \in Precommissioned
    BY <1>7, <1>8, <2>1 DEF LeftInv, ProvenOK, OnlyProvenBound
  <2>. QED  BY <1>1, <2>1 DEF OnlyProvenBound
<1>11. Queued' = {}
  <2>1. mq' = <<>>  BY <1>1
  <2>. QED  BY <2>1 DEF Queued
<1>12. ProvenOK'  BY <1>10, <1>11 DEF ProvenOK
<1>13. WatchOK(val', mq')  BY <1>1 DEF LeftInv
<1>14. TypesLeft'  BY <1>1, <1>2, <1>8, <1>9 DEF TypesLeft
<1>. QED  BY <1>12, <1>13, <1>14 DEF LeftInv

\* The HAL answers, and the binding is not waited for longer.
LEMMA HalLeft == ASSUME LeftInv, HalReports \/ BindingTimeout PROVE LeftInv'
<1>1. CASE HalReports
  <2>1. PICK m \in hal, ok \in BOOLEAN : HalResult(m, ok)  BY <1>1 DEF HalReports
  <2>. DEFINE e == [type |-> "paired", id |-> m.id, ieee |-> m.ieee, ok |-> ok]
  <2>2. e \in Message /\ e.type = "paired"
    <3>1. m \in AllAnswers  BY DEF LeftInv, TypesLeft
    <3>. QED  BY <3>1 DEF AllAnswers, Message
  <2>3. /\ mq' = Append(mq, e) /\ net' = net /\ val' = val /\ proven' = proven /\ hal' \subseteq hal
    BY <2>1 DEF HalResult
  <2>. HIDE DEF e
  <2>4. mq \in Seq(Message)  BY DEF LeftInv, TypesLeft
  <2>5. mq' \in Seq(Message) /\ Queued' = Queued \cup {e} /\ (mq # <<>> => mq' # <<>> /\ Head(mq') = Head(mq))
    BY <2>2, <2>3, <2>4, QueueWith
  <2>6. TypesLeft'  BY <2>3, <2>5 DEF LeftInv, TypesLeft
  <2>7. ProvenOK'
    <3>1. \A m1 \in Queued' : m1 \in Queued \/ EndRight(m1, net', proven')  BY <2>2, <2>5 DEF EndRight
    <3>2. \A i \in Ids : Rightly(net', proven', i)  BY <2>3, TableLeft DEF LeftInv
    <3>. QED  BY <2>3, <3>1, <3>2, ProvenStill DEF LeftInv
  <2>8. WatchOK(val', mq')  BY <2>3, <2>5, WatchRests DEF LeftInv
  <2>. QED  BY <2>6, <2>7, <2>8 DEF LeftInv
<1>2. CASE BindingTimeout
  <2>1. /\ net' = [net EXCEPT !.binding = FALSE, !.tag = FALSE] /\ hal' = {[m EXCEPT !.late = TRUE] : m \in hal}
        /\ val' = val /\ mq' = mq /\ proven' = proven
    BY <1>2 DEF BindingTimeout
  <2>2. net' \in Network /\ net'.ctrl = net.ctrl  BY <2>1 DEF LeftInv, TypesLeft, Network
  <2>3. hal' \subseteq AllAnswers
    <3>1. \A m \in AllAnswers : [m EXCEPT !.late = TRUE] \in AllAnswers  BY DEF AllAnswers
    <3>. QED  BY <2>1, <3>1 DEF LeftInv, TypesLeft
  <2>4. TypesLeft'  BY <2>1, <2>2, <2>3 DEF LeftInv, TypesLeft
  <2>5. Queued' = Queued  BY <2>1 DEF Queued
  <2>6. ProvenOK'
    <3>1. \A i \in Ids : Rightly(net', proven', i)  BY <2>2, TableLeft DEF LeftInv
    <3>. QED  BY <2>1, <2>5, <3>1, ProvenStill DEF LeftInv
  <2>. QED  BY <2>1, <2>4, <2>6 DEF LeftInv
<1>. QED  BY <1>1, <1>2

\* The parts of a step that leaves no more than the invariant allows.
LEMMA StepLeft ==
    ASSUME LeftInv, net' \in Network, val' \in Validation, mq' \in Seq(Message), hal' \subseteq AllAnswers,
           proven \subseteq proven', \A i \in Ids : Rightly(net', proven', i),
           \A m \in Queued' : m \in Queued \/ EndRight(m, net', proven'), WatchOK(val', mq')
    PROVE  LeftInv'
<1>1. ProvenOK'  BY ProvenStill DEF LeftInv
<1>2. TypesLeft'  BY DEF TypesLeft
<1>. QED  BY <1>1, <1>2 DEF LeftInv

\* What is known when the main thread takes a message.
LEMMA TakenFacts ==
    ASSUME LeftInv, mq # <<>>
    PROVE  /\ net \in Network /\ val \in Validation /\ hal \subseteq AllAnswers /\ WatchOK(val, mq)
           /\ Head(mq) \in Message /\ Head(mq).id \in Ids /\ EndRight(Head(mq), net, proven)
           /\ mq' = Tail(mq) => mq' \in Seq(Message) /\ Queued' \subseteq Queued
           /\ \A e \in Message : mq' = Append(Tail(mq), e) => mq' \in Seq(Message) /\ Queued' \subseteq Queued \cup {e}
<1>1. mq \in Seq(Message)  BY DEF LeftInv, TypesLeft
<1>2. /\ Head(mq) \in Message /\ Head(mq) \in Queued
      /\ mq' = Tail(mq) => mq' \in Seq(Message) /\ Queued' \subseteq Queued
      /\ \A e \in Message : mq' = Append(Tail(mq), e) => mq' \in Seq(Message) /\ Queued' \subseteq Queued \cup {e}
  BY <1>1, QueueNext
<1>3. Head(mq).id \in Ids  BY <1>2 DEF Message
<1>. QED  BY <1>2, <1>3 DEF LeftInv, TypesLeft, ProvenOK

\* The HAL could not pair a remote.
LEMMA PairFailedLeft == ASSUME LeftInv, PairFailed PROVE LeftInv'
<1>. DEFINE N(id) == IF ~Exists(net, id) THEN net
                     ELSE IF net.ctrl[id].bound THEN Restored(net, id) ELSE Removed(net, id)
<1>1. PICK id : id = Head(mq).id  OBVIOUS
<1>2. PICK n : n = N(id)  OBVIOUS
<1>3. /\ mq # <<>> /\ Head(mq).type = "paired" /\ mq' = Tail(mq)
      /\ net' = [n EXCEPT !.binding = FALSE, !.tag = FALSE]
      /\ val' = val /\ hal' = hal /\ proven' = proven
  BY <1>1, <1>2 DEF PairFailed, Received
<1>4. /\ net \in Network /\ val \in Validation /\ hal \subseteq AllAnswers /\ WatchOK(val, mq) /\ id \in Ids
      /\ mq' \in Seq(Message) /\ Queued' \subseteq Queued
  BY <1>1, <1>3, TakenFacts
<1>5. /\ n \in Network /\ \A i \in Ids \ {id} : n.ctrl[i] = net.ctrl[i]
      /\ \/ n.ctrl[id] = NoController
         \/ n.ctrl[id].ieee = net.ctrl[id].ieee /\ n.ctrl[id].bound = net.ctrl[id].bound
  <2>1. CASE ~Exists(net, id)
    <3>1. n = net  BY <1>2, <2>1
    <3>. QED  BY <1>4, <3>1
  <2>2. CASE Exists(net, id) /\ net.ctrl[id].bound
    <3>1. n = Restored(net, id)  BY <1>2, <2>2
    <3>. QED  BY <1>4, <3>1, RestoredFacts
  <2>3. CASE Exists(net, id) /\ ~net.ctrl[id].bound
    <3>1. n = Removed(net, id)  BY <1>2, <2>3
    <3>. QED  BY <1>4, <3>1, RemovedFacts
  <2>. QED  BY <2>1, <2>2, <2>3
<1>6. net' \in Network /\ net'.ctrl = n.ctrl  BY <1>3, <1>5 DEF Network
<1>7. \A i \in Ids : Rightly(net', proven', i)
  <2>1. TypesLeft  BY DEF LeftInv
  <2>. QED  BY <1>4, <1>5, <1>6, <2>1, OneLeft
<1>8. WatchOK(val', mq')  BY <1>3, <1>4, WatchPasses DEF EndsNext, ConfiguredNext
<1>. QED  BY <1>3, <1>4, <1>6, <1>7, <1>8, StepLeft

\* A pairing that is automatic, or by the button: it is proven, whoever has the id.
LEMMA PairedAutomaticallyLeft == ASSUME LeftInv, PairedAutomatically PROVE LeftInv'
<1>1. PICK id : id = Head(mq).id  OBVIOUS
<1>2. PICK e : e = EndMsg(id, "auto", "success")  OBVIOUS
<1>3. PICK n : n = BindValidationEnd(net, id, "success")  OBVIOUS
<1>4. /\ mq # <<>> /\ Head(mq).type = "paired" /\ mq' = Append(Tail(mq), e)
      /\ net' = n /\ val' = Informed(val) /\ hal' = hal /\ proven' = proven \cup {net.ctrl[id].ieee}
  BY <1>1, <1>2, <1>3 DEF PairedAutomatically, Received
<1>5. /\ net \in Network /\ val \in Validation /\ hal \subseteq AllAnswers /\ WatchOK(val, mq) /\ id \in Ids
  BY <1>1, <1>4, TakenFacts
<1>6. e \in Message /\ e.type = "end" /\ e.result = "success" /\ e.id = id
  BY <1>2, <1>5 DEF EndMsg, Message, Kinds, Results, Ended
<1>7. mq' \in Seq(Message) /\ Queued' \subseteq Queued \cup {e}  BY <1>4, <1>6, TakenFacts
<1>8. EndedAs(n, id, "success")
  <2>1. PICK r : r = "success"  OBVIOUS
  <2>2. r \in Results /\ r # "pending" /\ n = BindValidationEnd(net, id, r)  BY <1>3, <2>1 DEF Results
  <2>3. EndedAs(n, id, r)  BY <1>5, <2>2, EndLeaves
  <2>. QED  BY <2>1, <2>3
<1>9. /\ n \in Network
      /\ ~Exists(net, id) => n.ctrl = net.ctrl
      /\ Exists(net, id) =>
            /\ \A i \in Ids : i # id /\ i # net.evict => n.ctrl[i] = net.ctrl[i]
            /\ net.evict \in Ids => n.ctrl[net.evict] = NoController
            /\ id # net.evict => n.ctrl[id].ieee = net.ctrl[id].ieee
  BY <1>8 DEF EndedAs
<1>10. NoController.ieee = NoRemote /\ NoController.bound = FALSE  BY DEF NoController
<1>11. \A i \in Ids : Rightly(net', proven', i)
  <2>1. ASSUME NEW i \in Ids PROVE Rightly(n, proven', i)
    <3>1. CASE ~Exists(net, id)  BY <1>9, <3>1 DEF Rightly
    <3>2. CASE Exists(net, id) /\ i = net.evict  BY <1>9, <1>10, <3>2 DEF Rightly
    <3>3. CASE Exists(net, id) /\ i # net.evict /\ i # id  BY <1>9, <3>3 DEF Rightly
    <3>4. CASE Exists(net, id) /\ i # net.evict /\ i = id
      <4>1. n.ctrl[i].ieee = net.ctrl[i].ieee /\ net.ctrl[i].ieee \in proven'  BY <1>4, <1>9, <3>4
      <4>. QED  BY <4>1 DEF Rightly, ProvenIn
    <3>. QED  BY <3>1, <3>2, <3>3, <3>4
  <2>. QED  BY <1>4, <2>1
<1>12. EndRight(e, net', proven')
  <2>1. Admissible(n, proven', id)
    <3>1. CASE ~Exists(net, id)  BY <1>9, <3>1 DEF Admissible, Exists
    <3>2. CASE Exists(net, id) /\ id = net.evict  BY <1>5, <1>9, <1>10, <3>2 DEF Admissible
    <3>3. CASE Exists(net, id) /\ id # net.evict  BY <1>4, <1>9, <3>3 DEF Admissible, ProvenIn
    <3>. QED  BY <3>1, <3>2, <3>3
  <2>. QED  BY <1>4, <1>6, <2>1 DEF EndRight
<1>13. /\ val' \in Validation /\ val'.validating = val.validating /\ val'.configuring = val.configuring
       /\ val'.id = val.id /\ val'.timer = val.timer /\ val'.stray = val.stray
  BY <1>4, <1>5, InformedFacts
<1>14. WatchOK(val', mq')  BY <1>4, <1>5, <1>13, WatchPasses DEF EndsNext, ConfiguredNext
<1>. QED  BY <1>4, <1>5, <1>7, <1>9, <1>11, <1>12, <1>13, <1>14, StepLeft

\* A normal pairing: the message that begins its validation.
LEMMA PairedNormallyLeft == ASSUME LeftInv, PairedNormally PROVE LeftInv'
<1>1. PICK id : id = Head(mq).id  OBVIOUS
<1>2. PICK e : e = BeginMsg(id)  OBVIOUS
<1>3. /\ mq # <<>> /\ Head(mq).type = "paired" /\ (mq' = Tail(mq) \/ mq' = Append(Tail(mq), e))
      /\ net' = net /\ val' = val /\ hal' = hal /\ proven' = proven
  BY <1>1, <1>2 DEF PairedNormally, Received
<1>4. /\ net \in Network /\ val \in Validation /\ hal \subseteq AllAnswers /\ WatchOK(val, mq) /\ id \in Ids
  BY <1>1, <1>3, TakenFacts
<1>5. e \in Message /\ e.type # "end"  BY <1>2, <1>4 DEF BeginMsg, Message
<1>6. mq' \in Seq(Message) /\ Queued' \subseteq Queued \cup {e}  BY <1>3, <1>5, TakenFacts
<1>7. EndRight(e, net', proven')  BY <1>5 DEF EndRight
<1>8. \A i \in Ids : Rightly(net', proven', i)  BY <1>3, TableLeft DEF LeftInv
<1>9. WatchOK(val', mq')  BY <1>3, <1>4, WatchPasses DEF EndsNext, ConfiguredNext
<1>. QED  BY <1>3, <1>4, <1>6, <1>7, <1>8, <1>9, StepLeft

\* A validation begins, or its end is sent as another is under way, or as its id is known beforehand.
LEMMA ValidationBeginLeft == ASSUME LeftInv, ValidationBegin PROVE LeftInv'
<1>1. PICK id : id = Head(mq).id  OBVIOUS
<1>2. PICK refuse, accept : /\ refuse = EndMsg(id, "interactive", "in progress")
                            /\ accept = EndMsg(id, "precommission", "success")
  OBVIOUS
<1>3. /\ mq # <<>> /\ Head(mq).type = "begin" /\ hal' = hal /\ proven' = proven
      /\ net' = BindValidationBegin(net)
      /\ IF InProgress(val)
           THEN /\ mq' = IF val.id = id THEN Tail(mq) ELSE Append(Tail(mq), refuse)
                /\ val' = IF val.id = id THEN val ELSE Informed(val)
         ELSE IF id \in Precommissioned
           THEN mq' = Append(Tail(mq), accept) /\ val' = Informed(val)
         ELSE mq' = Tail(mq) /\ val' = Begun(val, id)
  BY <1>1, <1>2 DEF ValidationBegin, Received, Begun
<1>4. /\ net \in Network /\ val \in Validation /\ hal \subseteq AllAnswers /\ WatchOK(val, mq) /\ id \in Ids
  BY <1>1, <1>3, TakenFacts
<1>5. /\ refuse \in Message /\ refuse.type = "end" /\ refuse.result = "in progress"
      /\ accept \in Message /\ accept.type = "end" /\ accept.result = "success" /\ accept.id = id
  BY <1>2, <1>4 DEF EndMsg, Message, Kinds, Results, Ended
<1>6. net' \in Network /\ net'.ctrl = net.ctrl  BY <1>3, <1>4 DEF BindValidationBegin, Network
<1>7. \A i \in Ids : Rightly(net', proven', i)  BY <1>6, TableLeft DEF LeftInv
<1>8. EndRight(refuse, net', proven')  BY <1>5 DEF EndRight
<1>9. id \in Precommissioned => EndRight(accept, net', proven')  BY <1>5 DEF EndRight, Admissible, ProvenIn
<1>10. /\ Informed(val) \in Validation /\ Informed(val).validating = val.validating
       /\ Informed(val).configuring = val.configuring /\ Informed(val).id = val.id
       /\ Informed(val).timer = val.timer /\ Informed(val).stray = val.stray
  BY <1>4, InformedFacts
<1>11. CASE val' \in {val, Informed(val)} /\ mq' \in {Tail(mq), Append(Tail(mq), refuse)}
  <2>1. mq' \in Seq(Message) /\ Queued' \subseteq Queued \cup {refuse}  BY <1>3, <1>5, <1>11, TakenFacts
  <2>2. /\ val' \in Validation /\ val'.validating = val.validating /\ val'.configuring = val.configuring
        /\ val'.id = val.id /\ val'.timer = val.timer /\ val'.stray = val.stray
    BY <1>4, <1>10, <1>11
  <2>3. WatchOK(val', mq')  BY <1>3, <1>4, <2>2, WatchPasses DEF EndsNext, ConfiguredNext
  <2>. QED  BY <1>3, <1>4, <1>6, <1>7, <1>8, <2>1, <2>2, <2>3, StepLeft
<1>12. CASE val' = Informed(val) /\ mq' = Append(Tail(mq), accept) /\ id \in Precommissioned
  <2>1. mq' \in Seq(Message) /\ Queued' \subseteq Queued \cup {accept}  BY <1>3, <1>5, <1>12, TakenFacts
  <2>2. /\ val' \in Validation /\ val'.validating = val.validating /\ val'.configuring = val.configuring
        /\ val'.id = val.id /\ val'.timer = val.timer /\ val'.stray = val.stray
    BY <1>10, <1>12
  <2>3. WatchOK(val', mq')  BY <1>3, <1>4, <2>2, WatchPasses DEF EndsNext, ConfiguredNext
  <2>. QED  BY <1>3, <1>4, <1>6, <1>7, <1>9, <1>12, <2>1, <2>2, <2>3, StepLeft
<1>13. CASE val' = Begun(val, id) /\ mq' = Tail(mq) /\ ~InProgress(val)
  <2>1. mq' \in Seq(Message) /\ Queued' \subseteq Queued  BY <1>3, <1>13, TakenFacts
  <2>2. /\ val' \in Validation /\ val'.configuring = val.configuring /\ val'.id = id /\ val'.timer = TRUE
    BY <1>4, <1>13, BegunFacts
  <2>3. WatchOK(val', mq')  BY <1>4, <1>13, <2>2 DEF WatchOK, InProgress
  <2>. QED  BY <1>3, <1>4, <1>6, <1>7, <2>1, <2>2, <2>3, StepLeft
<1>. QED  BY <1>3, <1>11, <1>12, <1>13

\* A validation ends: a success binds who may be bound.
LEMMA ValidationEndsLeft == ASSUME LeftInv, ValidationEnds PROVE LeftInv'
<1>1. PICK h : h = Head(mq)  OBVIOUS
<1>2. PICK id, kind, result : id = h.id /\ kind = h.kind /\ result = h.result  OBVIOUS
<1>3. PICK n, w : n = BindValidationEnd(net, id, result) /\ w = ValidationEnd(val, id, kind, result)  OBVIOUS
<1>4. /\ mq # <<>> /\ h.type = "end" /\ mq' = Tail(mq) /\ val' = w /\ net' = n /\ hal' = hal /\ proven' = proven
  BY <1>1, <1>2, <1>3 DEF ValidationEnds, Received
<1>5. /\ net \in Network /\ val \in Validation /\ hal \subseteq AllAnswers /\ WatchOK(val, mq)
      /\ h \in Message /\ id \in Ids /\ EndRight(h, net, proven) /\ mq' \in Seq(Message) /\ Queued' \subseteq Queued
  BY <1>1, <1>2, <1>4, TakenFacts
<1>6. result \in Results /\ result # "pending" /\ (result = "success" => Admissible(net, proven, id))
  BY <1>2, <1>4, <1>5 DEF Message, EndRight
<1>7. EndedAs(n, id, result)  BY <1>3, <1>5, <1>6, EndLeaves
<1>8. ValidationEnded(w, val, id, kind, result)  BY <1>3, <1>5, ValidationEndFacts
<1>9. NoController.ieee = NoRemote /\ NoController.bound = FALSE  BY DEF NoController
<1>10. \A i \in Ids : Rightly(net', proven', i)
  <2>1. ASSUME NEW i \in Ids PROVE Rightly(n, proven, i)
    <3>1. CASE ~Exists(net, id)  BY <1>7, <3>1 DEF Rightly, EndedAs
    <3>2. CASE Exists(net, id) /\ result = "success" /\ i = net.evict
      BY <1>7, <1>9, <3>2 DEF Rightly, EndedAs
    <3>3. CASE Exists(net, id) /\ result = "success" /\ i # net.evict /\ i # id
      BY <1>7, <3>3 DEF Rightly, EndedAs
    <3>4. CASE Exists(net, id) /\ result = "success" /\ i # net.evict /\ i = id
      <4>1. n.ctrl[i].ieee = net.ctrl[i].ieee  BY <1>7, <3>4 DEF EndedAs
      <4>2. ProvenIn(net, proven, i)  BY <1>6, <3>4 DEF Admissible, Exists
      <4>. QED  BY <4>1, <4>2 DEF Rightly
    <3>5. CASE Exists(net, id) /\ result # "success"
      BY <1>7, <3>5 DEF Rightly, EndedAs
    <3>. QED  BY <3>1, <3>2, <3>3, <3>4, <3>5
  <2>. QED  BY <1>4, <2>1
<1>11. WatchOK(w, mq')
  <2>1. CASE kind = "auto"
    <3>1. ~EndsNext(mq, val)  BY <1>1, <1>2, <2>1 DEF EndsNext
    <3>2. /\ w.validating = val.validating /\ w.configuring = TRUE /\ w.id = id /\ w.timer = TRUE
          /\ w.stray = val.stray + Counting(val.timer) /\ w.stray \in Nat
      BY <1>8, <2>1 DEF ValidationEnded, Validation
    <3>3. val.stray \in Nat /\ (val.validating => val.timer \/ val.stray > 0)
      BY <1>5, <3>1 DEF WatchOK, Validation
    <3>4. val.validating => w.stray > 0  BY <3>2, <3>3 DEF Counting
    <3>. QED  BY <1>5, <3>2, <3>4 DEF WatchOK, InProgress
  <2>2. CASE kind # "auto" /\ val.validating /\ val.id = id
    <3>1. /\ w.validating = FALSE /\ w.configuring = (val.configuring \/ result = "success") /\ w.id = id
          /\ w.timer = (result = "success") /\ w.stray = val.stray
      BY <1>8, <2>2 DEF ValidationEnded
    <3>2. val.configuring => val.stray > 0  BY <1>5, <2>2 DEF WatchOK
    <3>. QED  BY <1>5, <3>1, <3>2 DEF WatchOK, InProgress
  <2>3. CASE kind # "auto" /\ ~(val.validating /\ val.id = id)
    <3>1. w = val  BY <1>8, <2>3 DEF ValidationEnded
    <3>2. val.validating => ~EndsNext(mq, val)  BY <1>1, <1>2, <2>3 DEF EndsNext
    <3>3. ~ConfiguredNext(mq, val)  BY <1>1, <1>4 DEF ConfiguredNext
    <3>. QED  BY <1>5, <3>1, <3>2, <3>3, WatchPasses
  <2>. QED  BY <2>1, <2>2, <2>3
<1>12. n \in Network /\ w \in Validation  BY <1>7, <1>8 DEF EndedAs, ValidationEnded
<1>. QED  BY <1>4, <1>5, <1>10, <1>11, <1>12, StepLeft

\* A controller whose validation failed goes.
LEMMA ValidationFailedLeft == ASSUME LeftInv, ValidationFailed PROVE LeftInv'
<1>1. PICK id : id = Head(mq).id  OBVIOUS
<1>2. PICK n : n = ValidationTimedOut(net, id)  OBVIOUS
<1>3. /\ mq # <<>> /\ Head(mq).type = "failed" /\ mq' = Tail(mq) /\ net' = n
      /\ val' = val /\ hal' = hal /\ proven' = proven
  BY <1>1, <1>2 DEF ValidationFailed, Received
<1>4. /\ net \in Network /\ val \in Validation /\ hal \subseteq AllAnswers /\ WatchOK(val, mq) /\ id \in Ids
      /\ mq' \in Seq(Message) /\ Queued' \subseteq Queued
  BY <1>1, <1>3, TakenFacts
<1>5. /\ n \in Network /\ \A i \in Ids \ {id} : n.ctrl[i] = net.ctrl[i]
      /\ \/ n.ctrl[id] = NoController
         \/ n.ctrl[id].ieee = net.ctrl[id].ieee /\ n.ctrl[id].bound = net.ctrl[id].bound
  BY <1>2, <1>4, TimedOutFacts
<1>6. \A i \in Ids : Rightly(net', proven', i)
  <2>1. TypesLeft  BY DEF LeftInv
  <2>. QED  BY <1>3, <1>4, <1>5, <2>1, OneLeft
<1>7. WatchOK(val', mq')  BY <1>3, <1>4, WatchPasses DEF EndsNext, ConfiguredNext
<1>. QED  BY <1>3, <1>4, <1>5, <1>6, <1>7, StepLeft

\* A configuration is over: if a validation has begun meanwhile, its timer goes with it, but another goes on.
LEMMA ConfiguredLeft == ASSUME LeftInv, Configured PROVE LeftInv'
<1>1. PICK id : id = Head(mq).id  OBVIOUS
<1>2. PICK w : w = ConfigurationComplete(val, id)  OBVIOUS
<1>3. /\ mq # <<>> /\ Head(mq).type = "configured" /\ mq' = Tail(mq) /\ val' = w
      /\ net' = net /\ hal' = hal /\ proven' = proven
  BY <1>1, <1>2 DEF Configured, Received
<1>4. /\ net \in Network /\ val \in Validation /\ hal \subseteq AllAnswers /\ WatchOK(val, mq) /\ id \in Ids
      /\ mq' \in Seq(Message) /\ Queued' \subseteq Queued
  BY <1>1, <1>3, TakenFacts
<1>5. /\ w \in Validation /\ w.validating = val.validating /\ w.id = val.id /\ w.stray = val.stray
      /\ val.configuring /\ val.id = id => w.configuring = FALSE /\ w.timer = FALSE
      /\ ~(val.configuring /\ val.id = id) => w = val
  BY <1>2, <1>4 DEF ConfigurationComplete, Validation
<1>6. ~EndsNext(mq, val)  BY <1>3 DEF EndsNext
<1>7. WatchOK(w, mq')
  <2>1. CASE val.configuring /\ val.id = id
    <3>1. w.validating => w.stray > 0  BY <1>4, <1>5, <2>1 DEF WatchOK
    <3>. QED  BY <1>4, <1>5, <2>1, <3>1 DEF WatchOK, InProgress
  <2>2. CASE ~(val.configuring /\ val.id = id)
    <3>1. val.configuring => ~ConfiguredNext(mq, val)  BY <1>1, <2>2 DEF ConfiguredNext
    <3>. QED  BY <1>4, <1>5, <1>6, <2>2, <3>1, WatchPasses
  <2>. QED  BY <2>1, <2>2
<1>8. \A i \in Ids : Rightly(net', proven', i)  BY <1>3, TableLeft DEF LeftInv
<1>. QED  BY <1>3, <1>4, <1>5, <1>7, <1>8, StepLeft

\* A message is sent while nothing waits, and the validation goes on.
LEMMA SentLeft ==
    ASSUME LeftInv, mq = <<>>, NEW e \in Message, mq' = Append(mq, e), net' = net, hal' = hal,
           proven \subseteq proven', EndRight(e, net, proven'), val' \in Validation,
           val'.validating = val.validating, val'.configuring = val.configuring, val'.id = val.id,
           val'.stray = val.stray, val.timer => val'.timer
    PROVE  LeftInv'
<1>1. /\ net \in Network /\ hal \subseteq AllAnswers /\ mq \in Seq(Message) /\ WatchOK(val, mq)
  BY DEF LeftInv, TypesLeft
<1>2. mq' \in Seq(Message) /\ Queued' = Queued \cup {e}  BY <1>1, QueueWith
<1>3. EndRight(e, net', proven')  OBVIOUS
<1>4. \A i \in Ids : Rightly(net', proven', i)  BY TableLeft DEF LeftInv
<1>5. WatchOK(val', mq')  BY <1>1, WatchRests
<1>. QED  BY <1>1, <1>2, <1>3, <1>4, <1>5, StepLeft

\* The validation goes on, and nothing is sent.
LEMMA GoesOnLeft ==
    ASSUME LeftInv, mq' = mq, net' = net, hal' = hal, proven' = proven, val' \in Validation,
           val'.validating = val.validating, val'.configuring = val.configuring, val'.id = val.id,
           val'.stray = val.stray, val.timer => val'.timer
    PROVE  LeftInv'
<1>1. /\ net \in Network /\ hal \subseteq AllAnswers /\ mq \in Seq(Message) /\ WatchOK(val, mq)
  BY DEF LeftInv, TypesLeft
<1>2. mq' \in Seq(Message) /\ Queued' = Queued  BY <1>1 DEF Queued
<1>3. \A i \in Ids : Rightly(net', proven', i)  BY TableLeft DEF LeftInv
<1>4. WatchOK(val', mq')  BY <1>1, WatchRests
<1>. QED  BY <1>1, <1>2, <1>3, <1>4, StepLeft

\* An end that is sent.
LEMMA EndMessage ==
    ASSUME NEW id \in Ids, NEW result \in Results
    PROVE  \A e : e = EndMsg(id, "interactive", result) =>
              e \in Message /\ e.type = "end" /\ e.id = id /\ e.kind = "interactive" /\ e.result = result
BY DEF EndMsg, Message, Kinds

\* A timer of the validation runs out: the end is sent of what is under way.
LEMMA ValidationTimeoutLeft == ASSUME Prompt, LeftInv, ValidationTimeout PROVE LeftInv'
<1>. DEFINE told == IF val.validating /\ ~val.configuring THEN Informed(val) ELSE val
<1>1. /\ mq = <<>> /\ net' = net /\ hal' = hal /\ proven' = proven
      /\ \/ val' = [told EXCEPT !.timer = FALSE]
         \/ val.stray > 0 /\ val' = [told EXCEPT !.timer = FALSE, !.stray = IF val.timer THEN @ ELSE @ - 1]
      /\ mq' = IF val.configuring THEN Append(mq, ConfMsg(val.id))
               ELSE IF val.validating THEN Append(mq, EndMsg(val.id, "interactive", "timeout"))
               ELSE mq
  BY DEF ValidationTimeout, Quiet
<1>2. /\ net \in Network /\ val \in Validation /\ hal \subseteq AllAnswers /\ mq \in Seq(Message) /\ WatchOK(val, mq)
  BY DEF LeftInv, TypesLeft
<1>3. /\ told \in Validation /\ told.validating = val.validating /\ told.configuring = val.configuring
      /\ told.id = val.id /\ told.timer = val.timer /\ told.stray = val.stray
  BY <1>2, InformedFacts
<1>. HIDE DEF told
<1>4. /\ val' \in Validation /\ val'.validating = val.validating /\ val'.configuring = val.configuring
      /\ val'.id = val.id /\ val'.timer = FALSE /\ (val.timer => val'.stray = val.stray)
  <2>. DEFINE C == 0..(CodeLength - 1)
              W == 0..(MaxWrong - 1)
              V == [validating : BOOLEAN, configuring : BOOLEAN, id : Ids \cup {NoId}, timer : BOOLEAN,
                    stray : Nat, matched : C, wrong : W]
  <2>1. V = Validation  BY DEF Validation
  <2>. HIDE DEF C, W
  <2>2. val.stray \in Nat  BY <1>2 DEF Validation
  <2>3. told \in V  BY <1>3, <2>1
  <2>4. CASE val' = [told EXCEPT !.timer = FALSE]
    BY <1>3, <2>1, <2>3, <2>4
  <2>5. CASE val.stray > 0 /\ val' = [told EXCEPT !.timer = FALSE, !.stray = IF val.timer THEN @ ELSE @ - 1]
    <3>1. PICK s : s = IF val.timer THEN val.stray ELSE val.stray - 1  OBVIOUS
    <3>2. s \in Nat /\ (val.timer => s = val.stray)  BY <2>2, <2>5, <3>1
    <3>3. val' = [told EXCEPT !.timer = FALSE, !.stray = s]  BY <1>3, <2>5, <3>1
    <3>. QED  BY <1>3, <2>1, <2>3, <3>2, <3>3
  <2>. QED  BY <1>1, <2>4, <2>5
<1>5. \A i \in Ids : Rightly(net', proven', i)  BY <1>1, TableLeft DEF LeftInv
<1>6. PICK id : id = val.id  OBVIOUS
<1>7. /\ mq = <<>> => ~EndsNext(mq, val) /\ ~ConfiguredNext(mq, val)
      /\ InProgress(val) => id \in Ids
      /\ val.validating /\ val.configuring => val.stray > 0 /\ val.timer
  BY <1>1, <1>2, <1>6 DEF WatchOK, EndsNext, ConfiguredNext
<1>8. CASE val.configuring
  <2>1. PICK e : e = ConfMsg(id)  OBVIOUS
  <2>2. e \in Message /\ e.type = "configured" /\ e.id = id
    BY <1>7, <1>8, <2>1 DEF ConfMsg, Message, InProgress
  <2>3. mq' = Append(mq, e)  BY <1>1, <1>6, <1>8, <2>1
  <2>4. mq' \in Seq(Message) /\ Queued' = Queued \cup {e} /\ mq' # <<>> /\ Head(mq') = e
    BY <1>1, <1>2, <2>2, <2>3, QueueWith
  <2>5. EndRight(e, net', proven')  BY <2>2 DEF EndRight
  <2>6. ConfiguredNext(mq', val')  BY <1>4, <1>6, <2>2, <2>4 DEF ConfiguredNext
  <2>7. val'.validating => val'.stray > 0  BY <1>4, <1>7, <1>8
  <2>8. WatchOK(val', mq')  BY <1>4, <1>6, <1>7, <2>6, <2>7 DEF WatchOK, InProgress
  <2>. QED  BY <1>1, <1>2, <1>4, <1>5, <2>4, <2>5, <2>8, StepLeft
<1>9. CASE ~val.configuring /\ val.validating
  <2>1. PICK result \in Results : result = "timeout"  BY DEF Results, Ended
  <2>2. PICK e : e = EndMsg(id, "interactive", result)  OBVIOUS
  <2>3. e \in Message /\ e.type = "end" /\ e.id = id /\ e.kind = "interactive" /\ e.result = "timeout"
    BY <1>7, <1>9, <2>1, <2>2, EndMessage DEF InProgress
  <2>4. mq' = Append(mq, e)  BY <1>1, <1>6, <1>9, <2>1, <2>2
  <2>5. mq' \in Seq(Message) /\ Queued' = Queued \cup {e} /\ mq' # <<>> /\ Head(mq') = e
    BY <1>1, <1>2, <2>3, <2>4, QueueWith
  <2>6. EndRight(e, net', proven')  BY <2>3 DEF EndRight
  <2>7. EndsNext(mq', val')  BY <1>4, <1>6, <2>3, <2>5 DEF EndsNext
  <2>8. WatchOK(val', mq')  BY <1>4, <1>6, <1>7, <1>9, <2>7 DEF WatchOK, InProgress
  <2>. QED  BY <1>1, <1>2, <1>4, <1>5, <2>5, <2>6, <2>8, StepLeft
<1>10. CASE ~val.configuring /\ ~val.validating
  <2>1. mq' = mq /\ Queued' = Queued  BY <1>1, <1>10 DEF Queued
  <2>2. WatchOK(val', mq')  BY <1>4, <1>10 DEF WatchOK, InProgress
  <2>. QED  BY <1>1, <1>2, <1>4, <1>5, <2>1, <2>2, StepLeft
<1>. QED  BY <1>8, <1>9, <1>10

\* The timer of a failed validation runs out.
LEMMA FailedTimeoutLeft == ASSUME Prompt, LeftInv, FailedTimeout PROVE LeftInv'
<1>1. PICK k \in DOMAIN net.fails :
         net' = [net EXCEPT !.fails[k].armed = FALSE] /\ mq' = Append(mq, FailedMsg(net.fails[k].id))
  BY DEF FailedTimeout
<1>2. mq = <<>> /\ val' = val /\ hal' = hal /\ proven' = proven
  BY DEF FailedTimeout, Quiet
<1>3. /\ net \in Network /\ net.fails \in Seq(Failure) /\ val \in Validation /\ hal \subseteq AllAnswers
      /\ mq \in Seq(Message) /\ WatchOK(val, mq)
  BY DEF LeftInv, TypesLeft, Network
<1>4. net.fails[k] \in Failure
  <2>1. net.fails \in Seq(Failure) /\ k \in DOMAIN net.fails  BY <1>3
  <2>. QED  BY ONLY <2>1
<1>5. PICK e : e = FailedMsg(net.fails[k].id)  OBVIOUS
<1>6. e \in Message /\ e.type = "failed"  BY <1>4, <1>5 DEF FailedMsg, Message, Failure
<1>7. net' \in Network /\ net'.ctrl = net.ctrl
  <2>. DEFINE g == [net.fails[k] EXCEPT !.armed = FALSE]
              more == [net.fails EXCEPT ![k] = g]
  <2>1. g \in Failure  BY <1>4 DEF Failure
  <2>2. net' = [net EXCEPT !.fails = more]  BY <1>1, <1>3
  <2>3. more \in Seq(Failure)
    <3>. HIDE DEF g
    <3>1. net.fails \in Seq(Failure) /\ g \in Failure /\ k \in DOMAIN net.fails  BY <1>3, <2>1
    <3>. QED  BY ONLY <3>1
  <2>. HIDE DEF more
  <2>. QED  BY <1>3, <2>2, <2>3 DEF Network
<1>8. mq' \in Seq(Message) /\ Queued' = Queued \cup {e}  BY <1>1, <1>3, <1>5, <1>6, QueueWith
<1>9. EndRight(e, net', proven')  BY <1>6 DEF EndRight
<1>10. \A i \in Ids : Rightly(net', proven', i)  BY <1>7, TableLeft DEF LeftInv
<1>11. WatchOK(val', mq')  BY <1>2, <1>3, WatchRests
<1>. QED  BY <1>2, <1>3, <1>7, <1>8, <1>9, <1>10, <1>11, StepLeft

\* A key of another remote: the end of its own validation is sent.
LEMMA KeyCollisionLeft == ASSUME Prompt, LeftInv, NEW id \in Ids, KeyCollision(id) PROVE LeftInv'
<1>1. PICK result \in Results : result = "collision"  BY DEF Results, Ended
<1>2. PICK e : e = EndMsg(id, "interactive", result)  OBVIOUS
<1>3. /\ mq = <<>> /\ mq' = Append(mq, e) /\ val' = Informed(val) /\ net' = net /\ hal' = hal /\ proven' = proven
  BY <1>1, <1>2 DEF KeyCollision, Sniffed, Paired, Quiet
<1>4. e \in Message /\ EndRight(e, net, proven')  BY <1>1, <1>2, EndMessage DEF EndRight
<1>5. val \in Validation  BY DEF LeftInv, TypesLeft
<1>6. /\ val' \in Validation /\ val'.validating = val.validating /\ val'.configuring = val.configuring
      /\ val'.id = val.id /\ val'.stray = val.stray /\ val'.timer = val.timer
  BY <1>3, <1>5, InformedFacts
<1>. QED  BY <1>3, <1>4, <1>6, SentLeft

\* The key that aborts a validation.
LEMMA KeyAbortLeft == ASSUME Prompt, LeftInv, NEW id \in Ids, KeyAbort(id) PROVE LeftInv'
<1>1. PICK result \in Results : result = "abort"  BY DEF Results, Ended
<1>2. PICK e : e = EndMsg(id, "interactive", result)  OBVIOUS
<1>3. /\ mq = <<>> /\ mq' = Append(mq, e) /\ val' = Informed(val) /\ net' = net /\ hal' = hal /\ proven' = proven
  BY <1>1, <1>2 DEF KeyAbort, Sniffed, Paired, Quiet
<1>4. e \in Message /\ EndRight(e, net, proven')  BY <1>1, <1>2, EndMessage DEF EndRight
<1>5. val \in Validation  BY DEF LeftInv, TypesLeft
<1>6. /\ val' \in Validation /\ val'.validating = val.validating /\ val'.configuring = val.configuring
      /\ val'.id = val.id /\ val'.stray = val.stray /\ val'.timer = val.timer
  BY <1>3, <1>5, InformedFacts
<1>. QED  BY <1>3, <1>4, <1>6, SentLeft

\* A validation whose timer is started again.
LEMMA RearmedInformed ==
    ASSUME val \in Validation
    PROVE  \A v : v = Informed(Rearmed(val)) =>
              /\ v \in Validation /\ v.validating = val.validating /\ v.configuring = val.configuring
              /\ v.id = val.id /\ v.stray = val.stray /\ v.timer = TRUE
<1>1. PICK v : v = Rearmed(val)  OBVIOUS
<1>2. /\ v \in Validation /\ v.validating = val.validating /\ v.configuring = val.configuring
      /\ v.id = val.id /\ v.stray = val.stray /\ v.timer = TRUE
  BY <1>1, RearmedFacts
<1>. QED  BY <1>1, <1>2, InformedFacts

\* The keys of the code: the last is the remote's proof.
LEMMA KeyRightLeft == ASSUME Prompt, LeftInv, NEW id \in Ids, KeyRight(id) PROVE LeftInv'
<1>1. PICK result \in Results : result = "success"  BY DEF Results
<1>2. PICK e : e = EndMsg(id, "interactive", result)  OBVIOUS
<1>3. /\ mq = <<>> /\ net' = net /\ hal' = hal
      /\ IF val.matched + 1 = CodeLength
           THEN /\ mq' = Append(mq, e) /\ val' = Informed(Rearmed(val))
                /\ proven' = proven \cup {net.ctrl[id].ieee}
           ELSE val' = [Rearmed(val) EXCEPT !.matched = @ + 1] /\ mq' = mq /\ proven' = proven
  BY <1>1, <1>2 DEF KeyRight, Sniffed, Paired, Quiet
<1>4. val \in Validation  BY DEF LeftInv, TypesLeft
<1>5. CASE val.matched + 1 = CodeLength
  <2>1. /\ val' \in Validation /\ val'.validating = val.validating /\ val'.configuring = val.configuring
        /\ val'.id = val.id /\ val'.stray = val.stray /\ val'.timer = TRUE
    BY <1>3, <1>4, <1>5, RearmedInformed
  <2>2. e \in Message /\ e.id = id /\ e.result = "success"  BY <1>1, <1>2, EndMessage
  <2>3. mq' = Append(mq, e) /\ proven \subseteq proven' /\ net.ctrl[id].ieee \in proven'  BY <1>3, <1>5
  <2>4. EndRight(e, net, proven')  BY <2>2, <2>3 DEF EndRight, Admissible, ProvenIn
  <2>. QED  BY <1>3, <2>1, <2>2, <2>3, <2>4, SentLeft
<1>6. CASE val.matched + 1 # CodeLength
  <2>1. PICK a, b : a = val.matched + 1 /\ b = val.wrong  OBVIOUS
  <2>2. val.matched \in 0..(CodeLength - 1) /\ val.wrong \in 0..(MaxWrong - 1)  BY <1>4 DEF Validation
  <2>3. a \in 0..(CodeLength - 1) /\ b \in 0..(MaxWrong - 1)  BY <1>6, <2>1, <2>2, IdsFacts
  <2>4. PICK v : v = Rearmed(val)  OBVIOUS
  <2>5. /\ v \in Validation /\ v.validating = val.validating /\ v.configuring = val.configuring
        /\ v.id = val.id /\ v.stray = val.stray /\ v.timer = TRUE
        /\ v.matched = val.matched /\ v.wrong = val.wrong
    BY <1>4, <2>4, RearmedFacts
  <2>6. val' = [v EXCEPT !.matched = a, !.wrong = b]
    <3>1. val' = [v EXCEPT !.matched = a]  BY <1>3, <1>6, <2>1, <2>4, <2>5
    <3>. QED  BY <2>1, <2>5, <3>1 DEF Validation
  <2>7. /\ val' \in Validation /\ val'.timer = TRUE /\ val'.stray = val.stray
        /\ val'.validating = val.validating /\ val'.configuring = val.configuring /\ val'.id = val.id
    BY <2>3, <2>5, <2>6, ProgressFacts
  <2>. QED  BY <1>3, <1>6, <2>7, GoesOnLeft
<1>. QED  BY <1>5, <1>6

\* Any other key: the last that is allowed fails.
LEMMA KeyWrongLeft == ASSUME Prompt, LeftInv, NEW id \in Ids, KeyWrong(id) PROVE LeftInv'
<1>1. PICK result \in Results : result = "failed"  BY DEF Results, Ended
<1>2. PICK e : e = EndMsg(id, "interactive", result)  OBVIOUS
<1>3. /\ mq = <<>> /\ net' = net /\ hal' = hal /\ proven' = proven
      /\ IF val.wrong + 1 >= MaxWrong
           THEN mq' = Append(mq, e) /\ val' = Informed(Rearmed(val))
           ELSE val' = [Rearmed(val) EXCEPT !.matched = 0, !.wrong = @ + 1] /\ mq' = mq
  BY <1>1, <1>2 DEF KeyWrong, Sniffed, Paired, Quiet
<1>4. val \in Validation  BY DEF LeftInv, TypesLeft
<1>5. CASE val.wrong + 1 >= MaxWrong
  <2>1. /\ val' \in Validation /\ val'.validating = val.validating /\ val'.configuring = val.configuring
        /\ val'.id = val.id /\ val'.stray = val.stray /\ val'.timer = TRUE
    BY <1>3, <1>4, <1>5, RearmedInformed
  <2>2. e \in Message /\ EndRight(e, net, proven')  BY <1>1, <1>2, EndMessage DEF EndRight
  <2>. QED  BY <1>3, <1>5, <2>1, <2>2, SentLeft
<1>6. CASE ~(val.wrong + 1 >= MaxWrong)
  <2>1. PICK a, b : a = 0 /\ b = val.wrong + 1  OBVIOUS
  <2>2. val.wrong \in 0..(MaxWrong - 1)  BY <1>4 DEF Validation
  <2>3. a \in 0..(CodeLength - 1) /\ b \in 0..(MaxWrong - 1)  BY <1>6, <2>1, <2>2, IdsFacts
  <2>4. PICK v : v = Rearmed(val)  OBVIOUS
  <2>5. /\ v \in Validation /\ v.validating = val.validating /\ v.configuring = val.configuring
        /\ v.id = val.id /\ v.stray = val.stray /\ v.timer = TRUE /\ v.wrong = val.wrong
    BY <1>4, <2>4, RearmedFacts
  <2>6. val' = [v EXCEPT !.matched = a, !.wrong = b]  BY <1>3, <1>6, <2>1, <2>4, <2>5
  <2>7. /\ val' \in Validation /\ val'.timer = TRUE /\ val'.stray = val.stray
        /\ val'.validating = val.validating /\ val'.configuring = val.configuring /\ val'.id = val.id
    BY <2>3, <2>5, <2>6, ProgressFacts
  <2>. QED  BY <1>3, <1>6, <2>7, GoesOnLeft
<1>. QED  BY <1>5, <1>6

\* The application answers: a success is the remote's proof.
LEMMA AppFinishLeft ==
    ASSUME Prompt, LeftInv, NEW id \in Ids, NEW result \in {"success", "failed"}, AppFinish(id, result)
    PROVE  LeftInv'
<1>1. PICK e : e = EndMsg(id, "interactive", result)  OBVIOUS
<1>2. /\ mq = <<>> /\ mq' = Append(mq, e) /\ val' = Informed(val) /\ net' = net /\ hal' = hal
      /\ proven' = IF result = "success" THEN proven \cup {net.ctrl[id].ieee} ELSE proven
  BY <1>1 DEF AppFinish, Quiet
<1>3. result \in Results  BY DEF Results, Ended
<1>4. e \in Message /\ e.id = id /\ e.result = result  BY <1>1, <1>3, EndMessage
<1>5. EndRight(e, net, proven')  BY <1>2, <1>4 DEF EndRight, Admissible, ProvenIn
<1>6. val \in Validation  BY DEF LeftInv, TypesLeft
<1>7. /\ val' \in Validation /\ val'.validating = val.validating /\ val'.configuring = val.configuring
      /\ val'.id = val.id /\ val'.stray = val.stray /\ val'.timer = val.timer
  BY <1>2, <1>6, InformedFacts
<1>8. proven \subseteq proven'  BY <1>2
<1>. QED  BY <1>2, <1>4, <1>5, <1>7, <1>8, SentLeft

\* A remote reads that its validation failed: it has its former pairing again, or goes.
LEMMA CheckValidationLeft == ASSUME LeftInv, NEW id \in Ids, CheckValidation(id) PROVE LeftInv'
<1>1. /\ net' = Restored(net, id) \/ net' = ValidationTimedOut(net, id)
      /\ val' = val /\ mq' = mq /\ hal' = hal /\ proven' = proven
  BY DEF CheckValidation
<1>2. /\ net \in Network /\ val \in Validation /\ hal \subseteq AllAnswers /\ mq \in Seq(Message) /\ WatchOK(val, mq)
  BY DEF LeftInv, TypesLeft
<1>3. PICK n : n = net'  OBVIOUS
<1>4. /\ n \in Network /\ \A i \in Ids \ {id} : n.ctrl[i] = net.ctrl[i]
      /\ \/ n.ctrl[id] = NoController
         \/ n.ctrl[id].ieee = net.ctrl[id].ieee /\ n.ctrl[id].bound = net.ctrl[id].bound
  <2>1. CASE n = Restored(net, id)  BY <1>2, <2>1, RestoredFacts
  <2>2. CASE n = ValidationTimedOut(net, id)  BY <1>2, <2>2, TimedOutFacts
  <2>. QED  BY <1>1, <1>3, <2>1, <2>2
<1>5. \A i \in Ids : Rightly(net', proven', i)
  <2>1. TypesLeft  BY DEF LeftInv
  <2>. QED  BY <1>3, <1>4, <2>1, OneLeft
<1>6. Queued' = Queued  BY <1>1 DEF Queued
<1>. QED  BY <1>1, <1>2, <1>3, <1>4, <1>5, <1>6, StepLeft

\* The last entry of a configuration is read.
LEMMA ConfigurationReadLeft == ASSUME Prompt, LeftInv, NEW id \in Ids, ConfigurationRead(id) PROVE LeftInv'
<1>1. PICK e : e = ConfMsg(id)  OBVIOUS
<1>2. /\ mq = <<>> /\ mq' = Append(mq, e) /\ net' = [net EXCEPT !.ctrl[id].conf = "success"]
      /\ val' = val /\ hal' = hal /\ proven' = proven
  BY <1>1 DEF ConfigurationRead, Paired, Quiet
<1>3. /\ net \in Network /\ val \in Validation /\ hal \subseteq AllAnswers /\ mq \in Seq(Message) /\ WatchOK(val, mq)
  BY DEF LeftInv, TypesLeft
<1>4. /\ net' \in Network /\ \A i \in Ids \ {id} : net'.ctrl[i] = net.ctrl[i]
      /\ net'.ctrl[id].bound = net.ctrl[id].bound /\ net'.ctrl[id].ieee = net.ctrl[id].ieee
  <2>. DEFINE c == [net.ctrl[id] EXCEPT !.conf = "success"]
  <2>1. net.ctrl[id] \in Controller  BY <1>3 DEF Network
  <2>2. c \in Controller /\ c.bound = net.ctrl[id].bound /\ c.ieee = net.ctrl[id].ieee
    BY <2>1 DEF Controller
  <2>3. net' = [net EXCEPT !.ctrl[id] = c]  BY <1>2
  <2>. HIDE DEF c
  <2>4. net' \in Network /\ net' = [net EXCEPT !.ctrl = [net.ctrl EXCEPT ![id] = c]]
    BY <1>3, <2>2, <2>3, ControllerSet
  <2>5. net'.ctrl = [net.ctrl EXCEPT ![id] = c] /\ DOMAIN net.ctrl = Ids
    BY <1>3, <2>4 DEF Network
  <2>. QED  BY <2>2, <2>4, <2>5
<1>5. e \in Message /\ e.type = "configured"  BY <1>1 DEF ConfMsg, Message
<1>6. mq' \in Seq(Message) /\ Queued' = Queued \cup {e}  BY <1>2, <1>3, <1>5, QueueWith
<1>7. EndRight(e, net', proven')  BY <1>5 DEF EndRight
<1>8. \A i \in Ids : Rightly(net', proven', i)
  <2>1. TypesLeft  BY DEF LeftInv
  <2>. QED  BY <1>4, <2>1, OneLeft
<1>9. WatchOK(val', mq')  BY <1>2, <1>3, WatchRests
<1>. QED  BY <1>2, <1>3, <1>4, <1>6, <1>7, <1>8, <1>9, StepLeft

\* A remote unpairs: what is under way for it ends, and who has its id later is not bound by that.
LEMMA UnpairLeft == ASSUME Prompt, LeftInv, NEW id \in Ids, Unpair(id) PROVE LeftInv'
<1>1. PICK result \in Results : result = "failure"  BY DEF Results, Ended
<1>2. PICK e, c : e = EndMsg(id, "interactive", result) /\ c = ConfMsg(id)  OBVIOUS
<1>3. PICK n : n = Removed(net, id)  OBVIOUS
<1>4. /\ mq = <<>> /\ net' = n /\ hal' = hal /\ proven' = proven /\ val' \in {val, Informed(val)}
      /\ mq' = mq \/ \E x \in {e, c} : mq' = Append(mq, x)
  BY <1>1, <1>2, <1>3 DEF Unpair, Paired, Quiet
<1>5. /\ net \in Network /\ val \in Validation /\ hal \subseteq AllAnswers /\ mq \in Seq(Message) /\ WatchOK(val, mq)
  BY DEF LeftInv, TypesLeft
<1>6. n \in Network /\ n.ctrl[id] = NoController /\ \A i \in Ids \ {id} : n.ctrl[i] = net.ctrl[i]
  BY <1>3, <1>5, RemovedFacts
<1>7. \A i \in Ids : Rightly(net', proven', i)
  <2>1. TypesLeft  BY DEF LeftInv
  <2>. QED  BY <1>4, <1>6, <2>1, OneLeft
<1>8. e \in Message /\ EndRight(e, net', proven')  BY <1>1, <1>2, EndMessage DEF EndRight
<1>9. c \in Message /\ EndRight(c, net', proven')  BY <1>2 DEF ConfMsg, Message, EndRight
<1>10. mq' \in Seq(Message) /\ \A m \in Queued' : m \in Queued \/ EndRight(m, net', proven')
  <2>1. CASE mq' = mq
    <3>1. Queued' = Queued  BY <2>1 DEF Queued
    <3>. QED  BY <1>5, <2>1, <3>1
  <2>2. ASSUME NEW x \in {e, c}, mq' = Append(mq, x) PROVE mq' \in Seq(Message) /\ Queued' = Queued \cup {x}
    BY <1>5, <1>8, <1>9, <2>2, QueueWith
  <2>. QED  BY <1>4, <1>8, <1>9, <2>1, <2>2
<1>11. /\ val' \in Validation /\ val'.validating = val.validating /\ val'.configuring = val.configuring
       /\ val'.id = val.id /\ val'.stray = val.stray /\ val'.timer = val.timer
  BY <1>4, <1>5, InformedFacts
<1>12. WatchOK(val', mq')  BY <1>4, <1>5, <1>11, WatchRests
<1>. QED  BY <1>4, <1>5, <1>6, <1>7, <1>10, <1>11, <1>12, StepLeft

\* Nothing is bound, queued or under way at first.
LEMMA InitLeft == ASSUME Init PROVE LeftInv
<1>1. Queued = {}  BY NothingQueued DEF Init
<1>2. net \in Network
  <2>1. [id \in Ids |-> NoController] \in [Ids -> Controller]  BY IdsFacts
  <2>. QED  BY <2>1 DEF Init, Network
<1>3. val \in Validation  BY IdsFacts DEF Init, Validation
<1>4. TypesLeft  BY <1>2, <1>3 DEF TypesLeft, Init
<1>5. ProvenOK  BY <1>1 DEF Init, ProvenOK, OnlyProvenBound, NoController
<1>6. WatchOK(val, mq)  BY DEF Init, WatchOK, InProgress
<1>. QED  BY <1>4, <1>5, <1>6 DEF LeftInv

\* Every step keeps it.
LEMMA LeftInvStep == ASSUME Prompt, LeftInv, [Next]_vars PROVE LeftInv'
<1>1. CASE UNCHANGED vars
  <2>1. net' = net /\ val' = val /\ mq' = mq /\ hal' = hal /\ proven' = proven  BY <1>1 DEF vars
  <2>2. Queued' = Queued  BY <2>1 DEF Queued
  <2>. QED  BY <2>1, <2>2 DEF LeftInv, TypesLeft, ProvenOK, OnlyProvenBound
<1>2. CASE MainThread
  BY <1>2, PairFailedLeft, PairedAutomaticallyLeft, PairedNormallyLeft, ValidationBeginLeft,
     ValidationEndsLeft, ValidationFailedLeft, ConfiguredLeft DEF MainThread
<1>3. CASE Timers \/ HalReports
  BY <1>3, HalLeft, ValidationTimeoutLeft, FailedTimeoutLeft DEF Timers
<1>4. ASSUME NEW r \in Remotes, NEW mode \in Modes, PairRequest(r, mode) PROVE LeftInv'
  BY <1>4, PairRequestLeft
<1>5. ASSUME NEW id \in Ids,
             \/ KeyCollision(id) \/ KeyAbort(id) \/ KeyRight(id) \/ KeyWrong(id)
             \/ \E result \in {"success", "failed"} : AppFinish(id, result)
             \/ CheckValidation(id) \/ ConfigurationRead(id) \/ Unpair(id)
      PROVE  LeftInv'
  BY <1>5, KeyCollisionLeft, KeyAbortLeft, KeyRightLeft, KeyWrongLeft, AppFinishLeft,
     CheckValidationLeft, ConfigurationReadLeft, UnpairLeft
<1>. QED  BY <1>1, <1>2, <1>3, <1>4, <1>5 DEF Next

\* Whatever an earlier pairing has left, and however late the HAL answers: a remote is bound only if it
\* was proven, and nobody is validated or configured without a timer, or the message that ends it, if
\* the main thread is prompt.
THEOREM ProvenWithLeftovers == ASSUME Prompt PROVE Spec => [](OnlyProvenBound /\ Watched)
<1>1. Init => LeftInv  BY InitLeft
<1>2. LeftInv /\ [Next]_vars => LeftInv'  BY LeftInvStep
<1>3. LeftInv => OnlyProvenBound /\ Watched
  <2>1. ASSUME LeftInv PROVE Watched
    <3>1. WatchOK(val, mq) /\ mq \in Seq(Message)  BY <2>1 DEF LeftInv, TypesLeft
    <3>2. ASSUME mq # <<>> PROVE Head(mq) \in Queued  BY <3>1, <3>2, QueueNext
    <3>3. EndsNext(mq, val) => Waiting("end", val.id)
      <4>1. EndsNext(mq, val) => IsQueued("end", val.id)  BY <3>2 DEF EndsNext, IsQueued
      <4>. QED  BY <4>1, WaitingQueued
    <3>4. ConfiguredNext(mq, val) => Waiting("configured", val.id)
      <4>1. ConfiguredNext(mq, val) => IsQueued("configured", val.id)  BY <3>2 DEF ConfiguredNext, IsQueued
      <4>. QED  BY <4>1, WaitingQueued
    <3>. QED  BY <3>1, <3>3, <3>4 DEF WatchOK, Watched, InProgress
  <2>2. ASSUME LeftInv PROVE OnlyProvenBound  BY <2>2 DEF LeftInv, ProvenOK
  <2>. QED  BY <2>1, <2>2
<1>. QED  BY <1>1, <1>2, <1>3, PTL DEF Spec
=============================================================================
