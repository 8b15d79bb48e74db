--------------------------- MODULE ImageChunksProofs ---------------------------
(***************************************************************************)
(* A controller receives the bytes of the image, for every size of the     *)
(* image, of its chunks, packets and margin, wherever it resumes and       *)
(* whatever replies are lost.                                              *)
(***************************************************************************)
EXTENDS ImageChunks, FiniteSets, TLAPS

Boundary(x) == x \in Nat /\ x % ChunkSize = 0

\* The controller goes back to the start of a chunk, and a restart finds it in a chunk,
\* while there are two chunks left; the thread is never late.
AirAssumption ==
    /\ Prompt
    /\ \A o \in ResumeAt : Boundary(o) /\ o + 2 * ChunkSize <= ImageSize
    /\ \A o \in RestartAt : Aligned(o) + 2 * ChunkSize <= ImageSize

-----------------------------------------------------------------------------
(* The inductive invariant.                                                *)

Low == IF ses.even > ses.odd THEN ses.odd ELSE ses.even

\* The chunk kept at index at has the bytes of the image from base on.
Holds(at, base) ==
    \A i \in 0..(ChunkSize - 1) : base + i < ImageSize => buf[at + i] = base + i

Session == [even : Nat, odd : Nat, file : 0..ImageSize, ctl : Nat,
            resume : BOOLEAN, waiting : BOOLEAN]

Types ==
    /\ ses \in Session
    /\ th \in [at : {"idle", "even", "odd", "resume"}, base : Nat, full : BOOLEAN, size : Nat]
    /\ pos \in 0..ImageSize /\ want \in 0..ImageSize /\ resumes \in Nat

\* Before staging nothing is under way; the controller is at the start, or where it was
\* when the session was lost.
NotStaged ==
    /\ q = <<>> /\ th.at = "idle" /\ ses = NewSession
    /\ pos = 0 \/ ImageSize < 2 * ChunkSize
    /\ want = 0 \/ Aligned(want) + 2 * ChunkSize <= ImageSize
    /\ resumes = 0 => want = 0

\* The two chunks are neighbours, and the file has been read to the end of the newer one.
Chunks ==
    /\ buf \in [Index -> Offsets]
    /\ Boundary(ses.even) /\ Boundary(ses.odd)
    /\ ses.odd = ses.even + ChunkSize \/ ses.even = ses.odd + ChunkSize
    /\ Low + ChunkSize < ImageSize
    /\ ses.file = Smaller(Low + 2 * ChunkSize, ImageSize)

\* The thread waits, with at most one request before it ...
Waiting ==
    /\ th.at = "idle" /\ pos = ses.file
    /\ Holds(0, ses.even) /\ Holds(ChunkSize, ses.odd)
    /\ \/ q = <<>> /\ ~ses.resume
       \/ q = <<NextChunk>> /\ ~ses.resume /\ ses.file < ImageSize
       \/ \E o \in 0..ImageSize :
             q = <<o>> /\ ses.resume /\ Aligned(o) + 2 * ChunkSize <= ImageSize

\* ... or it has replaced the older chunk by the next one ...
Replacing ==
    /\ th.at \in {"even", "odd"} /\ th.at = Replaced
    /\ q = <<>> /\ ~ses.resume /\ ses.file < ImageSize
    /\ th.full /\ th.size = Smaller(ChunkSize, ImageSize - ses.file)
    /\ pos = ses.file + th.size
    /\ th.at = "even" => Holds(0, ses.even + 2 * ChunkSize) /\ Holds(ChunkSize, ses.odd)
    /\ th.at = "odd" => Holds(0, ses.even) /\ Holds(ChunkSize, ses.odd + 2 * ChunkSize)

\* ... or both chunks by those where the controller resumed.
Resuming ==
    /\ th.at = "resume" /\ q = <<>> /\ ses.resume
    /\ th.full /\ Boundary(th.base) /\ th.base + 2 * ChunkSize <= ImageSize
    /\ pos = th.base + 2 * ChunkSize
    /\ Holds(0, th.base) /\ Holds(ChunkSize, th.base + ChunkSize)

\* The controller is in the two chunks; far into the newer one only if the next is being
\* read, and then it has left the older one.
ReadsNext == q = <<NextChunk>> \/ th.at \in {"even", "odd"}
InPlace ==
    /\ ~ses.resume
    /\ Low <= want /\ want <= ses.file
    /\ ReadsNext \/ ses.file = ImageSize \/ want <= Low + ChunkSize + Margin
    /\ ReadsNext => Low + ChunkSize <= want

\* It has gone back to the start of a chunk ...
Jumped == Boundary(want) /\ want + 2 * ChunkSize <= ImageSize

\* ... or a restart has lost its chunks, and those of the start of the file are there.
Fresh ==
    /\ ses.even = 0 /\ ses.odd = ChunkSize /\ Aligned(want) + 2 * ChunkSize <= ImageSize
    /\ \/ th.at = "idle" /\ q = <<>>
       \/ th.at = "idle" /\ q = <<want>>
       \/ th.at = "resume" /\ th.base = Aligned(want)

IInv ==
    /\ Types /\ DataIsImage
    /\ ~Staged => NotStaged
    /\ Staged => Chunks /\ (Waiting \/ Replacing \/ Resuming) /\ (InPlace \/ Jumped \/ Fresh)
    /\ Staged /\ resumes = 0 => InPlace

-----------------------------------------------------------------------------
(* The ends of the chunks.                                                 *)

\* What is left of a division is smaller than the divisor, and nothing is left of zero.
LEMMA Remainder ==
    ASSUME NEW C \in Nat, C > 0, NEW x \in Nat
    PROVE  x % C \in 0..(C - 1) /\ x % C <= x /\ 0 % C = 0 /\ (x - (x % C)) % C = 0
<1>1. x % C \in 0..(C - 1) /\ x % C <= x
  BY SMTT(20)
<1>2. 0 % C = 0
  BY SMTT(20)
<1>3. (x - (x % C)) % C = 0
  BY SMTT(20)
<1>. QED  BY <1>1, <1>2, <1>3

\* The end of a chunk is the start of the next one.
LEMMA NextBoundary ==
    ASSUME NEW C \in Nat, C > 0, NEW x \in Nat, x % C = 0
    PROVE  (x + C) % C = 0
<1>1. x = C * (x \div C) /\ x \div C \in Nat
  BY SMTT(20)
<1>. DEFINE k == x \div C
<1>. HIDE DEF k
<1>2. x + C = C * (k + 1) /\ k + 1 \in Nat
  BY <1>1 DEF k
<1>3. ASSUME NEW j \in Nat PROVE (C * j) % C = 0
  <2>1. /\ C * j = (C * ((C * j) \div C)) + ((C * j) % C)
        /\ ((C * j) % C) \in 0..(C - 1) /\ ((C * j) \div C) \in Int
    BY SMTT(20)
  <2>. DEFINE m == (C * j) \div C
  <2>2. m \in Int
    BY <2>1
  <2>. HIDE DEF m
  <2>3. C * j - C * m \in 0..(C - 1)
    BY <2>1, <2>2 DEF m
  <2>4. C * (j - m) \in 0..(C - 1)
    BY <2>3, <2>2
  <2>5. j - m = 0
    BY <2>4, <2>2, SMTT(20)
  <2>. QED  BY <2>5, <2>1, <2>2 DEF m
<1>. QED  BY <1>2, <1>3

\* Two starts of chunks are a chunk apart.
LEMMA BoundariesApart ==
    ASSUME NEW C \in Nat, C > 0, NEW x \in Nat, NEW y \in Nat, x % C = 0, y % C = 0, x < y
    PROVE  x + C <= y
<1>1. x = C * (x \div C) /\ x \div C \in Nat
  BY SMTT(20)
<1>2. y = C * (y \div C) /\ y \div C \in Nat
  BY SMTT(20)
<1>3. ASSUME NEW a \in Nat, NEW b \in Nat, C * a < C * b PROVE C * a + C <= C * b
  <2>1. a < b
    BY <1>3, SMTT(20)
  <2>2. PICK d \in Nat : b = a + 1 + d
    BY <2>1
  <2>3. C * b = C * a + C + C * d
    BY <2>2, SMTT(20)
  <2>4. C * d \in Nat /\ C * a \in Nat
    BY SMTT(20)
  <2>. QED  BY <2>3, <2>4
<1>. QED  BY <1>1, <1>2, <1>3

\* The start of the chunk that an offset is in.
LEMMA AlignedFacts ==
    ASSUME NEW x \in Nat
    PROVE  /\ Boundary(Aligned(x)) /\ Aligned(x) <= x /\ x < Aligned(x) + ChunkSize
           /\ Boundary(x) => Aligned(x) = x
<1>. DEFINE r == x % ChunkSize
<1>1. ChunkSize \in Nat /\ ChunkSize > 0
  BY SizesAssumption
<1>2. r \in 0..(ChunkSize - 1) /\ r <= x /\ (x - r) % ChunkSize = 0
  BY <1>1, Remainder
<1>3. Boundary(x) => r = 0
  BY DEF Boundary
<1>4. Aligned(x) = x - r
  BY DEF Aligned
<1>. HIDE DEF r
<1>5. x - r \in Nat
  BY <1>2, <1>1
<1>6. Boundary(x - r)
  BY <1>5, <1>2 DEF Boundary
<1>7. x - r <= x /\ x < (x - r) + ChunkSize /\ (r = 0 => x - r = x)
  BY <1>2, <1>1
<1>. QED  BY <1>3, <1>4, <1>6, <1>7

\* Boundaries are whole chunks apart.
LEMMA BoundaryFacts ==
    /\ Boundary(0) /\ Boundary(ChunkSize)
    /\ \A x : Boundary(x) => x \in Nat /\ Boundary(x + ChunkSize)
    /\ \A x, y : Boundary(x) /\ Boundary(y) /\ x < y => x + ChunkSize <= y
<1>1. ChunkSize \in Nat /\ ChunkSize > 0
  BY SizesAssumption
<1>2. Boundary(0)
  BY <1>1, Remainder DEF Boundary
<1>3. ASSUME NEW x, Boundary(x) PROVE x \in Nat /\ Boundary(x + ChunkSize)
  <2>1. x \in Nat /\ x % ChunkSize = 0
    BY <1>3 DEF Boundary
  <2>2. (x + ChunkSize) % ChunkSize = 0
    BY <2>1, <1>1, NextBoundary
  <2>3. x + ChunkSize \in Nat
    BY <2>1, <1>1
  <2>. QED  BY <2>1, <2>2, <2>3 DEF Boundary
<1>4. \A x, y : Boundary(x) /\ Boundary(y) /\ x < y => x + ChunkSize <= y
  BY <1>1, BoundariesApart DEF Boundary
<1>5. Boundary(0 + ChunkSize)
  BY <1>2, <1>3
<1>. QED  BY <1>1, <1>2, <1>3, <1>4, <1>5

-----------------------------------------------------------------------------
(* The parts of a step.                                                    *)

\* A session that asks for a chunk keeps its type and its file.
LEMMA SessionAsked ==
    ASSUME NEW s \in Session, NEW c \in Nat, NEW b \in BOOLEAN
    PROVE  LET t == [s EXCEPT !.ctl = c, !.waiting = b]
           IN  t \in Session /\ t.even = s.even /\ t.odd = s.odd /\ t.file = s.file
               /\ t.resume = s.resume
  BY DEF Session

\* A session that missed a chunk resumes.
LEMMA SessionMissed ==
    ASSUME NEW s \in Session, NEW c \in Nat
    PROVE  LET t == [s EXCEPT !.ctl = c, !.resume = TRUE]
           IN  t \in Session /\ t.even = s.even /\ t.odd = s.odd /\ t.file = s.file /\ t.resume
  BY DEF Session

\* A session that staged a chunk knows how far the file is.
LEMMA SessionStaged ==
    ASSUME NEW s \in Session, NEW o \in Nat, NEW f \in 0..ImageSize
    PROVE  LET t == [s EXCEPT !.odd = o, !.file = f]
           IN  t \in Session /\ t.even = s.even /\ t.odd = o /\ t.file = f
               /\ t.resume = s.resume
  BY DEF Session

\* A buffer is never empty.
LEMMA BufferIsStaged ==
    ASSUME NEW b \in [Index -> Offsets]
    PROVE  b # <<>>
<1>1. 0 \in Index
  BY SizesAssumption DEF Index
<1>2. 0 \in DOMAIN b
  BY <1>1
<1>3. DOMAIN << >> = {}
  OBVIOUS
<1>. QED  BY <1>2, <1>3

\* What fread reads, and the buffer that it leaves.
LEMMA ReadFromFacts ==
    ASSUME NEW p \in 0..ImageSize, NEW n \in Nat
    PROVE  /\ ReadFrom(p, n) \in 0..n /\ p + ReadFrom(p, n) <= ImageSize
           /\ p + n <= ImageSize => ReadFrom(p, n) = n
           /\ ReadFrom(p, n) = Smaller(n, ImageSize - p)
  BY SizesAssumption DEF ReadFrom, Smaller

\* What is read into a buffer is the image from there.
LEMMA FilledFacts ==
    ASSUME NEW p \in 0..ImageSize, NEW at \in Nat, NEW n \in Nat, buf \in [Index -> Offsets]
    PROVE  /\ Filled(p, at, n) \in [Index -> Offsets]
           /\ \A i \in Index : Filled(p, at, n)[i] =
                 IF i \in at..(at + ReadFrom(p, n) - 1) THEN p + i - at ELSE buf[i]
<1>. DEFINE r == ReadFrom(p, n)
<1>1. r \in 0..n /\ p + r <= ImageSize
  BY ReadFromFacts
<1>. HIDE DEF r
<1>2. ASSUME NEW i \in Index, i \in at..(at + r - 1) PROVE p + i - at \in Offsets
  BY <1>1, <1>2, SizesAssumption DEF Offsets, Index
<1>3. \A i \in Index : (IF i \in at..(at + r - 1) THEN p + i - at ELSE buf[i]) \in Offsets
  BY <1>2
<1>4. Filled(p, at, n) = [i \in Index |-> IF i \in at..(at + r - 1) THEN p + i - at ELSE buf[i]]
  BY DEF Filled, r
<1>5. /\ Filled(p, at, n) \in [Index -> Offsets]
      /\ \A i \in Index : Filled(p, at, n)[i] =
            IF i \in at..(at + r - 1) THEN p + i - at ELSE buf[i]
  BY <1>3, <1>4
<1>. QED  BY <1>5 DEF r

-----------------------------------------------------------------------------
(* Each step keeps the invariant.                                          *)

\* The invariant holds at first.
LEMMA InitInvariant == Init => IInv
<1>. SUFFICES ASSUME Init PROVE IInv
  OBVIOUS
<1>. USE DEF Init
<1>1. Types
  BY SizesAssumption DEF Types, Session, NewSession, IdleThread
<1>2. DataIsImage
  BY DEF DataIsImage, NoReply
<1>3. NotStaged
  BY DEF NotStaged, IdleThread
<1>. QED  BY <1>1, <1>2, <1>3 DEF IInv, Staged

\* The first two chunks are read: the controller is in them, or is sent there.
LEMMA StageStep ==
    ASSUME IInv, Stage
    PROVE  IInv'
<1>. USE DEF Stage
<1>1. NotStaged /\ Types /\ DataIsImage
  BY DEF IInv, Staged
<1>2. pos' = Smaller(2 * ChunkSize, ImageSize) /\ pos' \in 0..ImageSize
  BY SizesAssumption, ReadFromFacts DEF Smaller
<1>3. DataIsImage'
  BY <1>1 DEF DataIsImage
<1>4. ses = NewSession /\ q = <<>> /\ th.at = "idle"
  BY <1>1 DEF NotStaged
<1>5. CASE pos' = 2 * ChunkSize
  <2>1. 2 * ChunkSize <= ImageSize
    BY <1>2, <1>5, SizesAssumption DEF Smaller
  <2>2. buf' = [i \in Index |-> i] /\ ses' = [ses EXCEPT !.odd = ChunkSize, !.file = pos']
    BY <1>5
  <2>3. /\ ses' \in Session /\ ses'.even = 0 /\ ses'.odd = ChunkSize
        /\ ses'.file = 2 * ChunkSize /\ ~ses'.resume
    BY <2>2, <1>1, <1>2, <1>4, <1>5, SessionStaged, SizesAssumption DEF Types, NewSession
  <2>4. Types'
    BY <2>3, <1>1, <1>2 DEF Types
  <2>5. buf' \in [Index -> Offsets] /\ \A i \in Index : buf'[i] = i
    BY <2>1, <2>2, SizesAssumption DEF Index, Offsets
  <2>6. Staged'
    BY <2>5, BufferIsStaged DEF Staged
  <2>7. Chunks'
    BY <2>1, <2>3, <2>5, BoundaryFacts, SizesAssumption DEF Chunks, Low, Smaller
  <2>8. Waiting'
    BY <2>3, <2>5, <1>4, <1>5, SizesAssumption DEF Waiting, Holds, Index
  <2>9. want = 0 => InPlace'
    BY <2>3, <1>4, SizesAssumption DEF InPlace, Low, ReadsNext
  <2>10. want # 0 => Fresh'
    BY <2>3, <1>1, <1>4 DEF Fresh, NotStaged, Aligned
  <2>. QED  BY <2>4, <2>6, <2>7, <2>8, <2>9, <2>10, <1>1, <1>3 DEF IInv, NotStaged
<1>6. CASE pos' # 2 * ChunkSize
  <2>1. buf' = <<>> /\ ses' = ses
    BY <1>6
  <2>2. Types'
    BY <2>1, <1>1, <1>2 DEF Types
  <2>3. ImageSize < 2 * ChunkSize
    BY <1>2, <1>6, SizesAssumption DEF Smaller
  <2>4. NotStaged'
    BY <2>1, <2>3, <1>1 DEF NotStaged, Aligned
  <2>. QED  BY <2>1, <2>2, <2>4, <1>3 DEF IInv, Staged
<1>. QED  BY <1>5, <1>6

\* The older chunk is the one that is replaced.
LEMMA ReplacedFacts ==
    ASSUME Types, Chunks
    PROVE  /\ Low \in Nat /\ ses[Replaced] = Low /\ Replaced \in {"even", "odd"}
           /\ Replaced = "even" <=> ses.even = Low
           /\ Replaced = "odd" <=> ses.odd = Low
           /\ Replaced = "even" => ses.odd = Low + ChunkSize
           /\ Replaced = "odd" => ses.even = Low + ChunkSize
<1>1. ses.even \in Nat /\ ses.odd \in Nat
  BY DEF Types, Session
<1>2. ses.odd = ses.even + ChunkSize \/ ses.even = ses.odd + ChunkSize
  BY DEF Chunks
<1>. QED  BY <1>1, <1>2, SizesAssumption DEF Replaced, Low

\* The chunk after the next overwrites the older one.
LEMMA ReadNextStep ==
    ASSUME IInv, ReadChunk, Head(q) = NextChunk
    PROVE  IInv'
<1>. DEFINE p == pos
            n == ChunkLeft(ses[Replaced])
            at == IF Replaced = "odd" THEN ChunkSize ELSE 0
<1>1. th.at = "idle" /\ q # <<>> /\ Types /\ DataIsImage /\ last' = last
  BY DEF IInv, ReadChunk
<1>2. Staged
  BY <1>1 DEF IInv, NotStaged
<1>3. Chunks /\ Waiting
  BY <1>1, <1>2 DEF IInv, Replacing, Resuming
<1>4. q = <<NextChunk>> /\ ~ses.resume /\ ses.file < ImageSize /\ pos = ses.file
  <2>1. ASSUME NEW o \in 0..ImageSize, q = <<o>> PROVE FALSE
    <3>1. o # NextChunk
      BY DEF NextChunk
    <3>2. Head(q) = o
      BY <2>1
    <3>. QED  BY <3>1, <3>2
  <2>. QED  BY <2>1, <1>1, <1>3 DEF Waiting
<1>5. ses.file = Low + 2 * ChunkSize /\ Low \in Nat
  BY <1>1, <1>3, <1>4, ReplacedFacts, SizesAssumption DEF Chunks, Smaller
<1>6. n = Smaller(ChunkSize, ImageSize - ses.file) /\ n \in 1..ChunkSize /\ p + n <= ImageSize
  BY <1>1, <1>3, <1>4, <1>5, ReplacedFacts, SizesAssumption DEF ChunkLeft, Smaller
<1>7. p \in 0..ImageSize /\ at \in Nat /\ buf \in [Index -> Offsets]
  BY <1>1, <1>3, SizesAssumption DEF Types, Chunks
<1>8. /\ q' = <<>> /\ ses' = ses /\ want' = want /\ resumes' = resumes
      /\ buf' = Filled(p, at, n) /\ pos' = p + ReadFrom(p, n)
      /\ th' = [at |-> Replaced, base |-> p, full |-> ReadFrom(p, n) = n, size |-> n]
  BY <1>4 DEF ReadChunk
<1>. HIDE DEF p, n, at
<1>9. ReadFrom(p, n) = n
  BY <1>6, <1>7, ReadFromFacts
<1>10. /\ th'.at = Replaced /\ th'.full /\ th'.size = n
       /\ th' \in [at : {"idle", "even", "odd", "resume"}, base : Nat, full : BOOLEAN, size : Nat]
  <2>1. th' = [at |-> Replaced, base |-> p, full |-> TRUE, size |-> n]
    BY <1>8, <1>9
  <2>2. Replaced \in {"even", "odd"} /\ p \in Nat /\ n \in Nat
    BY <1>6, <1>7, <1>1, <1>3, ReplacedFacts, SizesAssumption
  <2>. QED  BY <2>1, <2>2
<1>11. pos' = ses.file + n /\ pos' \in 0..ImageSize
  BY <1>8, <1>9, <1>6, <1>7, <1>4 DEF p
<1>12. Types'
  BY <1>1, <1>8, <1>10, <1>11 DEF Types
<1>13. buf' \in [Index -> Offsets]
       /\ \A i \in Index : buf'[i] = IF i \in at..(at + n - 1) THEN p + i - at ELSE buf[i]
  BY <1>7, <1>6, <1>8, <1>9, FilledFacts
<1>14. Chunks' /\ Staged'
  BY <1>3, <1>8, <1>13, BufferIsStaged DEF Chunks, Low, Staged
<1>15. Replacing'
  <2>1. th'.at = Replaced' /\ th'.at \in {"even", "odd"}
    BY <1>10, <1>8, <1>1, <1>3, ReplacedFacts DEF Replaced
  <2>2. ASSUME Replaced = "even"
        PROVE  Holds(0, ses.even + 2 * ChunkSize)' /\ Holds(ChunkSize, ses.odd)'
    <3>1. at = 0 /\ p = ses.even + 2 * ChunkSize
      BY <2>2, <1>1, <1>3, <1>4, <1>5, ReplacedFacts DEF at, p
    <3>. QED  BY <3>1, <1>3, <1>5, <1>6, <1>8, <1>13, SizesAssumption DEF Holds, Waiting, Index, Smaller, p
  <2>3. ASSUME Replaced = "odd"
        PROVE  Holds(0, ses.even)' /\ Holds(ChunkSize, ses.odd + 2 * ChunkSize)'
    <3>1. at = ChunkSize /\ p = ses.odd + 2 * ChunkSize
      BY <2>3, <1>1, <1>3, <1>4, <1>5, ReplacedFacts DEF at, p
    <3>. QED  BY <3>1, <1>3, <1>5, <1>6, <1>8, <1>13, SizesAssumption DEF Holds, Waiting, Index, Smaller, p
  <2>. QED  BY <2>1, <2>2, <2>3, <1>4, <1>6, <1>8, <1>10, <1>11 DEF Replacing
<1>16. InPlace => InPlace'
  BY <1>4, <1>8, <1>10, <1>1, <1>3, ReplacedFacts DEF InPlace, Low, ReadsNext
<1>17. Jumped => Jumped'
  BY <1>8 DEF Jumped
<1>18. ~Fresh
  BY <1>1, <1>4 DEF Fresh, Types, NextChunk
<1>19. DataIsImage'
  BY <1>1 DEF DataIsImage
<1>. QED  BY <1>2, <1>8, <1>12, <1>14, <1>15, <1>16, <1>17, <1>18, <1>19 DEF IInv

\* Both chunks are read from where the controller resumed.
LEMMA ReadResumeStep ==
    ASSUME IInv, ReadChunk, Head(q) # NextChunk
    PROVE  IInv'
<1>1. th.at = "idle" /\ q # <<>> /\ Types /\ DataIsImage /\ last' = last
  BY DEF IInv, ReadChunk
<1>2. Staged
  BY <1>1 DEF IInv, NotStaged
<1>3. Chunks /\ Waiting
  BY <1>1, <1>2 DEF IInv, Replacing, Resuming
<1>4. PICK o \in 0..ImageSize :
         q = <<o>> /\ ses.resume /\ Aligned(o) + 2 * ChunkSize <= ImageSize
  BY <1>1, <1>3 DEF Waiting
<1>. DEFINE p == Aligned(o)
            n == 2 * ChunkSize
<1>5. Boundary(p) /\ p \in Nat
  BY AlignedFacts DEF Boundary
<1>6. /\ q' = <<>> /\ ses' = ses /\ want' = want /\ resumes' = resumes
      /\ buf' = Filled(p, 0, n) /\ pos' = p + ReadFrom(p, n)
      /\ th' = [at |-> "resume", base |-> p, full |-> ReadFrom(p, n) = n, size |-> n]
  BY <1>4 DEF ReadChunk
<1>. HIDE DEF p
<1>7. p + n <= ImageSize /\ p \in 0..ImageSize /\ n \in Nat
  BY <1>4, <1>5, SizesAssumption DEF p
<1>8. ReadFrom(p, n) = n
  BY <1>7, ReadFromFacts
<1>9. /\ th'.at = "resume" /\ th'.base = p /\ th'.full
      /\ th' \in [at : {"idle", "even", "odd", "resume"}, base : Nat, full : BOOLEAN, size : Nat]
  BY <1>5, <1>6, <1>7, <1>8
<1>10. Types'
  BY <1>1, <1>6, <1>7, <1>8, <1>9 DEF Types
<1>11. buf' \in [Index -> Offsets] /\ \A i \in Index : buf'[i] = p + i
  <2>1. buf' \in [Index -> Offsets]
        /\ \A i \in Index : buf'[i] = IF i \in 0..(0 + n - 1) THEN p + i - 0 ELSE buf[i]
    BY <1>3, <1>6, <1>7, <1>8, FilledFacts DEF Chunks
  <2>. QED  BY <2>1, <1>5, SizesAssumption DEF Index
<1>12. Chunks' /\ Staged'
  BY <1>3, <1>6, <1>11, BufferIsStaged DEF Chunks, Low, Staged
<1>13. Resuming'
  BY <1>4, <1>5, <1>6, <1>7, <1>8, <1>9, <1>11, SizesAssumption DEF Resuming, Holds, Index
<1>14. ~InPlace
  BY <1>4 DEF InPlace
<1>15. Jumped => Jumped'
  BY <1>6 DEF Jumped
<1>16. Fresh => Fresh'
  <2>1. ASSUME q = <<want>> PROVE o = want
    BY <2>1, <1>4
  <2>. QED  BY <2>1, <1>1, <1>4, <1>6, <1>9 DEF Fresh, p, Aligned
<1>17. DataIsImage'
  BY <1>1 DEF DataIsImage
<1>. QED  BY <1>2, <1>6, <1>10, <1>12, <1>13, <1>14, <1>15, <1>16, <1>17 DEF IInv

\* A thread that is idle keeps its type.
LEMMA ThreadIdle ==
    ASSUME Types
    PROVE  LET t == [th EXCEPT !.at = "idle"]
           IN  t.at = "idle"
               /\ t \in [at : {"idle", "even", "odd", "resume"}, base : Nat, full : BOOLEAN, size : Nat]
  BY DEF Types

\* The older chunk becomes the newer.
LEMMA ReplacedStep ==
    ASSUME IInv, UpdateOffsets, th.at # "resume"
    PROVE  IInv'
<1>1. Types /\ DataIsImage /\ last' = last /\ q' = q /\ want' = want /\ resumes' = resumes
      /\ buf' = buf /\ pos' = pos
  BY DEF IInv, UpdateOffsets
<1>2. Staged /\ Chunks /\ Replacing
  BY DEF IInv, NotStaged, Waiting, Resuming, UpdateOffsets
<1>3. /\ th.at \in {"even", "odd"} /\ th.at = Replaced /\ q = <<>> /\ ~ses.resume
      /\ ses.file < ImageSize /\ th.size = Smaller(ChunkSize, ImageSize - ses.file)
      /\ pos = ses.file + th.size
  BY <1>2 DEF Replacing
<1>4. th'.at = "idle"
      /\ th' \in [at : {"idle", "even", "odd", "resume"}, base : Nat, full : BOOLEAN, size : Nat]
  BY <1>1, ThreadIdle DEF UpdateOffsets
<1>5. ses.file = Low + 2 * ChunkSize /\ Low \in Nat /\ ses \in Session
      /\ ses.even \in Nat /\ ses.odd \in Nat
  BY <1>1, <1>2, <1>3, ReplacedFacts, SizesAssumption DEF Chunks, Smaller, Types, Session
<1>6. pos = Smaller(Low + 3 * ChunkSize, ImageSize) /\ ses.file + th.size \in 0..ImageSize
  BY <1>3, <1>5, SizesAssumption DEF Smaller
<1>7. ses[th.at] = Low
  BY <1>1, <1>2, <1>3, ReplacedFacts
<1>8. ses' = [ses EXCEPT ![th.at] = Low + 2 * ChunkSize, !.file = ses.file + th.size]
  <2>1. ses' = [ses EXCEPT ![th.at] = ses[th.at] + 2 * ChunkSize, !.file = ses.file + th.size]
    BY <1>2, <1>3 DEF Replacing, UpdateOffsets
  <2>. QED  BY <2>1, <1>7
<1>9. /\ ses' \in Session /\ ses'.file = ses.file + th.size /\ ses'.resume = ses.resume
      /\ ses'.even = IF th.at = "even" THEN Low + 2 * ChunkSize ELSE ses.even
      /\ ses'.odd = IF th.at = "odd" THEN Low + 2 * ChunkSize ELSE ses.odd
  <2>. DEFINE a == th.at
              b == Low + 2 * ChunkSize
              f == ses.file + th.size
  <2>1. a \in {"even", "odd"} /\ b \in Nat /\ f \in 0..ImageSize /\ ses \in Session
    BY <1>3, <1>5, <1>6, SizesAssumption
  <2>2. ses' = [ses EXCEPT ![a] = b, !.file = f]
    BY <1>8
  <2>. HIDE DEF a, b, f
  <2>3. /\ ses' \in Session /\ ses'.file = f /\ ses'.resume = ses.resume
        /\ ses'.even = IF a = "even" THEN b ELSE ses.even
        /\ ses'.odd = IF a = "odd" THEN b ELSE ses.odd
    <3>1. CASE a = "even"
      <4>1. ses' = [ses EXCEPT !.even = b, !.file = f]
        BY <2>2, <3>1
      <4>2. /\ ses' \in Session /\ ses'.file = f /\ ses'.resume = ses.resume
            /\ ses'.even = b /\ ses'.odd = ses.odd
        BY <4>1, <2>1 DEF Session
      <4>. QED  BY <4>2, <3>1
    <3>2. CASE a = "odd"
      <4>1. ses' = [ses EXCEPT !.odd = b, !.file = f]
        BY <2>2, <3>2
      <4>2. /\ ses' \in Session /\ ses'.file = f /\ ses'.resume = ses.resume
            /\ ses'.even = ses.even /\ ses'.odd = b
        BY <4>1, <2>1 DEF Session
      <4>. QED  BY <4>2, <3>2
    <3>. QED  BY <3>1, <3>2, <2>1
  <2>. QED  BY <2>3 DEF a, b, f
<1>10. Types'
  BY <1>1, <1>4, <1>9 DEF Types
<1>11. Low' = Low + ChunkSize
       /\ (ses'.odd = ses'.even + ChunkSize \/ ses'.even = ses'.odd + ChunkSize)
  BY <1>1, <1>2, <1>3, <1>5, <1>9, ReplacedFacts, SizesAssumption DEF Low
<1>12. Boundary(ses'.even) /\ Boundary(ses'.odd)
  <2>1. Boundary(Low) /\ Boundary(ses.even) /\ Boundary(ses.odd)
    BY <1>2 DEF Chunks, Low
  <2>2. Boundary((Low + ChunkSize) + ChunkSize)
    BY <2>1, BoundaryFacts
  <2>3. (Low + ChunkSize) + ChunkSize = Low + 2 * ChunkSize
    BY <1>5, SizesAssumption
  <2>4. Boundary(Low + 2 * ChunkSize)
    BY <2>2, <2>3
  <2>. QED  BY <2>1, <2>4, <1>9
<1>13. Chunks'
  <2>1. Low' + ChunkSize < ImageSize
    BY <1>3, <1>5, <1>11, SizesAssumption
  <2>2. ses'.file = Smaller(Low' + 2 * ChunkSize, ImageSize)
    <3>1. ses'.file = pos
      BY <1>3, <1>9
    <3>2. Low' + 2 * ChunkSize = Low + 3 * ChunkSize
      BY <1>5, <1>11, SizesAssumption
    <3>. QED  BY <3>1, <3>2, <1>6
  <2>3. buf' \in [Index -> Offsets]
    BY <1>1, <1>2 DEF Chunks
  <2>. QED  BY <2>1, <2>2, <2>3, <1>11, <1>12 DEF Chunks
<1>14. Waiting'
  <2>1. Holds(0, ses.even)'
    BY <1>1, <1>2, <1>3, <1>5, <1>9, ReplacedFacts DEF Replacing, Holds
  <2>2. Holds(ChunkSize, ses.odd)'
    BY <1>1, <1>2, <1>3, <1>5, <1>9, ReplacedFacts DEF Replacing, Holds
  <2>. QED  BY <2>1, <2>2, <1>1, <1>3, <1>4, <1>9 DEF Waiting
<1>15. InPlace => InPlace'
  <2>. SUFFICES ASSUME InPlace PROVE InPlace'
    OBVIOUS
  <2>1. Low + ChunkSize <= want /\ want <= ses.file
    BY <1>3 DEF InPlace, ReadsNext
  <2>2. ses'.file \in Nat /\ ses.file <= ses'.file
    BY <1>3, <1>5, <1>9, SizesAssumption DEF Smaller
  <2>3. q' # <<NextChunk>> /\ ~ReadsNext'
    BY <1>1, <1>3, <1>4 DEF ReadsNext
  <2>. QED  BY <2>1, <2>2, <2>3, <1>1, <1>3, <1>5, <1>9, <1>11, SizesAssumption DEF InPlace, Types
<1>16. Jumped => Jumped'
  BY <1>1 DEF Jumped
<1>17. ~Fresh
  BY <1>3 DEF Fresh
<1>18. DataIsImage' /\ Staged'
  BY <1>1, <1>2 DEF DataIsImage, Staged
<1>. QED  BY <1>1, <1>2, <1>10, <1>13, <1>14, <1>15, <1>16, <1>17, <1>18 DEF IInv

\* The chunks are where the controller resumed, and its request is answered.
LEMMA ResumedStep ==
    ASSUME IInv, UpdateOffsets, th.at = "resume"
    PROVE  IInv'
<1>1. Types /\ DataIsImage /\ last' = last /\ q' = q /\ want' = want /\ resumes' = resumes
      /\ buf' = buf /\ pos' = pos
  BY DEF IInv, UpdateOffsets
<1>2. Staged /\ Chunks /\ Resuming
  BY DEF IInv, NotStaged, Waiting, Replacing, UpdateOffsets
<1>3. /\ q = <<>> /\ ses.resume /\ th.full /\ th.base \in Nat /\ Boundary(th.base)
      /\ th.base + 2 * ChunkSize <= ImageSize /\ pos = th.base + 2 * ChunkSize
      /\ Holds(0, th.base) /\ Holds(ChunkSize, th.base + ChunkSize)
  BY <1>2 DEF Resuming, Boundary
<1>4. th'.at = "idle"
      /\ th' \in [at : {"idle", "even", "odd", "resume"}, base : Nat, full : BOOLEAN, size : Nat]
  BY <1>1, ThreadIdle DEF UpdateOffsets
<1>5. /\ ses' \in Session /\ ses'.even = th.base /\ ses'.odd = th.base + ChunkSize
      /\ ses'.file = th.base + 2 * ChunkSize /\ ~ses'.resume
  <2>1. ses' = Resumed(th.base)
    BY <1>3 DEF UpdateOffsets
  <2>2. /\ th.base + ChunkSize \in Nat /\ th.base + 2 * ChunkSize \in 0..ImageSize
        /\ ses \in Session
    BY <1>1, <1>3, SizesAssumption DEF Types
  <2>. DEFINE e == th.base
              o == th.base + ChunkSize
              f == th.base + 2 * ChunkSize
  <2>3. ses' = [ses EXCEPT !.even = e, !.odd = o, !.file = f, !.resume = FALSE]
    BY <2>1 DEF Resumed
  <2>4. e \in Nat /\ o \in Nat /\ f \in 0..ImageSize
    BY <1>3, <2>2
  <2>. HIDE DEF e, o, f
  <2>5. ses' \in Session /\ ses'.even = e /\ ses'.odd = o /\ ses'.file = f /\ ~ses'.resume
    BY <2>2, <2>3, <2>4 DEF Session
  <2>. QED  BY <2>5 DEF e, o, f
<1>6. Types'
  BY <1>1, <1>4, <1>5 DEF Types
<1>7. Low' = th.base
  BY <1>3, <1>5, SizesAssumption DEF Low
<1>8. Chunks'
  <2>1. Boundary(ses'.even) /\ Boundary(ses'.odd)
    BY <1>3, <1>5, BoundaryFacts
  <2>2. buf' \in [Index -> Offsets]
    BY <1>1, <1>2 DEF Chunks
  <2>. QED  BY <2>1, <2>2, <1>3, <1>5, <1>7, SizesAssumption DEF Chunks, Smaller
<1>9. Waiting'
  BY <1>1, <1>3, <1>4, <1>5 DEF Waiting, Holds
<1>10. ~InPlace
  BY <1>3 DEF InPlace
<1>11. Jumped => Jumped'
  BY <1>1 DEF Jumped
<1>12. Fresh => InPlace'
  <2>. SUFFICES ASSUME Fresh PROVE InPlace'
    OBVIOUS
  <2>1. th.base = Aligned(want) /\ want \in Nat
    BY <1>1 DEF Fresh, Types
  <2>2. th.base <= want /\ want < th.base + ChunkSize
    BY <2>1, AlignedFacts
  <2>3. ~ReadsNext'
    BY <1>1, <1>3, <1>4 DEF ReadsNext
  <2>. QED  BY <2>1, <2>2, <2>3, <1>1, <1>3, <1>5, <1>7, SizesAssumption DEF InPlace
<1>13. DataIsImage' /\ Staged'
  BY <1>1, <1>2 DEF DataIsImage, Staged
<1>. QED  BY <1>1, <1>2, <1>6, <1>8, <1>9, <1>10, <1>11, <1>12, <1>13 DEF IInv

\* The controller goes back to the start of a chunk.
LEMMA ControllerResumesStep ==
    ASSUME AirAssumption, IInv, ControllerResumes
    PROVE  IInv'
<1>. USE DEF ControllerResumes
<1>1. Types /\ last' = NoReply /\ q' = q /\ resumes' = resumes + 1 /\ ses' = ses /\ th' = th
      /\ buf' = buf /\ pos' = pos
  BY DEF IInv
<1>2. want' \in ResumeAt
  OBVIOUS
<1>3. Boundary(want') /\ want' + 2 * ChunkSize <= ImageSize /\ want' \in 0..ImageSize
  BY <1>2, ControllerAssumption, SizesAssumption DEF AirAssumption
<1>4. Types' /\ DataIsImage' /\ resumes' # 0
  BY <1>1, <1>3 DEF Types, DataIsImage, NoReply
<1>5. ~Staged => NotStaged' /\ ~Staged'
  <2>1. want' \in Nat
    BY <1>3
  <2>2. Aligned(want') = want'
    BY <2>1, <1>3, AlignedFacts
  <2>3. Aligned(want)' = Aligned(want')
    BY DEF Aligned
  <2>. QED  BY <2>2, <2>3, <1>1, <1>3, <1>4 DEF IInv, NotStaged, Staged
<1>6. Staged => Staged' /\ Chunks' /\ (Waiting' \/ Replacing' \/ Resuming') /\ Jumped'
  <2>. SUFFICES ASSUME Staged
                PROVE  Staged' /\ Chunks' /\ (Waiting' \/ Replacing' \/ Resuming') /\ Jumped'
    OBVIOUS
  <2>1. Chunks /\ (Waiting \/ Replacing \/ Resuming)
    BY DEF IInv
  <2>2. Staged' /\ Chunks' /\ Jumped'
    BY <2>1, <1>1, <1>3 DEF Staged, Chunks, Low, Jumped
  <2>3. Waiting => Waiting'
    BY <1>1 DEF Waiting, Holds
  <2>4. Replacing => Replacing'
    BY <1>1 DEF Replacing, Replaced, Holds
  <2>5. Resuming => Resuming'
    BY <1>1 DEF Resuming, Holds
  <2>. QED  BY <2>1, <2>2, <2>3, <2>4, <2>5
<1>. QED  BY <1>4, <1>5, <1>6 DEF IInv

\* A restart loses the chunks, not where the controller was.
LEMMA RestartStep ==
    ASSUME AirAssumption, IInv, Restart
    PROVE  IInv'
<1>. USE DEF Restart
<1>1. Types
  BY DEF IInv
<1>2. Types' /\ DataIsImage' /\ resumes' # 0 /\ ~Staged'
  BY <1>1, SizesAssumption
     DEF Types, Session, NewSession, IdleThread, DataIsImage, NoReply, Staged
<1>3. NotStaged'
  BY <1>2 DEF NotStaged, IdleThread, AirAssumption, Aligned
<1>. QED  BY <1>2, <1>3 DEF IInv

\* When the controller asks the thread waits, and nothing is requested of it.
LEMMA AskFacts ==
    ASSUME AirAssumption, IInv, MayAsk
    PROVE  /\ Staged /\ Types /\ Chunks /\ Waiting /\ q = <<>> /\ th.at = "idle" /\ ~ses.resume
           /\ ~ReadsNext /\ Low \in Nat /\ ses.file = Smaller(Low + 2 * ChunkSize, ImageSize)
           /\ want \in Nat /\ want < ImageSize
           /\ Length \in 1..PacketSize /\ want + Length <= ImageSize
<1>1. Staged /\ Types /\ q = <<>> /\ th.at = "idle" /\ want < ImageSize
  BY DEF AirAssumption, IInv, MayAsk
<1>2. Chunks /\ Waiting
  BY <1>1 DEF IInv, Replacing, Resuming
<1>3. ~ses.resume
  BY <1>1, <1>2 DEF Waiting
<1>4. ~ReadsNext
  BY <1>1 DEF ReadsNext
<1>5. Low \in Nat
  BY <1>1, <1>2, ReplacedFacts
<1>6. want \in Nat /\ Length \in 1..PacketSize /\ want + Length <= ImageSize
  BY <1>1, SizesAssumption DEF Types, Length, Smaller
<1>. QED  BY <1>1, <1>2, <1>3, <1>4, <1>5, <1>6 DEF Chunks

\* A request whose data is found is within the two chunks.
LEMMA FoundIsWithin ==
    ASSUME AirAssumption, IInv, MayAsk, Found(want, Length)
    PROVE  Low <= want /\ want + Length <= Low + 2 * ChunkSize
<1>1. /\ Types /\ Chunks /\ Low \in Nat /\ want \in Nat /\ Length \in 1..PacketSize
      /\ Staged
  BY AskFacts
<1>2. ses.even \in Nat /\ ses.odd \in Nat /\ Boundary(ses.even) /\ Boundary(ses.odd)
      /\ (ses.odd = ses.even + ChunkSize \/ ses.even = ses.odd + ChunkSize)
  BY <1>1 DEF Types, Session, Chunks
<1>3. /\ Low < want + Length /\ want + Length <= Low + 2 * ChunkSize
      /\ Low <= want \/ want < Low
  BY <1>1, <1>2, SizesAssumption DEF Found, Inside, EvenToOdd, OddToEven, Low
<1>4. InPlace => Low <= want
  BY DEF InPlace
<1>5. Jumped => Low <= want
  <2>. SUFFICES ASSUME Boundary(want), want < Low PROVE FALSE
    BY <1>3 DEF Jumped
  <2>1. want + ChunkSize <= Low
    BY <1>2, BoundaryFacts DEF Low
  <2>. QED  BY <2>1, <1>1, <1>3, SizesAssumption
<1>6. Fresh => Low <= want
  BY <1>1, SizesAssumption DEF Fresh, Low
<1>. QED  BY <1>1, <1>3, <1>4, <1>5, <1>6 DEF IInv

\* What is sent are the bytes of the image.
LEMMA BytesAreImage ==
    ASSUME AirAssumption, IInv, MayAsk, Found(want, Length),
           NEW o \in want..(want + Length - 1)
    PROVE  ByteAt(want, Length, o) = o
<1>1. /\ Types /\ Chunks /\ Waiting /\ Low \in Nat /\ want \in Nat /\ Length \in 1..PacketSize
      /\ want + Length <= ImageSize
  BY AskFacts
<1>2. ses.even \in Nat /\ ses.odd \in Nat
      /\ (ses.odd = ses.even + ChunkSize \/ ses.even = ses.odd + ChunkSize)
  BY <1>1 DEF Types, Session, Chunks
<1>3. Low <= want /\ want + Length <= Low + 2 * ChunkSize
  BY FoundIsWithin
<1>4. o \in Nat /\ o < ImageSize /\ want <= o /\ o < want + Length
  BY <1>1, SizesAssumption
<1>5. ASSUME ses.even <= o, o < ses.even + ChunkSize PROVE InMemory(o - ses.even) = o
  <2>1. o - ses.even \in 0..(ChunkSize - 1) /\ o - ses.even \in Index
    BY <1>2, <1>4, <1>5, SizesAssumption DEF Index
  <2>2. buf[0 + (o - ses.even)] = ses.even + (o - ses.even)
    BY <2>1, <1>1, <1>2, <1>4 DEF Waiting, Holds
  <2>3. 0 + (o - ses.even) = o - ses.even /\ ses.even + (o - ses.even) = o
    BY <1>2, <1>4
  <2>. QED  BY <2>1, <2>2, <2>3 DEF InMemory
<1>6. ASSUME ses.odd <= o, o < ses.odd + ChunkSize PROVE InMemory(ChunkSize + o - ses.odd) = o
  <2>1. o - ses.odd \in 0..(ChunkSize - 1) /\ ChunkSize + o - ses.odd \in Index
    BY <1>2, <1>4, <1>6, SizesAssumption DEF Index
  <2>2. buf[ChunkSize + (o - ses.odd)] = ses.odd + (o - ses.odd)
    BY <2>1, <1>1, <1>2, <1>4 DEF Waiting, Holds
  <2>3. ChunkSize + (o - ses.odd) = ChunkSize + o - ses.odd /\ ses.odd + (o - ses.odd) = o
    BY <1>2, <1>4, SizesAssumption
  <2>. QED  BY <2>1, <2>2, <2>3 DEF InMemory
<1>7. CASE ses.odd = ses.even + ChunkSize
  <2>1. Low = ses.even /\ ~OddToEven(want, Length)
    BY <1>2, <1>7, SizesAssumption DEF Low, OddToEven
  <2>2. ASSUME ses.odd <= o PROVE InMemory(o - ses.even) = o
    <3>1. o - ses.even = ChunkSize + o - ses.odd
      BY <1>2, <1>4, <1>7, SizesAssumption
    <3>2. o < ses.odd + ChunkSize
      BY <1>1, <1>2, <1>3, <1>4, <1>7, <2>1, SizesAssumption
    <3>. QED  BY <3>1, <3>2, <2>2, <1>6
  <2>3. InMemory(o - ses.even) = o
    BY <2>1, <2>2, <1>1, <1>2, <1>3, <1>4, <1>5, <1>7, SizesAssumption
  <2>4. Inside(want, Length, ses.odd) => InMemory(ChunkSize + o - ses.odd) = o
    BY <1>1, <1>2, <1>4, <1>6, SizesAssumption DEF Inside
  <2>. QED  BY <2>1, <2>3, <2>4 DEF ByteAt, Found
<1>8. CASE ses.even = ses.odd + ChunkSize
  <2>1. Low = ses.odd /\ ~EvenToOdd(want, Length) /\ ~(want < ses.odd)
    BY <1>1, <1>2, <1>3, <1>8, SizesAssumption DEF Low, EvenToOdd
  <2>2. Inside(want, Length, ses.even) => InMemory(o - ses.even) = o
    BY <1>1, <1>2, <1>4, <1>5, SizesAssumption DEF Inside
  <2>3. o < ses.even => InMemory(ChunkSize + o - ses.odd) = o
    BY <2>1, <1>1, <1>2, <1>3, <1>4, <1>6, <1>8, SizesAssumption
  <2>4. ~(o < ses.even) => InMemory(o - ses.even) = o
    BY <2>1, <1>1, <1>2, <1>3, <1>4, <1>5, <1>8, SizesAssumption
  <2>5. Inside(want, Length, ses.odd) => o < ses.even
    BY <1>1, <1>2, <1>4, <1>8, SizesAssumption DEF Inside
  <2>. QED  BY <2>1, <2>2, <2>3, <2>4, <2>5 DEF ByteAt, Found
<1>. QED  BY <1>2, <1>7, <1>8

\* A request is answered: the controller is in the two chunks, and the next one is asked for
\* before it leaves them, after it has left the older.
LEMMA DataRequestStep ==
    ASSUME AirAssumption, IInv, DataRequest
    PROVE  IInv'
<1>1. MayAsk /\ Found(want, Length)
  BY DEF DataRequest
<1>2. /\ Staged /\ Types /\ Chunks /\ Waiting /\ q = <<>> /\ th.at = "idle" /\ ~ses.resume
      /\ Low \in Nat /\ ses.file = Smaller(Low + 2 * ChunkSize, ImageSize)
      /\ want \in Nat /\ want < ImageSize /\ Length \in 1..PacketSize /\ want + Length <= ImageSize
  BY <1>1, AskFacts
<1>3. Low <= want /\ want + Length <= Low + 2 * ChunkSize
  BY <1>1, FoundIsWithin
<1>4. /\ q' = IF ReadAhead(want, Length) THEN Append(q, NextChunk) ELSE q
      /\ (want' = want + Length /\ last' = Reply(want, Length)) \/ (want' = want /\ last' = last)
      /\ buf' = buf /\ pos' = pos /\ th' = th /\ resumes' = resumes
  BY DEF DataRequest
<1>5. /\ ses' \in Session /\ ses'.even = ses.even /\ ses'.odd = ses.odd /\ ses'.file = ses.file
      /\ ~ses'.resume
  <2>. DEFINE c == ses.ctl + Length
              w == ses.waiting \/ ses.ctl + Length >= ImageSize
  <2>1. ses \in Session /\ ses.ctl \in Nat
    BY <1>2 DEF Types, Session
  <2>2. c \in Nat
    BY <1>2, <2>1, SizesAssumption
  <2>3. w \in BOOLEAN
    OBVIOUS
  <2>4. ses' = [ses EXCEPT !.ctl = c, !.waiting = w]
    BY <2>1 DEF DataRequest, Session
  <2>. HIDE DEF c, w
  <2>. QED  BY <2>1, <2>2, <2>3, <2>4, <1>2 DEF Session
<1>6. want' \in 0..ImageSize /\ want <= want'
  BY <1>2, <1>4, SizesAssumption
<1>7. Types'
  BY <1>2, <1>4, <1>5, <1>6 DEF Types
<1>8. DataIsImage'
  <2>1. CASE last' = last
    BY <2>1 DEF IInv, DataIsImage
  <2>2. CASE last' = Reply(want, Length)
    <3>1. /\ last'.off = want
          /\ last'.bytes = [i \in 1..Length |-> ByteAt(want, Length, want + i - 1)]
      BY <2>2 DEF Reply
    <3>2. ASSUME NEW i \in 1..Length PROVE ByteAt(want, Length, want + i - 1) = want + i - 1
      <4>1. want + i - 1 \in want..(want + Length - 1)
        BY <1>2, <3>2, SizesAssumption
      <4>. QED  BY <4>1, <1>1, BytesAreImage
    <3>. QED  BY <3>1, <3>2 DEF DataIsImage
  <2>. QED  BY <1>4, <2>1, <2>2
<1>9. Chunks' /\ Staged' /\ Low' = Low
  BY <1>2, <1>4, <1>5 DEF Chunks, Low, Staged
<1>10. /\ ReadAhead(want, Length) => q' = <<NextChunk>> /\ ses.file < ImageSize
       /\ ~ReadAhead(want, Length) => q' = <<>>
  BY <1>2, <1>4 DEF ReadAhead
<1>11. Waiting'
  BY <1>2, <1>4, <1>5, <1>10 DEF Waiting, Holds
<1>12. InPlace'
  <2>1. want' \in Nat /\ Low <= want' /\ want' <= ses.file
    BY <1>2, <1>3, <1>4, SizesAssumption DEF Smaller
  <2>2. CASE ReadAhead(want, Length)
    <3>1. ses.file = Low + 2 * ChunkSize /\ want + Length + (ChunkSize - Margin) > ses.file
      BY <2>2, <1>2, SizesAssumption DEF ReadAhead, Smaller
    <3>2. Low + ChunkSize <= want
      BY <3>1, <1>2, SizesAssumption
    <3>. QED  BY <3>2, <2>1, <2>2, <1>2, <1>4, <1>5, <1>6, <1>9, <1>10, SizesAssumption
              DEF InPlace, ReadsNext
  <2>3. CASE ~ReadAhead(want, Length)
    <3>1. ses.file = ImageSize \/ want' <= Low + ChunkSize + Margin
      BY <2>3, <1>2, <1>4, SizesAssumption DEF ReadAhead, Smaller
    <3>2. ~ReadsNext'
      BY <2>3, <1>2, <1>4, <1>10 DEF ReadsNext
    <3>. QED  BY <3>1, <3>2, <2>1, <1>5, <1>9 DEF InPlace
  <2>. QED  BY <2>2, <2>3
<1>. QED  BY <1>7, <1>8, <1>9, <1>11, <1>12 DEF IInv

\* In place, the data asked for is in memory.
LEMMA InPlaceIsFound ==
    ASSUME AirAssumption, IInv, MayAsk, InPlace
    PROVE  Found(want, Length)
<1>1. /\ Types /\ Chunks /\ Low \in Nat /\ want \in Nat /\ Length \in 1..PacketSize
      /\ want + Length <= ImageSize /\ ~ReadsNext
      /\ ses.file = Smaller(Low + 2 * ChunkSize, ImageSize)
  BY AskFacts
<1>2. ses.even \in Nat /\ ses.odd \in Nat
      /\ (ses.odd = ses.even + ChunkSize \/ ses.even = ses.odd + ChunkSize)
  BY <1>1 DEF Types, Session, Chunks
<1>3. Low <= want /\ want + Length <= Low + 2 * ChunkSize
  BY <1>1, SizesAssumption DEF InPlace, Smaller
<1>. QED  BY <1>1, <1>2, <1>3, SizesAssumption DEF Found, Inside, EvenToOdd, OddToEven, Low

\* A request whose data is not in memory: both chunks are asked for.
LEMMA DataMissStep ==
    ASSUME AirAssumption, IInv, DataMiss
    PROVE  IInv'
<1>1. MayAsk /\ ~Found(want, Length)
  BY DEF DataMiss
<1>2. /\ Staged /\ Types /\ Chunks /\ Waiting /\ q = <<>> /\ th.at = "idle" /\ want \in Nat
      /\ want \in 0..ImageSize
  BY <1>1, AskFacts DEF Types
<1>3. ~InPlace
  BY <1>1, InPlaceIsFound
<1>4. /\ q' = <<want>> /\ want' = want /\ last' = last
      /\ buf' = buf /\ pos' = pos /\ th' = th /\ resumes' = resumes
  BY <1>2 DEF DataMiss
<1>5. /\ ses' \in Session /\ ses'.even = ses.even /\ ses'.odd = ses.odd /\ ses'.file = ses.file
      /\ ses'.resume
  BY <1>2, SessionMissed DEF DataMiss, Types
<1>6. Types' /\ DataIsImage'
  BY <1>2, <1>4, <1>5 DEF Types, DataIsImage, IInv
<1>7. Chunks' /\ Staged'
  BY <1>2, <1>4, <1>5 DEF Chunks, Low, Staged
<1>8. Aligned(want) + 2 * ChunkSize <= ImageSize
  BY <1>2, <1>3, AlignedFacts DEF IInv, Jumped, Fresh
<1>9. Waiting'
  BY <1>2, <1>4, <1>5, <1>8 DEF Waiting, Holds
<1>10. Jumped => Jumped'
  BY <1>4 DEF Jumped
<1>11. Fresh => Fresh'
  BY <1>2, <1>4, <1>5 DEF Fresh, Aligned
<1>. QED  BY <1>2, <1>3, <1>4, <1>6, <1>7, <1>9, <1>10, <1>11 DEF IInv

\* Every step keeps the invariant.
LEMMA StepInvariant ==
    ASSUME AirAssumption
    PROVE  IInv /\ [Next]_vars => IInv'
<1>. SUFFICES ASSUME IInv, [Next]_vars PROVE IInv'
  OBVIOUS
<1>1. CASE Stage
  BY <1>1, StageStep
<1>2. CASE ReadChunk
  BY <1>2, ReadNextStep, ReadResumeStep
<1>3. CASE UpdateOffsets
  BY <1>3, ReplacedStep, ResumedStep
<1>4. CASE DataRequest
  BY <1>4, DataRequestStep
<1>5. CASE DataMiss
  BY <1>5, DataMissStep
<1>6. CASE ControllerResumes
  BY <1>6, ControllerResumesStep
<1>7. CASE Restart
  BY <1>7, RestartStep
<1>8. CASE UNCHANGED vars
  BY <1>8 DEF vars, IInv, Types, DataIsImage, Staged, NotStaged, Chunks, Low, Waiting, Holds,
              Replacing, Replaced, Resuming, InPlace, ReadsNext, Jumped, Fresh, Aligned
<1>. QED  BY <1>1, <1>2, <1>3, <1>4, <1>5, <1>6, <1>7, <1>8 DEF Next, Thread

\* The invariant says what is asked for.
LEMMA InvariantIsSound == IInv => ChunksSound
<1>. SUFFICES ASSUME IInv PROVE ChunksSound
  OBVIOUS
<1>1. Types /\ DataIsImage
  BY DEF IInv
<1>2. CASE ~Staged
  <2>1. NotStaged
    BY <1>2 DEF IInv
  <2>2. TypeOK
    BY <2>1, <1>1, <1>2, SizesAssumption DEF TypeOK, NotStaged, NewSession, Types, Offsets
  <2>3. InOrderNeverMisses /\ ReadAheadIsBehind
    BY <2>1 DEF InOrderNeverMisses, ReadAheadIsBehind, NotStaged, NewSession
  <2>. QED  BY <2>2, <2>3, <1>1 DEF ChunksSound
<1>3. CASE Staged
  <2>1. Chunks /\ (Waiting \/ Replacing \/ Resuming)
    BY <1>3 DEF IInv
  <2>2. q \in Seq(Offsets \cup {NextChunk})
    <3>1. \A o \in 0..ImageSize : o \in Offsets
      BY SizesAssumption DEF Offsets
    <3>2. q = <<>> \/ q = <<NextChunk>> \/ \E o \in 0..ImageSize : q = <<o>>
      BY <2>1 DEF Waiting, Replacing, Resuming
    <3>3. << >> \in Seq(Offsets \cup {NextChunk})
      OBVIOUS
    <3>4. \A x \in Offsets \cup {NextChunk} : <<x>> \in Seq(Offsets \cup {NextChunk})
      OBVIOUS
    <3>. QED  BY <3>1, <3>2, <3>3, <3>4
  <2>3. ses.even \in Offsets /\ ses.odd \in Offsets
    BY <1>1, <2>1, SizesAssumption DEF Types, Session, Chunks, Low, Offsets
  <2>4. ses \in [even : Offsets, odd : Offsets, file : 0..ImageSize, ctl : Nat,
                 resume : BOOLEAN, waiting : BOOLEAN]
    BY <1>1, <2>3 DEF Types, Session
  <2>5. TypeOK
    BY <1>1, <2>1, <2>2, <2>4 DEF TypeOK, Types, Chunks
  <2>6. InOrderNeverMisses
    BY <1>3 DEF InOrderNeverMisses, IInv, InPlace
  <2>7. ReadAheadIsBehind
    <3>. SUFFICES ASSUME th.at = "idle", resumes = 0, q # <<>>, Head(q) = NextChunk
                  PROVE  ses[Replaced] + ChunkSize <= want
      BY DEF ReadAheadIsBehind
    <3>1. InPlace
      BY <1>3 DEF IInv
    <3>2. q = <<NextChunk>>
      BY <2>1, <3>1 DEF Waiting, Replacing, Resuming, InPlace
    <3>. QED  BY <3>1, <3>2, <1>1, <2>1, ReplacedFacts DEF InPlace, ReadsNext
  <2>. QED  BY <2>5, <2>6, <2>7, <1>1 DEF ChunksSound
<1>. QED  BY <1>2, <1>3

\* Every reply of ctrlm_device_update_rf4ce_image_data_read has the bytes of the image at the
\* offset that the controller asked for, one that reads in order never misses the two chunks,
\* and the read ahead overwrites what is behind it, while the thread reads in time and
\* controllers go back to the start of a chunk.
THEOREM RepliesAreImage ==
    ASSUME AirAssumption
    PROVE  Spec => []ChunksSound
<1>1. Init => IInv
  BY InitInvariant
<1>2. IInv /\ [Next]_vars => IInv'
  BY StepInvariant
<1>3. IInv => ChunksSound
  BY InvariantIsSound
<1>. QED  BY <1>1, <1>2, <1>3, PTL DEF Spec
=============================================================================
