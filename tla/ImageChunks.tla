----------------------------- MODULE ImageChunks -----------------------------
(***************************************************************************)
(* How a controller's firmware image is read from its file, in             *)
(* ctrlm_device_update.cpp.  Two chunks of the file are kept in memory;    *)
(* the main thread answers the controller's data requests from them, and   *)
(* asks the device update thread, by messages, for the chunk after the     *)
(* next, or for another place in the file when the controller resumes.     *)
(* Bytes are abstracted to the offset in the file they come from.          *)
(***************************************************************************)
EXTENDS Naturals, Integers, Sequences

CONSTANTS
    ChunkSize,   \* DEVICE_UPDATE_IMAGE_CHUNK_SIZE, 2048
    Margin,      \* ChunkSize - DEVICE_UPDATE_IMAGE_CHUNK_THRESHOLD, 128
    PacketSize,  \* the length a controller asks for, at most 88
    ImageSize,   \* image_info->size
    ResumeAt,    \* the offsets a controller may go back to
    RestartAt,   \* the offsets a controller may have reached when the control manager restarts
    Prompt,      \* TRUE if the thread has read before the controller asks again
    MaxResumes,  \* bound: times a download is resumed
    MaxLost      \* bound: replies lost on the air

ASSUME SizesAssumption ==
    /\ ChunkSize \in Nat /\ Margin \in Nat /\ PacketSize \in Nat
    /\ 0 < PacketSize /\ PacketSize < Margin /\ Margin + PacketSize <= ChunkSize
    /\ ImageSize \in Nat \ {0}

ASSUME ControllerAssumption ==
    /\ ResumeAt \subseteq 0..(ImageSize - 1) /\ RestartAt \subseteq 0..(ImageSize - 1)
    /\ Prompt \in BOOLEAN
    /\ MaxResumes \in Nat /\ MaxLost \in Nat

VARIABLES
    buf,      \* the two chunks: for each byte the file offset it was read from; <<>> before staging
    pos,      \* position of the file descriptor
    ses,      \* the session's offsets, byte counts and flags
    q,        \* the thread's queue: offsets to read at, or Next
    th,       \* the thread, between its fread and the update of the offsets
    want,     \* the controller: the offset it needs next
    last,     \* the last reply: the offset asked for and the bytes sent
    resumes,  \* times the download has been resumed
    lost      \* replies lost so far

vars == <<buf, pos, ses, q, th, want, last, resumes, lost>>

NextChunk == -1
Garbage == -2
Index == 0..(2 * ChunkSize - 1)
NoReply == [off |-> 0, bytes |-> <<>>]
Smaller(a, b) == IF a < b THEN a ELSE b

-----------------------------------------------------------------------------
(* The device update thread.                                               *)

\* fread(&buf[at], 1, n, fd): what it reads, and the buffer afterwards
ReadFrom(p, n) == IF p >= ImageSize THEN 0 ELSE Smaller(n, ImageSize - p)
Filled(p, at, n) ==
    [i \in Index |-> IF i \in at..(at + ReadFrom(p, n) - 1) THEN p + i - at ELSE buf[i]]

\* DEVICE_UPDATE_QUEUE_MSG_TYPE_IMAGE_STAGE: both chunks are read, or none
Stage ==
    /\ buf = <<>> /\ pos = 0
    /\ pos' = ReadFrom(0, 2 * ChunkSize)
    /\ IF pos' = 2 * ChunkSize
         THEN /\ buf' = [i \in Index |-> i]
              /\ ses' = [ses EXCEPT !.odd = ChunkSize, !.file = pos']
         ELSE UNCHANGED <<buf, ses>>
    /\ UNCHANGED <<q, th, want, last, resumes, lost>>

\* Mutant of Replaced: the newer chunk is overwritten.
ReplacedNewer == IF ses.even > ses.odd THEN "even" ELSE "odd"

\* The chunk that a read of the next one overwrites: the older of the two.
Replaced == IF ses.even > ses.odd THEN "odd" ELSE "even"

\* Mutant of ChunkLeft: a whole chunk is always asked for.
ChunkLeftWhole(base) == ChunkSize

\* How much of it the file still has.  Past the end of the file the code's
\* unsigned difference wraps, and fread stops at the end.
ChunkLeft(base) ==
    IF base + 2 * ChunkSize > ImageSize THEN ImageSize
    ELSE Smaller(ChunkSize, ImageSize - (base + 2 * ChunkSize))

\* Mutant of Aligned: rounded up.
AlignedUp(offset) == offset + ChunkSize - 1 - ((offset + ChunkSize - 1) % ChunkSize)

\* The chunk an offset is in: offset & ~(DEVICE_UPDATE_IMAGE_CHUNK_SIZE - 1)
Aligned(offset) == offset - (offset % ChunkSize)

\* DEVICE_UPDATE_QUEUE_MSG_TYPE_IMAGE_READ, up to fread
ReadChunk ==
    /\ th.at = "idle" /\ q # <<>>
    /\ q' = Tail(q)
    /\ LET next == Head(q) = NextChunk
           p    == IF next THEN pos ELSE Aligned(Head(q))
           n    == IF next THEN ChunkLeft(ses[Replaced]) ELSE 2 * ChunkSize
           at   == IF next /\ Replaced = "odd" THEN ChunkSize ELSE 0
       IN  /\ buf' = Filled(p, at, n)
           /\ pos' = p + ReadFrom(p, n)
           /\ th' = [at |-> IF next THEN Replaced ELSE "resume",
                     base |-> p, full |-> ReadFrom(p, n) = n, size |-> n]
    /\ UNCHANGED <<ses, want, last, resumes, lost>>

\* Mutant of Resumed: the request stays pending.
ResumedStill(base) ==
    [ses EXCEPT !.even = base, !.odd = base + ChunkSize, !.file = base + 2 * ChunkSize]

\* The session once the chunks at base have been read.
Resumed(base) ==
    [ses EXCEPT !.even = base, !.odd = base + ChunkSize, !.file = base + 2 * ChunkSize,
                !.resume = FALSE]

\* ... and the update of the session's offsets, if everything asked for was read
UpdateOffsets ==
    /\ th.at # "idle"
    /\ th' = [th EXCEPT !.at = "idle"]
    /\ ses' = IF ~th.full THEN ses
              ELSE IF th.at = "resume" THEN Resumed(th.base)
              ELSE [ses EXCEPT ![th.at] = @ + 2 * ChunkSize, !.file = @ + th.size]
    /\ UNCHANGED <<buf, pos, q, want, last, resumes, lost>>

-----------------------------------------------------------------------------
(* ctrlm_device_update_rf4ce_image_data_read, on the main thread.          *)

Inside(off, len, base) == off >= base /\ off + len <= base + ChunkSize
EvenToOdd(off, len) == ses.odd > ses.even /\ off < ses.odd /\ off + len > ses.even
OddToEven(off, len) == ses.even > ses.odd /\ off < ses.even /\ off + len > ses.odd

\* Mutant of Found: a request that crosses from the odd to the even chunk is missed.
FoundNotCrossing(off, len) ==
    Inside(off, len, ses.even) \/ Inside(off, len, ses.odd) \/ EvenToOdd(off, len)

\* The data asked for is taken to be in memory.
Found(off, len) ==
    \/ Inside(off, len, ses.even) \/ Inside(off, len, ses.odd)
    \/ EvenToOdd(off, len) \/ OddToEven(off, len)

InMemory(i) == IF i \in Index THEN buf[i] ELSE Garbage

\* Mutant of ByteAt: crossing from the odd to the even chunk is not handled.
ByteAtContiguous(off, len, o) ==
    IF Inside(off, len, ses.even) THEN InMemory(o - ses.even)
    ELSE InMemory(ChunkSize + o - ses.odd)

\* The byte sent for offset o of the request.  A copy that starts before the
\* buffer sends what is there.
ByteAt(off, len, o) ==
    IF Inside(off, len, ses.even) THEN InMemory(o - ses.even)
    ELSE IF Inside(off, len, ses.odd) THEN InMemory(ChunkSize + o - ses.odd)
    ELSE IF EvenToOdd(off, len) THEN InMemory(o - ses.even)
    ELSE IF off < ses.odd THEN Garbage
    ELSE IF o < ses.even THEN InMemory(ChunkSize + o - ses.odd)
    ELSE InMemory(o - ses.even)

Reply(off, len) ==
    [off |-> off, bytes |-> [i \in 1..len |-> ByteAt(off, len, off + i - 1)]]

\* Mutant of ReadAhead: the next chunk is read without the margin for a repeated packet.
ReadAheadEarly(off, len) == off + len + ChunkSize + PacketSize > ses.file /\ ses.file < ImageSize

\* Request to read the next chunk?
ReadAhead(off, len) ==
    off + len + (ChunkSize - Margin) > ses.file /\ ses.file < ImageSize

\* Mutant of Length: nobody looks at the size of the image.
LengthUnchecked == PacketSize

\* A request never reaches past the end of the image: the code refuses it.
Length == Smaller(PacketSize, ImageSize - want)
Staged == buf # <<>>
MayAsk == want < ImageSize /\ Staged /\ (Prompt => q = <<>> /\ th.at = "idle")

\* A request whose data is in memory; the reply may be lost, and is asked for again.
DataRequest ==
    /\ MayAsk
    /\ Found(want, Length)
    /\ q' = IF ReadAhead(want, Length) THEN Append(q, NextChunk) ELSE q
    /\ ses' = [ses EXCEPT !.ctl = @ + Length,
                          !.waiting = @ \/ ses.ctl + Length >= ImageSize]
    /\ \/ /\ want' = want + Length
          /\ last' = Reply(want, Length)
          /\ lost' = lost
       \/ /\ lost < MaxLost /\ lost' = lost + 1
          /\ UNCHANGED <<want, last>>
    /\ UNCHANGED <<buf, pos, th, resumes>>

\* A request whose data is not: the controller resumes somewhere else.
DataMiss ==
    /\ MayAsk
    /\ ~Found(want, Length)
    /\ ~ses.resume
    /\ q' = Append(q, want)
    /\ ses' = [ses EXCEPT !.ctl = want, !.resume = TRUE]
    /\ UNCHANGED <<buf, pos, th, want, last, resumes, lost>>

\* The controller (external) goes back to an earlier packet.
ControllerResumes ==
    /\ resumes < MaxResumes
    /\ \E o \in ResumeAt : o < want /\ want' = o
    /\ resumes' = resumes + 1
    /\ last' = NoReply
    /\ UNCHANGED <<buf, pos, ses, q, th, lost>>

NewSession == [even |-> 0, odd |-> 0, file |-> 0, ctl |-> 0,
               resume |-> FALSE, waiting |-> FALSE]
IdleThread == [at |-> "idle", base |-> 0, full |-> FALSE, size |-> 0]

\* The control manager restarts: ctrlm_device_update_rf4ce_session_resume_check begins
\* the stored session again, while the controller goes on where it was.
Restart ==
    /\ resumes < MaxResumes
    /\ want \in RestartAt
    /\ Staged
    /\ buf' = <<>> /\ pos' = 0 /\ ses' = NewSession /\ q' = <<>> /\ th' = IdleThread
    /\ last' = NoReply
    /\ resumes' = resumes + 1
    /\ UNCHANGED <<want, lost>>

-----------------------------------------------------------------------------
Init ==
    /\ buf = <<>> /\ pos = 0 /\ ses = NewSession /\ q = <<>> /\ th = IdleThread
    /\ want = 0 /\ last = NoReply
    /\ resumes = 0 /\ lost = 0

Thread == Stage \/ ReadChunk \/ UpdateOffsets
Next == Thread \/ DataRequest \/ DataMiss \/ ControllerResumes \/ Restart
Spec == Init /\ [][Next]_vars

\* The thread serves its queue and the controller goes on asking; nothing is
\* assumed of the air but the bound on what it loses.
FairSpec == Spec /\ WF_vars(Thread) /\ WF_vars(DataRequest) /\ WF_vars(DataMiss)

-----------------------------------------------------------------------------
(* Properties.                                                             *)

Offsets == 0..(ImageSize + 3 * ChunkSize)

\* Every variable has its type; no offset or count of the session leaves the image by
\* more than the chunks that are read ahead.
TypeOK ==
    /\ Staged => buf \in [Index -> Offsets]
    /\ pos \in 0..ImageSize
    /\ ses \in [even : Offsets, odd : Offsets, file : 0..ImageSize, ctl : Nat,
                resume : BOOLEAN, waiting : BOOLEAN]
    /\ q \in Seq(Offsets \cup {NextChunk})
    /\ th.at \in {"idle", "even", "odd", "resume"}
    /\ want \in 0..ImageSize

\* What a controller receives for an offset are the bytes of the image at that
\* offset, whichever chunks they were in and wherever it resumed.
DataIsImage == \A i \in DOMAIN last.bytes : last.bytes[i] = last.off + i - 1

\* A controller that reads the image in order, repeating at most the packet whose
\* reply was lost, always finds its data in the two chunks.
InOrderNeverMisses == resumes = 0 => ~ses.resume

\* The read ahead never overtakes the controller: what the thread is about to
\* overwrite is behind the packet that is asked for next.
ReadAheadIsBehind ==
    th.at = "idle" /\ resumes = 0 /\ q # <<>> /\ Head(q) = NextChunk
       => ses[Replaced] + ChunkSize <= want

\* Together: with every type kept, a reply is the image's, and in order none is missed.
ChunksSound == TypeOK /\ DataIsImage /\ InOrderNeverMisses /\ ReadAheadIsBehind

\* Every controller gets its whole image.
DownloadCompletes == <>(want = ImageSize)

\* A controller that resumed is answered from where it resumed, or the session
\* would wait for its data for ever.
ResumeServed == ses.resume ~> ~ses.resume
=============================================================================
