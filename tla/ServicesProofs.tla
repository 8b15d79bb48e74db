---------------------------- MODULE ServicesProofs ----------------------------
(***************************************************************************)
(* What is proved of the services that all networks share: the pairing     *)
(* window, the queue and the loop of the main thread, the record of key    *)
(* usage and the settings of voice.                                        *)
(***************************************************************************)
EXTENDS PairingWindow, MainQueue, MainLoop, KeyUsage, VoiceSettings,
        FiniteSetTheorems, SequenceTheorems, TLAPS

-----------------------------------------------------------------------------
(***************************************************************************)
(* No pairing window stays open for good and no failure is counted twice,  *)
(* for any networks and any number of requests, timers and messages.       *)
(***************************************************************************)

-----------------------------------------------------------------------------
(* The invariant.                                                          *)

IsWindow(w) ==
    /\ w = [active |-> w.active, mode |-> w.mode, status |-> w.status, autobind |-> w.autobind,
            on |-> w.on, failures |-> w.failures, taken |-> w.taken]
    /\ w.active \in BOOLEAN /\ w.taken \in BOOLEAN /\ w.on \subseteq Modes /\ w.failures \in Nat

Reasons == {"success", "end", "timeout"}
WindowMessages == {Close(r) : r \in Reasons} \cup {Stop(m) : m \in Modes}
            \cup {Status(s) : s \in {"pending", "asb", "hal"}}

TypeInv ==
    /\ IsWindow(window)
    /\ \A s \in sources : s.id \in 1..MaxTimers
    /\ posted \in Seq(WindowMessages)
    /\ requests \in Nat

\* The timer of an open window that will post its message, or has posted it.
Runs(m) == \E s \in sources : s # dispatched /\ s.mode = m
PostedMessages == \E i \in DOMAIN posted : posted[i] = Close("timeout")

\* A timer whose callback has posted and has yet to return is no longer one that runs: this is
\* what WindowTimed lacks.
OpenInv ==
    window.active /\ ~window.taken => window.mode \in window.on /\ (Runs(window.mode) \/ PostedMessages)

WindowInv == TypeInv /\ OpenInv /\ FailuresOnce

-----------------------------------------------------------------------------
(* The parts of the handlers.                                              *)

\* Modes that are on are few.
LEMMA ModesFinite ==
    ASSUME NEW A \in SUBSET Modes
    PROVE  IsFiniteSet(A) /\ Cardinality(A) \in Nat
<1>1. IsFiniteSet({"button", "screen", "onetouch"})
  <2>1. IsFiniteSet({})  BY FS_EmptySet
  <2>2. IsFiniteSet({} \cup {"button"})  BY <2>1, FS_AddElement
  <2>3. IsFiniteSet(({} \cup {"button"}) \cup {"screen"})  BY <2>2, FS_AddElement
  <2>4. IsFiniteSet((({} \cup {"button"}) \cup {"screen"}) \cup {"onetouch"})
    BY <2>3, FS_AddElement
  <2>5. {"button", "screen", "onetouch"} = ((({} \cup {"button"}) \cup {"screen"}) \cup {"onetouch"})
    OBVIOUS
  <2> QED  BY <2>4, <2>5
<1>2. IsFiniteSet(A)  BY <1>1, FS_Subset DEF Modes
<1> QED  BY <1>2, FS_CardinalityType

\* Fewer modes, and at most one more.
LEMMA FewerOn ==
    ASSUME NEW A \in SUBSET Modes, NEW B \in SUBSET A
    PROVE  Cardinality(B) \in Nat /\ Cardinality(A) \in Nat /\ Cardinality(B) <= Cardinality(A)
<1>1. IsFiniteSet(A) /\ Cardinality(A) \in Nat  BY ModesFinite
<1>2. Cardinality(B) <= Cardinality(A)  BY <1>1, FS_Subset
<1>3. Cardinality(B) \in Nat  BY ModesFinite
<1> QED  BY <1>1, <1>2, <1>3

\* One mode more is at most one more.
LEMMA OneMoreOn ==
    ASSUME NEW A \in SUBSET Modes, NEW m \in Modes, NEW B \in SUBSET (A \cup {m})
    PROVE  Cardinality(B) \in Nat /\ Cardinality(A) \in Nat /\ Cardinality(B) <= Cardinality(A) + 1
<1>1. IsFiniteSet(A) /\ Cardinality(A) \in Nat  BY ModesFinite
<1>2. Cardinality(A \cup {m}) <= Cardinality(A) + 1
  <2>1. Cardinality(A \cup {m}) = IF m \in A THEN Cardinality(A) ELSE Cardinality(A) + 1
    BY <1>1, FS_AddElement
  <2> QED  BY <2>1, <1>1
<1>3. Cardinality(A \cup {m}) \in Nat /\ Cardinality(B) \in Nat
  BY ModesFinite
<1>4. Cardinality(B) <= Cardinality(A \cup {m})
  <2>1. IsFiniteSet(A \cup {m})  BY ModesFinite
  <2> QED  BY <2>1, FS_Subset
<1> QED  BY <1>1, <1>2, <1>3, <1>4

\* A status leaves the rest of the window as it is.
LEMMA StatusKeeps ==
    ASSUME NEW w, IsWindow(w), NEW s
    PROVE  /\ IsWindow(StatusSet(w, s))
           /\ StatusSet(w, s).active = w.active /\ StatusSet(w, s).taken = w.taken
           /\ StatusSet(w, s).on = w.on /\ StatusSet(w, s).failures = w.failures
           /\ StatusSet(w, s).mode = w.mode
<1>1. CASE s = "hal" /\ w.status = "asb"
  BY <1>1 DEF StatusSet
<1>2. CASE ~(s = "hal" /\ w.status = "asb")
  <2>1. StatusSet(w, s) = [w EXCEPT !.status = s]
    BY <1>2 DEF StatusSet
  <2>2. [w EXCEPT !.status = s] =
          [active |-> w.active, mode |-> w.mode, status |-> s, autobind |-> w.autobind,
           on |-> w.on, failures |-> w.failures, taken |-> w.taken]
    BY DEF IsWindow
  <2> QED  BY <2>1, <2>2 DEF IsWindow
<1> QED  BY <1>1, <1>2

\* What a change of one or two fields makes of a window.
LEMMA FieldsChange ==
    ASSUME NEW w, IsWindow(w), NEW a, NEW b
    PROVE  /\ [w EXCEPT !.active = a] =
                [active |-> a, mode |-> w.mode, status |-> w.status, autobind |-> w.autobind,
                 on |-> w.on, failures |-> w.failures, taken |-> w.taken]
           /\ [w EXCEPT !.active = a, !.autobind = b] =
                [active |-> a, mode |-> w.mode, status |-> w.status, autobind |-> b,
                 on |-> w.on, failures |-> w.failures, taken |-> w.taken]
<1>1. w = [active |-> w.active, mode |-> w.mode, status |-> w.status, autobind |-> w.autobind,
           on |-> w.on, failures |-> w.failures, taken |-> w.taken]
  BY DEF IsWindow
<1>2. [w EXCEPT !.active = a] =
        [active |-> a, mode |-> w.mode, status |-> w.status, autobind |-> w.autobind,
         on |-> w.on, failures |-> w.failures, taken |-> w.taken]
  BY <1>1
<1>3. [w EXCEPT !.active = a, !.autobind = b] =
        [active |-> a, mode |-> w.mode, status |-> w.status, autobind |-> b,
         on |-> w.on, failures |-> w.failures, taken |-> w.taken]
  <2> SUFFICES ASSUME NEW v, v = [w EXCEPT !.active = a, !.autobind = b]
               PROVE  v = [active |-> a, mode |-> w.mode, status |-> w.status, autobind |-> b,
                           on |-> w.on, failures |-> w.failures, taken |-> w.taken]
    OBVIOUS
  <2> QED  BY <1>1
<1> QED  BY <1>2, <1>3

\* A window that is ended, for whatever reason, is not active.
LEMMA EndedIsClosed ==
    ASSUME NEW w, IsWindow(w), NEW r \in Reasons
    PROVE  /\ IsWindow(Ended(w, r)) /\ Ended(w, r).active = FALSE
           /\ Ended(w, r).on = w.on /\ Ended(w, r).failures = w.failures
<1>1. CASE ~w.active
  <2>1. Ended(w, r) = w  BY <1>1 DEF Ended
  <2> QED  BY <1>1, <2>1 DEF IsWindow
<1>2. CASE w.active
  <2> DEFINE shut == [w EXCEPT !.active = FALSE]
             back == [w EXCEPT !.active = FALSE, !.autobind = TRUE]
  <2>1. /\ shut = [active |-> FALSE, mode |-> w.mode, status |-> w.status,
                   autobind |-> w.autobind, on |-> w.on, failures |-> w.failures,
                   taken |-> w.taken]
        /\ back = [active |-> FALSE, mode |-> w.mode, status |-> w.status,
                   autobind |-> TRUE, on |-> w.on, failures |-> w.failures,
                   taken |-> w.taken]
    BY FieldsChange, Zenon
  <2>2. /\ IsWindow(shut) /\ shut.active = FALSE /\ shut.on = w.on /\ shut.failures = w.failures
        /\ IsWindow(back) /\ back.active = FALSE /\ back.on = w.on /\ back.failures = w.failures
    BY <2>1 DEF IsWindow
  <2>3. CASE r = "success"
    <3>1. Ended(w, r) = StatusSet(shut, "success")  BY <1>2, <2>3 DEF Ended
    <3> HIDE DEF shut
    <3> QED  BY <3>1, <2>2, StatusKeeps
  <2>4. CASE r = "end"
    <3>1. Ended(w, r) = back  BY <1>2, <2>4 DEF Ended
    <3> HIDE DEF back
    <3> QED  BY <3>1, <2>2
  <2>5. CASE r = "timeout"
    <3>1. Ended(w, r) = StatusSet(back, "timeout")  BY <1>2, <2>5 DEF Ended
    <3> HIDE DEF back
    <3> QED  BY <3>1, <2>2, StatusKeeps
  <2> QED  BY <2>3, <2>4, <2>5 DEF Reasons
<1> QED  BY <1>1, <1>2 DEF IsWindow

\* Closing counts each mode that is on once, and turns it off.
LEMMA ClosedCounts ==
    ASSUME WindowInv, NEW n, NEW r \in Reasons, CloseWindow(n, r)
    PROVE  /\ IsWindow(window') /\ window'.active = FALSE /\ sources' \subseteq sources
           /\ window'.failures + Cardinality(window'.on) <= requests
<1> DEFINE w == Ended(window, r)
           f == IF w.status = "success" THEN w.failures ELSE w.failures + Cardinality(w.on)
<1>1. /\ IsWindow(w) /\ w.active = FALSE /\ w.on = window.on /\ w.failures = window.failures
  BY EndedIsClosed DEF WindowInv, TypeInv
<1>2. window' = [w EXCEPT !.on = {}, !.taken = FALSE,
                  !.failures = IF w.status = "success" THEN @ ELSE @ + Cardinality(w.on)]
  BY DEF CloseWindow
<1>3. window' = [active |-> w.active, mode |-> w.mode, status |-> w.status,
                 autobind |-> w.autobind, on |-> {}, failures |-> f, taken |-> FALSE]
  <2> HIDE DEF w
  <2> QED  BY <1>1, <1>2 DEF IsWindow
<1>4. /\ Cardinality(window.on) \in Nat /\ window.failures \in Nat /\ requests \in Nat
      /\ window.failures + Cardinality(window.on) <= requests
  BY ModesFinite DEF WindowInv, TypeInv, IsWindow, FailuresOnce
<1>5. f \in Nat /\ f <= requests
  <2> HIDE DEF w
  <2> QED  BY <1>1, <1>4
<1>6. Cardinality({}) = 0  BY FS_EmptySet
<1>7. sources' \subseteq sources  BY DEF CloseWindow, Destroyed
<1> HIDE DEF w, f
<1> QED  BY <1>1, <1>3, <1>5, <1>6, <1>7 DEF IsWindow

\* A new timer has a number of its own, other than that of the callback that has yet to return.
LEMMA FreshWindowTimer ==
    ASSUME WindowInv, HasRoom
    PROVE  /\ FreshId \in 1..MaxTimers
           /\ \A s \in sources \cup {dispatched} : s.id # FreshId
<1> DEFINE Used == {s.id : s \in sources \cup {dispatched}} \cup {tags[m] : m \in Modes}
<1>1. \E i \in 1..MaxTimers : i \notin Used  BY DEF HasRoom
<1>2. FreshId = CHOOSE i \in 1..MaxTimers : i \notin Used  BY DEF FreshId
<1> HIDE DEF Used
<1>3. FreshId \in 1..MaxTimers /\ FreshId \notin Used  BY <1>1, <1>2
<1> QED  BY <1>3 DEF Used

\* What a new message leaves of the queue, and what handling the first one does.
LEMMA PostedGrows ==
    ASSUME posted \in Seq(WindowMessages), NEW msg \in WindowMessages, posted' = Append(posted, msg)
    PROVE  posted' \in Seq(WindowMessages) /\ (PostedMessages \/ msg = Close("timeout") => PostedMessages')
<1>1. posted' \in Seq(WindowMessages)  OBVIOUS
<1>2. Len(posted') = Len(posted) + 1 /\ Len(posted) \in Nat  OBVIOUS
<1>3. posted'[Len(posted) + 1] = msg /\ \A i \in 1..Len(posted) : posted'[i] = posted[i]
  OBVIOUS
<1>4. DOMAIN posted = 1..Len(posted) /\ DOMAIN posted' = 1..Len(posted')  BY <1>1
<1>5. ASSUME PostedMessages PROVE PostedMessages'
  <2>1. PICK i \in DOMAIN posted : posted[i] = Close("timeout")  BY <1>5 DEF PostedMessages
  <2>2. i \in DOMAIN posted' /\ posted'[i] = Close("timeout")  BY <2>1, <1>2, <1>3, <1>4
  <2> QED  BY <2>2 DEF PostedMessages, Close
<1>6. ASSUME msg = Close("timeout") PROVE PostedMessages'
  <2>1. Len(posted) + 1 \in DOMAIN posted'  BY <1>2, <1>4
  <2> QED  BY <2>1, <1>3, <1>6 DEF PostedMessages, Close
<1> QED  BY <1>1, <1>5, <1>6

\* The messages that are left when the first is handled.
LEMMA FirstMessageHandled ==
    ASSUME posted \in Seq(WindowMessages), posted # <<>>, posted' = Tail(posted)
    PROVE  /\ posted' \in Seq(WindowMessages) /\ Head(posted) \in WindowMessages
           /\ PostedMessages /\ Head(posted) # Close("timeout") => PostedMessages'
<1>1. posted' \in Seq(WindowMessages) /\ Head(posted) \in WindowMessages /\ Head(posted) = posted[1]
  OBVIOUS
<1>2. Len(posted') = Len(posted) - 1 /\ Len(posted) \in Nat /\ Len(posted) # 0
  OBVIOUS
<1>3. \A i \in 1..(Len(posted) - 1) : posted'[i] = posted[i + 1]
  OBVIOUS
<1>4. DOMAIN posted = 1..Len(posted) /\ DOMAIN posted' = 1..Len(posted')  BY <1>1
<1>5. ASSUME PostedMessages, Head(posted) # Close("timeout") PROVE PostedMessages'
  <2>1. PICK i \in DOMAIN posted : posted[i] = Close("timeout")  BY <1>5 DEF PostedMessages
  <2>2. i # 1  BY <2>1, <1>5, <1>1
  <2>3. i - 1 \in 1..(Len(posted) - 1)  BY <2>1, <2>2, <1>2, <1>4
  <2>4. posted'[i - 1] = Close("timeout")  BY <2>1, <2>2, <2>3, <1>2, <1>3, <1>4
  <2> QED  BY <2>3, <2>4, <1>2, <1>4 DEF PostedMessages, Close
<1> QED  BY <1>1, <1>5

-----------------------------------------------------------------------------
(* The steps.                                                              *)

\* A window that is started has one mode on and one source.
LEMMA WindowStartKeeps ==
    ASSUME WindowInv, NEW n \in Targets, NEW m \in Modes, StartPairing(n, m)
    PROVE  WindowInv'
<1> DEFINE id == FreshId
<1>1. /\ window' = [window EXCEPT !.active = TRUE, !.mode = m, !.status = "none",
                                 !.autobind = FALSE, !.on = {m}, !.taken = FALSE]
      /\ sources' = Destroyed(window.on) \cup {[id |-> id, mode |-> m]}
      /\ HasRoom /\ requests' = requests + 1 /\ UNCHANGED <<dispatched, posted>>
  BY DEF StartPairing
<1>2. id \in 1..MaxTimers /\ \A s \in sources \cup {dispatched} : s.id # id
  BY <1>1, FreshWindowTimer
<1> HIDE DEF id
<1>3. IsWindow(window) /\ requests \in Nat  BY DEF WindowInv, TypeInv
<1>4. window' = [active |-> TRUE, mode |-> m, status |-> "none", autobind |-> FALSE,
                 on |-> {m}, failures |-> window.failures, taken |-> FALSE]
  BY <1>1, <1>3 DEF IsWindow
<1>5. IsWindow(window')  BY <1>3, <1>4 DEF IsWindow
<1>6. TypeInv'
  BY <1>1, <1>2, <1>5 DEF WindowInv, TypeInv, Destroyed
<1>7. Runs(m)'
  <2>1. [id |-> id, mode |-> m] \in sources' /\ [id |-> id, mode |-> m] # dispatched
    BY <1>1, <1>2
  <2> QED  BY <2>1, <1>1 DEF Runs
<1>8. OpenInv'
  BY <1>4, <1>7 DEF OpenInv
<1>9. FailuresOnce'
  <2>1. Cardinality({m}) = 1  BY FS_Singleton
  <2>2. window.failures <= requests /\ window.failures \in Nat
    BY <1>3, ModesFinite DEF WindowInv, FailuresOnce, IsWindow
  <2> QED  BY <2>1, <2>2, <1>1, <1>3, <1>4 DEF FailuresOnce
<1> QED  BY <1>6, <1>8, <1>9 DEF WindowInv

\* What the properties and stop messages have in common: modes are taken from a window, or one
\* is put in the place of another, and a window that is open is marked.
LEMMA TakenKeeps ==
    ASSUME WindowInv, NEW on \in SUBSET Modes, NEW taken \in BOOLEAN,
           window' = [window EXCEPT !.on = on, !.taken = taken],
           window.active => taken,
           \A s \in sources' : s.id \in 1..MaxTimers,
           posted' \in Seq(WindowMessages), requests' \in Nat,
           window.failures + Cardinality(on) <= requests'
    PROVE  WindowInv'
<1>1. IsWindow(window)  BY DEF WindowInv, TypeInv
<1>2. window' = [active |-> window.active, mode |-> window.mode, status |-> window.status,
                 autobind |-> window.autobind, on |-> on, failures |-> window.failures,
                 taken |-> taken]
  BY <1>1 DEF IsWindow
<1>3. IsWindow(window')  BY <1>1, <1>2 DEF IsWindow
<1>4. OpenInv'  BY <1>1, <1>2 DEF OpenInv, IsWindow
<1>5. FailuresOnce'  BY <1>2 DEF FailuresOnce
<1> QED  BY <1>3, <1>4, <1>5 DEF WindowInv, TypeInv

\* A mode that is turned off keeps the window.
LEMMA OffKeeps ==
    ASSUME WindowInv, NEW m \in Modes, PropertyOff(m)
    PROVE  WindowInv'
<1>1. /\ window' = [window EXCEPT !.on = window.on \ {m}, !.taken = window.active]
      /\ requests' = requests + 1 /\ sources' \subseteq sources /\ UNCHANGED posted
  BY DEF PropertyOff, Destroyed
<1>2. IsWindow(window) /\ requests \in Nat  BY DEF WindowInv, TypeInv
<1>3. window.failures + Cardinality(window.on \ {m}) <= requests'
  <2>1. window.on \ {m} \in SUBSET window.on /\ window.on \in SUBSET Modes
    BY <1>2 DEF IsWindow
  <2>2. /\ Cardinality(window.on \ {m}) \in Nat /\ Cardinality(window.on) \in Nat
        /\ Cardinality(window.on \ {m}) <= Cardinality(window.on)
    BY <2>1, FewerOn
  <2> QED  BY <2>2, <1>1, <1>2 DEF WindowInv, FailuresOnce, IsWindow
<1>4. /\ window.on \ {m} \in SUBSET Modes /\ window.active \in BOOLEAN
      /\ \A s \in sources' : s.id \in 1..MaxTimers
      /\ posted' \in Seq(WindowMessages) /\ requests' \in Nat
  BY <1>1, <1>2 DEF WindowInv, TypeInv, IsWindow
<1> QED  BY <1>1, <1>3, <1>4, TakenKeeps

\* A mode that is turned on keeps the window.
LEMMA OnKeeps ==
    ASSUME WindowInv, NEW m \in Modes, NEW other \in Modes, PropertyOn(m, other)
    PROVE  WindowInv'
<1> DEFINE id == FreshId
           on == (window.on \ {other}) \cup {m}
<1>1. /\ window' = [window EXCEPT !.on = on, !.taken = window.active]
      /\ sources' = Destroyed({m}) \cup {[id |-> id, mode |-> m]}
      /\ HasRoom /\ requests' = requests + 1 /\ UNCHANGED posted
  BY DEF PropertyOn
<1>2. IsWindow(window) /\ requests \in Nat  BY DEF WindowInv, TypeInv
<1>3. on \in SUBSET Modes /\ on \in SUBSET (window.on \cup {m})
  BY <1>2 DEF IsWindow
<1>4. id \in 1..MaxTimers
  BY <1>1, FreshWindowTimer
<1> HIDE DEF id, on
<1>5. window.failures + Cardinality(on) <= requests'
  <2>1. window.on \in SUBSET Modes
    BY <1>2 DEF IsWindow
  <2>2. /\ Cardinality(on) \in Nat /\ Cardinality(window.on) \in Nat
        /\ Cardinality(on) <= Cardinality(window.on) + 1
    BY <1>3, <2>1, OneMoreOn
  <2> QED  BY <2>2, <1>1, <1>2 DEF WindowInv, FailuresOnce, IsWindow
<1>6. window.active \in BOOLEAN /\ posted' \in Seq(WindowMessages) /\ requests' \in Nat
  BY <1>1, <1>2 DEF WindowInv, TypeInv, IsWindow
<1>7. \A s \in sources' : s.id \in 1..MaxTimers
  BY <1>1, <1>4 DEF WindowInv, TypeInv, Destroyed
<1> QED  BY <1>1, <1>3, <1>5, <1>6, <1>7, TakenKeeps

\* Automatic binding keeps the window.
LEMMA AutobindKeeps ==
    ASSUME WindowInv, AutobindRefused \/ \E n \in Targets, e \in BOOLEAN : AutobindConfig(n, e)
    PROVE  WindowInv'
<1> DEFINE id == FreshId
           taken == window.taken \/ window.active
<1>1. IsWindow(window) /\ requests \in Nat  BY DEF WindowInv, TypeInv
<1>2. taken \in BOOLEAN /\ (window.active => taken)  BY <1>1 DEF IsWindow
<1>3. CASE AutobindRefused
  <2>1. /\ window' = [window EXCEPT !.taken = taken]
        /\ requests' = requests + 1 /\ sources' \subseteq sources /\ UNCHANGED posted
    BY <1>3 DEF AutobindRefused, Destroyed
  <2>2. window' = [window EXCEPT !.on = window.on, !.taken = taken]
    <3> HIDE DEF taken
    <3> QED  BY <1>1, <2>1 DEF IsWindow
  <2> HIDE DEF taken
  <2>3. window.on \in SUBSET Modes /\ window.failures \in Nat  BY <1>1 DEF IsWindow
  <2>4. window.failures + Cardinality(window.on) <= requests'
    BY <1>1, <2>1, <2>3, ModesFinite DEF WindowInv, FailuresOnce
  <2>5. /\ \A s \in sources' : s.id \in 1..MaxTimers
        /\ posted' \in Seq(WindowMessages) /\ requests' \in Nat
    BY <1>1, <2>1 DEF WindowInv, TypeInv
  <2> QED  BY <1>2, <2>2, <2>3, <2>4, <2>5, TakenKeeps
<1>4. ASSUME NEW n \in Targets, NEW e \in BOOLEAN, AutobindConfig(n, e) PROVE WindowInv'
  <2> DEFINE on == window.on \ {"screen"}
  <2>1. /\ window' = [window EXCEPT !.on = on, !.taken = taken]
        /\ sources' = Destroyed({"onetouch"}) \cup {[id |-> id, mode |-> "onetouch"]}
        /\ HasRoom /\ requests' = requests + 1 /\ UNCHANGED posted
    BY <1>4 DEF AutobindConfig
  <2>2. on \in SUBSET window.on /\ on \in SUBSET Modes /\ window.on \in SUBSET Modes
    BY <1>1 DEF IsWindow
  <2>3. id \in 1..MaxTimers  BY <2>1, FreshWindowTimer
  <2> HIDE DEF id, on, taken
  <2>4. window.failures + Cardinality(on) <= requests'
    <3>1. /\ Cardinality(on) \in Nat /\ Cardinality(window.on) \in Nat
          /\ Cardinality(on) <= Cardinality(window.on)
      BY <2>2, FewerOn
    <3> QED  BY <3>1, <2>1, <1>1 DEF WindowInv, FailuresOnce, IsWindow
  <2>5. /\ \A s \in sources' : s.id \in 1..MaxTimers
        /\ posted' \in Seq(WindowMessages) /\ requests' \in Nat
    BY <1>1, <2>1, <2>3 DEF WindowInv, TypeInv, Destroyed
  <2> QED  BY <1>2, <2>1, <2>2, <2>4, <2>5, TakenKeeps
<1> QED  BY <1>3, <1>4

\* A window that is closed, by whom and for whatever reason, needs no timer.
LEMMA CloseKeeps ==
    ASSUME WindowInv, NEW n, NEW r \in Reasons, CloseWindow(n, r),
           requests' \in Nat, requests <= requests', posted' \in Seq(WindowMessages)
    PROVE  WindowInv'
<1>1. /\ IsWindow(window') /\ window'.active = FALSE /\ sources' \subseteq sources
      /\ window'.failures + Cardinality(window'.on) <= requests
  BY ClosedCounts
<1>2. Cardinality(window'.on) \in Nat /\ window'.failures \in Nat /\ requests \in Nat
  BY <1>1, ModesFinite DEF IsWindow, WindowInv, TypeInv
<1>3. FailuresOnce'  BY <1>1, <1>2 DEF FailuresOnce
<1>4. TypeInv'  BY <1>1 DEF WindowInv, TypeInv
<1> QED  BY <1>1, <1>3, <1>4 DEF WindowInv, OpenInv

\* A message in the queue takes nothing from a window.
LEMMA PostKeeps ==
    ASSUME WindowInv, NEW msg \in WindowMessages, posted' = Append(posted, msg),
           UNCHANGED <<window, sources, dispatched, requests>>
    PROVE  WindowInv'
<1>1. posted' \in Seq(WindowMessages) /\ (PostedMessages => PostedMessages')
  BY PostedGrows DEF WindowInv, TypeInv
<1> QED
  BY <1>1 DEF WindowInv, TypeInv, OpenInv, FailuresOnce, Runs

\* The timer that is dispatched no longer runs, but has posted the message that closes.
LEMMA FiresKeeps ==
    ASSUME WindowInv, NEW s \in sources, TimerFires(s)
    PROVE  WindowInv'
<1>1. Close("timeout") \in WindowMessages  BY DEF WindowMessages, Reasons
<1>2. posted' \in Seq(WindowMessages) /\ PostedMessages'
  BY <1>1, PostedGrows DEF TimerFires, WindowInv, TypeInv
<1>3. UNCHANGED <<window, sources, requests>>  BY DEF TimerFires
<1> QED  BY <1>2, <1>3 DEF WindowInv, TypeInv, OpenInv, FailuresOnce

\* The one that returns was not among those that run.
LEMMA ReturnKeeps ==
    ASSUME WindowInv, TimerReturns
    PROVE  WindowInv'
<1>1. /\ sources' = sources \ {dispatched} /\ dispatched' = Nothing
      /\ UNCHANGED <<window, posted, requests>>
  BY DEF TimerReturns
<1>2. \A s \in sources : s # Nothing
  BY WindowAssumption DEF WindowInv, TypeInv, Nothing
<1>3. OpenInv'
  <2>1. PostedMessages' <=> PostedMessages  BY <1>1 DEF PostedMessages
  <2> SUFFICES ASSUME window.active, ~window.taken
               PROVE  window.mode \in window.on /\ (Runs(window.mode)' \/ PostedMessages)
    BY <1>1, <2>1 DEF OpenInv, Runs
  <2>2. window.mode \in window.on /\ (Runs(window.mode) \/ PostedMessages)
    BY DEF WindowInv, OpenInv
  <2>3. CASE Runs(window.mode)
    <3>1. PICK s \in sources : s # dispatched /\ s.mode = window.mode  BY <2>3 DEF Runs
    <3>2. s \in sources' /\ s # dispatched' /\ s.mode = window'.mode
      BY <3>1, <1>1, <1>2
    <3> QED  BY <3>2, <2>2 DEF Runs
  <2> QED  BY <2>2, <2>3
<1> QED  BY <1>1, <1>3 DEF WindowInv, TypeInv, FailuresOnce

\* A failure is counted once.
LEMMA FailsKeeps ==
    ASSUME WindowInv, PairingFails
    PROVE  WindowInv'
<1> DEFINE two == <<Status("hal"), Close("end")>>
<1>1. posted \in Seq(WindowMessages) /\ two \in Seq(WindowMessages) /\ Len(two) = 2
  BY DEF WindowInv, TypeInv, WindowMessages, Reasons
<1>2. posted' = posted \o two /\ UNCHANGED <<window, sources, dispatched, requests>>
  BY DEF PairingFails
<1> HIDE DEF two
<1>3. posted' \in Seq(WindowMessages)  BY <1>1, <1>2
<1>4. PostedMessages => PostedMessages'
  <2>1. /\ Len(posted') = Len(posted) + 2 /\ Len(posted) \in Nat
        /\ \A i \in 1..Len(posted) : posted'[i] = posted[i]
    <3>1. /\ Len(posted') = Len(posted) + Len(two)
          /\ \A i \in 1..(Len(posted) + Len(two)) :
                posted'[i] = IF i <= Len(posted) THEN posted[i] ELSE two[i - Len(posted)]
      BY <1>1, <1>2, ConcatProperties
    <3>2. Len(posted) \in Nat  BY <1>1
    <3> QED  BY <3>1, <3>2, <1>1
  <2>2. DOMAIN posted = 1..Len(posted) /\ DOMAIN posted' = 1..Len(posted')  BY <1>1, <1>3
  <2> SUFFICES ASSUME PostedMessages PROVE PostedMessages'
    OBVIOUS
  <2>3. PICK i \in DOMAIN posted : posted[i] = Close("timeout")  BY DEF PostedMessages
  <2>4. i \in DOMAIN posted' /\ posted'[i] = Close("timeout")  BY <2>1, <2>2, <2>3
  <2> QED  BY <2>4 DEF PostedMessages, Close
<1> QED  BY <1>2, <1>3, <1>4 DEF WindowInv, TypeInv, OpenInv, FailuresOnce, Runs

\* The message that closes the window closes it.
LEMMA HandleCloseKeeps ==
    ASSUME WindowInv, HandleClose
    PROVE  WindowInv'
<1>1. /\ posted # <<>> /\ Head(posted).type = "close" /\ posted' = Tail(posted)
      /\ CloseWindow(AllNetworks, Head(posted).about) /\ requests' = requests
  BY DEF HandleClose
<1>2. posted' \in Seq(WindowMessages) /\ Head(posted) \in WindowMessages
  BY <1>1, FirstMessageHandled DEF WindowInv, TypeInv
<1>3. Head(posted).about \in Reasons
  <2>1. \A m \in WindowMessages : m.type = "close" => m.about \in Reasons
    BY DEF WindowMessages, Close, Stop, Status
  <2> QED  BY <2>1, <1>1, <1>2
<1>4. requests \in Nat  BY DEF WindowInv, TypeInv
<1> QED  BY <1>1, <1>2, <1>3, <1>4, CloseKeeps

\* The message that stops a mode stops it.
LEMMA HandleStopKeeps ==
    ASSUME WindowInv, HandleStop
    PROVE  WindowInv'
<1> DEFINE m == Head(posted).about
<1>1. /\ posted # <<>> /\ Head(posted).type = "stop" /\ posted' = Tail(posted)
      /\ UNCHANGED <<dispatched, requests>>
  BY DEF HandleStop
<1>2. posted' \in Seq(WindowMessages) /\ (PostedMessages /\ Head(posted) # Close("timeout") => PostedMessages')
  BY <1>1, FirstMessageHandled DEF WindowInv, TypeInv
<1>3. Head(posted) # Close("timeout")
  BY <1>1 DEF Close
<1>4. IsWindow(window) /\ requests \in Nat  BY DEF WindowInv, TypeInv
<1>5. CASE m \in window.on
  <2> DEFINE on == window.on \ {m}
  <2>1. /\ window' = [window EXCEPT !.on = on, !.taken = window.active]
        /\ sources' \subseteq sources
    BY <1>5 DEF HandleStop, Destroyed
  <2>2. on \in SUBSET window.on /\ on \in SUBSET Modes /\ window.on \in SUBSET Modes
    BY <1>4 DEF IsWindow
  <2> HIDE DEF on
  <2>3. window.failures + Cardinality(on) <= requests'
    <3>1. /\ Cardinality(on) \in Nat /\ Cardinality(window.on) \in Nat
          /\ Cardinality(on) <= Cardinality(window.on)
      BY <2>2, FewerOn
    <3> QED  BY <3>1, <1>1, <1>4 DEF WindowInv, FailuresOnce, IsWindow
  <2>4. window.active \in BOOLEAN /\ \A s \in sources' : s.id \in 1..MaxTimers
    BY <1>4, <2>1 DEF IsWindow, WindowInv, TypeInv
  <2>5. requests' \in Nat  BY <1>1, <1>4
  <2> QED  BY <2>1, <2>2, <2>3, <2>4, <2>5, <1>2, TakenKeeps
<1>6. CASE m \notin window.on
  <2>1. UNCHANGED <<window, sources, dispatched, requests>>
    BY <1>6 DEF HandleStop
  <2> QED
    BY <2>1, <1>2, <1>3 DEF WindowInv, TypeInv, OpenInv, FailuresOnce, Runs
<1> QED  BY <1>5, <1>6

\* A status ends the window of the controller it is about.
LEMMA HandleStatusKeeps ==
    ASSUME WindowInv, HandleStatus
    PROVE  WindowInv'
<1>1. /\ posted # <<>> /\ Head(posted).type = "status" /\ posted' = Tail(posted)
      /\ window' = StatusSet(window, Head(posted).about)
      /\ UNCHANGED <<sources, dispatched, requests>>
  BY DEF HandleStatus
<1>2. posted' \in Seq(WindowMessages) /\ (PostedMessages /\ Head(posted) # Close("timeout") => PostedMessages')
  BY <1>1, FirstMessageHandled DEF WindowInv, TypeInv
<1>3. Head(posted) # Close("timeout")
  BY <1>1 DEF Close
<1>4. /\ IsWindow(window') /\ window'.active = window.active /\ window'.taken = window.taken
      /\ window'.on = window.on /\ window'.failures = window.failures
      /\ window'.mode = window.mode
  BY <1>1, StatusKeeps DEF WindowInv, TypeInv
<1> QED
  BY <1>1, <1>2, <1>3, <1>4 DEF WindowInv, TypeInv, OpenInv, FailuresOnce, Runs

\* Every step keeps the invariant.
LEMMA WindowStep == WindowInv /\ [WindowNext]_windowVars => WindowInv'
<1> SUFFICES ASSUME WindowInv, [WindowNext]_windowVars PROVE WindowInv'
  OBVIOUS
<1>1. "button" \in Modes /\ "screen" \in Modes  BY DEF Modes
<1>2. CASE \E n \in Targets, m \in Modes : StartPairing(n, m)
  BY <1>2, WindowStartKeeps
<1>3. ASSUME NEW n \in Targets, EndPairing(n) PROVE WindowInv'
  <2>1. requests' = requests + 1 /\ requests \in Nat /\ posted' = posted
    BY <1>3 DEF EndPairing, WindowInv, TypeInv
  <2>2. CloseWindow(n, "end") /\ "end" \in Reasons  BY <1>3 DEF EndPairing, Reasons
  <2>3. requests' \in Nat /\ requests <= requests' /\ posted' \in Seq(WindowMessages)
    BY <2>1 DEF WindowInv, TypeInv
  <2> QED  BY <2>2, <2>3, CloseKeeps
<1>4. CASE \E m \in {"button", "screen"} : PropertyOff(m)
  BY <1>1, <1>4, OffKeeps
<1>5. CASE PropertyOn("button", "screen") \/ PropertyOn("screen", "button")
  BY <1>1, <1>5, OnKeeps
<1>6. CASE AutobindRefused \/ \E n \in Targets, e \in BOOLEAN : AutobindConfig(n, e)
  BY <1>6, AutobindKeeps
<1>7. CASE \E s \in sources : TimerFires(s)
  BY <1>7, FiresKeeps
<1>8. CASE TimerReturns
  BY <1>8, ReturnKeeps
<1>9. ASSUME NEW s \in {"pending", "asb"}, Progress(s) PROVE WindowInv'
  <2>1. posted' = Append(posted, Status(s)) /\ UNCHANGED <<window, sources, dispatched, requests>>
    BY <1>9 DEF Progress
  <2>2. Status(s) \in WindowMessages  BY <1>9 DEF WindowMessages
  <2> QED  BY <2>1, <2>2, PostKeeps
<1>10. ASSUME NEW m \in Modes, Paired(m) PROVE WindowInv'
  <2>1. /\ posted' = Append(posted, Close("success")) \/ posted' = Append(posted, Stop(m))
        /\ UNCHANGED <<window, sources, dispatched, requests>>
    BY <1>10 DEF Paired
  <2>2. Close("success") \in WindowMessages /\ Stop(m) \in WindowMessages  BY DEF WindowMessages, Reasons
  <2> QED  BY <2>1, <2>2, PostKeeps
<1>11. CASE PairingFails
  BY <1>11, FailsKeeps
<1>12. CASE HandleClose \/ HandleStop \/ HandleStatus
  BY <1>12, HandleCloseKeeps, HandleStopKeeps, HandleStatusKeeps
<1>13. CASE UNCHANGED windowVars
  BY <1>13 DEF windowVars, WindowInv, TypeInv, OpenInv, FailuresOnce, Runs, PostedMessages
<1> QED
  BY <1>2, <1>3, <1>4, <1>5, <1>6, <1>7, <1>8, <1>9, <1>10, <1>11, <1>12, <1>13 DEF WindowNext

\* WindowSound: a window that is open is closed by its own timer unless a property or a stop
\* message took its mode, and a request costs at most one failure.
THEOREM WindowsClose == WindowSpec => []WindowSound
<1>1. WindowInit => WindowInv
  <2> SUFFICES ASSUME WindowInit PROVE WindowInv
    OBVIOUS
  <2>1. IsWindow(window) /\ window.active = FALSE /\ window.on = {} /\ window.failures = 0
    BY DEF WindowInit, IsWindow
  <2>2. Cardinality({}) = 0  BY FS_EmptySet
  <2>3. sources = {} /\ posted = <<>> /\ requests = 0  BY DEF WindowInit
  <2> QED  BY <2>1, <2>2, <2>3 DEF WindowInv, TypeInv, OpenInv, FailuresOnce
<1>2. WindowInv => WindowSound
  BY DEF WindowInv, OpenInv, WindowSound, WindowTimed, Runs, PostedMessages
<1> QED  BY <1>1, <1>2, WindowStep, PTL DEF WindowSpec

-----------------------------------------------------------------------------
(***************************************************************************)
(* A message that is pushed is in one place until it is freed, and an answer *)
(* is not older than what was confirmed before it was asked for, for any   *)
(* callers, settings and number of messages.                               *)
(***************************************************************************)

\* The state's types.
MessageKinds == {"none", "global", "network", "handler", "reverse", "firmware", "terminate"}
Messages == [id : Nat, kind : MessageKinds, from : Callers \cup {"none"}, valid : BOOLEAN]
CallPcs == {"idle", "check", "wait", "return"}
CallRecords == [pc : CallPcs, loops : BOOLEAN, about : Settings, sets : BOOLEAN,
                result : {"none", "pending", "success"}, sem : Nat, reply : Nat, floor : Nat]
QueueTypes ==
    /\ call \in [Callers -> CallRecords]
    /\ settings \in [Settings -> [now : Nat, told : Nat]]
    /\ queue \in Seq(Messages)
    /\ main \in [step : {"pop", "dispatch", "post", "free"}, msg : Messages]
    /\ delayed \subseteq Messages /\ IsFiniteSet(delayed)
    /\ memory \in [count : Nat, freed : SUBSET Nat]

\* What was told, what a call must find and what it found are versions there have been; and
\* an answer is not older than its floor.
Versions ==
    /\ \A s \in Settings : settings[s].told <= settings[s].now
    /\ \A c \in Callers :
          /\ call[c].floor <= settings[call[c].about].now
          /\ call[c].reply <= settings[call[c].about].now
          /\ call[c].result = "success" => call[c].reply >= call[c].floor

\* A message that was pushed: its number was given, and who is to be answered is a caller.
WasPushed(m, count) ==
    /\ m.id \in 1..count
    /\ m.kind \in {"global", "network", "handler", "reverse"} => m.from \in Callers
Placed ==
    /\ \A i \in 1..Len(queue) : WasPushed(queue[i], memory.count)
    /\ \A d \in delayed : WasPushed(d, memory.count)
    /\ main.step = "pop" => main.msg = NoMessage
    /\ main.step # "pop" => WasPushed(main.msg, memory.count)
    /\ memory.freed \subseteq 1..memory.count

\* A number is that of one message, and the message is in one place, but for a reverse
\* command that is put off and freed as well.
OnePlace ==
    /\ \A i, j \in 1..Len(queue) :
           queue[i].id = queue[j].id => queue[i] = queue[j] /\ (i = j \/ queue[i].kind = "reverse")
    /\ \A i \in 1..Len(queue), d \in delayed :
           queue[i].id = d.id => queue[i] = d /\ d.kind = "reverse"
    /\ \A i \in 1..Len(queue) :
           queue[i].id = main.msg.id => queue[i] = main.msg /\ main.msg.kind = "reverse"
    /\ \A d, e \in delayed : d.id = e.id => d = e
    /\ \A d \in delayed : d.id = main.msg.id => d = main.msg /\ d.kind = "reverse"

\* What is in a place has not been freed, but for a reverse command.
KeptLive ==
    /\ \A i \in 1..Len(queue) : queue[i].id \in memory.freed => queue[i].kind = "reverse"
    /\ \A d \in delayed : d.id \in memory.freed => d.kind = "reverse"
    /\ main.msg.id \in memory.freed => main.msg.kind = "reverse"

\* Every number that was given is that of a message in a place, or was freed.
Accounted ==
    \A n \in 1..memory.count :
        \/ n \in memory.freed
        \/ \E i \in 1..Len(queue) : queue[i].id = n
        \/ \E d \in delayed : d.id = n
        \/ main.msg.id = n


\* The inductive invariant.
QueueInv == QueueTypes /\ Versions /\ Placed /\ OnePlace /\ KeptLive /\ Accounted

-----------------------------------------------------------------------------
(* The main queue.                                                         *)

\* A message is queued behind those that are there.
LEMMA MessageQueued ==
    ASSUME NEW q \in Seq(Messages), NEW m \in Messages
    PROVE  /\ Append(q, m) \in Seq(Messages) /\ Len(q) \in Nat
           /\ Len(Append(q, m)) = Len(q) + 1 /\ Append(q, m)[Len(q) + 1] = m
           /\ \A k \in 1..Len(q) :
                 Append(q, m)[k] = q[k] /\ q[k] \in Messages /\ k \in 1..Len(Append(q, m))
           /\ \A k \in 1..Len(Append(q, m)) : k \in 1..Len(q) \/ k = Len(q) + 1
           /\ Len(q) + 1 \in 1..Len(Append(q, m))
<1>1. /\ Append(q, m) \in Seq(Messages) /\ Len(q) \in Nat /\ Len(Append(q, m)) = Len(q) + 1
      /\ Append(q, m)[Len(q) + 1] = m
      /\ \A k \in 1..Len(q) : Append(q, m)[k] = q[k] /\ q[k] \in Messages
  OBVIOUS
<1>. QED  BY <1>1

\* The first message is taken; the others move up.
LEMMA MessageTaken ==
    ASSUME NEW q \in Seq(Messages), q # <<>>
    PROVE  /\ Tail(q) \in Seq(Messages) /\ Head(q) = q[1] /\ q[1] \in Messages
           /\ Len(q) \in Nat /\ 1 \in 1..Len(q) /\ Len(Tail(q)) = Len(q) - 1
           /\ \A k \in 1..Len(Tail(q)) : Tail(q)[k] = q[k + 1] /\ k + 1 \in 1..Len(q) /\ k + 1 # 1
           /\ \A k \in 1..Len(q) : k = 1 \/ (k - 1 \in 1..Len(Tail(q)) /\ Tail(q)[k - 1] = q[k])
<1>1. /\ Tail(q) \in Seq(Messages) /\ Head(q) = q[1] /\ q[1] \in Messages
      /\ Len(q) \in Nat /\ Len(q) # 0 /\ Len(Tail(q)) = Len(q) - 1
      /\ \A k \in 1..(Len(q) - 1) : Tail(q)[k] = q[k + 1]
  OBVIOUS
<1>2. ASSUME NEW k \in 1..Len(q), k # 1
      PROVE  k - 1 \in 1..Len(Tail(q)) /\ Tail(q)[k - 1] = q[k]
  <2>1. k - 1 \in 1..(Len(q) - 1) /\ (k - 1) + 1 = k
    BY <1>1, <1>2
  <2>. QED  BY <1>1, <2>1
<1>. QED  BY <1>1, <1>2

\* A thread waits, wakes or is posted: what it asked and what it found stays.
LEMMA VersionsKept ==
    ASSUME Versions, UNCHANGED settings,
           \A c \in Callers :
              /\ call'[c].floor = call[c].floor /\ call'[c].about = call[c].about
              /\ call'[c].reply = call[c].reply /\ call'[c].result = call[c].result
    PROVE  Versions'
BY DEF Versions

\* The part of the invariant that is about the messages
QueueParts == Placed /\ OnePlace /\ KeptLive /\ Accounted

\* The memory is a number of messages and those that were freed.
LEMMA MemoryTyped ==
    ASSUME NEW n \in Nat, NEW f, \A x \in f : x \in Nat
    PROVE  [count |-> n, freed |-> f] \in [count : Nat, freed : SUBSET Nat]
<1>1. f \in SUBSET Nat
  OBVIOUS
<1>. QED  BY <1>1

\* What the messages know of does not change.
LEMMA PartsKept ==
    ASSUME QueueParts, UNCHANGED <<queue, delayed, memory>>,
           main'.msg = main.msg, main.step # "pop", main'.step # "pop"
    PROVE  QueueParts'
BY DEF QueueParts, Placed, WasPushed, OnePlace, KeptLive, Accounted

\* A new message
LEMMA NewMessage ==
    ASSUME QueueInv, NEW kind \in MessageKinds, NEW from \in Callers \cup {"none"},
           NEW valid \in BOOLEAN,
           kind \in {"global", "network", "handler", "reverse"} => from \in Callers,
           memory' = [memory EXCEPT !.count = @ + 1],
           queue' = Append(queue, [id |-> memory.count + 1, kind |-> kind, from |-> from,
                                   valid |-> valid]),
           UNCHANGED <<main, delayed>>
    PROVE  /\ queue' \in Seq(Messages) /\ memory' \in [count : Nat, freed : SUBSET Nat]
           /\ QueueParts'
<1>. DEFINE m == [id |-> memory.count + 1, kind |-> kind, from |-> from, valid |-> valid]
<1>1. PICK n \in Nat, f \in SUBSET Nat : memory = [count |-> n, freed |-> f]
  BY DEF QueueInv, QueueTypes
<1>2. memory' = [count |-> n + 1, freed |-> f]
  BY <1>1
<1>3. m \in Messages /\ m.id = n + 1 /\ m.kind = kind /\ m.from = from
  BY <1>1 DEF Messages
<1>. HIDE DEF m
<1>4. /\ queue' \in Seq(Messages) /\ Len(queue) \in Nat
      /\ Len(queue') = Len(queue) + 1 /\ queue'[Len(queue) + 1] = m
      /\ \A k \in 1..Len(queue) :
            queue'[k] = queue[k] /\ queue[k] \in Messages /\ k \in 1..Len(queue')
      /\ \A k \in 1..Len(queue') : k \in 1..Len(queue) \/ k = Len(queue) + 1
      /\ Len(queue) + 1 \in 1..Len(queue')
  <2>1. queue' = Append(queue, m)
    BY DEF m
  <2>. QED  BY <1>3, <2>1, MessageQueued DEF QueueInv, QueueTypes
<1>5. memory.count = n /\ memory'.count = n + 1 /\ memory.freed = f /\ memory'.freed = f
  BY <1>1, <1>2
<1>6. \A x : x \in 1..n => x \in 1..(n + 1) /\ x # n + 1
  OBVIOUS
<1>7. /\ \A i \in 1..Len(queue) : queue[i].id \in 1..n
      /\ \A d \in delayed : d.id \in 1..n
      /\ main.msg.id # n + 1
      /\ f \subseteq 1..n
  BY <1>5 DEF QueueInv, Placed, WasPushed, NoMessage
<1>8. Placed'
  <2>1. ASSUME NEW i \in 1..Len(queue') PROVE WasPushed(queue'[i], n + 1)
    <3>1. CASE i \in 1..Len(queue)
      <4>1. WasPushed(queue[i], n)
        BY <1>5, <3>1 DEF QueueInv, Placed
      <4>. QED  BY <1>4, <1>6, <3>1, <4>1 DEF WasPushed
    <3>2. CASE i = Len(queue) + 1
      BY <1>3, <1>4, <3>2 DEF WasPushed
    <3>. QED  BY <1>4, <3>1, <3>2
  <2>2. \A d \in delayed : WasPushed(d, n + 1)
    BY <1>5, <1>6 DEF QueueInv, Placed, WasPushed
  <2>3. main.step # "pop" => WasPushed(main.msg, n + 1)
    BY <1>5, <1>6 DEF QueueInv, Placed, WasPushed
  <2>4. f \subseteq 1..(n + 1) /\ (main.step = "pop" => main.msg = NoMessage)
    BY <1>6, <1>7 DEF QueueInv, Placed
  <2>. QED  BY <1>5, <2>1, <2>2, <2>3, <2>4 DEF Placed
<1>9. OnePlace'
  <2>1. ASSUME NEW i \in 1..Len(queue'), NEW j \in 1..Len(queue'), queue'[i].id = queue'[j].id
        PROVE  queue'[i] = queue'[j] /\ (i = j \/ queue'[i].kind = "reverse")
    <3>1. CASE i \in 1..Len(queue) /\ j \in 1..Len(queue)
      BY <1>4, <2>1, <3>1 DEF QueueInv, OnePlace
    <3>2. CASE i = Len(queue) + 1 /\ j = Len(queue) + 1
      BY <3>2
    <3>3. CASE i \in 1..Len(queue) /\ j = Len(queue) + 1
      BY <1>3, <1>4, <1>6, <1>7, <2>1, <3>3
    <3>4. CASE i = Len(queue) + 1 /\ j \in 1..Len(queue)
      BY <1>3, <1>4, <1>6, <1>7, <2>1, <3>4
    <3>. QED  BY <1>4, <3>1, <3>2, <3>3, <3>4
  <2>2. ASSUME NEW i \in 1..Len(queue')
        PROVE  /\ \A d \in delayed : queue'[i].id = d.id => queue'[i] = d /\ d.kind = "reverse"
               /\ queue'[i].id = main.msg.id => queue'[i] = main.msg /\ main.msg.kind = "reverse"
    <3>1. CASE i \in 1..Len(queue)
      BY <1>4, <3>1 DEF QueueInv, OnePlace
    <3>2. CASE i = Len(queue) + 1
      BY <1>3, <1>4, <1>6, <1>7, <3>2
    <3>. QED  BY <1>4, <3>1, <3>2
  <2>. QED  BY <2>1, <2>2 DEF QueueInv, OnePlace
<1>10. KeptLive'
  <2>1. ASSUME NEW i \in 1..Len(queue'), queue'[i].id \in memory'.freed
        PROVE  queue'[i].kind = "reverse"
    <3>1. CASE i \in 1..Len(queue)
      BY <1>4, <1>5, <2>1, <3>1 DEF QueueInv, KeptLive
    <3>2. CASE i = Len(queue) + 1
      BY <1>3, <1>4, <1>5, <1>6, <1>7, <2>1, <3>2
    <3>. QED  BY <1>4, <3>1, <3>2
  <2>. QED  BY <1>5, <2>1 DEF QueueInv, KeptLive
<1>11. Accounted'
  <2>1. ASSUME NEW x \in 1..(n + 1)
        PROVE  \/ x \in f \/ \E i \in 1..Len(queue') : queue'[i].id = x
               \/ (\E d \in delayed : d.id = x) \/ main.msg.id = x
    <3>1. CASE x = n + 1
      BY <1>3, <1>4, <3>1
    <3>2. CASE x \in 1..n
      BY <1>4, <1>5, <3>2 DEF QueueInv, Accounted
    <3>. QED  BY <3>1, <3>2
  <2>. QED  BY <1>5, <2>1 DEF Accounted
<1>12. memory' \in [count : Nat, freed : SUBSET Nat]
  <2>1. n + 1 \in Nat /\ \A x \in f : x \in Nat
    OBVIOUS
  <2>. QED  BY <1>2, <2>1, MemoryTyped
<1>. QED  BY <1>4, <1>8, <1>9, <1>10, <1>11, <1>12 DEF QueueParts

\* A call is asked: it must find what others were told of.
LEMMA RequestInvariant ==
    ASSUME QueueInv, NEW c \in Callers, NEW kind \in {"global", "network", "handler", "reverse"},
           NEW valid \in BOOLEAN, NEW about \in Settings, NEW changes \in BOOLEAN,
           NEW loops \in BOOLEAN, Request(c, kind, valid, about, changes, loops)
    PROVE  QueueInv'
<1>. DEFINE r == [pc |-> IF loops THEN "check" ELSE "wait", loops |-> loops, about |-> about,
                  sets |-> changes, result |-> "pending", sem |-> 0, reply |-> 0,
                  floor |-> settings[about].told]
<1>1. /\ call' = [call EXCEPT ![c] = r] /\ UNCHANGED <<main, delayed, settings>>
      /\ memory' = [memory EXCEPT !.count = @ + 1]
      /\ queue' = Append(queue, [id |-> memory.count + 1, kind |-> kind, from |-> c, valid |-> valid])
  BY DEF Request, Push
<1>2. /\ queue' \in Seq(Messages) /\ memory' \in [count : Nat, freed : SUBSET Nat]
      /\ QueueParts'
  <2>1. kind \in MessageKinds
    BY DEF MessageKinds
  <2>. QED  BY <1>1, <2>1, NewMessage
<1>3. /\ r \in CallRecords /\ r.floor = settings[about].told /\ r.reply = 0 /\ r.about = about
      /\ r.result = "pending"
  BY DEF QueueInv, QueueTypes, CallRecords, CallPcs
<1>. HIDE DEF r
<1>4. /\ call' \in [Callers -> CallRecords] /\ call'[c] = r
      /\ \A d \in Callers : d # c => call'[d] = call[d]
  BY <1>1, <1>3 DEF QueueInv, QueueTypes
<1>5. QueueTypes'
  BY <1>1, <1>2, <1>4 DEF QueueInv, QueueTypes
<1>6. Versions'
  <2>1. settings[about].told \in Nat /\ settings[about].now \in Nat
    BY DEF QueueInv, QueueTypes
  <2>2. r.floor <= settings[about].now /\ r.reply <= settings[about].now
    BY <1>3, <2>1 DEF QueueInv, Versions
  <2>. QED  BY <1>1, <1>3, <1>4, <2>2 DEF QueueInv, Versions
<1>. QED  BY <1>2, <1>5, <1>6 DEF QueueInv, QueueParts

\* The calls of the bus, by the message they push
LEMMA CallsInvariant ==
    ASSUME QueueInv, NEW c \in Callers, Calls(c)
    PROVE  QueueInv'
<1>1. \E kind \in {"global", "network", "handler", "reverse"}, valid \in BOOLEAN,
         about \in Settings, changes \in BOOLEAN, loops \in BOOLEAN :
           Request(c, kind, valid, about, changes, loops)
  <2>. DEFINE Called(kind, valid, about, changes, loops) == Request(c, kind, valid, about, changes, loops)
  <2>1. "values" \in Settings /\ "controllers" \in Settings /\ TRUE \in BOOLEAN /\ FALSE \in BOOLEAN
    BY DEF Settings
  <2>2. ASSUME ControlServiceSetValues(c) \/ ControlServiceGetValues(c) \/ PropertySet(c)
               \/ PropertyGet(c) \/ DiscoveryConfigSet(c) \/ AutobindConfigSet(c)
        PROVE  \E changes \in BOOLEAN : Called("global", TRUE, "values", changes, TRUE)
    BY <2>1, <2>2 DEF ControlServiceSetValues, ControlServiceGetValues, PropertySet, PropertyGet,
         DiscoveryConfigSet, AutobindConfigSet
  <2>3. ASSUME PrecommissionConfigSet(c) \/ FactoryReset(c) \/ ControllerUnbind(c) \/ StatusGet(c)
        PROVE  \E changes \in BOOLEAN : Called("global", TRUE, "controllers", changes, TRUE)
    BY <2>1, <2>3 DEF PrecommissionConfigSet, FactoryReset, ControllerUnbind, StatusGet
  <2>4. ASSUME NEW valid \in BOOLEAN,
               CanFindMyRemote(c, valid) \/ ControllerTypeGet(c, valid) \/ ReverseCmd(c, valid)
        PROVE  \E kind \in {"network", "reverse"}, loops \in BOOLEAN :
                   Called(kind, valid, "controllers", FALSE, loops)
    BY <2>1, <2>4 DEF CanFindMyRemote, ControllerTypeGet, ReverseCmd
  <2>5. ASSUME NEW valid \in BOOLEAN,
               \/ ChipStatus(c, valid) \/ RcuControllerStatus(c, valid) \/ RcuLinkKey(c, valid)
               \/ PollingAction(c, valid) \/ \E changes \in BOOLEAN : RibRequest(c, valid, changes)
        PROVE  \E changes \in BOOLEAN, loops \in BOOLEAN :
                   Called("handler", valid, "controllers", changes, loops)
    BY <2>1, <2>5 DEF ChipStatus, RcuControllerStatus, RcuLinkKey, PollingAction, RibRequest
  <2>. HIDE DEF Called
  <2>6. \E kind \in {"global", "network", "handler", "reverse"}, valid \in BOOLEAN,
           about \in Settings, changes \in BOOLEAN, loops \in BOOLEAN :
             Called(kind, valid, about, changes, loops)
    <3>1. \/ ControlServiceSetValues(c) \/ ControlServiceGetValues(c) \/ PropertySet(c)
          \/ PropertyGet(c) \/ DiscoveryConfigSet(c) \/ AutobindConfigSet(c)
          \/ PrecommissionConfigSet(c) \/ FactoryReset(c) \/ ControllerUnbind(c) \/ StatusGet(c)
          \/ \E valid \in BOOLEAN :
                CanFindMyRemote(c, valid) \/ ControllerTypeGet(c, valid) \/ ReverseCmd(c, valid)
          \/ \E valid \in BOOLEAN :
                \/ ChipStatus(c, valid) \/ RcuControllerStatus(c, valid) \/ RcuLinkKey(c, valid)
                \/ PollingAction(c, valid) \/ \E changes \in BOOLEAN : RibRequest(c, valid, changes)
      BY DEF Calls
    <3>2. ASSUME NEW valid \in BOOLEAN,
                 CanFindMyRemote(c, valid) \/ ControllerTypeGet(c, valid) \/ ReverseCmd(c, valid)
          PROVE  \E kind \in {"network", "reverse"}, loops \in BOOLEAN :
                     Called(kind, valid, "controllers", FALSE, loops)
      BY <2>4, <3>2
    <3>3. ASSUME NEW valid \in BOOLEAN,
                 \/ ChipStatus(c, valid) \/ RcuControllerStatus(c, valid) \/ RcuLinkKey(c, valid)
                 \/ PollingAction(c, valid) \/ \E changes \in BOOLEAN : RibRequest(c, valid, changes)
          PROVE  \E changes \in BOOLEAN, loops \in BOOLEAN :
                     Called("handler", valid, "controllers", changes, loops)
      BY <2>5, <3>3
    <3>4. ASSUME \/ ControlServiceSetValues(c) \/ ControlServiceGetValues(c) \/ PropertySet(c)
                 \/ PropertyGet(c) \/ DiscoveryConfigSet(c) \/ AutobindConfigSet(c)
          PROVE  \E kind \in {"global", "network", "handler", "reverse"}, valid \in BOOLEAN,
                     about \in Settings, changes \in BOOLEAN, loops \in BOOLEAN :
                        Called(kind, valid, about, changes, loops)
      BY <2>1, <2>2, <3>4
    <3>5. ASSUME PrecommissionConfigSet(c) \/ FactoryReset(c) \/ ControllerUnbind(c) \/ StatusGet(c)
          PROVE  \E kind \in {"global", "network", "handler", "reverse"}, valid \in BOOLEAN,
                     about \in Settings, changes \in BOOLEAN, loops \in BOOLEAN :
                        Called(kind, valid, about, changes, loops)
      BY <2>1, <2>3, <3>5
    <3>. QED  BY <2>1, <3>1, <3>2, <3>3, <3>4, <3>5
  <2>. QED  BY <2>6 DEF Called
<1>. QED  BY <1>1, RequestInvariant

\* A caller wakes, looks at its result, or returns with what it found.
LEMMA CallerInvariant ==
    ASSUME QueueInv, NEW c \in Callers, Caller(c)
    PROVE  QueueInv'
<1>1. UNCHANGED <<queue, main, delayed, memory>>
  BY DEF Caller, Woken, StillPending, Return
<1>2. QueueParts'
  BY <1>1 DEF QueueInv, QueueParts, Placed, WasPushed, OnePlace, KeptLive, Accounted
<1>3. call \in [Callers -> CallRecords]
  BY DEF QueueInv, QueueTypes
<1>4. call' \in [Callers -> CallRecords] /\ \A d \in Callers :
          /\ call'[d].floor = call[d].floor /\ call'[d].about = call[d].about
          /\ call'[d].reply = call[d].reply /\ call'[d].result = call[d].result
  <2>1. CASE Woken(c)
    <3>. DEFINE pc == IF call[c].loops THEN "check" ELSE "return"
                n == call[c].sem - 1
    <3>1. call' = [call EXCEPT ![c].sem = n, ![c].pc = pc] /\ call[c].sem > 0
      BY <2>1 DEF Woken
    <3>2. n \in Nat /\ pc \in CallPcs
      BY <1>3, <3>1 DEF CallRecords, CallPcs
    <3>. HIDE DEF n, pc
    <3>. DEFINE r == [call[c] EXCEPT !.sem = n, !.pc = pc]
    <3>5. r \in CallRecords
      <4>1. call[c] \in CallRecords
        BY <1>3
      <4>. QED  BY <3>2, <4>1 DEF CallRecords
    <3>6. call' = [call EXCEPT ![c] = r]
      BY <3>1
    <3>. HIDE DEF r
    <3>3. call' \in [Callers -> CallRecords]
      BY <1>3, <3>5, <3>6
    <3>. USE DEF r
    <3>4. /\ call'[c].floor = call[c].floor /\ call'[c].about = call[c].about
          /\ call'[c].reply = call[c].reply /\ call'[c].result = call[c].result
      BY <1>3, <3>1 DEF CallRecords
    <3>7. \A d \in Callers : d # c => call'[d] = call[d]
      BY <1>3, <3>1 DEF CallRecords
    <3>. QED  BY <3>3, <3>4, <3>7
  <2>2. CASE StillPending(c)
    <3>1. call' = [call EXCEPT ![c].pc = "wait"] /\ "wait" \in CallPcs
      BY <2>2 DEF StillPending, CallPcs
    <3>. QED  BY <1>3, <3>1 DEF CallRecords
  <2>3. CASE Return(c)
    <3>1. call' = [call EXCEPT ![c] = [call[c] EXCEPT !.pc = "idle"]] /\ "idle" \in CallPcs
      BY <2>3 DEF Return, CallPcs
    <3>. QED  BY <1>3, <3>1 DEF CallRecords
  <2>. QED  BY <2>1, <2>2, <2>3 DEF Caller
<1>5. /\ settings' \in [Settings -> [now : Nat, told : Nat]]
      /\ \A s \in Settings : settings'[s].now = settings[s].now
                             /\ settings'[s].told <= settings'[s].now
  <2>1. /\ settings \in [Settings -> [now : Nat, told : Nat]]
        /\ \A s \in Settings : settings[s].told <= settings[s].now
    BY DEF QueueInv, QueueTypes, Versions
  <2>2. CASE settings' = settings
    BY <2>1, <2>2
  <2>3. CASE settings' = [settings EXCEPT ![call[c].about].told = call[c].reply]
    <3>1. /\ call[c].about \in Settings /\ call[c].reply \in Nat
          /\ call[c].reply <= settings[call[c].about].now
      BY <1>3 DEF CallRecords, QueueInv, Versions
    <3>. QED  BY <2>1, <2>3, <3>1
  <2>. QED  BY <2>2, <2>3 DEF Caller, Woken, StillPending, Return
<1>6. Versions'
  <2>1. \A d \in Callers : call[d].about \in Settings
    BY <1>3 DEF CallRecords
  <2>. QED  BY <1>4, <1>5, <2>1 DEF QueueInv, Versions
<1>. QED  BY <1>1, <1>2, <1>4, <1>5, <1>6 DEF QueueInv, QueueTypes, QueueParts

-----------------------------------------------------------------------------
(* The main queue thread.                                                  *)

\* It takes the first message.
LEMMA PopInvariant ==
    ASSUME QueueInv, Pop
    PROVE  QueueInv'
<1>. DEFINE m == queue[1]
<1>1. /\ main.step = "pop" /\ queue # <<>> /\ queue' = Tail(queue)
      /\ main' = [step |-> "dispatch", msg |-> Head(queue)]
      /\ UNCHANGED <<delayed, memory, call, settings>>
  BY DEF Pop
<1>2. main.msg = NoMessage
  BY <1>1 DEF QueueInv, Placed
<1>3. /\ queue' \in Seq(Messages) /\ Head(queue) = m /\ m \in Messages
      /\ Len(queue) \in Nat /\ 1 \in 1..Len(queue)
      /\ \A k \in 1..Len(queue') :
            queue'[k] = queue[k + 1] /\ k + 1 \in 1..Len(queue) /\ k + 1 # 1
      /\ \A k \in 1..Len(queue) :
            k = 1 \/ (k - 1 \in 1..Len(queue') /\ queue'[k - 1] = queue[k])
      /\ Len(queue') = Len(queue) - 1
  BY <1>1, MessageTaken DEF QueueInv, QueueTypes
<1>4. main'.msg = m /\ main'.step = "dispatch"
  BY <1>1, <1>3
<1>5. QueueTypes'
  BY <1>1, <1>3 DEF QueueInv, QueueTypes
<1>6. Versions'
  BY <1>1 DEF QueueInv, Versions
<1>7. Placed'
  BY <1>1, <1>3, <1>4 DEF QueueInv, Placed, WasPushed
<1>8. OnePlace'
  <2>1. ASSUME NEW i \in 1..Len(queue'), NEW j \in 1..Len(queue'), queue'[i].id = queue'[j].id
        PROVE  queue'[i] = queue'[j] /\ (i = j \/ queue'[i].kind = "reverse")
    <3>1. i + 1 = j + 1 => i = j
      BY <1>3
    <3>2. /\ i + 1 \in 1..Len(queue) /\ queue'[i] = queue[i + 1]
          /\ j + 1 \in 1..Len(queue) /\ queue'[j] = queue[j + 1]
      BY <1>3
    <3>3. queue[i + 1] = queue[j + 1] /\ (i + 1 = j + 1 \/ queue[i + 1].kind = "reverse")
      BY <2>1, <3>2 DEF QueueInv, OnePlace
    <3>. QED  BY <3>1, <3>2, <3>3
  <2>2. \A i \in 1..Len(queue') : queue'[i].id = m.id => queue'[i] = m /\ m.kind = "reverse"
    BY <1>3 DEF QueueInv, OnePlace
  <2>3. \A d \in delayed : d.id = m.id => d = m /\ d.kind = "reverse"
    BY <1>3 DEF QueueInv, OnePlace
  <2>. QED  BY <1>1, <1>3, <1>4, <2>1, <2>2, <2>3 DEF QueueInv, OnePlace
<1>9. KeptLive'
  BY <1>1, <1>3, <1>4 DEF QueueInv, KeptLive
<1>10. Accounted'
  <2>1. ASSUME NEW n \in 1..memory.count,
               NEW i \in 1..Len(queue), queue[i].id = n
        PROVE  (\E j \in 1..Len(queue') : queue'[j].id = n) \/ main'.msg.id = n
    BY <1>3, <1>4, <2>1
  <2>2. ASSUME NEW n \in 1..memory.count PROVE main.msg.id # n
    BY <1>2 DEF NoMessage
  <2>. QED  BY <1>1, <2>1, <2>2 DEF QueueInv, Accounted
<1>. QED  BY <1>5, <1>6, <1>7, <1>8, <1>9, <1>10 DEF QueueInv

\* The message stays in hand.
LEMMA InHandInvariant ==
    ASSUME QueueInv, main.step # "pop", NEW step \in {"post", "free"},
           main' = [main EXCEPT !.step = step], UNCHANGED <<queue, delayed, memory>>
    PROVE  QueueParts' /\ main' \in [step : {"pop", "dispatch", "post", "free"}, msg : Messages]
<1>1. PICK s \in {"pop", "dispatch", "post", "free"}, m \in Messages :
          main = [step |-> s, msg |-> m]
  BY DEF QueueInv, QueueTypes
<1>2. main' = [step |-> step, msg |-> m]
  BY <1>1
<1>3. main'.msg = main.msg /\ main'.step # "pop"
  BY <1>1, <1>2
<1>4. QueueParts'
  BY <1>3, PartsKept DEF QueueInv, QueueParts
<1>5. main' \in [step : {"pop", "dispatch", "post", "free"}, msg : Messages]
  <2>1. step \in {"pop", "dispatch", "post", "free"}
    OBVIOUS
  <2>2. [step |-> step, msg |-> m] \in [step : {"pop", "dispatch", "post", "free"}, msg : Messages]
    BY <2>1
  <2>. QED  BY <1>2, <2>2, Zenon
<1>. QED  BY <1>4, <1>5

\* It drops a message, handles it, answers it, and posts its caller.
LEMMA HandlesInvariant ==
    ASSUME QueueInv, Drop \/ Handle \/ Post \/ NotifyFirmware
    PROVE  QueueInv'
<1>. DEFINE c == main.msg.from
<1>1. /\ main.step # "pop" /\ UNCHANGED <<queue, delayed, memory>>
      /\ \E step \in {"post", "free"} : main' = [main EXCEPT !.step = step]
  BY DEF Drop, Handle, Post, NotifyFirmware
<1>2. QueueParts' /\ main' \in [step : {"pop", "dispatch", "post", "free"}, msg : Messages]
  BY <1>1, InHandInvariant
<1>3. /\ call \in [Callers -> CallRecords] /\ settings \in [Settings -> [now : Nat, told : Nat]]
  BY DEF QueueInv, QueueTypes
<1>4. CASE Drop \/ NotifyFirmware
  <2>1. UNCHANGED <<call, settings>>
    BY <1>4 DEF Drop, NotifyFirmware
  <2>2. Versions'
    BY <2>1 DEF QueueInv, Versions
  <2>. QED  BY <1>1, <1>2, <2>1, <2>2 DEF QueueInv, QueueTypes, QueueParts
<1>5. CASE Post
  <2>1. UNCHANGED settings
    BY <1>5 DEF Post
  <2>2. call' \in [Callers -> CallRecords] /\ \A d \in Callers :
          /\ call'[d].floor = call[d].floor /\ call'[d].about = call[d].about
          /\ call'[d].reply = call[d].reply /\ call'[d].result = call[d].result
    <3>1. call' = call \/ call' = [call EXCEPT ![c].sem = @ + 1]
      BY <1>5 DEF Post
    <3>2. CASE call' = call
      BY <1>3, <3>2
    <3>3. CASE call' = [call EXCEPT ![c].sem = @ + 1]
      <4>1. CASE c \in Callers
        <5>1. PICK e \in Callers : e = c
          BY <4>1
        <5>. HIDE DEF c
        <5>. QED  BY <1>3, <3>3, <5>1 DEF CallRecords
      <4>2. CASE c \notin Callers
        <5>1. call' = call
          BY <1>3, <3>3, <4>2
        <5>. QED  BY <1>3, <5>1
      <4>. QED  BY <4>1, <4>2
    <3>. QED  BY <3>1, <3>2, <3>3
  <2>3. Versions'
    BY <2>1, <2>2, VersionsKept DEF QueueInv
  <2>. QED  BY <1>1, <1>2, <1>3, <2>1, <2>2, <2>3 DEF QueueInv, QueueTypes, QueueParts
<1>6. CASE Handle
  <2>1. main.msg.kind \in {"global", "network", "handler", "reverse"}
    BY <1>6 DEF Handle, Answers
  <2>2. c \in Callers
    BY <1>1, <2>1 DEF QueueInv, Placed, WasPushed
  <2>3. PICK e \in Callers : e = c
    BY <2>2
  <2>. DEFINE a == call[e].about
  <2>4. /\ settings' = IF call[e].sets THEN [settings EXCEPT ![a].now = @ + 1] ELSE settings
        /\ call' = [call EXCEPT ![e].result = "success", ![e].reply = settings'[a].now]
    BY <1>6, <2>3 DEF Handle
  <2>5. a \in Settings /\ call[e].floor \in Nat /\ call[e].sets \in BOOLEAN
    BY <1>3 DEF CallRecords
  <2>6. /\ settings' \in [Settings -> [now : Nat, told : Nat]]
        /\ \A s \in Settings : settings'[s].told = settings[s].told
                               /\ settings'[s].now >= settings[s].now
    <3>. HIDE DEF a
    <3>1. CASE call[e].sets
      BY <1>3, <2>4, <2>5, <3>1
    <3>2. CASE ~call[e].sets
      BY <1>3, <2>4, <3>2
    <3>. QED  BY <2>5, <3>1, <3>2
  <2>7. PICK n \in Nat : n = settings'[a].now
    BY <2>5, <2>6
  <2>8. call[e].floor <= n
    <3>1. call[e].floor <= settings[a].now /\ settings[a].now \in Nat
      BY <1>3, <2>5 DEF QueueInv, Versions
    <3>. QED  BY <2>5, <2>6, <2>7, <3>1
  <2>9. call' = [call EXCEPT ![e].result = "success", ![e].reply = n]
    BY <2>4, <2>7
  <2>10. call' \in [Callers -> CallRecords]
    <3>. DEFINE row == [call[e] EXCEPT !.result = "success", !.reply = n]
    <3>1. call[e] \in CallRecords
      BY <1>3
    <3>2. row \in CallRecords
      BY <3>1 DEF CallRecords
    <3>3. call' = [call EXCEPT ![e] = row]
      BY <2>9
    <3>. HIDE DEF row
    <3>. QED  BY <1>3, <3>2, <3>3
  <2>11. /\ call'[e].floor = call[e].floor /\ call'[e].about = a
         /\ call'[e].reply = n /\ call'[e].result = "success"
    BY <1>3, <2>9 DEF CallRecords
  <2>12. \A d \in Callers : d # e => call'[d] = call[d]
    BY <1>3, <2>9 DEF CallRecords
  <2>13. Versions'
    <3>1. \A s \in Settings : settings[s].told \in Nat /\ settings[s].now \in Nat
                              /\ settings'[s].told \in Nat /\ settings'[s].now \in Nat
      BY <1>3, <2>6
    <3>2. \A s \in Settings : settings'[s].told <= settings'[s].now
      BY <2>6, <3>1 DEF QueueInv, Versions
    <3>3. \A d \in Callers : /\ call[d].about \in Settings
                             /\ call[d].floor \in Nat /\ call[d].reply \in Nat
      BY <1>3 DEF CallRecords
    <3>4. ASSUME NEW d \in Callers
          PROVE  /\ call'[d].floor <= settings'[call'[d].about].now
                 /\ call'[d].reply <= settings'[call'[d].about].now
                 /\ call'[d].result = "success" => call'[d].reply >= call'[d].floor
      <4>1. CASE d = e
        BY <2>5, <2>7, <2>8, <2>11, <4>1
      <4>2. CASE d # e
        <5>1. call'[d] = call[d]
          BY <2>12, <4>2
        <5>2. /\ call[d].floor <= settings[call[d].about].now
              /\ call[d].reply <= settings[call[d].about].now
              /\ call[d].result = "success" => call[d].reply >= call[d].floor
          BY DEF QueueInv, Versions
        <5>3. settings'[call[d].about].now >= settings[call[d].about].now
          BY <2>6, <3>3
        <5>4. settings'[call[d].about].now \in Nat /\ settings[call[d].about].now \in Nat
          BY <3>1, <3>3
        <5>. QED  BY <3>3, <5>1, <5>2, <5>3, <5>4
      <4>. QED  BY <4>1, <4>2
    <3>. QED  BY <3>2, <3>4 DEF Versions
  <2>. QED  BY <1>1, <1>2, <2>6, <2>10, <2>13 DEF QueueInv, QueueTypes, QueueParts
<1>. QED  BY <1>4, <1>5, <1>6

\* A message is put off.
LEMMA PutOffInvariant ==
    ASSUME QueueInv, PutOff
    PROVE  QueueInv'
<1>1. PICK s \in {"pop", "dispatch", "post", "free"}, m \in Messages :
          main = [step |-> s, msg |-> m]
  BY DEF QueueInv, QueueTypes
<1>2. /\ s = "dispatch" /\ m.kind \in {"firmware", "reverse"} /\ delayed' = delayed \cup {m}
      /\ UNCHANGED <<queue, memory, call, settings>>
  BY <1>1 DEF PutOff
<1>3. \/ m.kind = "firmware" /\ main' = [step |-> "pop", msg |-> NoMessage]
      \/ m.kind = "reverse" /\ main' = [step |-> "free", msg |-> m]
  BY <1>1, <1>2 DEF PutOff
<1>4. main.msg = m /\ main.step # "pop" /\ NoMessage \in Messages
  BY <1>1, <1>2 DEF NoMessage, Messages, MessageKinds
<1>5. WasPushed(m, memory.count)
  BY <1>4 DEF QueueInv, Placed
<1>6. IsFiniteSet(delayed')
  BY <1>2, FS_AddElement DEF QueueInv, QueueTypes
<1>7. QueueTypes'
  BY <1>2, <1>3, <1>4, <1>6 DEF QueueInv, QueueTypes
<1>8. Versions'
  BY <1>2 DEF QueueInv, Versions
<1>9. Placed'
  <2>1. (main'.step = "pop" /\ main'.msg = NoMessage) \/ (main'.step = "free" /\ main'.msg = m)
    BY <1>3
  <2>. QED  BY <1>2, <1>5, <2>1 DEF QueueInv, Placed, WasPushed
<1>10. /\ \A i \in 1..Len(queue) : queue[i].id \in 1..memory.count
       /\ \A d \in delayed : d.id \in 1..memory.count
       /\ m.id \in 1..memory.count
  BY <1>5 DEF QueueInv, Placed, WasPushed
<1>11. \/ m.kind # "reverse" /\ main'.msg.id = 0
       \/ m.kind = "reverse" /\ main'.msg = m
  BY <1>3 DEF NoMessage
<1>12. OnePlace'
  <2>1. ASSUME NEW i \in 1..Len(queue), NEW d \in delayed', queue[i].id = d.id
        PROVE  queue[i] = d /\ d.kind = "reverse"
    BY <1>2, <1>4, <2>1 DEF QueueInv, OnePlace
  <2>2. ASSUME NEW d \in delayed', NEW e \in delayed', d.id = e.id PROVE d = e
    BY <1>2, <1>4, <2>2 DEF QueueInv, OnePlace
  <2>3. ASSUME NEW i \in 1..Len(queue), queue[i].id = main'.msg.id
        PROVE  queue[i] = main'.msg /\ main'.msg.kind = "reverse"
    BY <1>4, <1>10, <1>11, <2>3 DEF QueueInv, OnePlace
  <2>4. ASSUME NEW d \in delayed', d.id = main'.msg.id
        PROVE  d = main'.msg /\ d.kind = "reverse"
    BY <1>2, <1>4, <1>10, <1>11, <2>4 DEF QueueInv, OnePlace
  <2>. QED  BY <1>2, <2>1, <2>2, <2>3, <2>4 DEF QueueInv, OnePlace
<1>13. KeptLive'
  <2>1. memory.freed \subseteq 1..memory.count
    BY DEF QueueInv, Placed
  <2>2. main'.msg.id \in memory.freed => main'.msg.kind = "reverse"
    BY <1>11, <2>1
  <2>. QED  BY <1>2, <1>4, <2>2 DEF QueueInv, KeptLive
<1>14. Accounted'
  BY <1>2, <1>4 DEF QueueInv, Accounted
<1>. QED  BY <1>7, <1>8, <1>9, <1>12, <1>13, <1>14 DEF QueueInv

\* The message in hand is freed.
LEMMA FreeInvariant ==
    ASSUME QueueInv, Free
    PROVE  QueueInv'
<1>1. PICK n \in Nat, f \in SUBSET Nat : memory = [count |-> n, freed |-> f]
  BY DEF QueueInv, QueueTypes
<1>. DEFINE m == main.msg
<1>2. /\ main.step = "free" /\ main' = [step |-> "pop", msg |-> NoMessage]
      /\ UNCHANGED <<queue, delayed, call, settings>>
      /\ memory' = [count |-> n, freed |-> f \cup {m.id}]
  BY <1>1 DEF Free
<1>3. /\ memory.count = n /\ memory.freed = f
      /\ memory'.count = n /\ memory'.freed = f \cup {m.id}
      /\ main'.step = "pop" /\ main'.msg = NoMessage /\ NoMessage.id = 0
  BY <1>1, <1>2 DEF NoMessage
<1>4. m.id \in 1..n
  BY <1>2, <1>3 DEF QueueInv, Placed, WasPushed
<1>5. QueueTypes'
  <2>1. NoMessage \in Messages
    BY DEF NoMessage, Messages, MessageKinds
  <2>. HIDE DEF m
  <2>2. \A x \in f \cup {m.id} : x \in Nat
    BY <1>4
  <2>3. memory' \in [count : Nat, freed : SUBSET Nat]
    BY <1>2, <2>2, MemoryTyped
  <2>. QED  BY <1>2, <2>1, <2>3 DEF QueueInv, QueueTypes
<1>6. Versions'
  BY <1>2 DEF QueueInv, Versions
<1>7. Placed'
  BY <1>2, <1>3, <1>4 DEF QueueInv, Placed, WasPushed
<1>8. /\ \A i \in 1..Len(queue) : queue[i].id \in 1..n
      /\ \A d \in delayed : d.id \in 1..n
      /\ f \subseteq 1..n
  BY <1>3 DEF QueueInv, Placed, WasPushed
<1>9. OnePlace'
  <2>1. (\A i \in 1..Len(queue) : queue[i].id # 0) /\ \A d \in delayed : d.id # 0
    BY <1>8
  <2>. QED  BY <1>2, <1>3, <2>1 DEF QueueInv, OnePlace
<1>10. KeptLive'
  <2>1. ~(0 \in f \cup {m.id})
    BY <1>4, <1>8
  <2>. QED  BY <1>2, <1>3, <2>1 DEF QueueInv, KeptLive, OnePlace
<1>11. Accounted'
  BY <1>2, <1>3 DEF QueueInv, Accounted
<1>. QED  BY <1>5, <1>6, <1>7, <1>9, <1>10, <1>11 DEF QueueInv

\* A message that was put off is pushed again.
LEMMA PushAgainInvariant ==
    ASSUME QueueInv, NEW m \in delayed, PushAgain(m)
    PROVE  QueueInv'
<1>1. /\ delayed' = delayed \ {m} /\ queue' = Append(queue, m)
      /\ UNCHANGED <<main, memory, call, settings>>
  BY DEF PushAgain
<1>2. m \in Messages
  BY DEF QueueInv, QueueTypes
<1>3. /\ queue' \in Seq(Messages) /\ Len(queue) \in Nat
      /\ Len(queue') = Len(queue) + 1 /\ queue'[Len(queue) + 1] = m
      /\ \A k \in 1..Len(queue) :
            queue'[k] = queue[k] /\ queue[k] \in Messages /\ k \in 1..Len(queue')
      /\ \A k \in 1..Len(queue') : k \in 1..Len(queue) \/ k = Len(queue) + 1
      /\ Len(queue) + 1 \in 1..Len(queue')
  BY <1>1, <1>2, MessageQueued DEF QueueInv, QueueTypes
<1>4. IsFiniteSet(delayed')
  BY <1>1, FS_RemoveElement DEF QueueInv, QueueTypes
<1>5. QueueTypes'
  BY <1>1, <1>3, <1>4 DEF QueueInv, QueueTypes
<1>6. Versions'
  BY <1>1 DEF QueueInv, Versions
<1>7. Placed'
  <2>1. \A i \in 1..Len(queue') : queue'[i] = m \/ \E j \in 1..Len(queue) : queue'[i] = queue[j]
    BY <1>3
  <2>2. \A i \in 1..Len(queue') : WasPushed(queue'[i], memory.count)
    BY <2>1 DEF QueueInv, Placed
  <2>. QED  BY <1>1, <2>2 DEF QueueInv, Placed, WasPushed
<1>8. OnePlace'
  <2>1. ASSUME NEW i \in 1..Len(queue'), NEW j \in 1..Len(queue'), queue'[i].id = queue'[j].id
        PROVE  queue'[i] = queue'[j] /\ (i = j \/ queue'[i].kind = "reverse")
    <3>1. CASE i \in 1..Len(queue) /\ j \in 1..Len(queue)
      BY <1>3, <2>1, <3>1 DEF QueueInv, OnePlace
    <3>2. CASE i = Len(queue) + 1 /\ j = Len(queue) + 1
      BY <3>2
    <3>3. CASE i \in 1..Len(queue) /\ j = Len(queue) + 1
      BY <1>3, <2>1, <3>3 DEF QueueInv, OnePlace
    <3>4. CASE i = Len(queue) + 1 /\ j \in 1..Len(queue)
      BY <1>3, <2>1, <3>4 DEF QueueInv, OnePlace
    <3>. QED  BY <1>3, <3>1, <3>2, <3>3, <3>4
  <2>2. ASSUME NEW i \in 1..Len(queue')
        PROVE  /\ \A d \in delayed' : queue'[i].id = d.id => queue'[i] = d /\ d.kind = "reverse"
               /\ queue'[i].id = main.msg.id => queue'[i] = main.msg /\ main.msg.kind = "reverse"
    <3>1. CASE i \in 1..Len(queue)
      BY <1>1, <1>3, <3>1 DEF QueueInv, OnePlace
    <3>2. CASE i = Len(queue) + 1
      BY <1>1, <1>3, <3>2 DEF QueueInv, OnePlace
    <3>. QED  BY <1>3, <3>1, <3>2
  <2>. QED  BY <1>1, <2>1, <2>2 DEF QueueInv, OnePlace
<1>9. KeptLive'
  <2>1. \A i \in 1..Len(queue') : queue'[i] = m \/ \E j \in 1..Len(queue) : queue'[i] = queue[j]
    BY <1>3
  <2>2. \A i \in 1..Len(queue') : queue'[i].id \in memory.freed => queue'[i].kind = "reverse"
    BY <2>1 DEF QueueInv, KeptLive
  <2>. QED  BY <1>1, <2>2 DEF QueueInv, KeptLive
<1>10. Accounted'
  BY <1>1, <1>3 DEF QueueInv, Accounted
<1>. QED  BY <1>5, <1>6, <1>7, <1>8, <1>9, <1>10 DEF QueueInv

\* main(): the messages it pushes are nobody's calls.
LEMMA MainInvariant ==
    ASSUME QueueInv, Ready \/ Start \/ Stopped \/ Firmware \/ Terminate
    PROVE  QueueInv'
<1>1. UNCHANGED <<main, delayed, call, settings>>
  BY DEF Ready, Start, Stopped, Firmware, Terminate
<1>2. Versions'
  BY <1>1 DEF QueueInv, Versions
<1>3. CASE Ready \/ Start \/ Stopped
  <2>1. UNCHANGED <<queue, memory>>
    BY <1>3 DEF Ready, Start, Stopped
  <2>2. Placed' /\ OnePlace' /\ KeptLive' /\ Accounted'
    BY <1>1, <2>1 DEF QueueInv, Placed, WasPushed, OnePlace, KeptLive, Accounted
  <2>. QED  BY <1>1, <1>2, <2>1, <2>2 DEF QueueInv, QueueTypes
<1>4. CASE Firmware \/ Terminate
  <2>1. PICK kind \in {"firmware", "terminate"} :
          /\ memory' = [memory EXCEPT !.count = @ + 1]
          /\ queue' = Append(queue, [id |-> memory.count + 1, kind |-> kind, from |-> "none",
                                     valid |-> TRUE])
    BY <1>4 DEF Firmware, Terminate, Push
  <2>2. kind \in MessageKinds /\ kind \notin {"global", "network", "handler", "reverse"}
    BY DEF MessageKinds
  <2>3. "none" \in Callers \cup {"none"} /\ TRUE \in BOOLEAN
    OBVIOUS
  <2>4. /\ queue' \in Seq(Messages) /\ memory' \in [count : Nat, freed : SUBSET Nat]
        /\ QueueParts'
    BY <1>1, <2>1, <2>2, <2>3, NewMessage
  <2>. QED  BY <1>1, <1>2, <2>4 DEF QueueInv, QueueTypes, QueueParts
<1>. QED  BY <1>3, <1>4

\* Every step keeps the invariant.
LEMMA QueueStep == QueueInv /\ [QueueNext]_queueVars => QueueInv'
<1>. SUFFICES ASSUME QueueInv, [QueueNext]_queueVars PROVE QueueInv'
  OBVIOUS
<1>1. CASE MainThread
  BY <1>1, PopInvariant, HandlesInvariant, PutOffInvariant, FreeInvariant DEF MainThread
<1>2. ASSUME NEW c \in Callers, Caller(c) \/ Calls(c) PROVE QueueInv'
  BY <1>2, CallerInvariant, CallsInvariant
<1>3. ASSUME NEW m \in delayed, PushAgain(m) PROVE QueueInv'
  BY <1>3, PushAgainInvariant
<1>4. CASE Ready \/ Start \/ Firmware \/ Terminate \/ Stopped
  BY <1>4, MainInvariant
<1>5. CASE UNCHANGED queueVars
  BY <1>5 DEF queueVars, QueueInv, QueueTypes, Versions, Placed, WasPushed, OnePlace, KeptLive, Accounted
<1>. QED  BY <1>1, <1>2, <1>3, <1>4, <1>5 DEF QueueNext

\* QueueSound: a request finds what was confirmed before it began, and every message that was
\* pushed is in one place until it is freed.
THEOREM MessagesAreKept == QueueSpec => []QueueSound
<1>1. QueueInit => QueueInv
  <2>. SUFFICES ASSUME QueueInit PROVE QueueInv
    OBVIOUS
  <2>1. NoCall \in CallRecords /\ NoMessage \in Messages
    BY DEF NoCall, CallRecords, CallPcs, Settings, NoMessage, Messages, MessageKinds
  <2>2. Len(queue) = 0 /\ queue \in Seq(Messages) /\ delayed = {} /\ IsFiniteSet({})
    BY FS_EmptySet DEF QueueInit
  <2>3. QueueTypes
    BY <2>1, <2>2 DEF QueueInit, QueueTypes
  <2>4. Versions
    BY DEF QueueInit, Versions, NoCall, Settings
  <2>5. Placed /\ OnePlace /\ KeptLive /\ Accounted
    BY <2>2 DEF QueueInit, Placed, OnePlace, KeptLive, Accounted
  <2>. QED  BY <2>3, <2>4, <2>5 DEF QueueInv
<1>2. QueueInv => QueueSound
  <2>. SUFFICES ASSUME QueueInv PROVE QueueSound
    OBVIOUS
  <2>1. DOMAIN queue = 1..Len(queue) /\ memory.count \in Nat
    BY DEF QueueInv, QueueTypes
  <2>2. ReadsLatest
    BY DEF QueueInv, Versions, ReadsLatest
  <2>3. MessagesLive
    BY <2>1 DEF QueueInv, KeptLive, MessagesLive, InUse, Live
  <2>4. NothingLost
    <3>. DEFINE kept == memory.freed \cup {msg.id : msg \in InUse \ {NoMessage}}
    <3>1. \A n \in 1..memory.count : n \in kept
      <4>1. ASSUME NEW n \in 1..memory.count, NEW m \in InUse, m.id = n PROVE n \in kept
        <5>1. m # NoMessage
          BY <4>1 DEF NoMessage
        <5>. QED  BY <4>1, <5>1
      <4>. QED  BY <2>1, <4>1 DEF QueueInv, Accounted, InUse
    <3>2. \A n \in kept : n \in 1..memory.count
      <4>1. memory.freed \subseteq 1..memory.count
        BY DEF QueueInv, Placed
      <4>2. ASSUME NEW m \in InUse, m # NoMessage PROVE m.id \in 1..memory.count
        BY <2>1, <4>2 DEF QueueInv, Placed, WasPushed, InUse
      <4>. QED  BY <4>1, <4>2
    <3>3. kept = 1..memory.count
      BY <3>1, <3>2
    <3>4. Cardinality(1..memory.count) = memory.count
      BY <2>1, FS_Interval
    <3>. HIDE DEF kept
    <3>5. memory.count <= Cardinality(kept)
      BY <2>1, <3>3, <3>4
    <3>. QED  BY <3>5 DEF NothingLost, kept
  <2>. QED  BY <2>2, <2>3, <2>4 DEF QueueSound
<1>3. QueueInv /\ [QueueNext]_queueVars => QueueInv'
  BY QueueStep
<1>. QED  BY <1>1, <1>2, <1>3, PTL DEF QueueSpec

-----------------------------------------------------------------------------
(***************************************************************************)
(* The monitor does not end the program while every thread works, a poll   *)
(* that is needed is running or will run, and the power state is the one   *)
(* that was told, for any number of polls, hangs and messages.             *)
(***************************************************************************)

\* The state's types.
SystemStates == {"on", "standby", "deep_sleep"}
LoopMessages ==
    {[type |-> "monitor_poll"], [type |-> "auth"]}
    \cup [type : {"power"}, new : SystemStates, system : BOOLEAN]
AuthRecords ==
    [ready : BOOLEAN, ids : BOOLEAN, token : BOOLEAN, tag : {"none", "new", "mine"},
     retries : Int, expiry : BOOLEAN, raced : BOOLEAN]
PowerRecords == [state : SystemStates \cup {"voice"}, told : SystemStates]
LoopTypes ==
    /\ loop \in [pc : {"run", "poll", "polled", "alarm", "term"},
                 poll : [ret : BOOLEAN, switch : BOOLEAN]]
    /\ mainq \in Seq(LoopMessages)
    /\ auth \in AuthRecords
    /\ loopPower \in PowerRecords

\* The loop waits for each message of the authorization service: there is one at most.
OnePoll ==
    /\ \A i \in 1..Len(mainq) : mainq[i].type = "auth" => loop.pc = "poll"
    /\ \A i, j \in 1..Len(mainq) : mainq[i].type = "auth" /\ mainq[j].type = "auth" => i = j

\* While a poll is under way its timer, or a newer one, is known; one that is not to be
\* repeated has found everything, or the token has become invalid since.
Complete(a) == a.ids /\ (a.token \/ SatEvents)
PollUnderWay ==
    /\ loop.pc \in {"poll", "polled"} => auth.tag # "none"
    /\ loop.pc = "polled" /\ ~loop.poll.ret /\ ~loop.poll.switch /\ auth.ready
           => Complete(auth) \/ auth.raced

LoopInv == LoopTypes /\ OnePoll /\ PollUnderWay /\ LoopSound

\* What the configuration of a build gives: two switches and a number of retries
LoopAssumption == SatEvents \in BOOLEAN /\ RecentlyBooted \in BOOLEAN /\ MaxPollRetries \in Int

-----------------------------------------------------------------------------
\* The first message of the main queue is handled.
LEMMA FirstLoopHandled ==
    ASSUME mainq \in Seq(LoopMessages), mainq # <<>>, mainq' = Tail(mainq)
    PROVE  /\ mainq' \in Seq(LoopMessages) /\ Head(mainq) = mainq[1] /\ mainq[1] \in LoopMessages
           /\ Len(mainq) \in Nat /\ 1 \in 1..Len(mainq)
           /\ \A i \in 1..Len(mainq') :
                 mainq'[i] = mainq[i + 1] /\ i + 1 \in 1..Len(mainq) /\ i + 1 # 1
           /\ \A i, j \in 1..Len(mainq') : i + 1 = j + 1 => i = j
<1>1. /\ mainq' \in Seq(LoopMessages) /\ Head(mainq) = mainq[1] /\ mainq[1] \in LoopMessages
      /\ Len(mainq) \in Nat /\ Len(mainq) # 0 /\ Len(mainq') = Len(mainq) - 1
      /\ \A i \in 1..(Len(mainq) - 1) : mainq'[i] = mainq[i + 1]
  OBVIOUS
<1>. QED  BY <1>1

\* A message is queued that is not of the authorization service, or is while none is there.
LEMMA OtherQueued ==
    ASSUME NEW m \in LoopMessages, mainq \in Seq(LoopMessages), OnePoll,
           mainq' = Append(mainq, m), UNCHANGED loop, m.type # "auth"
    PROVE  mainq' \in Seq(LoopMessages) /\ OnePoll'
<1>1. /\ mainq' \in Seq(LoopMessages) /\ Len(mainq) \in Nat /\ Len(mainq') = Len(mainq) + 1
      /\ mainq'[Len(mainq) + 1] = m /\ \A i \in 1..Len(mainq) : mainq'[i] = mainq[i]
  OBVIOUS
<1>2. \A i \in 1..Len(mainq') : i \in 1..Len(mainq) \/ i = Len(mainq) + 1
  BY <1>1
<1>. QED  BY <1>1, <1>2 DEF OnePoll

\* The monitor and the threads: they do not touch the authorization data or the power state.
LEMMA MonitorKeeps ==
    ASSUME LoopInv, \/ Pass \/ Signal \/ HandleMonitorPoll
                    \/ \E t \in LoopThreads : Answer(t) \/ Hang(t)
    PROVE  LoopInv'
<1>1. UNCHANGED <<auth, loopPower>>
  BY DEF Pass, PassHalted, PassResumes, PassChecks, PassAlarms, Signal, HandleMonitorPoll,
         Answer, Hang
<1>2. PICK pc \in {"run", "poll", "polled", "alarm", "term"},
           poll \in [ret : BOOLEAN, switch : BOOLEAN] : loop = [pc |-> pc, poll |-> poll]
  BY DEF LoopInv, LoopTypes
<1>3. /\ loop' = loop \/ (pc = "run" /\ \E new \in {"alarm", "term"} : loop' = [pc |-> new, poll |-> poll])
      /\ loop'.pc = "alarm" => hung' # {}
  <2>1. CASE PassHalted \/ PassResumes \/ PassChecks \/ HandleMonitorPoll
    BY <2>1 DEF PassHalted, PassResumes, PassChecks, HandleMonitorPoll, Marked, LoopInv,
                LoopSound, NoFalseAlarm
  <2>2. CASE PassAlarms
    <3>1. loop' = [pc |-> "alarm", poll |-> poll] /\ pc = "run" /\ hung' = hung
      BY <1>2, <2>2 DEF PassAlarms
    <3>2. \E t \in LoopThreads : ~ThreadAnswers(t)
      BY <2>2 DEF PassAlarms, Prompt
    <3>. QED  BY <3>1, <3>2 DEF ThreadAnswers
  <2>3. CASE Signal
    BY <1>2, <2>3 DEF Signal
  <2>4. CASE \E t \in LoopThreads : Answer(t) \/ Hang(t)
    BY <2>4 DEF Answer, Hang, LoopInv, LoopSound, NoFalseAlarm
  <2>. QED  BY <2>1, <2>2, <2>3, <2>4 DEF Pass
<1>4. LoopTypes' /\ OnePoll'
  <2>1. loop' \in [pc : {"run", "poll", "polled", "alarm", "term"},
                   poll : [ret : BOOLEAN, switch : BOOLEAN]]
    BY <1>2, <1>3
  <2>2. loop'.pc = loop.pc \/ loop.pc = "run"
    BY <1>2, <1>3
  <2>3. CASE mainq' = mainq
    BY <1>1, <2>1, <2>2, <2>3 DEF LoopInv, LoopTypes, OnePoll
  <2>4. CASE mainq' = Append(mainq, [type |-> "monitor_poll"]) /\ UNCHANGED loop
    <3>1. [type |-> "monitor_poll"] \in LoopMessages /\ [type |-> "monitor_poll"].type # "auth"
      BY DEF LoopMessages
    <3>. QED  BY <1>1, <2>4, <3>1, OtherQueued DEF LoopInv, LoopTypes
  <2>5. CASE mainq # <<>> /\ mainq' = Tail(mainq) /\ UNCHANGED loop
    BY <1>1, <2>5, FirstLoopHandled DEF LoopInv, LoopTypes, OnePoll
  <2>. QED  BY <2>3, <2>4, <2>5 DEF Pass, PassHalted, PassResumes, PassChecks, PassAlarms, Marked,
         Signal, HandleMonitorPoll, Answer, Hang, Next1
<1>5. PollUnderWay'
  BY <1>1, <1>2, <1>3 DEF LoopInv, PollUnderWay, Complete
<1>6. LoopSound'
  BY <1>1, <1>2, <1>3 DEF LoopInv, LoopSound, NoFalseAlarm, PollKept, ToldPower
<1>. QED  BY <1>4, <1>5, <1>6 DEF LoopInv

\* The power manager speaks, and the main thread hears.
LEMMA LoopPowerKeeps ==
    ASSUME LoopInv, \/ HandlePowerState \/ PowerEvent("on", FALSE)
                    \/ \E new \in SystemStates : PowerEvent(new, TRUE)
    PROVE  LoopInv'
<1>1. UNCHANGED <<auth, loop, hung>>
  BY DEF HandlePowerState, PowerEvent
<1>2. mainq' \in Seq(LoopMessages) /\ OnePoll'
  <2>1. CASE \E new \in SystemStates, system \in BOOLEAN : PowerEvent(new, system)
    <3>1. PICK new \in SystemStates, system \in BOOLEAN :
              mainq' = Append(mainq, [type |-> "power", new |-> new, system |-> system])
      BY <2>1 DEF PowerEvent
    <3>2. /\ [type |-> "power", new |-> new, system |-> system] \in LoopMessages
          /\ [type |-> "power", new |-> new, system |-> system].type # "auth"
      BY DEF LoopMessages
    <3>. QED  BY <1>1, <3>1, <3>2, OtherQueued DEF LoopInv, LoopTypes
  <2>2. CASE HandlePowerState
    <3>1. mainq # <<>> /\ mainq' = Tail(mainq)
      BY <2>2 DEF HandlePowerState, Next1
    <3>2. mainq \in Seq(LoopMessages) /\ OnePoll
      BY DEF LoopInv, LoopTypes
    <3>3. /\ mainq' \in Seq(LoopMessages)
          /\ \A i \in 1..Len(mainq') : mainq'[i] = mainq[i + 1] /\ i + 1 \in 1..Len(mainq)
          /\ \A i, j \in 1..Len(mainq') : i + 1 = j + 1 => i = j
      BY <3>1, <3>2, FirstLoopHandled
    <3>. QED  BY <1>1, <3>2, <3>3 DEF OnePoll
  <2>3. HandlePowerState \/ \E new \in SystemStates, system \in BOOLEAN : PowerEvent(new, system)
    <3>1. "on" \in SystemStates
      BY DEF SystemStates
    <3>. QED  BY <3>1
  <2>. QED  BY <2>1, <2>2, <2>3
<1>3. PollUnderWay'
  BY <1>1 DEF LoopInv, PollUnderWay, Complete
<1>4. loopPower' \in PowerRecords /\ ToldPower'
  <2>1. CASE UNCHANGED loopPower
    BY <2>1 DEF LoopInv, LoopTypes, LoopSound, ToldPower
  <2>2. CASE HandlePowerState
    <3>. DEFINE m == Head(mainq)
    <3>1. m.new \in SystemStates
      <4>1. m \in LoopMessages /\ m.type = "power"
        BY <2>2, FirstLoopHandled DEF HandlePowerState, Next1, LoopInv, LoopTypes
      <4>. QED  BY <4>1 DEF LoopMessages
    <3>2. PICK networked \in BOOLEAN, byVoice \in BOOLEAN :
              loopPower' = IF Filtered(m.new, m.system, networked) = loopPower.state THEN loopPower
                           ELSE IF /\ loopPower.state = "standby"
                                   /\ Filtered(m.new, m.system, networked) = "on" /\ byVoice
                           THEN [loopPower EXCEPT !.state = "voice"]
                           ELSE [state |-> Filtered(m.new, m.system, networked),
                                 told |-> Filtered(m.new, m.system, networked)]
      BY <2>2 DEF HandlePowerState
    <3>. DEFINE new == Filtered(m.new, m.system, networked)
    <3>3. new \in SystemStates \/ new = loopPower.state
      BY <3>1 DEF Filtered, SystemStates
    <3>4. /\ new = loopPower.state => loopPower' = loopPower
          /\ \/ loopPower' = loopPower
             \/ loopPower.state = "standby" /\ loopPower' = [loopPower EXCEPT !.state = "voice"]
             \/ loopPower' = [state |-> new, told |-> new]
      BY <3>2
    <3>. HIDE DEF new
    <3>5. PICK p \in PowerRecords : p = loopPower
      BY DEF LoopInv, LoopTypes
    <3>6. p.told = IF p.state = "voice" THEN "standby" ELSE p.state
      BY <3>5 DEF LoopInv, LoopSound, ToldPower
    <3>7. CASE loopPower' = p
      BY <3>5, <3>6, <3>7 DEF ToldPower
    <3>8. CASE p.state = "standby" /\ loopPower' = [p EXCEPT !.state = "voice"]
      BY <3>6, <3>8 DEF PowerRecords, ToldPower
    <3>9. CASE loopPower' = [state |-> new, told |-> new] /\ new # p.state
      <4>1. new \in SystemStates /\ new # "voice"
        BY <3>3, <3>5, <3>9 DEF SystemStates
      <4>. QED  BY <3>9, <4>1 DEF PowerRecords, ToldPower
    <3>. QED  BY <3>4, <3>5, <3>7, <3>8, <3>9
  <2>. QED  BY <2>1, <2>2 DEF PowerEvent
<1>5. LoopSound'
  BY <1>1, <1>4 DEF LoopInv, LoopSound, NoFalseAlarm, PollKept
<1>6. LoopTypes'
  BY <1>1, <1>2, <1>4 DEF LoopInv, LoopTypes
<1>. QED  BY <1>2, <1>3, <1>5, <1>6 DEF LoopInv

\* The poll begins: the loop waits, and the message is the only one of its kind.
LEMMA PollKeeps ==
    ASSUME LoopInv, PollFires
    PROVE  LoopInv'
<1>1. /\ loop.pc = "run" /\ auth.tag = "new" /\ loop' = [pc |-> "poll", poll |-> NoPoll]
      /\ auth' = [auth EXCEPT !.tag = "mine", !.raced = FALSE]
      /\ mainq' = Append(mainq, [type |-> "auth"]) /\ UNCHANGED <<hung, loopPower>>
  BY DEF PollFires
<1>2. [type |-> "auth"] \in LoopMessages /\ mainq \in Seq(LoopMessages)
  BY DEF LoopMessages, LoopInv, LoopTypes
<1>3. /\ mainq' \in Seq(LoopMessages) /\ Len(mainq) \in Nat /\ Len(mainq') = Len(mainq) + 1
      /\ \A i \in 1..Len(mainq) : mainq'[i] = mainq[i]
  BY <1>1, <1>2
<1>4. \A i \in 1..Len(mainq') : mainq'[i].type = "auth" => i = Len(mainq) + 1
  <2>1. \A i \in 1..Len(mainq') : i \in 1..Len(mainq) \/ i = Len(mainq) + 1
    BY <1>3
  <2>. QED  BY <1>1, <1>3, <2>1 DEF LoopInv, OnePoll
<1>5. auth' \in AuthRecords /\ auth'.tag = "mine" /\ auth'.ready = auth.ready
  BY <1>1 DEF LoopInv, LoopTypes, AuthRecords
<1>6. loop'.pc = "poll" /\ loop' \in [pc : {"run", "poll", "polled", "alarm", "term"},
                                       poll : [ret : BOOLEAN, switch : BOOLEAN]]
  BY <1>1 DEF NoPoll
<1>7. LoopTypes' /\ OnePoll' /\ PollUnderWay'
  BY <1>1, <1>3, <1>4, <1>5, <1>6 DEF LoopInv, LoopTypes, OnePoll, PollUnderWay
<1>8. LoopSound'
  BY <1>1, <1>6 DEF LoopInv, LoopSound, NoFalseAlarm, PollKept, ToldPower
<1>. QED  BY <1>7, <1>8 DEF LoopInv

\* The main thread answers it: the callback goes on with what it found.
LEMMA AnswerKeeps ==
    ASSUME LoopAssumption, LoopInv, HandleAuth
    PROVE  LoopInv'
<1>1. PICK gotIds \in BOOLEAN, gotToken \in BOOLEAN, failed \in BOOLEAN, retries \in Int,
           switch \in BOOLEAN :
          /\ failed = ~AuthLoaded(gotIds, gotToken)
          /\ mainq # <<>> /\ Head(mainq).type = "auth" /\ mainq' = Tail(mainq)
          /\ auth' = [AuthLoad(gotIds, gotToken) EXCEPT !.retries = retries]
          /\ switch => failed
          /\ loop' = [pc |-> "polled", poll |-> [ret |-> failed /\ ~switch, switch |-> switch]]
          /\ UNCHANGED <<hung, loopPower>>
  <2>1. PICK gotIds \in BOOLEAN, gotToken \in BOOLEAN :
            LET failed == ~AuthLoaded(gotIds, gotToken)
                retries == IF failed /\ auth.retries < MaxPollRetries THEN auth.retries + 1 ELSE auth.retries
                switch == failed /\ retries = MaxPollRetries
            IN  /\ Next1("auth") /\ mainq' = Tail(mainq)
                /\ auth' = [AuthLoad(gotIds, gotToken) EXCEPT !.retries = IF switch THEN 0 ELSE retries]
                /\ loop' = [pc |-> "polled", poll |-> [ret |-> failed /\ ~switch, switch |-> switch]]
                /\ UNCHANGED <<hung, loopPower>>
    BY DEF HandleAuth
  <2>. DEFINE failed == ~AuthLoaded(gotIds, gotToken)
              retries == IF failed /\ auth.retries < MaxPollRetries THEN auth.retries + 1 ELSE auth.retries
              switch == failed /\ retries = MaxPollRetries
              kept == IF switch THEN 0 ELSE retries
  <2>2. failed \in BOOLEAN /\ switch \in BOOLEAN
    BY DEF AuthLoaded
  <2>3. kept \in Int
    BY DEF LoopInv, LoopTypes, AuthRecords
  <2>4. /\ mainq # <<>> /\ Head(mainq).type = "auth" /\ mainq' = Tail(mainq)
        /\ auth' = [AuthLoad(gotIds, gotToken) EXCEPT !.retries = kept]
        /\ switch => failed
        /\ loop' = [pc |-> "polled", poll |-> [ret |-> failed /\ ~switch, switch |-> switch]]
        /\ UNCHANGED <<hung, loopPower>>
    BY <2>1 DEF Next1
  <2>5. failed = ~AuthLoaded(gotIds, gotToken)
    OBVIOUS
  <2>. HIDE DEF failed, retries, switch, kept
  <2>. QED  BY <2>2, <2>3, <2>4, <2>5
<1>. DEFINE ret == failed /\ ~switch
            loaded == AuthLoad(gotIds, gotToken)
<1>2. ret \in BOOLEAN /\ loop' = [pc |-> "polled", poll |-> [ret |-> ret, switch |-> switch]]
  BY <1>1
<1>3. /\ loaded \in AuthRecords /\ loaded.tag = auth.tag /\ loaded.ready = auth.ready
      /\ loaded.raced = auth.raced
      /\ loaded.ids = (auth.ids \/ (auth.ready /\ gotIds))
      /\ loaded.token = (auth.token \/ (auth.ready /\ gotToken))
  <2>1. PICK a \in AuthRecords : a = auth
    BY DEF LoopInv, LoopTypes
  <2>2. /\ a.ready \in BOOLEAN /\ a.ids \in BOOLEAN /\ a.token \in BOOLEAN /\ a.expiry \in BOOLEAN
        /\ a = [ready |-> a.ready, ids |-> a.ids, token |-> a.token, tag |-> a.tag,
                retries |-> a.retries, expiry |-> a.expiry, raced |-> a.raced]
    BY DEF AuthRecords
  <2>. QED  BY <1>1, <2>1, <2>2 DEF AuthRecords, AuthLoad, LoadToken, LoadIds, LoopAssumption
<1>. HIDE DEF loaded
<1>4. /\ auth' \in AuthRecords /\ auth'.tag = auth.tag /\ auth'.ready = auth.ready
      /\ auth'.raced = auth.raced /\ auth'.ids = loaded.ids /\ auth'.token = loaded.token
  <2>1. auth' = [loaded EXCEPT !.retries = retries]
    BY <1>1 DEF loaded
  <2>. QED  BY <1>3, <2>1 DEF AuthRecords
<1>5. mainq' \in Seq(LoopMessages) /\ OnePoll' /\ loop.pc = "poll"
  <2>1. mainq \in Seq(LoopMessages) /\ mainq[1].type = "auth" /\ 1 \in 1..Len(mainq)
    BY <1>1, FirstLoopHandled DEF LoopInv, LoopTypes
  <2>. QED  BY <1>1, <2>1, FirstLoopHandled DEF LoopInv, OnePoll
<1>6. LoopTypes'
  BY <1>1, <1>2, <1>4, <1>5 DEF LoopInv, LoopTypes
<1>7. ~failed /\ auth.ready => Complete(auth')
  BY <1>1, <1>3, <1>4 DEF AuthLoaded, Complete
<1>8. loop'.pc = "polled" /\ loop'.poll.ret = ret /\ loop'.poll.switch = switch
  BY <1>2
<1>9. PollUnderWay'
  BY <1>4, <1>5, <1>7, <1>8 DEF LoopInv, PollUnderWay, Complete
<1>10. LoopSound'
  BY <1>1, <1>8 DEF LoopInv, LoopSound, NoFalseAlarm, PollKept, ToldPower
<1>. QED  BY <1>5, <1>6, <1>9, <1>10 DEF LoopInv

\* The callback returns; the token becomes invalid; the service comes and goes.
LEMMA ServiceKeeps ==
    ASSUME LoopAssumption, LoopInv,
           \/ PollReturns \/ ServiceReady \/ ServiceGone
           \/ \E from \in {"voice", "loop"} : InvalidateToken(from)
    PROVE  LoopInv'
<1>1. UNCHANGED <<mainq, hung, loopPower>>
  BY DEF PollReturns, ServiceReady, ServiceGone, InvalidateToken
<1>2. PICK a \in AuthRecords : a = auth
  BY DEF LoopInv, LoopTypes
<1>3. CASE PollReturns
  <2>1. loop.pc = "polled" /\ loop' = [pc |-> "run", poll |-> NoPoll]
    BY <1>3 DEF PollReturns
  <2>2. PICK tag \in {"none", "new", "mine"} :
            /\ auth' = [a EXCEPT !.tag = tag]
            /\ tag = "none" => ~loop.poll.switch /\ ~loop.poll.ret
    <3>1. auth' = [a EXCEPT !.tag = "new"] \/ auth' = [a EXCEPT !.tag = a.tag]
          \/ (~loop.poll.switch /\ ~loop.poll.ret /\ auth' = [a EXCEPT !.tag = "none"])
      BY <1>2, <1>3 DEF PollReturns
    <3>2. a.tag \in {"none", "new", "mine"} /\ a.tag # "none"
      BY <1>2, <2>1 DEF AuthRecords, LoopInv, PollUnderWay
    <3>. QED  BY <3>1, <3>2
  <2>3. /\ auth' \in AuthRecords /\ auth'.tag = tag /\ auth'.ready = auth.ready
        /\ auth'.raced = auth.raced /\ auth'.ids = auth.ids /\ auth'.token = auth.token
    BY <1>2, <2>2 DEF AuthRecords
  <2>4. loop'.pc = "run" /\ loop' \in [pc : {"run", "poll", "polled", "alarm", "term"},
                                       poll : [ret : BOOLEAN, switch : BOOLEAN]]
    BY <2>1 DEF NoPoll
  <2>5. LoopTypes' /\ OnePoll' /\ PollUnderWay'
    BY <1>1, <2>1, <2>3, <2>4 DEF LoopInv, LoopTypes, OnePoll, PollUnderWay
  <2>6. PollKept'
    <3>1. tag = "none" /\ auth.ready => Complete(auth) \/ auth.raced
      BY <2>1, <2>2 DEF LoopInv, PollUnderWay
    <3>. QED  BY <2>3, <3>1 DEF PollKept, Complete
  <2>7. LoopSound'
    BY <1>1, <2>4, <2>6 DEF LoopInv, LoopSound, NoFalseAlarm, ToldPower
  <2>. QED  BY <2>5, <2>7 DEF LoopInv
<1>4. CASE ServiceReady \/ \E from \in {"voice", "loop"} : InvalidateToken(from)
  <2>. DEFINE raced == a.raced \/ loop.pc \in {"poll", "polled"}
  <2>1. /\ loop' = loop /\ raced \in BOOLEAN
        /\ \/ auth' = [a EXCEPT !.ready = TRUE, !.tag = "new", !.raced = raced]
           \/ auth' = [a EXCEPT !.token = FALSE, !.expiry = FALSE, !.tag = "new", !.raced = raced]
    BY <1>2, <1>4 DEF ServiceReady, InvalidateToken, AuthRecords
  <2>2. loop.pc \in {"poll", "polled"} => raced
    OBVIOUS
  <2>. HIDE DEF raced
  <2>3. auth' \in AuthRecords /\ auth'.tag = "new" /\ auth'.raced = raced
    BY <2>1 DEF AuthRecords
  <2>4. LoopTypes' /\ OnePoll' /\ PollUnderWay'
    BY <1>1, <2>1, <2>2, <2>3 DEF LoopInv, LoopTypes, OnePoll, PollUnderWay
  <2>5. LoopSound'
    BY <1>1, <2>1, <2>3 DEF LoopInv, LoopSound, NoFalseAlarm, PollKept, ToldPower
  <2>. QED  BY <2>4, <2>5 DEF LoopInv
<1>5. CASE ServiceGone
  <2>1. loop' = loop /\ auth' = [a EXCEPT !.ready = FALSE]
    BY <1>2, <1>5 DEF ServiceGone
  <2>2. auth' \in AuthRecords /\ auth'.tag = auth.tag /\ ~auth'.ready
    BY <1>2, <2>1 DEF AuthRecords
  <2>3. LoopTypes' /\ OnePoll' /\ PollUnderWay'
    BY <1>1, <2>1, <2>2 DEF LoopInv, LoopTypes, OnePoll, PollUnderWay
  <2>4. LoopSound'
    BY <1>1, <2>1, <2>2 DEF LoopInv, LoopSound, NoFalseAlarm, PollKept, ToldPower
  <2>. QED  BY <2>3, <2>4 DEF LoopInv
<1>. QED  BY <1>3, <1>4, <1>5

\* Every step keeps the invariant.
LEMMA LoopStep == LoopAssumption /\ LoopInv /\ [LoopNext]_loopVars => LoopInv'
<1>. SUFFICES ASSUME LoopAssumption, LoopInv, [LoopNext]_loopVars PROVE LoopInv'
  OBVIOUS
<1>1. CASE UNCHANGED loopVars
  BY <1>1 DEF loopVars, LoopInv, LoopTypes, OnePoll, PollUnderWay, Complete, LoopSound, NoFalseAlarm,
              PollKept, ToldPower
<1>2. CASE LoopNext
  <2>1. CASE LoopEnded
    BY <1>1, <2>1 DEF LoopEnded
  <2>. QED  BY <1>2, <2>1, MonitorKeeps, LoopPowerKeeps, PollKeeps, AnswerKeeps, ServiceKeeps
            DEF LoopNext, Pass, SystemStates
<1>. QED  BY <1>1, <1>2

\* LoopSound: the monitor never ends the program while every thread works, the data of the
\* authorization service is polled for while it is missing, and the networks know the power state.
THEOREM MonitorIsRight ==
    ASSUME LoopAssumption
    PROVE  LoopSpec => []LoopSound
<1>1. LoopInit => LoopInv
  <2>. SUFFICES ASSUME LoopInit PROVE LoopInv
    OBVIOUS
  <2>1. mainq \in Seq(LoopMessages) /\ Len(mainq) = 0
    BY DEF LoopInit
  <2>2. PICK ready \in BOOLEAN, loaded \in BOOLEAN :
            auth = [ready |-> ready, ids |-> ready /\ loaded, token |-> ready /\ loaded,
                   tag |-> IF ready /\ ~loaded THEN "new" ELSE "none",
                   retries |-> IF ready /\ ~loaded /\ ~RecentlyBooted THEN MaxPollRetries ELSE 0,
                   expiry |-> ready /\ loaded /\ ~SatEvents, raced |-> FALSE]
    BY DEF LoopInit
  <2>3. auth \in AuthRecords /\ (auth.ready => Complete(auth) \/ auth.tag = "new")
    BY <2>2 DEF AuthRecords, LoopAssumption, Complete
  <2>4. loop = [pc |-> "run", poll |-> NoPoll] /\ loopPower = [state |-> "on", told |-> "on"]
    BY DEF LoopInit
  <2>5. LoopTypes /\ OnePoll /\ PollUnderWay
    BY <2>1, <2>3, <2>4 DEF LoopTypes, PowerRecords, SystemStates, OnePoll, PollUnderWay, NoPoll
  <2>. QED  BY <2>3, <2>4, <2>5 DEF LoopInv, LoopSound, NoFalseAlarm, PollKept, ToldPower, Complete
<1>2. LoopInv => LoopSound
  BY DEF LoopInv
<1>3. LoopInv /\ [LoopNext]_loopVars => LoopInv'
  BY LoopStep
<1>. QED  BY <1>1, <1>2, <1>3, PTL DEF LoopSpec

-----------------------------------------------------------------------------
(***************************************************************************)
(* What is kept of the keys is what was pressed, on any remotes and days,  *)
(* unless two threads write it at once.                                    *)
(***************************************************************************)

\* There is a natural number of timers.
UsageAssumption == MaxSightTimers \in Nat

\* The state's types.
Kinds == IrRemotes \cup RfNames \cup Sights \cup {"none"}
Usages == [day : Nat, today : SUBSET Kinds, yesterday : SUBSET Kinds]
LastKeys == [src : {"none", "ir", "rf"}, type : Kinds, name : Kinds]
Irs == [pc : {"idle", "mark", "write", "sight"}, key : {"none", "control", "notify", "rf", "ir"},
        kind : Kinds, changed : BOOLEAN, write : BOOLEAN]
Mains == [pc : {"idle", "report", "key"}, changed : BOOLEAN]
KeyTables == [keys : SUBSET (Int \X Kinds), overlap : BOOLEAN]
OneSight == [on : BOOLEAN, tag : Nat, live : SUBSET Nat, posted : Nat]

UsageTypes ==
    /\ clock \in [day : Nat, set : BOOLEAN]
    /\ usage \in Usages /\ lastKey \in LastKeys
    /\ db \in [usage : Usages, lastKey : LastKeys]
    /\ ir \in Irs /\ usageMain \in Mains
    /\ sight \in [Sights -> OneSight]
    /\ seen \in KeyTables
    /\ ir.pc = "sight" => ir.kind \in Sights

\* Every flag stands for a key of its day.
Stands(u, keys) ==
    /\ \A k \in u.today : <<u.day, k>> \in keys
    /\ \A k \in u.yesterday : <<u.day - 1, k>> \in keys

\* What is not written yet is going to be: a handler that changed the flags, or the name of the
\* last key, has kept that it did.
GoesToBeWritten(i, m, u, l, d) ==
    /\ m.pc # "idle" => i.pc \in {"idle", "sight"}
    /\ i.pc = "mark" /\ i.changed => i.key = "control"
    /\ \/ d.usage = u
       \/ i.pc \in {"mark", "write"} /\ i.changed
       \/ m.pc = "report" /\ m.changed
    /\ \/ d.lastKey.name = l.name
       \/ i.pc = "write" /\ i.write
       \/ m.pc = "key"

\* A line of sight that is open is closed by a timer, a message, or the timer that the handler is
\* about to create; there is a number left for that one.
Opening(i, s) == i.pc = "sight" /\ i.kind = s
OneFits(x, opening) ==
    /\ IsFiniteSet(x.live) /\ Cardinality(x.live) + x.posted <= MaxSightTimers
    /\ opening => Cardinality(x.live) + x.posted < MaxSightTimers
    /\ x.on => x.live # {} \/ x.posted > 0 \/ opening
SightFits == \A s \in Sights : OneFits(sight[s], Opening(ir, s))

UsageInv ==
    /\ UsageTypes
    /\ ~seen.overlap => Stands(usage, seen.keys) /\ GoesToBeWritten(ir, usageMain, usage, lastKey, db)
    /\ SightFits

-----------------------------------------------------------------------------

\* The day is rolled over: the flags that move stand for the keys of the day before.
LEMMA RolledOverStands ==
    ASSUME NEW u \in Usages, NEW day \in Nat, NEW keys,
           NEW v, v = u \/ v = [day |-> day, today |-> {},
                                yesterday |-> IF day = u.day + 1 THEN u.today ELSE {}]
    PROVE  v \in Usages /\ (Stands(u, keys) => Stands(v, keys))
<1>1. CASE v = u
  BY <1>1
<1>2. CASE v # u /\ day = u.day + 1
  <2>1. v.day = day /\ v.today = {} /\ v.yesterday = u.today /\ v \in Usages
    BY <1>2 DEF Usages
  <2>2. v.day - 1 = u.day
    BY <1>2, <2>1 DEF Usages
  <2>. QED  BY <2>1, <2>2 DEF Stands
<1>3. CASE v # u /\ day # u.day + 1
  <2>1. v.day = day /\ v.today = {} /\ v.yesterday = {} /\ v \in Usages
    BY <1>3 DEF Usages
  <2>. QED  BY <2>1 DEF Stands
<1>. QED  BY <1>1, <1>2, <1>3

\* A key counts for its day.
LEMMA MarkedStands ==
    ASSUME NEW u \in Usages, NEW kind \in Kinds, NEW keys
    PROVE  /\ [u EXCEPT !.today = @ \cup {kind}] \in Usages
           /\ kind \in u.today => [u EXCEPT !.today = @ \cup {kind}] = u
           /\ Stands(u, keys) =>
                  Stands([u EXCEPT !.today = @ \cup {kind}],
                         {k \in keys \cup {<<u.day, kind>>} : k[1] >= u.day - 1})
<1>. DEFINE v == [u EXCEPT !.today = @ \cup {kind}]
            new == {k \in keys \cup {<<u.day, kind>>} : k[1] >= u.day - 1}
<1>1. /\ v.day = u.day /\ v.today = u.today \cup {kind} /\ v.yesterday = u.yesterday
      /\ v \in Usages
  BY DEF Usages
<1>2. kind \in u.today => v = u
  BY DEF Usages
<1>3. u.day \in Nat /\ u.day >= u.day - 1 /\ u.day - 1 >= u.day - 1
  BY DEF Usages
<1>4. ASSUME Stands(u, keys) PROVE Stands(v, new)
  <2>1. \A k \in v.today : <<v.day, k>> \in new
    BY <1>1, <1>3, <1>4 DEF Stands
  <2>2. \A k \in v.yesterday : <<v.day - 1, k>> \in new
    BY <1>1, <1>3, <1>4 DEF Stands
  <2>. HIDE DEF v, new
  <2>. QED  BY <2>1, <2>2 DEF Stands
<1>. QED  BY <1>1, <1>2, <1>4

\* What the steps that leave the lines of sight alone have to show.
LEMMA DataKeeps ==
    ASSUME UsageInv, UNCHANGED sight,
           usage' \in Usages, lastKey' \in LastKeys, db' \in [usage : Usages, lastKey : LastKeys],
           ir' \in Irs, usageMain' \in Mains, clock' \in [day : Nat, set : BOOLEAN], seen' \in KeyTables,
           ir' = ir \/ (ir.pc # "sight" /\ ir'.pc # "sight"),
           ~seen.overlap' =>
               /\ Stands(usage', seen'.keys)
               /\ GoesToBeWritten(ir', usageMain', usage', lastKey', db')
    PROVE  UsageInv'
<1>1. UsageTypes'
  <2>1. UsageTypes
    BY DEF UsageInv
  <2>2. ir'.pc = "sight" => ir'.kind \in Sights
    BY <2>1 DEF UsageTypes
  <2>. QED  BY <2>1, <2>2, Zenon DEF UsageTypes
<1>2. SightFits'
  <2>1. \A s : Opening(ir', s) <=> Opening(ir, s)
    BY DEF Opening
  <2>. QED  BY <2>1 DEF UsageInv, SightFits, OneFits
<1>. QED  BY <1>1, <1>2 DEF UsageInv

\* A clock that moves changes nothing that is kept.
LEMMA ClockKeeps ==
    ASSUME UsageInv, NextDay \/ ClockSet
    PROVE  UsageInv'
<1>1. /\ UNCHANGED <<usage, lastKey, db, ir, usageMain, sight, seen>>
      /\ clock' \in [day : Nat, set : BOOLEAN]
  <2>1. clock \in [day : Nat, set : BOOLEAN]
    BY DEF UsageInv, UsageTypes
  <2>2. CASE NextDay
    BY <2>1, <2>2 DEF NextDay
  <2>3. CASE ClockSet
    BY <2>1, <2>3 DEF ClockSet
  <2>. QED  BY <2>2, <2>3
<1>2. ~seen'.overlap =>
          /\ Stands(usage', seen'.keys)
          /\ GoesToBeWritten(ir', usageMain', usage', lastKey', db')
  <2>1. ASSUME ~seen'.overlap
        PROVE  Stands(usage, seen.keys) /\ GoesToBeWritten(ir, usageMain, usage, lastKey, db)
    BY <1>1, <2>1 DEF UsageInv
  <2>. QED  BY <1>1, <2>1
<1>3. /\ usage' \in Usages /\ lastKey' \in LastKeys /\ db' \in [usage : Usages, lastKey : LastKeys]
      /\ ir' \in Irs /\ usageMain' \in Mains /\ seen' \in KeyTables
  BY <1>1 DEF UsageInv, UsageTypes
<1>. QED  BY <1>1, <1>2, <1>3, DataKeeps

\* The bus tells of a key.
LEMMA IrKeeps ==
    ASSUME UsageInv,
           \/ \E kind \in IrRemotes : IrBegin("control", kind) \/ IrBegin("notify", kind)
           \/ \E name \in RfNames : IrBegin("rf", name)
           \/ IrBegin("ir", "none")
    PROVE  UsageInv'
<1>1. PICK key \in {"control", "notify", "rf", "ir"}, kind \in Kinds : IrBegin(key, kind)
  BY DEF Kinds
<1>2. /\ UNCHANGED <<clock, lastKey, db, usageMain, sight>> /\ ir.pc = "idle"
      /\ usage \in Usages /\ ir \in Irs /\ usageMain \in Mains /\ seen \in KeyTables
      /\ lastKey \in LastKeys /\ db \in [usage : Usages, lastKey : LastKeys] /\ clock \in [day : Nat, set : BOOLEAN]
  BY <1>1 DEF IrBegin, UsageInv, UsageTypes
<1>. DEFINE rolled == RolledOver(usage)
            changed == key = "control" /\ rolled # usage
<1>3. changed \in BOOLEAN /\ (changed => key = "control") /\ (~changed => usage' = usage)
      /\ (usage' = usage \/ usage' = rolled)
  BY <1>1 DEF IrBegin
<1>4. rolled = usage \/ rolled = [day |-> clock.day, today |-> {},
                                  yesterday |-> IF clock.day = usage.day + 1 THEN usage.today ELSE {}]
  BY DEF RolledOver
<1>5. usage' \in Usages /\ (Stands(usage, seen.keys) => Stands(usage', seen.keys))
  BY <1>2, <1>3, <1>4, RolledOverStands
<1>6. ir' = [pc |-> "mark", key |-> key, kind |-> kind, write |-> FALSE, changed |-> changed]
  BY <1>1 DEF IrBegin
<1>. HIDE DEF rolled, changed
<1>7. ir' \in Irs /\ ir'.pc = "mark" /\ ir'.key = key /\ ir'.changed = changed
  BY <1>3, <1>6 DEF Irs
<1>8. /\ seen' = IF usageMain.pc # "idle" THEN [keys |-> {}, overlap |-> TRUE] ELSE seen
  BY <1>1 DEF IrBegin, Met
<1>9. seen' \in KeyTables /\ (~seen'.overlap => usageMain.pc = "idle" /\ seen' = seen)
  BY <1>2, <1>8 DEF KeyTables
<1>10. ASSUME ~seen'.overlap PROVE Stands(usage', seen'.keys)
  BY <1>5, <1>9, <1>10 DEF UsageInv
<1>11. ASSUME ~seen'.overlap PROVE GoesToBeWritten(ir', usageMain', usage', lastKey', db')
  BY <1>2, <1>3, <1>7, <1>9, <1>11 DEF UsageInv, GoesToBeWritten
<1>. QED  BY <1>2, <1>5, <1>7, <1>9, <1>10, <1>11, DataKeeps

\* A control or notify key is marked.
LEMMA MarkKeeps ==
    ASSUME UsageInv, IrMarkControl \/ IrMarkNotify
    PROVE  UsageInv'
<1>1. /\ UNCHANGED <<clock, db, usageMain, sight>> /\ ir.pc = "mark"
      /\ usage \in Usages /\ ir \in Irs /\ usageMain \in Mains /\ seen \in KeyTables
      /\ lastKey \in LastKeys /\ db \in [usage : Usages, lastKey : LastKeys]
      /\ clock \in [day : Nat, set : BOOLEAN]
      /\ ir.kind \in Kinds
  BY DEF IrMarkControl, IrMarkNotify, UsageInv, UsageTypes, Irs
<1>2. usage' = [usage EXCEPT !.today = @ \cup {ir.kind}]
  BY DEF IrMarkControl, IrMarkNotify
<1>3. usage' \in Usages /\ (ir.kind \in usage.today => usage' = usage)
  BY <1>1, <1>2, MarkedStands
<1>4. seen' = IF usageMain.pc # "idle" \/ seen.overlap THEN [keys |-> {}, overlap |-> TRUE]
              ELSE [seen EXCEPT !.keys = {k \in @ \cup {<<usage.day, ir.kind>>} : k[1] >= usage.day - 1}]
  BY DEF IrMarkControl, IrMarkNotify, Counted
<1>5. PICK new \in SUBSET (Int \X Kinds) :
          new = {k \in seen.keys \cup {<<usage.day, ir.kind>>} : k[1] >= usage.day - 1}
  <2>1. <<usage.day, ir.kind>> \in Int \X Kinds /\ seen.keys \subseteq Int \X Kinds
    BY <1>1 DEF KeyTables, Usages
  <2>2. {k \in seen.keys \cup {<<usage.day, ir.kind>>} : k[1] >= usage.day - 1} \in SUBSET (Int \X Kinds)
    BY <2>1
  <2>. QED  BY <2>2
<1>6. /\ seen' \in KeyTables
      /\ ~seen'.overlap => usageMain.pc = "idle" /\ ~seen.overlap /\ seen'.keys = new
  <2>1. CASE usageMain.pc # "idle" \/ seen.overlap
    BY <1>4, <2>1 DEF KeyTables
  <2>2. CASE usageMain.pc = "idle" /\ ~seen.overlap
    <3>1. seen' = [seen EXCEPT !.keys = new]
      BY <1>4, <1>5, <2>2
    <3>. QED  BY <1>1, <2>2, <3>1 DEF KeyTables
  <2>. QED  BY <2>1, <2>2
<1>7. ASSUME ~seen'.overlap PROVE Stands(usage', seen'.keys)
  BY <1>1, <1>2, <1>5, <1>6, <1>7, MarkedStands DEF UsageInv
<1>8. /\ lastKey' \in LastKeys
      /\ ir' \in Irs /\ ir'.pc = "write"
      /\ ir.kind \notin usage.today => ir'.changed
      /\ IrMarkControl /\ ir.changed => ir'.changed
      /\ IrMarkNotify => lastKey'.name = lastKey.name
      /\ IrMarkControl => lastKey'.name = ir.kind /\ (ir'.write \/ lastKey.name = ir.kind)
  <2>1. ASSUME IrMarkControl
        PROVE  /\ lastKey' \in LastKeys /\ lastKey'.name = ir.kind
               /\ ir' \in Irs /\ ir'.pc = "write"
               /\ (ir.kind \notin usage.today \/ ir.changed => ir'.changed)
               /\ (ir'.write \/ lastKey.name = ir.kind)
    <3>. DEFINE changed == ir.changed \/ ir.kind \notin usage.today
                write == lastKey.src # "ir" \/ lastKey.name # ir.kind
    <3>1. /\ changed \in BOOLEAN /\ write \in BOOLEAN /\ (write \/ lastKey.name = ir.kind)
          /\ ir.kind \notin usage.today \/ ir.changed => changed
      BY <1>1 DEF Irs
    <3>2. /\ lastKey' = [src |-> "ir", type |-> ir.kind, name |-> ir.kind]
          /\ ir' = [ir EXCEPT !.pc = "write", !.changed = changed, !.write = write]
      BY <2>1 DEF IrMarkControl
    <3>. HIDE DEF changed, write
    <3>3. lastKey' \in LastKeys /\ lastKey'.name = ir.kind
      BY <1>1, <3>2 DEF LastKeys
    <3>4. ir' \in Irs /\ ir'.pc = "write" /\ ir'.changed = changed /\ ir'.write = write
      BY <1>1, <3>1, <3>2 DEF Irs
    <3>. QED  BY <3>1, <3>3, <3>4
  <2>2. ASSUME IrMarkNotify
        PROVE  /\ lastKey' \in LastKeys /\ lastKey'.name = lastKey.name
               /\ ir' \in Irs /\ ir'.pc = "write"
               /\ ir.kind \notin usage.today => ir'.changed
    <3>1. PICK changed \in BOOLEAN : changed = (ir.kind \notin usage.today)
      OBVIOUS
    <3>2. /\ lastKey' = [lastKey EXCEPT !.src = "ir", !.type = ir.kind]
          /\ ir' = [ir EXCEPT !.pc = "write", !.changed = changed]
      BY <2>2, <3>1 DEF IrMarkNotify
    <3>3. lastKey' \in LastKeys /\ lastKey'.name = lastKey.name
      BY <1>1, <3>2 DEF LastKeys
    <3>4. ir' \in Irs /\ ir'.pc = "write" /\ ir'.changed = changed
      BY <1>1, <3>2 DEF Irs
    <3>. QED  BY <3>1, <3>3, <3>4
  <2>3. ~(IrMarkControl /\ IrMarkNotify)
    BY DEF IrMarkControl, IrMarkNotify
  <2>. QED  BY <2>1, <2>2, <2>3
<1>9. ASSUME ~seen'.overlap PROVE GoesToBeWritten(ir', usageMain', usage', lastKey', db')
  BY <1>1, <1>3, <1>6, <1>8, <1>9 DEF UsageInv, GoesToBeWritten, IrMarkControl, IrMarkNotify
<1>. QED  BY <1>1, <1>3, <1>6, <1>7, <1>8, <1>9, DataKeeps

\* Any other key names its remote.
LEMMA NameKeeps ==
    ASSUME UsageInv, IrMarkKey
    PROVE  UsageInv'
<1>1. /\ UNCHANGED <<clock, usage, db, usageMain, sight>> /\ ir.pc = "mark"
      /\ usage \in Usages /\ ir \in Irs /\ usageMain \in Mains /\ seen \in KeyTables
      /\ lastKey \in LastKeys /\ db \in [usage : Usages, lastKey : LastKeys]
      /\ clock \in [day : Nat, set : BOOLEAN]
  BY DEF IrMarkKey, UsageInv, UsageTypes
<1>2. PICK type, name, source, write :
          /\ type \in Kinds /\ name \in Kinds /\ source \in {"rf", "ir"} /\ write \in BOOLEAN
          /\ lastKey' = [src |-> source, type |-> type, name |-> name]
          /\ ir' = [ir EXCEPT !.pc = "write", !.write = write]
          /\ write \/ lastKey.name = name
  <2>1. PICK type \in {lastKey.type} \cup (IF ir.key = "ir" THEN IrRemotes ELSE {}) :
            LET name == IF ir.key = "rf" THEN ir.kind ELSE type
                source == IF ir.key = "rf" THEN "rf" ELSE "ir"
            IN  /\ lastKey' = [src |-> source, type |-> type, name |-> name]
                /\ ir' = [ir EXCEPT !.pc = "write",
                                    !.write = lastKey.src # source \/ lastKey.name # name]
    BY DEF IrMarkKey
  <2>2. type \in Kinds /\ ir.kind \in Kinds
    BY <1>1, <2>1 DEF Kinds, LastKeys, Irs
  <2>. QED  BY <2>1, <2>2
<1>3. lastKey' \in LastKeys /\ lastKey'.name = name /\ ir' \in Irs /\ ir'.pc = "write"
      /\ ir'.write = write /\ ir'.changed = ir.changed
  BY <1>1, <1>2 DEF LastKeys, Irs
<1>4. seen' = IF usageMain.pc # "idle" THEN [keys |-> {}, overlap |-> TRUE] ELSE seen
  BY DEF IrMarkKey, Met
<1>5. seen' \in KeyTables /\ (~seen'.overlap => usageMain.pc = "idle" /\ seen' = seen)
  BY <1>1, <1>4 DEF KeyTables
<1>6. ASSUME ~seen'.overlap PROVE Stands(usage', seen'.keys)
  BY <1>1, <1>5, <1>6 DEF UsageInv
<1>7. ASSUME ~seen'.overlap PROVE GoesToBeWritten(ir', usageMain', usage', lastKey', db')
  BY <1>1, <1>2, <1>3, <1>5, <1>7 DEF UsageInv, GoesToBeWritten
<1>. QED  BY <1>1, <1>3, <1>5, <1>6, <1>7, DataKeeps

\* What was kept of a key is written.
LEMMA WriteKeeps ==
    ASSUME UsageInv, IrWrite
    PROVE  UsageInv'
<1>1. /\ UNCHANGED <<clock, usage, lastKey, usageMain, sight>> /\ ir.pc = "write" /\ ir' = IdleIr
      /\ usage \in Usages /\ ir \in Irs /\ usageMain \in Mains /\ seen \in KeyTables
      /\ lastKey \in LastKeys /\ db \in [usage : Usages, lastKey : LastKeys]
      /\ clock \in [day : Nat, set : BOOLEAN]
  BY DEF IrWrite, UsageInv, UsageTypes
<1>2. ir' \in Irs /\ ir'.pc = "idle"
  BY <1>1 DEF Irs, IdleIr, Kinds
<1>3. seen' = IF usageMain.pc # "idle" THEN [keys |-> {}, overlap |-> TRUE] ELSE seen
  BY DEF IrWrite, Met
<1>4. seen' \in KeyTables /\ (~seen'.overlap => usageMain.pc = "idle" /\ seen' = seen)
  BY <1>1, <1>3 DEF KeyTables
<1>5. ASSUME ~seen'.overlap PROVE Stands(usage', seen'.keys)
  BY <1>1, <1>4, <1>5 DEF UsageInv
<1>6. PICK u \in Usages, l \in LastKeys :
          /\ db' = [usage |-> u, lastKey |-> l]
          /\ IF ir.changed THEN u = usage ELSE u = db.usage
          /\ IF ir.write THEN l = lastKey ELSE l = db.lastKey
  BY <1>1 DEF IrWrite
<1>7. db' \in [usage : Usages, lastKey : LastKeys] /\ db'.usage = u /\ db'.lastKey = l
  BY <1>6
<1>8. ASSUME ~seen'.overlap PROVE GoesToBeWritten(ir', usageMain', usage', lastKey', db')
  <2>1. ~seen.overlap /\ usageMain.pc = "idle"
    BY <1>4, <1>8
  <2>2. GoesToBeWritten(ir, usageMain, usage, lastKey, db)
    BY <2>1 DEF UsageInv
  <2>3. u = usage /\ l.name = lastKey.name
    BY <1>1, <1>6, <2>1, <2>2 DEF GoesToBeWritten
  <2>. QED  BY <1>1, <1>2, <1>7, <2>1, <2>3 DEF GoesToBeWritten
<1>. QED  BY <1>1, <1>2, <1>4, <1>5, <1>7, <1>8, DataKeeps

\* The main thread reports, and writes what it changed.
LEMMA MainKeeps ==
    ASSUME UsageInv,
           Report \/ ReportWrite \/ MainKeyWrite \/ \E name \in RfNames : MainKey(name)
    PROVE  UsageInv'
<1>1. /\ UNCHANGED <<clock, ir, sight>>
      /\ usage \in Usages /\ ir \in Irs /\ usageMain \in Mains /\ seen \in KeyTables
      /\ lastKey \in LastKeys /\ db \in [usage : Usages, lastKey : LastKeys]
      /\ clock \in [day : Nat, set : BOOLEAN]
  BY DEF Report, ReportWrite, MainKeyWrite, MainKey, UsageInv, UsageTypes
<1>2. seen' = IF ir.pc # "idle" THEN [keys |-> {}, overlap |-> TRUE] ELSE seen
  BY DEF Report, ReportWrite, MainKeyWrite, MainKey, Met
<1>3. seen' \in KeyTables /\ (~seen'.overlap => ir.pc = "idle" /\ seen' = seen)
  BY <1>1, <1>2 DEF KeyTables
<1>4. CASE Report
  <2>. DEFINE rolled == RolledOver(usage)
              changed == rolled # usage
  <2>1. changed \in BOOLEAN /\ usage' = rolled /\ (~changed => rolled = usage)
        /\ UNCHANGED <<lastKey, db>> /\ usageMain.pc = "idle"
    BY <1>4 DEF Report
  <2>2. usageMain' = [pc |-> "report", changed |-> changed]
    BY <1>4 DEF Report
  <2>3. rolled = usage \/ rolled = [day |-> clock.day, today |-> {},
                                  yesterday |-> IF clock.day = usage.day + 1 THEN usage.today ELSE {}]
    BY DEF RolledOver
  <2>. HIDE DEF rolled, changed
  <2>4. clock.day \in Nat
    BY <1>1
  <2>5. usage' \in Usages /\ (Stands(usage, seen.keys) => Stands(usage', seen.keys))
    BY <1>1, <2>1, <2>3, <2>4, RolledOverStands
  <2>6. usageMain' \in Mains /\ usageMain'.pc = "report" /\ usageMain'.changed = changed
    BY <2>1, <2>2 DEF Mains
  <2>7. ASSUME ~seen'.overlap PROVE Stands(usage', seen'.keys)
    BY <1>3, <2>5, <2>7 DEF UsageInv
  <2>8. ASSUME ~seen'.overlap PROVE GoesToBeWritten(ir', usageMain', usage', lastKey', db')
    BY <1>1, <1>3, <2>1, <2>6, <2>8 DEF UsageInv, GoesToBeWritten
  <2>. QED  BY <1>1, <1>3, <2>1, <2>5, <2>6, <2>7, <2>8, DataKeeps
<1>5. CASE ReportWrite
  <2>1. UNCHANGED <<usage, lastKey>> /\ usageMain.pc = "report" /\ usageMain' = IdleMain
        /\ db' = IF usageMain.changed THEN [db EXCEPT !.usage = usage] ELSE db
    BY <1>5 DEF ReportWrite
  <2>2. /\ db' \in [usage : Usages, lastKey : LastKeys] /\ db'.lastKey = db.lastKey
        /\ db'.usage = IF usageMain.changed THEN usage ELSE db.usage
    BY <1>1, <2>1
  <2>3. usageMain' \in Mains /\ usageMain'.pc = "idle"
    BY <2>1 DEF Mains, IdleMain
  <2>4. ASSUME ~seen'.overlap PROVE Stands(usage', seen'.keys)
    BY <1>3, <2>1, <2>4 DEF UsageInv
  <2>5. ASSUME ~seen'.overlap PROVE GoesToBeWritten(ir', usageMain', usage', lastKey', db')
    BY <1>1, <1>3, <2>1, <2>2, <2>3, <2>5 DEF UsageInv, GoesToBeWritten
  <2>. QED  BY <1>1, <1>3, <2>1, <2>2, <2>3, <2>4, <2>5, DataKeeps
<1>6. CASE MainKeyWrite
  <2>1. UNCHANGED <<usage, lastKey>> /\ usageMain.pc = "key" /\ usageMain' = IdleMain
        /\ db' = [db EXCEPT !.lastKey = lastKey]
    BY <1>6 DEF MainKeyWrite
  <2>2. /\ db' \in [usage : Usages, lastKey : LastKeys] /\ db'.lastKey = lastKey
        /\ db'.usage = db.usage
    BY <1>1, <2>1
  <2>3. usageMain' \in Mains /\ usageMain'.pc = "idle"
    BY <2>1 DEF Mains, IdleMain
  <2>4. ASSUME ~seen'.overlap PROVE Stands(usage', seen'.keys)
    BY <1>3, <2>1, <2>4 DEF UsageInv
  <2>5. ASSUME ~seen'.overlap PROVE GoesToBeWritten(ir', usageMain', usage', lastKey', db')
    BY <1>1, <1>3, <2>1, <2>2, <2>3, <2>5 DEF UsageInv, GoesToBeWritten
  <2>. QED  BY <1>1, <1>3, <2>1, <2>2, <2>3, <2>4, <2>5, DataKeeps
<1>7. ASSUME NEW name \in RfNames, MainKey(name) PROVE UsageInv'
  <2>1. UNCHANGED <<usage, db>> /\ usageMain.pc = "idle"
        /\ usageMain' = [pc |-> "key", changed |-> TRUE]
        /\ lastKey' = [lastKey EXCEPT !.src = "rf", !.name = name]
    BY <1>7 DEF MainKey
  <2>2. name \in Kinds
    BY DEF Kinds
  <2>3. lastKey' \in LastKeys
    BY <1>1, <2>1, <2>2 DEF LastKeys
  <2>4. usageMain' \in Mains /\ usageMain'.pc = "key"
    BY <2>1 DEF Mains
  <2>5. ASSUME ~seen'.overlap PROVE Stands(usage', seen'.keys)
    BY <1>3, <2>1, <2>5 DEF UsageInv
  <2>6. ASSUME ~seen'.overlap PROVE GoesToBeWritten(ir', usageMain', usage', lastKey', db')
    BY <1>1, <1>3, <2>1, <2>4, <2>6 DEF UsageInv, GoesToBeWritten
  <2>. QED  BY <1>1, <1>3, <2>1, <2>3, <2>4, <2>5, <2>6, DataKeeps
<1>. QED  BY <1>4, <1>5, <1>6, <1>7

\* The program starts with what it has written.
LEMMA UsageStartKeeps ==
    ASSUME UsageAssumption, UsageInv, UsageRestart
    PROVE  UsageInv'
<1>1. /\ UNCHANGED <<ir, usageMain, seen>> /\ ir.pc = "idle" /\ usageMain.pc = "idle"
      /\ usage \in Usages /\ ir \in Irs /\ usageMain \in Mains /\ seen \in KeyTables
      /\ lastKey \in LastKeys /\ db \in [usage : Usages, lastKey : LastKeys]
      /\ clock \in [day : Nat, set : BOOLEAN]
      /\ sight' = [s \in Sights |-> NoSight] /\ lastKey' = db.lastKey
      /\ db' = [db EXCEPT !.usage = usage']
  BY DEF UsageRestart, ReadLastKey, UsageInv, UsageTypes
<1>2. PICK set \in BOOLEAN :
        /\ clock' = [clock EXCEPT !.set = set]
        /\ usage' = IF set /\ clock.day # db.usage.day
                    THEN [day |-> clock.day, today |-> {},
                          yesterday |-> IF clock.day = db.usage.day + 1 THEN db.usage.today ELSE {}]
                    ELSE db.usage
  BY DEF UsageRestart
<1>3. clock' \in [day : Nat, set : BOOLEAN] /\ clock.day \in Nat /\ db.usage \in Usages
      /\ db.lastKey \in LastKeys
  BY <1>1, <1>2
<1>4. usage' \in Usages /\ (Stands(db.usage, seen.keys) => Stands(usage', seen.keys))
  BY <1>2, <1>3, RolledOverStands
<1>5. db' \in [usage : Usages, lastKey : LastKeys] /\ db'.usage = usage' /\ db'.lastKey = lastKey'
      /\ lastKey' \in LastKeys
  BY <1>1, <1>3, <1>4
<1>6. NoSight \in OneSight /\ NoSight.live = {} /\ NoSight.posted = 0 /\ NoSight.on = FALSE
  BY DEF NoSight, OneSight
<1>7. UsageTypes'
  <2>1. sight' \in [Sights -> OneSight]
    BY <1>1, <1>6
  <2>. QED  BY <1>1, <1>3, <1>4, <1>5, <2>1 DEF UsageTypes
<1>8. SightFits'
  <2>1. \A s \in Sights : sight'[s] = NoSight
    BY <1>1
  <2>2. \A s \in Sights : sight'[s].live = {} /\ sight'[s].posted = 0 /\ sight'[s].on = FALSE
    BY <1>6, <2>1, Zenon
  <2>3. IsFiniteSet({}) /\ Cardinality({}) + 0 <= MaxSightTimers /\ ir'.pc # "sight"
    BY <1>1, FS_EmptySet DEF UsageAssumption
  <2>. QED  BY <2>2, <2>3 DEF SightFits, OneFits, Opening
<1>9. ASSUME ~seen.overlap
      PROVE  Stands(usage', seen.keys) /\ GoesToBeWritten(ir, usageMain, usage', lastKey', db')
  <2>1. db.usage = usage
    BY <1>1, <1>9 DEF UsageInv, GoesToBeWritten
  <2>2. Stands(usage', seen.keys)
    BY <1>4, <1>9, <2>1 DEF UsageInv
  <2>. QED  BY <1>1, <1>5, <2>2 DEF GoesToBeWritten
<1>10. ASSUME ~seen'.overlap
       PROVE  Stands(usage', seen'.keys) /\ GoesToBeWritten(ir', usageMain', usage', lastKey', db')
  BY <1>1, <1>9, <1>10
<1>. QED  BY <1>7, <1>8, <1>10 DEF UsageInv

\* A line of sight that opens has a number left for its timer.
LEMMA FreshIsFresh ==
    ASSUME UsageAssumption, NEW s, NEW L \in SUBSET Nat, L = sight[s].live, IsFiniteSet(L),
           Cardinality(L) < MaxSightTimers
    PROVE  FreshTimer(s) \in Nat /\ FreshTimer(s) \notin L
<1>1. /\ IsFiniteSet(1..(MaxSightTimers + 1)) /\ Cardinality(1..(MaxSightTimers + 1)) = MaxSightTimers + 1
  BY FS_Interval DEF UsageAssumption
<1>2. ~(1..(MaxSightTimers + 1) \subseteq L)
  <2>1. 1..(MaxSightTimers + 1) \subseteq L => Cardinality(1..(MaxSightTimers + 1)) <= Cardinality(L)
    BY FS_Subset
  <2>2. Cardinality(L) \in Nat
    BY FS_CardinalityType
  <2>. QED  BY <1>1, <2>1, <2>2 DEF UsageAssumption
<1>3. \E n \in 1..(MaxSightTimers + 1) : n \notin L
  BY <1>2
<1>. QED  BY <1>3 DEF FreshTimer

\* A line of sight is opened, its timer created and run out, its message handled.
LEMMA SightKeeps ==
    ASSUME UsageAssumption, UsageInv,
           SightTimer \/ \E s \in Sights : SightKey(s) \/ SightTimeout(s) \/ SightHandle(s)
    PROVE  UsageInv'
<1>1. UNCHANGED <<clock, usage, lastKey, db, usageMain, seen>>
  BY DEF SightTimer, SightKey, SightTimeout, SightHandle
<1>2. /\ sight \in [Sights -> OneSight] /\ ir \in Irs /\ (ir.pc = "sight" => ir.kind \in Sights)
      /\ SightFits
  BY DEF UsageInv, UsageTypes
<1>3. \A s \in Sights : Cardinality(sight[s].live) \in Nat
  BY <1>2, FS_CardinalityType DEF SightFits, OneFits
<1>. DEFINE Right == /\ sight' \in [Sights -> OneSight] /\ ir' \in Irs
                     /\ (ir'.pc = "sight" => ir'.kind \in Sights)
                     /\ (ir.pc \in {"idle", "sight"} /\ ir'.pc \in {"idle", "sight"}) \/ ir' = ir
                     /\ SightFits'
<1>4. ASSUME NEW s \in Sights, OneFits(sight'[s], Opening(ir', s)),
             \A q \in Sights : q # s => sight'[q] = sight[q] /\ (Opening(ir', q) <=> Opening(ir, q))
      PROVE  SightFits'
  <2>1. ASSUME NEW q \in Sights, q # s PROVE OneFits(sight'[q], Opening(ir', q))
    BY <1>2, <1>4, <2>1 DEF SightFits, OneFits
  <2>. QED  BY <1>4, <2>1 DEF SightFits
<1>. HIDE DEF Right
<1>5. ASSUME NEW s \in Sights, SightKey(s) PROVE Right
  <2>1. PICK live \in SUBSET Nat : live = sight[s].live \ {sight[s].tag}
    BY <1>2 DEF OneSight
  <2>2. PICK due \in Nat : due = sight[s].posted
    BY <1>2 DEF OneSight
  <2>3. /\ sight' = [sight EXCEPT ![s].live = live, ![s].on = TRUE, ![s].tag = 0]
        /\ ir.pc = "idle" /\ Cardinality(sight[s].live) + sight[s].posted < MaxSightTimers
    BY <1>5, <2>1 DEF SightKey
  <2>4. /\ sight' \in [Sights -> OneSight]
        /\ sight'[s] = [on |-> TRUE, tag |-> 0, live |-> live, posted |-> due]
        /\ \A q \in Sights : q # s => sight'[q] = sight[q]
    BY <1>2, <2>2, <2>3 DEF OneSight
  <2>5. IsFiniteSet(live) /\ Cardinality(live) <= Cardinality(sight[s].live) /\ Cardinality(live) \in Nat
    BY <1>2, <2>1, FS_Subset, FS_CardinalityType DEF SightFits, OneFits
  <2>6. Cardinality(live) + due < MaxSightTimers
    BY <1>3, <2>2, <2>3, <2>5 DEF UsageAssumption
  <2>7. ir' = [pc |-> "sight", key |-> "none", kind |-> s, changed |-> FALSE, write |-> FALSE]
    BY <1>5 DEF SightKey, IdleIr
  <2>8. ir' \in Irs /\ ir'.pc = "sight" /\ ir'.kind = s
    BY <2>7 DEF Irs, Kinds
  <2>9. Cardinality(live) + due <= MaxSightTimers
    BY <2>5, <2>6 DEF UsageAssumption
  <2>10. OneFits(sight'[s], Opening(ir', s))
    BY <2>4, <2>5, <2>6, <2>8, <2>9 DEF OneFits, Opening
  <2>11. \A q \in Sights : q # s => (Opening(ir', q) <=> Opening(ir, q))
    BY <2>3, <2>8 DEF Opening
  <2>12. SightFits'
    BY <1>4, <2>4, <2>10, <2>11
  <2>. QED  BY <2>3, <2>4, <2>8, <2>12 DEF Right
<1>6. ASSUME SightTimer PROVE Right
  <2>1. PICK s \in Sights : s = ir.kind
    BY <1>2, <1>6 DEF SightTimer
  <2>2. /\ ir.pc = "sight" /\ ir' = IdleIr
        /\ sight' = [sight EXCEPT ![s].live = @ \cup {FreshTimer(s)}, ![s].tag = FreshTimer(s)]
    BY <1>6, <2>1 DEF SightTimer
  <2>3. PICK old \in SUBSET Nat : old = sight[s].live
    BY <1>2 DEF OneSight
  <2>4. PICK due \in Nat, on \in BOOLEAN : due = sight[s].posted /\ on = sight[s].on
    BY <1>2 DEF OneSight
  <2>5. IsFiniteSet(old) /\ Cardinality(old) + due < MaxSightTimers /\ Cardinality(old) \in Nat
    BY <1>2, <1>3, <2>1, <2>2, <2>3, <2>4 DEF SightFits, OneFits, Opening
  <2>6. Cardinality(old) < MaxSightTimers
    BY <2>5 DEF UsageAssumption
  <2>7. PICK n \in Nat : n = FreshTimer(s) /\ n \notin old
    BY <2>3, <2>5, <2>6, FreshIsFresh
  <2>8. IsFiniteSet(old \cup {n}) /\ Cardinality(old \cup {n}) = Cardinality(old) + 1
    BY <2>5, <2>7, FS_AddElement
  <2>9. sight' = [sight EXCEPT ![s].live = old \cup {n}, ![s].tag = n]
    BY <2>2, <2>3, <2>7
  <2>10. /\ sight' \in [Sights -> OneSight]
         /\ sight'[s] = [on |-> on, tag |-> n, live |-> old \cup {n}, posted |-> due]
         /\ \A q \in Sights : q # s => sight'[q] = sight[q]
    BY <1>2, <2>4, <2>9 DEF OneSight
  <2>11. ir' \in Irs /\ ir'.pc = "idle"
    BY <2>2 DEF Irs, IdleIr, Kinds
  <2>12. Cardinality(old \cup {n}) + due <= MaxSightTimers /\ old \cup {n} # {}
    BY <2>5, <2>8 DEF UsageAssumption
  <2>13. OneFits(sight'[s], Opening(ir', s))
    BY <2>8, <2>10, <2>11, <2>12 DEF OneFits, Opening
  <2>14. \A q \in Sights : q # s => (Opening(ir', q) <=> Opening(ir, q))
    BY <2>1, <2>2, <2>11 DEF Opening
  <2>15. SightFits'
    BY <1>4, <2>10, <2>13, <2>14
  <2>. QED  BY <2>2, <2>10, <2>11, <2>15 DEF Right
<1>7. ASSUME NEW s \in Sights, SightTimeout(s) PROVE Right
  <2>1. PICK n \in sight[s].live :
            sight' = [sight EXCEPT ![s].live = @ \ {n}, ![s].tag = 0, ![s].posted = @ + 1]
    BY <1>7 DEF SightTimeout
  <2>2. ir' = ir
    BY <1>7 DEF SightTimeout
  <2>3. PICK old \in SUBSET Nat : old = sight[s].live
    BY <1>2 DEF OneSight
  <2>4. PICK due \in Nat, on \in BOOLEAN : due = sight[s].posted /\ on = sight[s].on
    BY <1>2 DEF OneSight
  <2>5. IsFiniteSet(old) /\ Cardinality(old) \in Nat
        /\ Cardinality(old) + due <= MaxSightTimers
        /\ (ir.pc = "sight" /\ ir.kind = s => Cardinality(old) + due < MaxSightTimers)
    BY <1>2, <1>3, <2>3, <2>4 DEF SightFits, OneFits, Opening
  <2>6. n \in old
    BY <2>3
  <2>7. IsFiniteSet(old \ {n}) /\ Cardinality(old \ {n}) = Cardinality(old) - 1
    BY <2>5, <2>6, FS_RemoveElement
  <2>8. sight' = [sight EXCEPT ![s].live = old \ {n}, ![s].tag = 0, ![s].posted = due + 1]
    BY <2>1, <2>3, <2>4
  <2>9. /\ sight' \in [Sights -> OneSight]
        /\ sight'[s] = [on |-> on, tag |-> 0, live |-> old \ {n}, posted |-> due + 1]
        /\ \A q \in Sights : q # s => sight'[q] = sight[q]
    BY <1>2, <2>4, <2>8 DEF OneSight
  <2>10. Cardinality(old \ {n}) + (due + 1) = Cardinality(old) + due /\ due + 1 > 0
    BY <2>5, <2>7
  <2>11. OneFits(sight'[s], Opening(ir', s))
    BY <2>2, <2>5, <2>7, <2>9, <2>10 DEF OneFits, Opening
  <2>12. SightFits'
    BY <1>4, <2>2, <2>9, <2>11
  <2>. QED  BY <1>2, <2>2, <2>9, <2>12 DEF Right
<1>8. ASSUME NEW s \in Sights, SightHandle(s) PROVE Right
  <2>1. /\ ir' = ir /\ sight[s].posted > 0
        /\ sight' = [sight EXCEPT ![s].posted = @ - 1, ![s].on = FALSE, ![s].tag = 0]
    BY <1>8 DEF SightHandle
  <2>2. PICK live \in SUBSET Nat, due \in Nat :
            live = sight[s].live /\ due = sight[s].posted - 1
    BY <1>2, <2>1 DEF OneSight
  <2>3. sight' = [sight EXCEPT ![s].posted = due, ![s].on = FALSE, ![s].tag = 0]
    BY <2>1, <2>2
  <2>4. /\ sight' \in [Sights -> OneSight]
        /\ sight'[s] = [on |-> FALSE, tag |-> 0, live |-> live, posted |-> due]
        /\ \A q \in Sights : q # s => sight'[q] = sight[q]
    BY <1>2, <2>2, <2>3 DEF OneSight
  <2>5. sight[s].posted = due + 1
    BY <1>2, <2>2 DEF OneSight
  <2>6. IsFiniteSet(live) /\ Cardinality(live) \in Nat
        /\ Cardinality(live) + (due + 1) <= MaxSightTimers
        /\ (ir.pc = "sight" /\ ir.kind = s => Cardinality(live) + (due + 1) < MaxSightTimers)
    BY <1>2, <1>3, <2>2, <2>5 DEF SightFits, OneFits, Opening
  <2>7. /\ Cardinality(live) + due <= MaxSightTimers
        /\ ir.pc = "sight" /\ ir.kind = s => Cardinality(live) + due < MaxSightTimers
    BY <2>6 DEF UsageAssumption
  <2>8. OneFits(sight'[s], Opening(ir', s))
    <3>1. sight'[s].live = live /\ sight'[s].posted = due /\ ~sight'[s].on
      BY <2>4
    <3>. QED  BY <2>1, <2>6, <2>7, <3>1 DEF OneFits, Opening
  <2>9. SightFits'
    BY <1>4, <2>1, <2>4, <2>8
  <2>. QED  BY <1>2, <2>1, <2>4, <2>9 DEF Right
<1>9. Right
  BY <1>5, <1>6, <1>7, <1>8, Zenon
<1>10. UsageTypes'
  BY <1>1, <1>9 DEF UsageInv, UsageTypes, Right
<1>11. ASSUME ~seen'.overlap
       PROVE  Stands(usage', seen'.keys) /\ GoesToBeWritten(ir', usageMain', usage', lastKey', db')
  <2>1. ~seen.overlap /\ Stands(usage, seen.keys) /\ GoesToBeWritten(ir, usageMain, usage, lastKey, db)
    BY <1>1, <1>11 DEF UsageInv
  <2>2. Stands(usage', seen'.keys)
    BY <1>1, <2>1
  <2>. QED  BY <1>1, <1>9, <2>1, <2>2 DEF GoesToBeWritten, Right
<1>. QED  BY <1>9, <1>10, <1>11 DEF UsageInv, Right

\* UsageSound: a flag stands for a key of the day it is told of, what the handlers have changed is
\* written when they are done, and a line of sight that was opened is closed.
THEOREM UsageIsStored ==
    ASSUME UsageAssumption
    PROVE  UsageSpec => []UsageSound
<1>1. UsageInit => UsageInv
  <2>. SUFFICES ASSUME UsageInit PROVE UsageInv
    OBVIOUS
  <2>1. UsageTypes
    <3>1. /\ usage \in Usages /\ lastKey \in LastKeys /\ ir \in Irs /\ usageMain \in Mains
          /\ NoSight \in OneSight
      BY DEF UsageInit, Usages, LastKeys, Kinds, Irs, Mains, IdleIr, IdleMain, NoSight, OneSight
    <3>2. db \in [usage : Usages, lastKey : LastKeys]
      BY <3>1 DEF UsageInit
    <3>3. clock \in [day : Nat, set : BOOLEAN] /\ seen \in KeyTables /\ ir.pc # "sight"
      BY DEF UsageInit, KeyTables, IdleIr
    <3>4. sight \in [Sights -> OneSight]
      BY <3>1 DEF UsageInit
    <3>. QED  BY <3>1, <3>2, <3>3, <3>4 DEF UsageTypes
  <2>2. Stands(usage, seen.keys) /\ GoesToBeWritten(ir, usageMain, usage, lastKey, db)
    BY DEF UsageInit, Stands, GoesToBeWritten, IdleIr, IdleMain
  <2>3. SightFits
    <3>1. \A s \in Sights : sight[s].live = {} /\ sight[s].posted = 0 /\ sight[s].on = FALSE
      BY DEF UsageInit, NoSight
    <3>2. IsFiniteSet({}) /\ Cardinality({}) + 0 <= MaxSightTimers /\ ir.pc # "sight"
      BY FS_EmptySet DEF UsageAssumption, UsageInit, IdleIr
    <3>. QED  BY <3>1, <3>2 DEF SightFits, OneFits, Opening
  <2>. QED  BY <2>1, <2>2, <2>3 DEF UsageInv
<1>2. UsageInv /\ [UsageNext]_usageVars => UsageInv'
  <2>1. UsageInv /\ UNCHANGED usageVars => UsageInv'
    <3>. SUFFICES ASSUME UsageInv, UNCHANGED usageVars PROVE UsageInv'
      OBVIOUS
    <3>1. UNCHANGED <<clock, usage, lastKey, db, ir, usageMain, sight, seen>>
      BY DEF usageVars
    <3>. QED  BY <3>1 DEF UsageInv, UsageTypes, SightFits, GoesToBeWritten, Stands
  <2>. QED  BY <2>1, ClockKeeps, IrKeeps, MarkKeeps, NameKeeps, WriteKeeps, MainKeeps, UsageStartKeeps,
               SightKeeps DEF UsageNext
<1>3. UsageInv => UsageSound
  BY DEF UsageInv, GoesToBeWritten, Stands, SightFits, OneFits, Opening, UsageSound, FlagsRight,
         UsageStored, Quiet, SightEnds
<1>. QED  BY <1>1, <1>2, <1>3, PTL DEF UsageSpec

-----------------------------------------------------------------------------
(***************************************************************************)
(* The settings of voice reach the router as they were asked for, for any  *)
(* devices, URLs and configuration, whatever order they come in.           *)
(***************************************************************************)

\* There are the push to talk remotes and the microphones, and a URL.
SettingsAssumption ==
    /\ {"ptt", "mic"} \subseteq VoiceDevices /\ Urls # {}
    /\ Configs \subseteq [enable : BOOLEAN, force : BOOLEAN]

\* The state's types: what a device's status can have, and what of it is kept.
Bits == {"disabled", "session", "update", "privacy"}
Lasting == {"disabled", "privacy"}
SavedForm == [status : [VoiceDevices -> SUBSET Bits], url : [VoiceDevices -> Urls], init : BOOLEAN]
RoutesForm == UNION {[D -> Urls] : D \in SUBSET VoiceDevices}
RouterForm == [opened : BOOLEAN, routes : RoutesForm, private : BOOLEAN, init : BOOLEAN]
RoutingForm == [at : {"no", "read", "give"}, routes : RoutesForm]

SettingsTypes ==
    /\ status \in [VoiceDevices -> SUBSET Bits] /\ asked \in [VoiceDevices -> SUBSET Lasting]
    /\ url \in [VoiceDevices -> Urls] /\ saved \in SavedForm
    /\ config \in [enable : BOOLEAN, force : BOOLEAN]
    /\ router \in RouterForm /\ routing \in [Threads -> RoutingForm]

\* What is kept is what was asked for, from before it is loaded.
AskedKept ==
    /\ "converted" \notin past => \A d \in VoiceDevices : saved.status[d] = asked[d]
    /\ "converted" \notin past /\ stage = "load" => \A d \in VoiceDevices : Kept(status[d]) \subseteq asked[d]
    /\ stage = "load" => "loaded" \notin past
    /\ AskedHolds
\* The router is opened after the settings are loaded.
RoutedAfter == (stage \in {"load", "open"} => ~router.opened) /\ EnabledAreRouted

\* The router's init message is one that is kept.
InitKept == (router.init => saved.init) /\ InitIsTold

\* The inductive invariant.
SettingsInv == SettingsTypes /\ AskedKept /\ RoutedAfter /\ PrivacyAgrees /\ InitKept

-----------------------------------------------------------------------------
(* The helpers.                                                            *)

\* What voice_device_enable and _disable change, store and are asked for.
LEMMA SetGives ==
    ASSUME SettingsTypes, NEW ds \in SUBSET VoiceDevices, NEW on \in BOOLEAN
    PROVE  /\ Set(ds, on) \in [VoiceDevices -> SUBSET Bits] /\ Changes(ds, on) \in SUBSET ds
           /\ \A d \in VoiceDevices : d \notin ds => Set(ds, on)[d] = status[d]
           /\ \A d \in VoiceDevices : ("privacy" \in Set(ds, on)[d]) = ("privacy" \in status[d])
           /\ ds = {} => Set(ds, on) = status
  BY DEF SettingsTypes, Set, Changes, Bits

\* What is stored, and asked, of the devices among ds.
LEMMA StoredGives ==
    ASSUME SettingsTypes, NEW ds \in SUBSET VoiceDevices, NEW new \in [VoiceDevices -> SUBSET Bits]
    PROVE  /\ Stored(ds, new) \in SavedForm /\ Asked(ds, new) \in [VoiceDevices -> SUBSET Lasting]
           /\ \A d \in VoiceDevices : d \in ds => Stored(ds, new).status[d] = Kept(new[d]) /\ Asked(ds, new)[d] = Kept(new[d])
           /\ \A d \in VoiceDevices : d \notin ds => Stored(ds, new).status[d] = saved.status[d] /\ Asked(ds, new)[d] = asked[d]
           /\ Stored(ds, new).url = saved.url /\ Stored(ds, new).init = saved.init
<1>. DEFINE s == [d \in VoiceDevices |-> IF d \in ds THEN Kept(new[d]) ELSE saved.status[d]]
<1>1. s \in [VoiceDevices -> SUBSET Bits]
  BY DEF SettingsTypes, SavedForm, Kept, Bits
<1>2. Asked(ds, new) \in [VoiceDevices -> SUBSET Lasting]
  BY DEF SettingsTypes, Asked, Kept, Lasting
<1>3. Stored(ds, new) = [saved EXCEPT !.status = s]
  BY DEF Stored
<1>4. /\ \A d \in VoiceDevices : s[d] = IF d \in ds THEN Kept(new[d]) ELSE saved.status[d]
      /\ \A d \in VoiceDevices : Asked(ds, new)[d] = IF d \in ds THEN Kept(new[d]) ELSE asked[d]
  BY DEF Asked
<1>. HIDE DEF s
<1>5. Stored(ds, new) \in SavedForm /\ Stored(ds, new).status = s /\ Stored(ds, new).url = saved.url
      /\ Stored(ds, new).init = saved.init
  BY <1>1, <1>3 DEF SettingsTypes, SavedForm
<1>. QED  BY <1>2, <1>4, <1>5

\* What privacy changes: the status of the microphone, as it is asked for and stored.
PrivacyStep(on) ==
    /\ status' \in [VoiceDevices -> SUBSET Bits] /\ asked' \in [VoiceDevices -> SUBSET Lasting] /\ saved' \in SavedForm
    /\ ("privacy" \in status'["mic"]) = on
    /\ \A d \in VoiceDevices : d # "mic" => status'[d] = status[d]
    /\ \A d \in VoiceDevices : ("disabled" \in status'[d]) = ("disabled" \in status[d])
    /\ saved'.url = saved.url /\ saved'.init = saved.init
    /\ \A d \in VoiceDevices :
          \/ asked'[d] = Kept(status'[d]) /\ saved'.status[d] = Kept(status'[d])
          \/ asked'[d] = asked[d] /\ saved'.status[d] = saved.status[d] /\ status'[d] = status[d]

\* voice_privacy_enable and _disable make that change.
LEMMA PrivacyGives ==
    ASSUME SettingsAssumption, SettingsTypes, NEW on \in BOOLEAN, Privacy(on)
    PROVE  PrivacyStep(on)
<1>. DEFINE new == [status EXCEPT !["mic"] = IF on THEN @ \cup {"privacy"} ELSE @ \ {"privacy"}]
<1>1. /\ new \in [VoiceDevices -> SUBSET Bits] /\ ("privacy" \in new["mic"]) = on
      /\ \A d \in VoiceDevices : d # "mic" => new[d] = status[d]
      /\ \A d \in VoiceDevices : ("disabled" \in new[d]) = ("disabled" \in status[d])
  BY DEF SettingsAssumption, SettingsTypes, Bits
<1>2. /\ status' = new /\ saved' = (IF new = status THEN saved ELSE Stored({"mic"}, new))
      /\ asked' = IF new = status THEN asked ELSE Asked({"mic"}, new)
  BY DEF Privacy
<1>. HIDE DEF new
<1>3. {"mic"} \in SUBSET VoiceDevices
  BY DEF SettingsAssumption
<1>4. CASE new = status
  BY <1>1, <1>2, <1>4 DEF PrivacyStep, SettingsTypes
<1>5. CASE new # status
  <2>. DEFINE ds == {"mic"}
  <2>1. /\ Stored(ds, new) \in SavedForm /\ Asked(ds, new) \in [VoiceDevices -> SUBSET Lasting]
        /\ \A d \in VoiceDevices : d \in ds => Stored(ds, new).status[d] = Kept(new[d]) /\ Asked(ds, new)[d] = Kept(new[d])
        /\ \A d \in VoiceDevices : d \notin ds => Stored(ds, new).status[d] = saved.status[d] /\ Asked(ds, new)[d] = asked[d]
        /\ Stored(ds, new).url = saved.url /\ Stored(ds, new).init = saved.init
    BY <1>1, <1>3, StoredGives
  <2>2. saved' = Stored(ds, new) /\ asked' = Asked(ds, new) /\ status' = new
    BY <1>2, <1>5
  <2>3. \A d \in VoiceDevices : d \notin ds => d # "mic"
    OBVIOUS
  <2>. HIDE DEF ds
  <2>. QED  BY <1>1, <2>1, <2>2, <2>3 DEF PrivacyStep
<1>. QED  BY <1>4, <1>5

\* What voice_device_enable and _disable change, of the devices among ds that change.
SetStep(ds, on) ==
    /\ status' \in [VoiceDevices -> SUBSET Bits] /\ asked' \in [VoiceDevices -> SUBSET Lasting] /\ saved' \in SavedForm
    /\ \A d \in VoiceDevices : ("privacy" \in status'[d]) = ("privacy" \in status[d])
    /\ saved'.url = saved.url /\ saved'.init = saved.init
    /\ \A d \in VoiceDevices :
          \/ asked'[d] = Kept(status'[d]) /\ saved'.status[d] = Kept(status'[d])
          \/ asked'[d] = asked[d] /\ saved'.status[d] = saved.status[d] /\ status'[d] = status[d]
    /\ ds = {} => status' = status

\* voice_device_enable and _disable make that change.
LEMMA SetStepGives ==
    ASSUME SettingsTypes, NEW ds \in SUBSET VoiceDevices, NEW on \in BOOLEAN,
           status' = Set(ds, on), saved' = Stored(ds, Set(ds, on)), asked' = Asked(ds, Set(ds, on))
    PROVE  SetStep(ds, on)
<1>. DEFINE new == Set(ds, on)
<1>1. /\ new \in [VoiceDevices -> SUBSET Bits]
      /\ \A d \in VoiceDevices : d \notin ds => new[d] = status[d]
      /\ \A d \in VoiceDevices : ("privacy" \in new[d]) = ("privacy" \in status[d])
      /\ ds = {} => new = status
  BY SetGives
<1>. HIDE DEF new
<1>2. /\ Stored(ds, new) \in SavedForm /\ Asked(ds, new) \in [VoiceDevices -> SUBSET Lasting]
      /\ \A d \in VoiceDevices : d \in ds => Stored(ds, new).status[d] = Kept(new[d]) /\ Asked(ds, new)[d] = Kept(new[d])
      /\ \A d \in VoiceDevices : d \notin ds => Stored(ds, new).status[d] = saved.status[d] /\ Asked(ds, new)[d] = asked[d]
      /\ Stored(ds, new).url = saved.url /\ Stored(ds, new).init = saved.init
  BY <1>1, StoredGives
<1>3. status' = new /\ saved' = Stored(ds, new) /\ asked' = Asked(ds, new)
  BY DEF new
<1>. QED  BY <1>1, <1>2, <1>3 DEF SetStep

\* The routes that are wanted are those of the devices that are not just disabled.
LEMMA WantedGives ==
    ASSUME SettingsTypes
    PROVE  /\ Wanted \in RoutesForm
           /\ \A d \in VoiceDevices : "disabled" \notin status[d] => d \in DOMAIN Wanted /\ Wanted[d] = url[d]
<1>1. PICK D \in SUBSET VoiceDevices : D = {e \in VoiceDevices : status[e] # {"disabled"}}
  OBVIOUS
<1>2. Wanted = [d \in D |-> url[d]]
  BY <1>1 DEF Wanted
<1>3. Wanted \in [D -> Urls]
  BY <1>2 DEF SettingsTypes
<1>4. Wanted \in RoutesForm
  BY <1>3 DEF RoutesForm
<1>5. \A d \in VoiceDevices : "disabled" \notin status[d] => d \in DOMAIN Wanted /\ Wanted[d] = url[d]
  BY <1>1, <1>2
<1>. QED  BY <1>4, <1>5

-----------------------------------------------------------------------------
(* The parts of the invariant, as steps leave them.                        *)

\* Of each device both that is asked and that is kept are written, or neither.
AskedStep ==
    /\ \A d \in VoiceDevices :
          \/ asked'[d] = Kept(status'[d]) /\ saved'.status[d] = Kept(status'[d])
          \/ asked'[d] = asked[d] /\ saved'.status[d] = saved.status[d] /\ Kept(status'[d]) = Kept(status[d])
    /\ UNCHANGED config /\ (stage' = "load" <=> stage = "load")
    /\ ("converted" \in past' <=> "converted" \in past) /\ ("loaded" \in past' <=> "loaded" \in past)

\* What is kept stays what is asked for.
LEMMA AskedStays == AskedKept /\ AskedStep => AskedKept'
  BY DEF AskedKept, AskedStep, AskedHolds, Loaded

\* Routes are made, or nothing of them changes.
RoutedStep ==
    /\ router'.opened = router.opened /\ router'.routes = router.routes
    /\ stage' \in {"load", "open"} => stage \in {"load", "open"}
    /\ "stale" \in past' <=> "stale" \in past
    /\ \/ router.opened => \E t \in Threads : routing'[t].at # "no"
       \/ /\ \A t \in Threads : routing'[t].at = "no" => routing[t].at = "no"
          /\ UNCHANGED url
          /\ \A d \in VoiceDevices : "disabled" \in status[d] => "disabled" \in status'[d]

\* The enabled devices stay routed.
LEMMA RoutedStays == RoutedAfter /\ RoutedStep => RoutedAfter'
  BY DEF RoutedAfter, RoutedStep, EnabledAreRouted

\* The privacy of the router changes with that of the microphone, or the power is off.
PrivateStep ==
    \/ router'.opened = FALSE \/ power' = FALSE \/ stage' \in {"private", "public"}
    \/ router'.private = ("privacy" \in status'["mic"])
    \/ /\ router'.opened = router.opened /\ router'.private = router.private
       /\ "raced" \in past' <=> "raced" \in past
       /\ ("privacy" \in status'["mic"]) = ("privacy" \in status["mic"])
       /\ power' = power /\ (stage' \in {"private", "public"} <=> stage \in {"private", "public"})

\* The router's privacy stays that of the microphone.
LEMMA PrivateStays == PrivacyAgrees /\ PrivateStep => PrivacyAgrees'
  BY DEF PrivacyAgrees, PrivateStep

\* The init message stays as it is kept and told.
InitStep ==
    /\ router'.opened = router.opened /\ router'.init = router.init /\ saved'.init = saved.init
    /\ stage' \in {"load", "open", "sync"} <=> stage \in {"load", "open", "sync"}
    /\ "reopened" \in past' <=> "reopened" \in past

\* The init message stays told.
LEMMA InitStays == InitKept /\ InitStep => InitKept'
  BY DEF InitKept, InitStep, InitIsTold

-----------------------------------------------------------------------------
(* The actions.                                                            *)

\* What leaves each part as it is.
LEMMA PartsStay ==
    SettingsInv /\ SettingsTypes' /\ AskedStep /\ RoutedStep /\ PrivateStep /\ InitStep => SettingsInv'
  BY AskedStays, RoutedStays, PrivateStays, InitStays DEF SettingsInv

\* A thread begins to make routes.
LEMMA BeginsGives ==
    ASSUME SettingsTypes, NEW t \in Threads, Begins(t)
    PROVE  routing' \in [Threads -> RoutingForm] /\ \E u \in Threads : routing'[u].at # "no"
  BY DEF SettingsTypes, Begins, RoutingForm

\* The bus sets a device, a server, the microphone or the init message.
LEMMA ConfigureKeeps ==
    ASSUME SettingsAssumption, SettingsInv
    PROVE  /\ \A ds \in SUBSET VoiceDevices, on \in BOOLEAN, form \in Forms : ConfigureDevices(ds, on, form) => SettingsInv'
           /\ \A d \in VoiceDevices, u \in Urls, form \in Forms : ConfigureUrl({d}, u, form) => SettingsInv'
           /\ \A on \in BOOLEAN : ConfigureMic(on) => SettingsInv'
           /\ InitSet => SettingsInv'
<1>. SettingsTypes
  BY DEF SettingsInv
<1>1. ASSUME NEW ds \in SUBSET VoiceDevices, NEW on \in BOOLEAN, NEW form \in Forms, ConfigureDevices(ds, on, form)
      PROVE  SettingsInv'
  <2>. DEFINE changed == Changes(ds, on)
  <2>1. /\ status' = Set(changed, on) /\ saved' = Stored(changed, Set(changed, on))
        /\ asked' = Asked(changed, Set(changed, on))
        /\ IF changed # {} /\ router.opened THEN Begins("bus") ELSE UNCHANGED routing
        /\ UNCHANGED <<url, config, force, stage, router, power, past, turns, boots>>
    BY <1>1 DEF ConfigureDevices
  <2>2. changed \in SUBSET VoiceDevices
    BY SetGives
  <2>. HIDE DEF changed
  <2>3. SetStep(changed, on)
    BY <2>1, <2>2, SetStepGives
  <2>4. /\ routing' \in [Threads -> RoutingForm]
        /\ (router.opened /\ changed # {} => \E t \in Threads : routing'[t].at # "no")
        /\ (changed = {} => UNCHANGED routing)
    BY <2>1, BeginsGives DEF Threads, SettingsTypes
  <2>5. SettingsTypes'
    BY <2>1, <2>3, <2>4 DEF SettingsTypes, SetStep
  <2>6. AskedStep
    BY <2>1, <2>3 DEF AskedStep, SetStep
  <2>7. RoutedStep
    BY <2>1, <2>3, <2>4 DEF RoutedStep, SetStep
  <2>8. PrivateStep
    BY <2>1, <2>3 DEF PrivateStep, SetStep, SettingsAssumption
  <2>9. InitStep
    BY <2>1, <2>3 DEF InitStep, SetStep
  <2>. QED  BY <2>5, <2>6, <2>7, <2>8, <2>9, PartsStay
<1>2. ASSUME NEW e \in VoiceDevices, NEW u \in Urls, NEW form \in Forms, ConfigureUrl({e}, u, form)
      PROVE  SettingsInv'
  <2>. DEFINE kept == [d \in VoiceDevices |-> IF d \in {e} THEN u ELSE saved.url[d]]
  <2>1. /\ url' = [d \in VoiceDevices |-> IF d \in {e} THEN u ELSE url[d]]
        /\ saved' = (IF form = "json" THEN saved ELSE [saved EXCEPT !.url = kept])
        /\ IF router.opened THEN Begins("bus") ELSE UNCHANGED routing
        /\ UNCHANGED <<status, config, force, stage, router, power, asked, past, turns, boots>>
    BY <1>2 DEF ConfigureUrl
  <2>2. kept \in [VoiceDevices -> Urls]
    BY DEF SettingsTypes, SavedForm
  <2>. HIDE DEF kept
  <2>3. saved' \in SavedForm /\ saved'.status = saved.status /\ saved'.init = saved.init
    BY <2>1, <2>2 DEF SettingsTypes, SavedForm
  <2>4. /\ routing' \in [Threads -> RoutingForm]
        /\ router.opened => \E t \in Threads : routing'[t].at # "no"
    BY <2>1, BeginsGives DEF Threads, SettingsTypes
  <2>5. SettingsTypes'
    BY <2>1, <2>3, <2>4 DEF SettingsTypes
  <2>6. AskedStep
    BY <2>1, <2>3 DEF AskedStep
  <2>7. RoutedStep
    BY <2>1, <2>4 DEF RoutedStep, SettingsInv, RoutedAfter
  <2>8. PrivateStep
    BY <2>1 DEF PrivateStep
  <2>9. InitStep
    BY <2>1, <2>3 DEF InitStep
  <2>10. router.opened \/ ~router.opened
    OBVIOUS
  <2>. QED  BY <2>5, <2>6, <2>7, <2>8, <2>9, PartsStay
<1>3. ASSUME NEW on \in BOOLEAN, ConfigureMic(on) PROVE SettingsInv'
  <2>1. /\ Privacy(~on) /\ router' = IF status' = status THEN router ELSE [router EXCEPT !.private = ~on]
        /\ router.opened /\ UNCHANGED <<url, config, force, stage, routing, json, power, past, turns, boots>>
    BY <1>3 DEF ConfigureMic
  <2>2. PrivacyStep(~on)
    BY <2>1, PrivacyGives
  <2>3. /\ router' \in RouterForm /\ router'.opened = router.opened /\ router'.routes = router.routes
        /\ router'.init = router.init
        /\ \/ router'.private = ~on
           \/ router'.private = router.private /\ status' = status
    BY <2>1 DEF SettingsTypes, RouterForm
  <2>5. SettingsTypes'
    BY <2>1, <2>2, <2>3 DEF SettingsTypes, PrivacyStep
  <2>6. AskedStep
    BY <2>1, <2>2 DEF AskedStep, PrivacyStep
  <2>7. RoutedStep
    BY <2>1, <2>2, <2>3 DEF RoutedStep, PrivacyStep
  <2>8. PrivateStep
    BY <2>1, <2>2, <2>3 DEF PrivateStep, PrivacyStep
  <2>9. InitStep
    BY <2>1, <2>2, <2>3 DEF InitStep, PrivacyStep
  <2>. QED  BY <2>5, <2>6, <2>7, <2>8, <2>9, PartsStay
<1>4. ASSUME InitSet PROVE SettingsInv'
  <2>1. /\ router' = [router EXCEPT !.init = TRUE] /\ saved' = [saved EXCEPT !.init = TRUE]
        /\ UNCHANGED <<status, url, config, force, stage, routing, json, power, asked, past, sets, turns, boots>>
    BY <1>4 DEF InitSet
  <2>2. /\ router' \in RouterForm /\ router'.opened = router.opened /\ router'.routes = router.routes
        /\ router'.private = router.private /\ router'.init = TRUE
        /\ saved' \in SavedForm /\ saved'.status = saved.status /\ saved'.init = TRUE
    BY <2>1 DEF SettingsTypes, RouterForm, SavedForm
  <2>3. SettingsTypes'
    BY <2>1, <2>2 DEF SettingsTypes
  <2>4. AskedStep /\ RoutedStep /\ PrivateStep
    BY <2>1, <2>2 DEF AskedStep, RoutedStep, PrivateStep
  <2>5. InitKept'
    BY <2>2 DEF InitKept, InitIsTold
  <2>. QED  BY <2>3, <2>4, <2>5, AskedStays, RoutedStays, PrivateStays DEF SettingsInv
<1>. QED  BY <1>1, <1>2, <1>3, <1>4

\* A thread makes its routes.
LEMMA RoutesKeep ==
    ASSUME SettingsAssumption, SettingsInv, NEW t \in Threads, ReadRoutes(t) \/ GiveRoutes(t)
    PROVE  SettingsInv'
<1>. SettingsTypes
  BY DEF SettingsInv
<1>. DEFINE w == Wanted
<1>1. /\ w \in RoutesForm
      /\ \A d \in VoiceDevices : "disabled" \notin status[d] => d \in DOMAIN w /\ w[d] = url[d]
  BY WantedGives
<1>2. CASE ReadRoutes(t)
  <2>1. /\ routing' = [routing EXCEPT ![t] = [at |-> "give", routes |-> w]]
        /\ UNCHANGED <<status, url, saved, config, force, stage, router, json, power, asked, past, sets, turns, boots>>
    BY <1>2 DEF ReadRoutes
  <2>. HIDE DEF w
  <2>2. routing' \in [Threads -> RoutingForm] /\ routing'[t].at = "give"
    BY <1>1, <2>1 DEF SettingsTypes, RoutingForm
  <2>3. SettingsTypes' /\ AskedStep /\ RoutedStep /\ PrivateStep /\ InitStep
    BY <2>1, <2>2 DEF SettingsTypes, AskedStep, RoutedStep, PrivateStep, InitStep
  <2>. QED  BY <2>3, PartsStay
<1>3. CASE GiveRoutes(t)
  <2>. DEFINE made == routing[t].routes
  <2>1. /\ router' = (IF router.opened THEN [router EXCEPT !.routes = made] ELSE router)
        /\ routing' = [routing EXCEPT ![t] = NotRouting]
        /\ saved' = (IF t = "bus" /\ json THEN [saved EXCEPT !.url = url] ELSE saved)
        /\ past' = (IF made # w THEN past \cup {"stale"} ELSE past \ {"stale"})
        /\ UNCHANGED <<status, url, config, force, stage, json, power, asked, sets, turns, boots>>
    BY <1>3 DEF GiveRoutes
  <2>2. made \in RoutesForm
    BY DEF SettingsTypes, RoutingForm
  <2>3. <<>> \in RoutesForm
    <3>1. <<>> \in [{} -> Urls] /\ {} \in SUBSET VoiceDevices
      OBVIOUS
    <3>. QED  BY <3>1 DEF RoutesForm
  <2>. HIDE DEF made, w
  <2>4. /\ router' \in RouterForm /\ router'.opened = router.opened /\ (router.opened => router'.routes = made)
        /\ router'.init = router.init /\ router'.private = router.private
    BY <2>1, <2>2 DEF SettingsTypes, RouterForm
  <2>5. saved' \in SavedForm /\ saved'.status = saved.status /\ saved'.init = saved.init
    BY <2>1 DEF SettingsTypes, SavedForm
  <2>6. routing' \in [Threads -> RoutingForm]
    BY <2>1, <2>3 DEF SettingsTypes, RoutingForm, NotRouting
  <2>7. SettingsTypes'
    BY <2>1, <2>4, <2>5, <2>6 DEF SettingsTypes
  <2>8. AskedStep /\ PrivateStep /\ InitStep
    BY <2>1, <2>4, <2>5 DEF AskedStep, PrivateStep, InitStep
  <2>9. RoutedAfter'
    BY <1>1, <2>1, <2>4 DEF SettingsInv, RoutedAfter, EnabledAreRouted
  <2>. QED  BY <2>7, <2>8, <2>9, AskedStays, PrivateStays, InitStays DEF SettingsInv
<1>. QED  BY <1>2, <1>3

\* The settings are loaded.
LEMMA LoadKeeps ==
    ASSUME SettingsAssumption, SettingsInv, Load
    PROVE  SettingsInv'
<1>. SettingsTypes
  BY DEF SettingsInv
<1>. DEFINE off == IF config.enable THEN {} ELSE VoiceDevices
            old == [d \in VoiceDevices |-> IF force THEN {} ELSE saved.status[d]]
            converted == {d \in VoiceDevices : Legacy(old[d])}
            left == [d \in VoiceDevices |-> IF d \in converted THEN {} ELSE saved.status[d]]
            new == [d \in VoiceDevices |->
                       status[d] \cup (old[d] \ (IF d \in converted THEN {"disabled"} ELSE {}))
                       \cup IF d \in off THEN {"disabled"} ELSE {}]
<1>1. /\ stage = "load" /\ stage' = "open" /\ status' = new
      /\ saved' = [saved EXCEPT !.status = left]
      /\ past' = (past \cup IF force THEN {} ELSE {"loaded"}) \cup IF converted # {} THEN {"converted"} ELSE {}
      /\ url' = (IF force THEN url ELSE saved.url)
      /\ UNCHANGED <<config, force, router, routing, json, power, asked, sets, turns, boots>>
  BY DEF Load, At
<1>2. old \in [VoiceDevices -> SUBSET Bits]
  BY DEF SettingsTypes, SavedForm
<1>3. /\ converted \in SUBSET VoiceDevices
      /\ force => \A d \in VoiceDevices : old[d] = {}
      /\ ~force => \A d \in VoiceDevices : old[d] = saved.status[d]
  OBVIOUS
<1>4. /\ left \in [VoiceDevices -> SUBSET Bits]
      /\ \A d \in VoiceDevices : d \notin converted => left[d] = saved.status[d]
  BY DEF SettingsTypes, SavedForm
<1>. HIDE DEF old, left, converted
<1>5. /\ new \in [VoiceDevices -> SUBSET Bits]
      /\ \A d \in VoiceDevices : config.enable /\ d \notin converted => new[d] = status[d] \cup old[d]
  BY <1>2 DEF SettingsTypes, Bits
<1>. HIDE DEF new
<1>6. saved' \in SavedForm /\ saved'.status = left /\ saved'.init = saved.init
  BY <1>1, <1>4 DEF SettingsTypes, SavedForm
<1>7. url' \in [VoiceDevices -> Urls]
  BY <1>1 DEF SettingsTypes, SavedForm
<1>8. SettingsTypes'
  BY <1>1, <1>5, <1>6, <1>7 DEF SettingsTypes
<1>9. ASSUME "converted" \notin past' PROVE converted = {} /\ "converted" \notin past
  BY <1>1, <1>9
<1>10. AskedKept'
  <2>1. "converted" \notin past' => \A d \in VoiceDevices : saved'.status[d] = asked'[d]
    BY <1>1, <1>4, <1>6, <1>9 DEF SettingsInv, AskedKept
  <2>2. ASSUME "converted" \notin past', Loaded' PROVE \A d \in VoiceDevices : Kept(status'[d]) = asked'[d]
    <3>1. CASE force
      BY <1>1, <1>9, <2>2, <3>1 DEF Loaded, SettingsInv, AskedKept
    <3>2. CASE ~force
      <4>. SUFFICES ASSUME NEW d \in VoiceDevices PROVE Kept(status'[d]) = asked'[d]
        OBVIOUS
      <4>1. status'[d] = status[d] \cup asked[d] /\ Kept(status[d]) \subseteq asked[d]
        BY <1>1, <1>3, <1>5, <1>9, <2>2, <3>2 DEF SettingsInv, AskedKept, Loaded
      <4>2. Kept(asked[d]) = asked[d]
        BY DEF SettingsTypes, Kept, Lasting
      <4>. QED  BY <1>1, <4>1, <4>2 DEF Kept
    <3>. QED  BY <3>1, <3>2
  <2>. QED  BY <1>1, <2>1, <2>2 DEF AskedKept, AskedHolds
<1>11. RoutedAfter'
  BY <1>1 DEF SettingsInv, RoutedAfter, EnabledAreRouted
<1>12. PrivacyAgrees' /\ InitKept'
  BY <1>1, <1>6 DEF SettingsInv, RoutedAfter, PrivacyAgrees, InitKept, InitIsTold
<1>. QED  BY <1>8, <1>10, <1>11, <1>12 DEF SettingsInv

\* A router that is opened or closed has no routes yet.
LEMMA NoRoutes ==
    /\ <<>> \in RoutesForm /\ \A private \in BOOLEAN : Closed(private) \in RouterForm
    /\ Opened(FALSE) \in RouterForm /\ Opened(FALSE).opened = TRUE /\ Opened(FALSE).init = FALSE
    /\ Opened(FALSE).private = ("privacy" \in status["mic"])
    /\ \A private \in BOOLEAN : Closed(private).opened = FALSE /\ Closed(private).init = FALSE
<1>1. <<>> \in [{} -> Urls] /\ {} \in SUBSET VoiceDevices
  OBVIOUS
<1>2. <<>> \in RoutesForm
  BY <1>1 DEF RoutesForm
<1>3. ("privacy" \in status["mic"]) \in BOOLEAN
  OBVIOUS
<1>. QED  BY <1>2, <1>3 DEF RouterForm, Opened, Closed

\* The router is opened, told the init message, closed and opened again.
LEMMA SettingsStartKeeps ==
    ASSUME SettingsAssumption, SettingsInv, Open \/ Sync \/ CloseSdk \/ Reopen
    PROVE  SettingsInv'
<1>. SettingsTypes
  BY DEF SettingsInv
<1>1. CASE Open \/ Reopen
  <2>1. /\ router' = Opened(FALSE) /\ Begins("sys")
        /\ \/ stage = "open" /\ stage' = "sync" /\ UNCHANGED past
           \/ stage = "reopen" /\ stage' = "idle" /\ past' = past \cup {"reopened"}
        /\ UNCHANGED <<status, url, saved, config, force, json, power, asked, sets, turns, boots>>
    BY <1>1 DEF Open, Reopen, At
  <2>2. routing' \in [Threads -> RoutingForm] /\ \E u \in Threads : routing'[u].at # "no"
    BY <2>1, BeginsGives DEF Threads
  <2>3. /\ router' \in RouterForm /\ router'.opened = TRUE /\ router'.init = FALSE
        /\ router'.private = ("privacy" \in status'["mic"])
    BY <2>1, NoRoutes
  <2>4. SettingsTypes'
    BY <2>1, <2>2, <2>3 DEF SettingsTypes
  <2>5. AskedStep /\ PrivateStep
    BY <2>1, <2>3 DEF AskedStep, PrivateStep
  <2>6. RoutedAfter'
    BY <2>1, <2>2 DEF RoutedAfter, EnabledAreRouted
  <2>7. InitKept'
    BY <2>1, <2>3 DEF InitKept, InitIsTold
  <2>. QED  BY <2>4, <2>5, <2>6, <2>7, AskedStays, PrivateStays DEF SettingsInv
<1>2. CASE Sync
  <2>1. /\ stage = "sync" /\ stage' = "voice_rfc" /\ router' = [router EXCEPT !.init = router.init \/ saved.init]
        /\ UNCHANGED <<status, url, saved, config, force, routing, json, power, asked, past, sets, turns, boots>>
    BY <1>2 DEF Sync, At
  <2>2. router.init \in BOOLEAN /\ saved.init \in BOOLEAN /\ (router.init => saved.init)
    BY DEF SettingsInv, SettingsTypes, InitKept, RouterForm, SavedForm
  <2>3. (router.init \/ saved.init) = saved.init
    BY <2>2
  <2>4. /\ router' \in RouterForm /\ router'.opened = router.opened /\ router'.routes = router.routes
        /\ router'.private = router.private /\ router'.init = saved.init
    BY <2>1, <2>2, <2>3 DEF SettingsTypes, RouterForm
  <2>5. SettingsTypes' /\ AskedStep /\ RoutedStep /\ PrivateStep
    BY <2>1, <2>4 DEF SettingsTypes, AskedStep, RoutedStep, PrivateStep
  <2>6. InitKept'
    BY <2>1, <2>4 DEF InitKept, InitIsTold
  <2>. QED  BY <2>5, <2>6, AskedStays, RoutedStays, PrivateStays DEF SettingsInv
<1>3. CASE CloseSdk
  <2>1. /\ stage = "vsdk_rfc" /\ stage' = "reopen" /\ router' = Closed(router.private)
        /\ UNCHANGED <<status, url, saved, config, force, routing, json, power, asked, past, sets, turns, boots>>
    BY <1>3 DEF CloseSdk, At
  <2>2. router.private \in BOOLEAN
    BY DEF SettingsTypes, RouterForm
  <2>3. router' \in RouterForm /\ router'.opened = FALSE /\ router'.init = FALSE
    BY <2>1, <2>2, NoRoutes
  <2>4. SettingsTypes' /\ AskedStep /\ PrivateStep
    BY <2>1, <2>3 DEF SettingsTypes, AskedStep, PrivateStep
  <2>5. RoutedAfter' /\ InitKept'
    BY <2>1, <2>3 DEF RoutedAfter, EnabledAreRouted, InitKept, InitIsTold
  <2>. QED  BY <2>4, <2>5, AskedStays, PrivateStays DEF SettingsInv
<1>. QED  BY <1>1, <1>2, <1>3

\* RFC answers.
LEMMA RfcKeeps ==
    ASSUME SettingsAssumption, SettingsInv, NEW forced \in BOOLEAN, NEW enabled \in BOOLEAN, NEW u \in Urls,
           VoiceRfc(forced, enabled, u) \/ VoiceRfcSilent \/ VsdkRfcSilent
    PROVE  SettingsInv'
<1>. SettingsTypes
  BY DEF SettingsInv
<1>1. CASE VoiceRfc(forced, enabled, u)
  <2>. DEFINE changed == IF forced /\ ~enabled THEN Changes(VoiceDevices, FALSE) ELSE {}
  <2>1. /\ stage = "voice_rfc" /\ stage' = "vsdk_rfc" /\ status' = Set(changed, FALSE)
        /\ saved' = Stored(changed, Set(changed, FALSE)) /\ asked' = Asked(changed, Set(changed, FALSE))
        /\ url' = (IF forced THEN [d \in VoiceDevices |-> u] ELSE url)
        /\ IF forced THEN Begins("sys") ELSE UNCHANGED routing
        /\ UNCHANGED <<config, router, json, power, past, sets, turns, boots>>
    BY <1>1 DEF VoiceRfc, At
  <2>2. changed \in SUBSET VoiceDevices /\ (~forced => changed = {})
    <3>1. Changes(VoiceDevices, FALSE) \in SUBSET VoiceDevices
      BY DEF Changes
    <3>. QED  BY <3>1
  <2>. HIDE DEF changed
  <2>3. SetStep(changed, FALSE)
    BY <2>1, <2>2, SetStepGives
  <2>4. /\ routing' \in [Threads -> RoutingForm]
        /\ forced => \E t \in Threads : routing'[t].at # "no"
        /\ ~forced => UNCHANGED <<routing, url>>
        /\ url' \in [VoiceDevices -> Urls]
    BY <2>1, BeginsGives DEF Threads, SettingsTypes
  <2>5. SettingsTypes'
    BY <2>1, <2>3, <2>4 DEF SettingsTypes, SetStep
  <2>6. AskedStep
    BY <2>1, <2>3 DEF AskedStep, SetStep
  <2>7. RoutedStep
    BY <2>1, <2>2, <2>3, <2>4 DEF RoutedStep, SetStep
  <2>8. PrivateStep
    BY <2>1, <2>3 DEF PrivateStep, SetStep, SettingsAssumption
  <2>9. InitStep
    BY <2>1, <2>3 DEF InitStep, SetStep
  <2>. QED  BY <2>5, <2>6, <2>7, <2>8, <2>9, PartsStay
<1>2. CASE VoiceRfcSilent \/ VsdkRfcSilent
  <2>1. /\ stage \in {"voice_rfc", "vsdk_rfc"} /\ stage' \in {"vsdk_rfc", "idle"}
        /\ UNCHANGED <<status, url, saved, config, force, router, routing, json, power, asked, past, sets, turns, boots>>
    BY <1>2 DEF VoiceRfcSilent, VsdkRfcSilent, At
  <2>2. SettingsTypes' /\ AskedStep /\ RoutedStep /\ PrivateStep /\ InitStep
    BY <2>1 DEF SettingsTypes, AskedStep, RoutedStep, PrivateStep, InitStep
  <2>. QED  BY <2>2, PartsStay
<1>. QED  BY <1>1, <1>2

\* The power goes off and on.
LEMMA SettingsPowerKeeps ==
    ASSUME SettingsAssumption, SettingsInv, PowerOff \/ RouterMutes \/ PowerOn \/ PowerTakes
    PROVE  SettingsInv'
<1>. SettingsTypes
  BY DEF SettingsInv
<1>1. CASE PowerOff \/ PowerOn
  <2>1. /\ stage = "idle" /\ \/ power' = FALSE /\ UNCHANGED stage
                             \/ stage' \in {"private", "public"}
        /\ UNCHANGED <<status, url, saved, config, force, router, routing, json, asked, past, sets, turns, boots>>
    BY <1>1 DEF PowerOff, PowerOn, At
  <2>2. SettingsTypes' /\ AskedStep /\ RoutedStep /\ PrivateStep /\ InitStep
    BY <2>1 DEF SettingsTypes, AskedStep, RoutedStep, PrivateStep, InitStep
  <2>. QED  BY <2>2, PartsStay
<1>2. CASE RouterMutes
  <2>1. /\ ~power /\ router' = [router EXCEPT !.private = ~router.private]
        /\ UNCHANGED <<status, url, saved, config, force, stage, routing, json, power, asked, past, sets, boots>>
    BY <1>2 DEF RouterMutes
  <2>2. /\ router' \in RouterForm /\ router'.opened = router.opened /\ router'.routes = router.routes
        /\ router'.init = router.init
    BY <2>1 DEF SettingsTypes, RouterForm
  <2>3. SettingsTypes' /\ AskedStep /\ RoutedStep /\ InitStep
    BY <2>1, <2>2 DEF SettingsTypes, AskedStep, RoutedStep, InitStep
  <2>4. PrivacyAgrees'
    BY <2>1 DEF PrivacyAgrees
  <2>. QED  BY <2>3, <2>4, AskedStays, RoutedStays, InitStays DEF SettingsInv
<1>3. CASE PowerTakes
  <2>. DEFINE on == stage = "private"
  <2>1. /\ stage \in {"private", "public"} /\ stage' = "idle" /\ Privacy(on)
        /\ past' = (IF router.private # on THEN past \cup {"raced"} ELSE past \ {"raced"})
        /\ UNCHANGED <<url, config, force, router, routing, json, power, sets, turns, boots>>
    BY <1>3 DEF PowerTakes
  <2>2. on \in BOOLEAN
    OBVIOUS
  <2>3. PrivacyStep(on)
    BY <2>1, <2>2, PrivacyGives
  <2>. HIDE DEF on
  <2>4. SettingsTypes'
    BY <2>1, <2>3 DEF SettingsTypes, PrivacyStep
  <2>5. AskedStep
    BY <2>1, <2>3 DEF AskedStep, PrivacyStep
  <2>6. RoutedStep
    BY <2>1, <2>3 DEF RoutedStep, PrivacyStep
  <2>7. PrivacyAgrees'
    BY <2>1, <2>3 DEF PrivacyAgrees, PrivacyStep
  <2>8. InitStep
    BY <2>1, <2>3 DEF InitStep, PrivacyStep
  <2>. QED  BY <2>4, <2>5, <2>6, <2>7, <2>8, AskedStays, RoutedStays, InitStays DEF SettingsInv
<1>. QED  BY <1>1, <1>2, <1>3

\* A session or an update begins or ends, and the process starts again.
LEMMA TurnsKeep ==
    ASSUME SettingsAssumption, SettingsInv
    PROVE  /\ \A d \in VoiceDevices, bit \in {"session", "update"} : Raises(d, bit) \/ Lowers(d, bit) => SettingsInv'
           /\ Restarts => SettingsInv'
<1>. SettingsTypes
  BY DEF SettingsInv
<1>1. ASSUME NEW d \in VoiceDevices, NEW bit \in {"session", "update"}, Raises(d, bit) \/ Lowers(d, bit)
      PROVE  SettingsInv'
  <2>1. /\ \/ status' = [status EXCEPT ![d] = @ \cup {bit}]
           \/ status' = [status EXCEPT ![d] = @ \ {bit}]
        /\ UNCHANGED <<url, saved, config, force, stage, router, routing, json, power, asked, past, sets, boots>>
    BY <1>1 DEF Raises, Lowers
  <2>2. /\ status' \in [VoiceDevices -> SUBSET Bits]
        /\ \A e \in VoiceDevices : /\ "disabled" \in status'[e] <=> "disabled" \in status[e]
                                   /\ "privacy" \in status'[e] <=> "privacy" \in status[e]
    BY <2>1 DEF SettingsTypes, Bits
  <2>3. \A e \in VoiceDevices : Kept(status'[e]) = Kept(status[e])
    BY <2>2 DEF Kept
  <2>4. ("privacy" \in status'["mic"]) = ("privacy" \in status["mic"])
    BY <2>2 DEF SettingsAssumption
  <2>5. SettingsTypes' /\ AskedStep /\ RoutedStep /\ PrivateStep /\ InitStep
    BY <2>1, <2>2, <2>3, <2>4 DEF SettingsTypes, AskedStep, RoutedStep, PrivateStep, InitStep
  <2>. QED  BY <2>5, PartsStay
<1>2. ASSUME Restarts PROVE SettingsInv'
  <2>1. /\ status' = [d \in VoiceDevices |-> {}] /\ stage' = "load" /\ router' = Closed(FALSE)
        /\ routing' = [t \in Threads |-> NotRouting] /\ past' = past \ {"loaded", "stale", "raced", "reopened"}
        /\ UNCHANGED <<url, saved, config, asked, sets, turns>>
    BY <1>2 DEF Restarts
  <2>2. router' \in RouterForm /\ router'.opened = FALSE /\ router'.init = FALSE
    BY <2>1, NoRoutes
  <2>3. NotRouting \in RoutingForm
    BY NoRoutes DEF NotRouting, RoutingForm
  <2>4. SettingsTypes'
    BY <2>1, <2>2, <2>3 DEF SettingsTypes
  <2>5. AskedKept'
    BY <2>1 DEF SettingsInv, AskedKept, AskedHolds, Loaded, Kept
  <2>6. RoutedAfter' /\ PrivacyAgrees' /\ InitKept'
    BY <2>2 DEF RoutedAfter, EnabledAreRouted, PrivacyAgrees, InitKept, InitIsTold
  <2>. QED  BY <2>4, <2>5, <2>6 DEF SettingsInv
<1>. QED  BY <1>1, <1>2

\* The settings of voice reach the database and the router, through every restart, whatever
\* the devices, the servers and the configuration (voice_configure,
\* voice_configure_config_file_json, voice_power_state_change).
THEOREM SettingsReach == ASSUME SettingsAssumption PROVE SettingsSpec => []SettingsSound
<1>1. SettingsInit => SettingsInv
  <2>. SUFFICES ASSUME SettingsInit PROVE SettingsInv
    OBVIOUS
  <2>1. PICK u \in Urls : u = CHOOSE v \in Urls : TRUE
    BY DEF SettingsAssumption
  <2>2. /\ config \in [enable : BOOLEAN, force : BOOLEAN] /\ status = [d \in VoiceDevices |-> {}] /\ asked = status
        /\ url = [d \in VoiceDevices |-> u] /\ saved = [status |-> status, url |-> url, init |-> FALSE]
        /\ stage = "load" /\ router = Closed(FALSE) /\ routing = [t \in Threads |-> NotRouting] /\ past = {}
    BY <2>1 DEF SettingsInit, SettingsAssumption
  <2>3. router \in RouterForm /\ router.opened = FALSE /\ router.init = FALSE
    BY <2>2, NoRoutes
  <2>4. NotRouting \in RoutingForm
    BY NoRoutes DEF NotRouting, RoutingForm
  <2>5. SettingsTypes
    BY <2>2, <2>3, <2>4 DEF SettingsTypes, SavedForm
  <2>6. AskedKept
    BY <2>2 DEF AskedKept, AskedHolds, Loaded, Kept
  <2>7. RoutedAfter /\ PrivacyAgrees /\ InitKept
    BY <2>3 DEF RoutedAfter, EnabledAreRouted, PrivacyAgrees, InitKept, InitIsTold
  <2>. QED  BY <2>5, <2>6, <2>7 DEF SettingsInv
<1>2. SettingsInv /\ [SettingsNext]_settingsVars => SettingsInv'
  <2>1. SettingsInv /\ UNCHANGED settingsVars => SettingsInv'
    BY DEF settingsVars, SettingsInv, SettingsTypes, AskedKept, AskedHolds, Loaded, RoutedAfter, EnabledAreRouted,
           PrivacyAgrees, InitKept, InitIsTold
  <2>2. "json" \in Forms /\ "ptt" \in VoiceDevices /\ {"ptt"} \in SUBSET VoiceDevices /\ VoiceDevices \in SUBSET VoiceDevices
    BY DEF Forms, SettingsAssumption
  <2>3. ASSUME SettingsInv, SettingsNext PROVE SettingsInv'
    <3>1. CASE \/ \E on \in BOOLEAN, form \in Forms : ConfigureDevices(VoiceDevices, on, form)
               \/ \E on \in BOOLEAN : ConfigureDevices({"ptt"}, on, "json")
      BY <2>2, <2>3, <3>1, ConfigureKeeps
    <3>2. CASE \/ \E d \in VoiceDevices, u \in Urls, form \in Forms : ConfigureUrl({d}, u, form)
               \/ \E on \in BOOLEAN : ConfigureMic(on)
               \/ InitSet
      BY <2>3, <3>2, ConfigureKeeps
    <3>3. CASE \E t \in Threads : ReadRoutes(t) \/ GiveRoutes(t)
      BY <2>3, <3>3, RoutesKeep
    <3>4. CASE Load \/ Open \/ Sync \/ CloseSdk \/ Reopen
      BY <2>3, <3>4, LoadKeeps, SettingsStartKeeps
    <3>5. CASE \E forced, enabled \in BOOLEAN, u \in Urls : VoiceRfc(forced, enabled, u)
      BY <2>3, <3>5, RfcKeeps
    <3>6. CASE VoiceRfcSilent \/ VsdkRfcSilent
      <4>1. PICK u \in Urls : TRUE
        BY DEF SettingsAssumption
      <4>2. TRUE \in BOOLEAN
        OBVIOUS
      <4>. QED  BY <2>3, <3>6, <4>1, <4>2, RfcKeeps
    <3>7. CASE PowerOff \/ RouterMutes \/ PowerOn \/ PowerTakes
      BY <2>3, <3>7, SettingsPowerKeeps
    <3>8. CASE \/ \E d \in VoiceDevices : Raises(d, "session") \/ Lowers(d, "session")
               \/ Raises("ptt", "update") \/ Lowers("ptt", "update")
               \/ Restarts
      BY <2>2, <2>3, <3>8, TurnsKeep
    <3>. QED  BY <2>3, <3>1, <3>2, <3>3, <3>4, <3>5, <3>6, <3>7, <3>8 DEF SettingsNext
  <2>. QED  BY <2>1, <2>3
<1>3. SettingsInv => SettingsSound
  BY DEF SettingsInv, AskedKept, RoutedAfter, InitKept, SettingsSound
<1>. QED  BY <1>1, <1>2, <1>3, PTL DEF SettingsSpec

=============================================================================
