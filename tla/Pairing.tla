------------------------------- MODULE Pairing -------------------------------
(***************************************************************************)
(* How RF4CE remotes are paired and validated: rf4ce/ctrlm_rf4ce_pairing,  *)
(* rf4ce/ctrlm_rf4ce_validation and the global ctrlm_validation.  A remote *)
(* asks to pair; the HAL pairs it and reports the result; its user then    *)
(* enters a code, and the remote reads its configuration.  The handlers    *)
(* run on the main queue thread; timers run on the main loop and push      *)
(* messages, or clear the binding flag themselves.                         *)
(***************************************************************************)
EXTENDS Naturals, Sequences, FiniteSets, SequencesExt

CONSTANTS
    Remotes,         \* remotes, by IEEE address
    Ids,             \* controller ids
    Modes,           \* the ways to pair that are active: "normal", "auto", "button"
    Precommissioned, \* ids in the precommission table
    Room,            \* controllers the HAL's pairing table has room for
    CodeLength,      \* CTRLM_RCU_VALIDATION_KEY_QTY
    MaxWrong,        \* CTRLM_MAX_NUM_WRONG_KEYPRESSES
    Prompt,          \* TRUE if the main thread has no message left when anything else happens
    Leftovers,       \* TRUE if a request may meet what an earlier pairing has left (see Clean)
    MaxPairs,        \* bound: pair requests
    MaxPending       \* bound: messages and failed validations waiting, for a key to be pressed

NoId == 0
NoRemote == "no remote"

ASSUME SetsAssumption ==
    /\ NoRemote \notin Remotes
    /\ Ids \subseteq Nat \ {NoId} /\ Ids # {} /\ IsFiniteSet(Ids)
    /\ Modes \subseteq {"normal", "auto", "button"} /\ Precommissioned \subseteq Ids

ASSUME BoundsAssumption ==
    /\ {Room, MaxPairs, MaxPending} \subseteq Nat /\ {CodeLength, MaxWrong} \subseteq Nat \ {0}
    /\ {Prompt, Leftovers} \subseteq BOOLEAN

VARIABLES
    net,    \* the network: controllers_, binding_in_progress_, its timer, failed validations, controller to evict
    val,    \* g_ctrlm_validation
    mq,     \* the main queue
    hal,    \* pair responses whose result the HAL has not reported yet
    proven, \* history: remotes that were paired automatically or whose validation succeeded
    pairs   \* pair requests so far

vars == <<net, val, mq, hal, proven, pairs>>

NoController ==
    [ieee |-> NoRemote, result |-> "pending", conf |-> "pending", bound |-> FALSE,
     backup |-> FALSE, mode |-> "normal"]

Exists(n, id) == n.ctrl[id].ieee # NoRemote
IdsOf(n, r) == {id \in Ids : n.ctrl[id].ieee = r}
Free(n) == {id \in Ids : ~Exists(n, id)}
Lowest(S) == CHOOSE id \in S : \A other \in S : id <= other

BeginMsg(id) == [type |-> "begin", id |-> id]
EndMsg(id, kind, result) == [type |-> "end", id |-> id, kind |-> kind, result |-> result]
ConfMsg(id) == [type |-> "configured", id |-> id]
FailedMsg(id) == [type |-> "failed", id |-> id]

Ended == {"timeout", "collision", "abort", "failed", "failure", "in progress"}
Results == {"pending", "success"} \cup Ended

\* The main thread has no message left, or need not have.
Quiet == Prompt => mq = <<>>

-----------------------------------------------------------------------------
(* Controllers of the network, as functions of net.                        *)

\* Mutant of ResultSet: any result binds the controller.
ResultSetBinds(n, id, result) ==
    [n EXCEPT !.ctrl[id].bound = @ \/ n.ctrl[id].result = "pending",
              !.ctrl[id].conf = IF result = "pending" THEN "pending" ELSE @,
              !.ctrl[id].result = result]

\* validation_result_set
ResultSet(n, id, result) ==
    [n EXCEPT !.ctrl[id].bound = @ \/ (n.ctrl[id].result = "pending" /\ result = "success"),
              !.ctrl[id].conf = IF result = "pending" THEN "pending" ELSE @,
              !.ctrl[id].result = result]

\* controller_remove
Removed(n, id) == [n EXCEPT !.ctrl[id] = NoController]

\* Mutant of Restored: the pairing is restored, its result is not.
RestoredPairing(n, id) ==
    IF Exists(n, id) THEN [n EXCEPT !.ctrl[id].backup = FALSE] ELSE n

\* controller_restore
Restored(n, id) ==
    IF Exists(n, id) /\ n.ctrl[id].backup
      THEN [n EXCEPT !.ctrl[id].backup = FALSE, !.ctrl[id].result = "success"]
      ELSE n

\* bind_validation_timeout: the first timer of the controller is destroyed, and the
\* controller is unpaired and removed
ValidationTimedOut(n, id) ==
    LET mine == {k \in DOMAIN n.fails : n.fails[k].id = id}
    IN  IF ~Exists(n, id) THEN n
        ELSE Removed([n EXCEPT !.fails = IF mine = {} THEN @ ELSE RemoveAt(@, Lowest(mine))], id)

\* Mutant of BindValidationBegin: the binding is over when its validation begins.
BindValidationBeginReleases(n) == [n EXCEPT !.tag = FALSE, !.binding = FALSE]

\* bind_validation_begin destroys the timer of the binding: the validation's takes over
BindValidationBegin(n) == [n EXCEPT !.tag = FALSE]

\* Mutants of BindValidationEnd: the binding is released for a controller that exists
\* only; no timer for a controller whose validation failed.
BindValidationEndChecked(n, id, result) ==
    IF ~Exists(n, id) THEN n
    ELSE [ResultSet(n, id, result) EXCEPT !.binding = FALSE, !.tag = FALSE]

BindValidationEndUntimed(n, id, result) ==
    LET released == [n EXCEPT !.binding = FALSE, !.tag = FALSE]
    IN  IF Exists(n, id) THEN ResultSet(released, id, result) ELSE released

\* bind_validation_end
BindValidationEnd(n, id, result) ==
    LET released == [n EXCEPT !.binding = FALSE, !.tag = FALSE]
        set  == ResultSet(released, id, result)
        done == IF result = "success"
                  THEN IF n.evict # NoId THEN Removed(set, n.evict) ELSE set
                ELSE IF ~set.ctrl[id].bound
                  THEN [set EXCEPT !.fails = Append(@, [id |-> id, armed |-> TRUE])]
                ELSE IF result = "timeout" THEN Restored(set, id) ELSE set
    IN  IF ~Exists(n, id) THEN released
        ELSE [done EXCEPT !.evict = IF result = "collision" THEN @ ELSE NoId]

-----------------------------------------------------------------------------
(* The global validation, as functions of val.                             *)

InProgress(v) == v.validating \/ v.configuring

\* ctrlm_inform_validation_end resets the progress of the code, whoever's it is
Informed(v) == [v EXCEPT !.matched = 0, !.wrong = 0]

\* ctrlm_validation_timeout_update
Rearmed(v) == [v EXCEPT !.timer = TRUE]

\* A new timer whose id overwrites that of another, which goes on.
Overwritten(v) == [v EXCEPT !.timer = TRUE, !.stray = IF v.timer THEN @ + 1 ELSE @]

\* Mutant of ValidationEnd: the timer is not updated for the configuration.
ValidationEndUntimed(v, id, kind, result) ==
    IF v.validating /\ v.id = id
      THEN [v EXCEPT !.validating = FALSE, !.configuring = @ \/ result = "success",
                     !.timer = FALSE]
    ELSE v

\* ctrlm_validation_end
ValidationEnd(v, id, kind, result) ==
    IF kind = "auto"
      THEN [Overwritten(v) EXCEPT !.configuring = TRUE, !.id = id]
    ELSE IF v.validating /\ v.id = id
      THEN [v EXCEPT !.validating = FALSE, !.configuring = @ \/ result = "success",
                     !.timer = (result = "success")]
    ELSE v

\* ctrlm_configuration_complete
ConfigurationComplete(v, id) ==
    IF v.configuring /\ v.id = id THEN [v EXCEPT !.configuring = FALSE, !.timer = FALSE] ELSE v

-----------------------------------------------------------------------------
(* Pair requests and their results.                                        *)

\* Nothing is left that concerns a request: no controller whose validation failed, no
\* configuration of the same remote, no timer of a failed validation under the id, no
\* controller to evict for a pairing that failed.
Clean(r, id) ==
    /\ \A other \in Ids : net.ctrl[other].result \notin Ended
    /\ InProgress(val) => val.id \notin IdsOf(net, r)
    /\ \A k \in DOMAIN net.fails : net.fails[k].id = id => ~net.fails[k].armed
    /\ net.evict = NoId

\* controller_bind_update, or a new controller; the status that is replied is a
\* success unless a validation of the remote has been refused and was not read yet
Accepted(n, id, r, mode) ==
    LET known == [n EXCEPT !.ctrl[id].backup = TRUE]
        new   == [n EXCEPT !.ctrl[id] = [NoController EXCEPT !.ieee = r]]
        kept  == IF ~Exists(n, id) THEN new
                 ELSE IF n.ctrl[id].result = "in progress" THEN known
                 ELSE ResultSet(known, id, "pending")
    IN  [kept EXCEPT !.ctrl[id].mode = mode]

\* ind_process_pair of a request that is not ignored.  If the HAL's table is full the
\* last recently used controller is to make room for a new one.
PairRequest(r, mode) ==
    /\ pairs < MaxPairs /\ pairs' = pairs + 1
    /\ ~net.binding
    /\ Quiet
    /\ LET known == IdsOf(net, r) # {}
           id    == IF known THEN Lowest(IdsOf(net, r)) ELSE Lowest(Free(net))
           full  == ~known /\ Cardinality(Ids \ Free(net)) >= Room
       IN  /\ known \/ Free(net) # {}
           /\ Leftovers \/ Clean(r, id)
           /\ \E evict \in IF full THEN Ids \ Free(net) ELSE {net.evict} :
                 net' = [Accepted(net, id, r, mode)
                           EXCEPT !.binding = TRUE, !.tag = TRUE, !.evict = evict]
           /\ hal' = {m \in hal : m.id # id}
                        \cup {[id |-> id, ieee |-> r, late |-> FALSE,
                               refused |-> net.ctrl[id].result = "in progress"]}
    /\ UNCHANGED <<val, mq, proven>>

\* The HAL (external) reports the result of a pairing; a result that is late counts as left.
HalResult(m, ok) ==
    /\ m \in hal /\ (m.refused => ~ok) /\ (m.late => Leftovers)
    /\ hal' = hal \ {m}
    /\ mq' = Append(mq, [type |-> "paired", id |-> m.id, ieee |-> m.ieee, ok |-> ok])
    /\ UNCHANGED <<net, val, proven, pairs>>

\* binding_in_progress_timeout, on the main loop
BindingTimeout ==
    /\ net.tag
    /\ Quiet
    /\ net' = [net EXCEPT !.binding = FALSE, !.tag = FALSE]
    /\ hal' = {[m EXCEPT !.late = TRUE] : m \in hal}
    /\ UNCHANGED <<val, mq, proven, pairs>>

Received(type) == mq # <<>> /\ Head(mq).type = type

\* process_pair_result of a pairing that failed
PairFailed ==
    /\ Received("paired") /\ ~Head(mq).ok
    /\ LET id == Head(mq).id
           n  == IF ~Exists(net, id) THEN net
                 ELSE IF net.ctrl[id].bound THEN Restored(net, id) ELSE Removed(net, id)
       IN  net' = [n EXCEPT !.binding = FALSE, !.tag = FALSE]
    /\ mq' = Tail(mq)
    /\ UNCHANGED <<val, hal, proven, pairs>>

\* ... of an automatic pairing or one by the button: validated at once, and then the
\* end of the validation is told to the main queue, which ends it again
PairedAutomatically ==
    /\ Received("paired") /\ Head(mq).ok
    /\ LET id == Head(mq).id
       IN  /\ net.ctrl[id].mode # "normal"
           /\ net' = BindValidationEnd(net, id, "success")
           /\ mq' = Append(Tail(mq), EndMsg(id, "auto", "success"))
           /\ proven' = proven \cup {net.ctrl[id].ieee}
    /\ val' = Informed(val)
    /\ UNCHANGED <<hal, pairs>>

\* ... of a normal pairing: validation is kicked off
PairedNormally ==
    /\ Received("paired") /\ Head(mq).ok
    /\ LET id == Head(mq).id
       IN  /\ net.ctrl[id].mode = "normal"
           /\ mq' = IF Exists(net, id) THEN Append(Tail(mq), BeginMsg(id)) ELSE Tail(mq)
    /\ UNCHANGED <<net, val, hal, proven, pairs>>

-----------------------------------------------------------------------------
(* Validation.                                                             *)

\* BIND_VALIDATION_BEGIN: ctrlm_validation_begin and bind_validation_begin
ValidationBegin ==
    /\ Received("begin")
    /\ LET id == Head(mq).id
           refuse == EndMsg(id, "interactive", "in progress")
           accept == EndMsg(id, "precommission", "success")
       IN  IF InProgress(val)
             THEN /\ mq' = IF val.id = id THEN Tail(mq) ELSE Append(Tail(mq), refuse)
                  /\ val' = IF val.id = id THEN val ELSE Informed(val)
           ELSE IF id \in Precommissioned
             THEN mq' = Append(Tail(mq), accept) /\ val' = Informed(val)
           ELSE /\ mq' = Tail(mq)
                /\ val' = [Overwritten(val) EXCEPT !.validating = TRUE, !.id = id,
                                                   !.matched = 0, !.wrong = 0]
    /\ net' = BindValidationBegin(net)
    /\ UNCHANGED <<hal, proven, pairs>>

\* BIND_VALIDATION_END: ctrlm_validation_end and bind_validation_end
ValidationEnds ==
    /\ Received("end")
    /\ LET m == Head(mq)
       IN  /\ val' = ValidationEnd(val, m.id, m.kind, m.result)
           /\ net' = BindValidationEnd(net, m.id, m.result)
    /\ mq' = Tail(mq)
    /\ UNCHANGED <<hal, proven, pairs>>

\* BIND_VALIDATION_FAILED_TIMEOUT
ValidationFailed ==
    /\ Received("failed")
    /\ net' = ValidationTimedOut(net, Head(mq).id)
    /\ mq' = Tail(mq)
    /\ UNCHANGED <<val, hal, proven, pairs>>

\* BIND_CONFIGURATION_COMPLETE
Configured ==
    /\ Received("configured")
    /\ val' = ConfigurationComplete(val, Head(mq).id)
    /\ mq' = Tail(mq)
    /\ UNCHANGED <<net, hal, proven, pairs>>

\* ctrlm_validation_timeout, on the main loop: of the timer that is known, or another
ValidationTimeout ==
    /\ val.timer \/ val.stray > 0
    /\ Quiet
    /\ LET told == IF val.validating /\ ~val.configuring THEN Informed(val) ELSE val
       IN  \/ val.timer /\ val' = [told EXCEPT !.timer = FALSE]
           \/ val.stray > 0
             /\ val' = [told EXCEPT !.timer = FALSE, !.stray = IF val.timer THEN @ ELSE @ - 1]
    /\ mq' = IF val.configuring THEN Append(mq, ConfMsg(val.id))
             ELSE IF val.validating THEN Append(mq, EndMsg(val.id, "interactive", "timeout"))
             ELSE mq
    /\ UNCHANGED <<net, hal, proven, pairs>>

\* bind_validation_failed, the timer of a failed validation
FailedTimeout ==
    /\ Quiet
    /\ \E k \in DOMAIN net.fails :
          /\ net.fails[k].armed
          /\ net' = [net EXCEPT !.fails[k].armed = FALSE]
          /\ mq' = Append(mq, FailedMsg(net.fails[k].id))
    /\ UNCHANGED <<val, hal, proven, pairs>>

-----------------------------------------------------------------------------
(* What remotes and applications do.                                       *)

\* A remote reaches the network once its pair result is known.
Paired(id) ==
    /\ Quiet
    /\ Exists(net, id)
    /\ \A m \in hal : m.id # id
    /\ \A k \in DOMAIN mq : mq[k].type = "paired" => mq[k].id # id

\* Mutant of Sniffed: the keys of a validated controller are looked at as well.
SniffedAlways(id) ==
    /\ Paired(id)
    /\ Len(mq) + Len(net.fails) < MaxPending
    /\ net.ctrl[id].mode # "auto"
    /\ InProgress(val)

\* key_event_hook and ctrlm_validation_key_sniff, where a key means something
Sniffed(id) ==
    /\ Paired(id)
    /\ Len(mq) + Len(net.fails) < MaxPending
    /\ net.ctrl[id].result # "success" /\ net.ctrl[id].mode # "auto"
    /\ InProgress(val)

\* A key of a remote that is not being validated aborts its own validation.
KeyCollision(id) ==
    /\ Sniffed(id) /\ val.id # id
    /\ mq' = Append(mq, EndMsg(id, "interactive", "collision"))
    /\ val' = Informed(val)
    /\ UNCHANGED <<net, hal, proven, pairs>>

\* The xfinity or the exit key; the first is ignored for a while after the begin.
KeyAbort(id) ==
    /\ Sniffed(id) /\ val.id = id
    /\ mq' = Append(mq, EndMsg(id, "interactive", "abort"))
    /\ val' = Informed(val)
    /\ UNCHANGED <<net, hal, proven, pairs>>

\* Mutant of KeyRight: one key more than the code has.
KeyRightLate(id) ==
    /\ Sniffed(id) /\ val.id = id
    /\ val.matched < CodeLength
    /\ val' = [Rearmed(val) EXCEPT !.matched = @ + 1]
    /\ UNCHANGED <<net, mq, hal, proven, pairs>>

\* The next key of the code
KeyRight(id) ==
    /\ Sniffed(id) /\ val.id = id
    /\ IF val.matched + 1 = CodeLength
         THEN /\ mq' = Append(mq, EndMsg(id, "interactive", "success"))
              /\ val' = Informed(Rearmed(val))
              /\ proven' = proven \cup {net.ctrl[id].ieee}
         ELSE /\ val' = [Rearmed(val) EXCEPT !.matched = @ + 1]
              /\ UNCHANGED <<mq, proven>>
    /\ UNCHANGED <<net, hal, pairs>>

\* Any other key
KeyWrong(id) ==
    /\ Sniffed(id) /\ val.id = id
    /\ IF val.wrong + 1 >= MaxWrong
         THEN /\ mq' = Append(mq, EndMsg(id, "interactive", "failed"))
              /\ val' = Informed(Rearmed(val))
         ELSE val' = [Rearmed(val) EXCEPT !.matched = 0, !.wrong = @ + 1] /\ mq' = mq
    /\ UNCHANGED <<net, hal, proven, pairs>>

\* ctrlm_rcu_validation_finish, from the bus: the application has the answer.  It
\* answers for a controller whose validation it was told of.
AppFinish(id, result) ==
    /\ Quiet
    /\ Exists(net, id) /\ val.validating /\ val.id = id /\ net.ctrl[id].result = "pending"
    /\ Len(mq) + Len(net.fails) < MaxPending
    /\ mq' = Append(mq, EndMsg(id, "interactive", result))
    /\ val' = Informed(val)
    /\ proven' = IF result = "success" THEN proven \cup {net.ctrl[id].ieee} ELSE proven
    /\ UNCHANGED <<net, hal, pairs>>

\* Mutant of CheckValidation: the remote that reads a failure loses its former pairing.
CheckValidationRemoves(id) ==
    /\ Paired(id)
    /\ net.ctrl[id].result \in Ended
    /\ net' = ValidationTimedOut(net, id)
    /\ UNCHANGED <<val, mq, hal, proven, pairs>>

\* RF4CE_FRAME_CONTROL_CHECK_VALIDATION_REQUEST: the remote reads a result that failed
CheckValidation(id) ==
    /\ Paired(id)
    /\ LET c == net.ctrl[id]
       IN  /\ c.result \in Ended
           /\ net' = IF c.bound /\ c.result # "failure" THEN Restored(net, id)
                     ELSE ValidationTimedOut(net, id)
    /\ UNCHANGED <<val, mq, hal, proven, pairs>>

\* The remote reads the last entry of its configuration.
ConfigurationRead(id) ==
    /\ Paired(id)
    /\ net.ctrl[id].result = "success" /\ net.ctrl[id].conf = "pending"
    /\ net' = [net EXCEPT !.ctrl[id].conf = "success"]
    /\ mq' = Append(mq, ConfMsg(id))
    /\ UNCHANGED <<val, hal, proven, pairs>>

\* ind_process_unpair
Unpair(id) ==
    /\ Paired(id)
    /\ LET c == net.ctrl[id]
       IN  IF c.result \in {"pending", "in progress"}
             THEN /\ mq' = Append(mq, EndMsg(id, "interactive", "failure"))
                  /\ val' = Informed(val)
           ELSE /\ mq' = IF c.result = "success" /\ c.conf = "pending"
                           THEN Append(mq, ConfMsg(id)) ELSE mq
                /\ val' = val
    /\ net' = Removed(net, id)
    /\ UNCHANGED <<hal, proven, pairs>>

-----------------------------------------------------------------------------
Init ==
    /\ net = [ctrl |-> [id \in Ids |-> NoController], binding |-> FALSE, tag |-> FALSE,
              fails |-> <<>>, evict |-> NoId]
    /\ val = [validating |-> FALSE, configuring |-> FALSE, id |-> NoId, timer |-> FALSE,
              stray |-> 0, matched |-> 0, wrong |-> 0]
    /\ mq = <<>> /\ hal = {} /\ proven = {} /\ pairs = 0

MainThread ==
    \/ PairFailed \/ PairedAutomatically \/ PairedNormally
    \/ ValidationBegin \/ ValidationEnds \/ ValidationFailed \/ Configured

Timers == BindingTimeout \/ ValidationTimeout \/ FailedTimeout
HalReports == \E m \in hal, ok \in BOOLEAN : HalResult(m, ok)

Next ==
    \/ MainThread \/ Timers \/ HalReports
    \/ \E r \in Remotes, mode \in Modes : PairRequest(r, mode)
    \/ \E id \in Ids :
          \/ KeyCollision(id) \/ KeyAbort(id) \/ KeyRight(id) \/ KeyWrong(id)
          \/ \E result \in {"success", "failed"} : AppFinish(id, result)
          \/ CheckValidation(id) \/ ConfigurationRead(id) \/ Unpair(id)

Spec == Init /\ [][Next]_vars

\* The main thread serves its queue and timers fire; the HAL may never report a result.
\* keys re-arm the timer of a validation, but only while there is room for them.
FairSpec ==
    /\ Spec /\ WF_vars(MainThread)
    /\ WF_vars(BindingTimeout) /\ SF_vars(ValidationTimeout) /\ SF_vars(FailedTimeout)

-----------------------------------------------------------------------------
(* Properties.                                                             *)

\* Types and ranges, with at most one timer more than there are pairings.
TypeOK ==
    /\ net.ctrl \in [Ids -> [ieee : Remotes \cup {NoRemote}, result : Results, bound : BOOLEAN,
                             conf : {"pending", "success"}, backup : BOOLEAN, mode : Modes \cup {"normal"}]]
    /\ {net.binding, net.tag} \subseteq BOOLEAN /\ net.evict \in Ids \cup {NoId}
    /\ net.fails \in Seq([id : Ids, armed : BOOLEAN])
    /\ val \in [validating : BOOLEAN, configuring : BOOLEAN, id : Ids \cup {NoId}, timer : BOOLEAN,
                stray : 0..MaxPairs, matched : 0..(CodeLength - 1), wrong : 0..(MaxWrong - 1)]
    /\ proven \subseteq Remotes /\ pairs \in 0..MaxPairs

Waiting(type, id) == \E k \in DOMAIN mq : mq[k].type = type /\ mq[k].id = id

Expected == {m \in hal : ~m.late}
Unanswered(id) == \E m \in hal : m.id = id /\ m.late

\* A remote is bound only if it was paired automatically or its own validation succeeded:
\* no result reaches a controller that has taken over an id.
OnlyProvenBound == \A id \in Ids : net.ctrl[id].bound => net.ctrl[id].ieee \in proven \/ id \in Precommissioned

\* While a remote is being paired or validated, the binding is in progress, so that the
\* requests of others are ignored: no end of another validation has released it.
OneBinding ==
    /\ Expected # {} => net.binding
    /\ \A id \in Ids : Waiting("begin", id) \/ (val.validating /\ Exists(net, id)) => net.binding
    /\ Cardinality(Expected) <= 1

\* Whoever is being validated or configured is watched by a timer, or its end is on the way.
Watched ==
    InProgress(val) =>
       val.timer \/ val.stray > 0 \/ Waiting("end", val.id) \/ Waiting("configured", val.id)

\* A result that is pending is on its way, unless the HAL has not answered in time: a
\* controller is not left without one.
PendingProgresses ==
    \A id \in Ids :
       Exists(net, id) /\ net.ctrl[id].result = "pending" =>
          \/ \E m \in hal : m.id = id
          \/ \E type \in {"paired", "begin", "end"} : Waiting(type, id)
          \/ val.validating /\ val.id = id

\* Together: with every type kept, the table, the validation and what is on its way to it
\* agree whenever a message, a key or a timer is handled.
PairingSound == TypeOK /\ OnlyProvenBound /\ OneBinding /\ Watched /\ PendingProgresses

\* A controller is evicted if the table has no room for it and the one just paired.
EvictedForRoom ==
    [][\A id \in Ids :
          net.evict = id /\ net'.evict = NoId /\ Exists(net, id) /\ ~Exists(net', id)
             => Cardinality(Ids \ Free(net)) > Room]_vars

\* A bound controller goes only when its remote unpairs, or to make room for another that is
\* bound in its place: never because a new pairing of it fails, nor by the timer of an earlier one.
GoesRightly(id) ==
    net.ctrl[id].bound /\ ~Exists(net', id)
        => \/ Unpair(id)
           \/ net.evict = id /\ \E new \in Ids \ {id} : ~net.ctrl[new].bound /\ net'.ctrl[new].bound

\* What validation succeeded stays so until the remote pairs again: nothing that others,
\* timers or late messages do overwrites the result, once the validation is over.
SuccessStays(id) ==
    net.ctrl[id].result = "success" /\ Exists(net', id) /\ ~(val.validating /\ val.id = id)
        => net'.ctrl[id].result \in {"success", "pending"}

\* No step removes a bound controller, or takes back a result, but for these reasons.
BoundKept == [][\A id \in Ids : GoesRightly(id) /\ SuccessStays(id)]_vars

\* A binding is over at some point, and other remotes can pair again.
BindingReleased == net.binding ~> ~net.binding

\* A controller that is not validated is removed, whether or not it reads the result,
\* unless the HAL never reports that it was paired.
LeftoversRemoved ==
    \A id \in Ids : Exists(net, id) /\ ~net.ctrl[id].bound
                       ~> ~Exists(net, id) \/ net.ctrl[id].bound \/ Unanswered(id)

\* No pairing stays: neither the flag that keeps the others out, nor what a failed one left.
PairingEnds == BindingReleased /\ LeftoversRemoved
=============================================================================
