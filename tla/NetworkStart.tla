----------------------------- MODULE NetworkStart -----------------------------
(***************************************************************************)
(* How networks start and end (ctrlm_network.cpp, and in ctrlm_main.cpp    *)
(* ctrlm_networks_init, ctrlm_terminate, ctrlm_networks_terminate). The    *)
(* original thread starts the thread of a network's HAL and waits on a     *)
(* condition until the main thread has handled what the HAL confirms; then *)
(* it loads the controllers of the network itself, while the HAL and the   *)
(* main thread are at work already. At the end it deletes the networks,    *)
(* each after a thread of its own has told the HAL to end.                 *)
(***************************************************************************)
EXTENDS Integers, Sequences

CONSTANTS
    Nets,           \* the networks, in the order of their identifiers
    Locked,         \* those that confirm under the mutex: RF4CE and BLE do
    Required,       \* those without which the program ends
    MaxNotes        \* bound: messages to the main thread when a HAL indicates

VARIABLES
    starter,    \* the original thread: where it is, and with which network
    hals,       \* the thread of the HAL of each network
    nets,       \* each network: init_result_, and how far its life is
    notes,      \* messages to the main thread
    mainIn,     \* the main thread: the message it has in hand
    mainEnds,   \* whether the main thread runs, was joined, or was left behind
    terms       \* the thread that ends the HAL of each network

startVars == <<starter, hals, nets, notes, mainIn, mainEnds, terms>>

Names == {Nets[i] : i \in DOMAIN Nets}
Idle == [kind |-> "none", net |-> "none"]
Current == Nets[starter.i]

StartInit ==
    /\ starter = [pc |-> "init", i |-> 1]
    /\ hals = [n \in Names |-> "none"]
    /\ nets = [n \in Names |-> [result |-> FALSE, life |-> "made"]]
    /\ notes = <<>> /\ mainIn = Idle /\ mainEnds = "no"
    /\ terms = [n \in Names |-> "none"]

Goes(pc) == starter' = [starter EXCEPT !.pc = pc]
Lives(n, life) == nets' = [nets EXCEPT ![n].life = life]

-----------------------------------------------------------------------------
(* The original thread: network_init.                                      *)

\* hal_init_request: the mutex is held from before the thread is made to the wait.
HalInitRequest ==
    /\ starter.pc = "init" /\ Goes("locked")
    /\ hals' = [hals EXCEPT ![Current] = "starts"]
    /\ UNCHANGED <<nets, notes, mainIn, mainEnds, terms>>
HalInitWait ==
    /\ starter.pc = "locked" /\ Goes("waits")
    /\ UNCHANGED <<hals, nets, notes, mainIn, mainEnds, terms>>

\* network_init and ctrlm_networks_init, with the result: a network that failed is passed
\* over, or ends the program.
NetworkInit ==
    /\ starter.pc = "woken"
    /\ IF nets[Current].result THEN Goes("completes") /\ Lives(Current, "ready")
       ELSE IF Current \in Required THEN Goes("failed") /\ Lives(Current, "failed")
       ELSE starter' = [starter EXCEPT !.pc = "passes"] /\ Lives(Current, "failed")
    /\ UNCHANGED <<hals, notes, mainIn, mainEnds, terms>>

\* hal_init_complete: the controllers are loaded by the original thread.
HalInitComplete ==
    /\ starter.pc = "completes" /\ Goes("passes") /\ Lives(Current, "complete")
    /\ UNCHANGED <<hals, notes, mainIn, mainEnds, terms>>
NextNetwork ==
    /\ starter.pc = "passes"
    /\ starter' = IF starter.i < Len(Nets) THEN [pc |-> "init", i |-> starter.i + 1] ELSE [pc |-> "runs", i |-> 1]
    /\ UNCHANGED <<hals, nets, notes, mainIn, mainEnds, terms>>

-----------------------------------------------------------------------------
(* The HAL.                                                                *)

Posts(n, kind) == notes' = Append(notes, [kind |-> kind, net |-> n])

\* cfm_init: the thread of the HAL waits for the main thread.
CfmInit(n) ==
    /\ hals[n] = "starts" /\ hals' = [hals EXCEPT ![n] = "asks"]
    /\ \E result \in BOOLEAN : nets' = [nets EXCEPT ![n].result = result]
    /\ Posts(n, "confirm")
    /\ UNCHANGED <<starter, mainIn, mainEnds, terms>>
\* What the HAL indicates goes to the main thread too.
Indicate(n) ==
    /\ hals[n] = "serves" /\ Len(notes) < MaxNotes /\ Posts(n, "indication")
    /\ UNCHANGED <<starter, hals, nets, mainIn, mainEnds, terms>>

-----------------------------------------------------------------------------
(* The main thread.                                                        *)

TakeNote ==
    /\ mainIn = Idle /\ notes # <<>> /\ mainEnds # "joined"
    /\ mainIn' = Head(notes) /\ notes' = Tail(notes)
    /\ UNCHANGED <<starter, hals, nets, mainEnds, terms>>

\* Mutant of HalInitConfirm: the mutex is not taken.
HalInitConfirmUnlocked ==
    /\ mainIn.kind = "confirm"
    /\ starter' = IF starter.pc = "waits" THEN [starter EXCEPT !.pc = "woken"] ELSE starter
    /\ hals' = [hals EXCEPT ![mainIn.net] = "serves"]
    /\ mainIn' = Idle
    /\ UNCHANGED <<nets, notes, mainEnds, terms>>
\* hal_init_confirm and hal_init_cfm: a broadcast that nobody waits for is lost.
HalInitConfirm ==
    /\ mainIn.kind = "confirm"
    /\ mainIn.net \in Locked => starter.pc # "locked"
    /\ starter' = IF starter.pc = "waits" THEN [starter EXCEPT !.pc = "woken"] ELSE starter
    /\ hals' = [hals EXCEPT ![mainIn.net] = "serves"]
    /\ mainIn' = Idle
    /\ UNCHANGED <<nets, notes, mainEnds, terms>>
IndicationHandled ==
    /\ mainIn.kind = "indication" /\ mainIn' = Idle
    /\ UNCHANGED <<starter, hals, nets, notes, mainEnds, terms>>

-----------------------------------------------------------------------------
(* The end: ctrlm_terminate waits five seconds for the main thread, and    *)
(* joins it if it answers.                                                 *)

\* Mutant of Terminate: the main thread is not waited for.
TerminateAtOnce ==
    /\ starter.pc = "runs" /\ Goes("deletes") /\ mainEnds' = "joined"
    /\ UNCHANGED <<hals, nets, notes, mainIn, terms>>
Terminate ==
    /\ starter.pc = "runs" /\ Goes("deletes")
    /\ mainEnds' = IF mainIn = Idle THEN "joined" ELSE "left"
    /\ UNCHANGED <<hals, nets, notes, mainIn, terms>>

\* The destructors: that of the class deletes the controllers, that of the base starts
\* the thread that ends the HAL if there is one, and waits five seconds for it.
NetworkDelete ==
    /\ starter.pc = "deletes" /\ nets[Current].life \notin {"emptied", "deleted"}
    /\ Lives(Current, "emptied")
    /\ terms' = [terms EXCEPT ![Current] = IF nets[Current].result THEN "ends" ELSE @]
    /\ UNCHANGED <<starter, hals, notes, mainIn, mainEnds>>
TerminateHal(n) ==
    /\ terms[n] = "ends" /\ hals[n] # "asks"
    /\ terms' = [terms EXCEPT ![n] = "signals"] /\ hals' = [hals EXCEPT ![n] = "ended"]
    /\ UNCHANGED <<starter, nets, notes, mainIn, mainEnds>>
NetworkDeleted ==
    /\ starter.pc = "deletes" /\ nets[Current].life = "emptied"
    /\ Lives(Current, "deleted")
    /\ starter' = IF starter.i < Len(Nets) THEN [starter EXCEPT !.i = @ + 1] ELSE [pc |-> "ended", i |-> 1]
    /\ UNCHANGED <<hals, notes, mainIn, mainEnds, terms>>

Original ==
    \/ HalInitRequest \/ HalInitWait \/ NetworkInit \/ HalInitComplete \/ NextNetwork
    \/ NetworkDelete \/ NetworkDeleted
MainThread == TakeNote \/ HalInitConfirm \/ IndicationHandled
StartNext ==
    \/ Original \/ MainThread \/ Terminate
    \/ \E n \in Names : CfmInit(n) \/ Indicate(n) \/ TerminateHal(n)
\* The threads run; a HAL that was started confirms.
StartFairness ==
    /\ WF_startVars(Original) /\ WF_startVars(MainThread)
    /\ \A n \in Names : WF_startVars(CfmInit(n))
StartSpec == StartInit /\ [][StartNext]_startVars /\ StartFairness

-----------------------------------------------------------------------------
\* A network is ready only after its HAL was answered.
ReadyConfirmed == \A n \in Names : nets[n].life \in {"ready", "complete"} => hals[n] \in {"serves", "ended"}

\* The main thread is never in a network that is being deleted, unless it did not answer
\* in time that it ends.
NotInDeleted ==
    mainIn # Idle /\ nets[mainIn.net].life \in {"emptied", "deleted"} => mainEnds = "left"

\* A network is ready only after its HAL confirmed, and is not used once it is deleted,
\* however indications, the end of the program and a main thread that hangs are ordered.
StartSound == ReadyConfirmed /\ NotInDeleted

\* The original thread does not wait forever for a network that confirms under the mutex.
StartsReturn ==
    \A i \in DOMAIN Nets : Nets[i] \in Locked =>
        (starter.pc \in {"locked", "waits"} /\ starter.i = i
            ~> ~(starter.pc \in {"locked", "waits"} /\ starter.i = i))

\* The original thread is in a network only until there is a main thread, as the check of
\* threads says: never both at once.
OneThreadInside == ~(starter.pc = "completes" /\ mainIn # Idle /\ mainIn.net = Current)
=============================================================================
