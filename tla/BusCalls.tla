------------------------------- MODULE BusCalls -------------------------------
(***************************************************************************)
(* The interfaces of the bus (ctrlm_main_iarm.cpp, ctrlm_rcu_iarm.cpp,     *)
(* ctrlm_ble_iarm.cpp, ctrlm_device_update_iarm.cpp, the IR database's):   *)
(* each call looks whether its interface runs, then pushes a handler for   *)
(* the network its arguments name, with a semaphore on the stack of the    *)
(* bus thread, and waits once. The main queue thread runs the handler on   *)
(* that network, or on every network if the call names them all.           *)
(* How a request of the control manager itself is answered is the module   *)
(* MainQueue; a call that is refused at once changes nothing.              *)
(***************************************************************************)
EXTENDS Integers, FiniteSets, Sequences

CONSTANTS
    BusThreads,    \* threads of the bus
    BusNetworks,   \* networks of the control manager
    MaxCalls       \* bound: calls that are ever begun

VARIABLES
    open,      \* interfaces whose running flag is set
    closing,   \* how far ctrlm_terminate is
    bus,       \* for each thread of the bus, the call it is in
    pushed,    \* g_ctrlm.queue
    worker,    \* what the main queue thread has in hand: a message, the networks left
    calls,     \* how many calls were begun
    late       \* targets of the calls that a network touched after they returned

busVars == <<open, closing, bus, pushed, worker, calls, late>>

Flagged == {"main", "rcu", "ble"}
NoBusCall == [n |-> 0, pc |-> "idle", target |-> "none", sem |-> 0, served |-> FALSE]
NoWork == [from |-> "none", n |-> 0, target |-> "none", left |-> {}]

BusInit ==
    /\ open = {} /\ closing = "no"
    /\ bus = [c \in BusThreads |-> NoBusCall]
    /\ pushed = <<>> /\ worker = NoWork
    /\ calls = 0 /\ late = {}

\* IARM_Bus_RegisterCall of every handler, and then running = 1
MainInit == /\ open' = open \cup {"main"} /\ UNCHANGED <<bus, pushed, worker, calls, late>>
RcuInit == /\ open' = open \cup {"rcu"} /\ UNCHANGED <<bus, pushed, worker, calls, late>>
BleInit == /\ open' = open \cup {"ble"} /\ UNCHANGED <<bus, pushed, worker, calls, late>>
Register == closing = "no" /\ (MainInit \/ RcuInit \/ BleInit) /\ UNCHANGED closing

-----------------------------------------------------------------------------
(* The calls.                                                              *)

\* running is read, and the arguments checked, before the message is made.
Begin(c, interface, target) ==
    /\ bus[c].pc = "idle" /\ calls < MaxCalls
    /\ interface \in Flagged => interface \in open
    /\ calls' = calls + 1
    /\ bus' = [bus EXCEPT ![c] = [n |-> calls + 1, pc |-> "begun", target |-> target,
                                  sem |-> 0, served |-> FALSE]]
    /\ UNCHANGED <<open, closing, pushed, worker, late>>

\* A request that the control manager answers itself
Control(c, interface) == Begin(c, interface, "control")

\* The network that the arguments name: one, all of them, or none that exists
OnNetwork(c, interface) == \E target \in BusNetworks \cup {"all", "none"} : Begin(c, interface, target)

\* Calls that answer without the main queue
DirectCalls(c, interface) == Begin(c, interface, "direct")

\* ctrlm_main_iarm.cpp
StatusCalls(c) == Control(c, "main")
SettingCalls(c) == Control(c, "main")
PairedCalls(c) == Control(c, "main")
ServiceCalls(c) == Control(c, "main")
PairingModeCalls(c) == Control(c, "main")
ChipStatusGet(c) == OnNetwork(c, "main")
VoiceSessionCalls(c) == OnNetwork(c, "main")
PairingCalls(c) == OnNetwork(c, "main")
RemoteCalls(c) == OnNetwork(c, "main")
LastKeypressGet(c) == OnNetwork(c, "main")

\* The audio capture and the power state are pushed with no semaphore, and their flag is
\* not looked at.
CaptureCalls(c) == DirectCalls(c, "none")
PowerCalls(c) == DirectCalls(c, "none")

\* ctrlm_rcu_iarm.cpp: a template makes the checks.
RcuCalls(c) == OnNetwork(c, "rcu")

\* ctrlm_ble_iarm.cpp: handlers that only the BLE network has. A caller names it.
BleCalls(c) == "ble" \in BusNetworks /\ Begin(c, "ble", "ble")
BleReasonCalls(c) == "ble" \in BusNetworks /\ Begin(c, "ble", "ble")
BleOrders(c) == "ble" \in BusNetworks /\ Begin(c, "ble", "ble")

\* ctrlm_device_update_iarm.cpp and the IR database have no flag: they answer on the
\* thread of the bus, but for the IR codes of a remote.
UpdateQueries(c) == DirectCalls(c, "update")
UpdateOrders(c) == DirectCalls(c, "update")
IrdbQueries(c) == DirectCalls(c, "irdb")
IrdbAutoLookup(c) == DirectCalls(c, "irdb")
IrdbSetCode(c) == OnNetwork(c, "irdb")

\* ctrlm_main_queue_handler_push and sem_wait
PushCall(c) ==
    /\ bus[c].pc = "begun"
    /\ IF bus[c].target = "direct"
       THEN bus' = [bus EXCEPT ![c].pc = "woken", ![c].served = TRUE] /\ UNCHANGED pushed
       ELSE /\ bus' = [bus EXCEPT ![c].pc = "waiting"]
            /\ pushed' = Append(pushed, [from |-> c, n |-> bus[c].n, target |-> bus[c].target])
    /\ UNCHANGED <<open, closing, worker, calls, late>>

Awake(c) ==
    /\ bus[c].pc = "waiting" /\ bus[c].sem > 0
    /\ bus' = [bus EXCEPT ![c].pc = "woken", ![c].sem = @ - 1]
    /\ UNCHANGED <<open, closing, pushed, worker, calls, late>>

\* sem_destroy, and IARM_RESULT_SUCCESS
Answer(c) ==
    /\ bus[c].pc = "woken"
    /\ bus' = [bus EXCEPT ![c] = NoBusCall]
    /\ UNCHANGED <<open, closing, pushed, worker, calls, late>>

-----------------------------------------------------------------------------
(* The main queue thread.                                                  *)

\* Mutant of BusTargets: the handler runs on the other networks too.
TargetsAll(target) == IF target = "control" THEN {"control"} ELSE BusNetworks

\* CTRLM_MAIN_QUEUE_MSG_TYPE_HANDLER: the networks it is for
BusTargets(target) ==
    IF target = "control" THEN {"control"}
    ELSE IF target = "all" THEN BusNetworks ELSE {target} \cap BusNetworks

TakeCall ==
    /\ worker = NoWork /\ pushed # <<>> /\ closing # "stopped"
    /\ IF Head(pushed).from = "none"
       THEN closing' = "stopped" /\ UNCHANGED worker
       ELSE LET left == BusTargets(Head(pushed).target) IN
            /\ worker' = IF left = {} THEN NoWork
                         ELSE [from |-> Head(pushed).from, n |-> Head(pushed).n,
                               target |-> Head(pushed).target, left |-> left]
            /\ UNCHANGED closing
    /\ pushed' = Tail(pushed)
    /\ UNCHANGED <<open, bus, calls, late>>

\* A handler of the network, or the one of the class all networks derive from, which
\* only says that it is not supported: both post the semaphore, which after the call
\* has returned may be that of the thread's next call.
ServeNetwork(net, answered) ==
    LET c == worker.from
        own == bus[c].n = worker.n
    IN  /\ net \in worker.left
        /\ late' = IF own /\ bus[c].pc = "waiting" THEN late ELSE late \cup {worker.target}
        /\ bus' = IF bus[c].pc \in {"waiting", "woken"}
                  THEN [bus EXCEPT ![c].sem = IF answered THEN @ + 1 ELSE @,
                                   ![c].served = @ \/ own]
                  ELSE bus
        /\ worker' = IF worker.left = {net} THEN NoWork ELSE [worker EXCEPT !.left = @ \ {net}]
        /\ UNCHANGED <<open, closing, pushed, calls>>

\* A network's own handler posts whatever it finds: a network that is not ready, a remote
\* it does not know, a call of its hardware that fails.
Served(net, type) == net = type /\ ServeNetwork(net, TRUE)
BleVoice(net) == Served(net, "ble")
BlePairing(net) == Served(net, "ble")
BleIrCodes(net) == Served(net, "ble")
BleFindMe(net) == Served(net, "ble")
BleReasons(net) == Served(net, "ble")
BleActions(net) == Served(net, "ble")
BleLastKeypress(net) == Served(net, "ble")
RfRib(net) == Served(net, "rf4ce")
RfController(net) == Served(net, "rf4ce")
RfPolling(net) == Served(net, "rf4ce")
RfStatus(net) == Served(net, "rf4ce")
RfIrCodes(net) == Served(net, "rf4ce")
HandledByNetwork(net) ==
    \/ BleVoice(net) \/ BlePairing(net) \/ BleIrCodes(net) \/ BleFindMe(net) \/ BleReasons(net)
    \/ BleActions(net) \/ BleLastKeypress(net)
    \/ RfRib(net) \/ RfController(net) \/ RfPolling(net) \/ RfStatus(net) \/ RfIrCodes(net)

\* Mutant of NotSupported: it does not post the semaphore.
NotSupportedSilent(net) == ServeNetwork(net, FALSE)

NotSupported(net) == ServeNetwork(net, TRUE)

-----------------------------------------------------------------------------
(* ctrlm_terminate: the flag of the main interface, then the message that  *)
(* stops the main queue thread; the other flags are cleared after that.    *)

MainClosed ==
    /\ closing = "no" /\ closing' = "flag" /\ open' = open \ {"main"}
    /\ UNCHANGED <<bus, pushed, worker, calls, late>>
StopThread ==
    /\ closing = "flag" /\ closing' = "asked"
    /\ pushed' = Append(pushed, [from |-> "none", n |-> 0, target |-> "none"])
    /\ UNCHANGED <<open, bus, worker, calls, late>>
OthersClosed ==
    /\ closing = "stopped" /\ open # {} /\ open' = {}
    /\ UNCHANGED <<closing, bus, pushed, worker, calls, late>>

Call(c) ==
    \/ StatusCalls(c) \/ SettingCalls(c) \/ PairedCalls(c) \/ ServiceCalls(c) \/ PairingModeCalls(c)
    \/ ChipStatusGet(c) \/ VoiceSessionCalls(c) \/ PairingCalls(c) \/ RemoteCalls(c)
    \/ LastKeypressGet(c) \/ CaptureCalls(c) \/ PowerCalls(c) \/ RcuCalls(c) \/ BleCalls(c)
    \/ BleReasonCalls(c) \/ BleOrders(c) \/ UpdateQueries(c) \/ UpdateOrders(c)
    \/ IrdbQueries(c) \/ IrdbAutoLookup(c) \/ IrdbSetCode(c)
BusThread(c) == PushCall(c) \/ Awake(c) \/ Answer(c)
Worker ==
    \/ TakeCall
    \/ \E net \in worker.left : HandledByNetwork(net) \/ NotSupported(net)

BusNext ==
    \/ \E c \in BusThreads : Call(c) \/ BusThread(c)
    \/ Register \/ Worker \/ MainClosed \/ StopThread \/ OthersClosed

\* The threads run; nobody has to call, or to stop the program.
BusFairness == WF_busVars(Worker) /\ \A c \in BusThreads : WF_busVars(BusThread(c))
BusSpec == BusInit /\ [][BusNext]_busVars /\ BusFairness

-----------------------------------------------------------------------------
\* A network touches the arguments and the semaphore of a call only while the call
\* waits, until a call for all networks returned at the first answer: the other networks
\* touch it later, and may wake the next call of the thread before it is served.
LateOnlyAfterAll == late # {} => "all" \in late

\* A call returns only after it was served, unless another call's late answer woke it.
ReturnsServed == late = {} => \A c \in BusThreads : bus[c].pc = "woken" => bus[c].served

\* A call of the bus touches what is its own, and is answered by the networks it names
\* (the main queue and the interfaces of the bus).
BusSound == LateOnlyAfterAll /\ ReturnsServed

\* A call for a network that exists, whose message is in the queue before the message
\* that stops the thread, returns.
Heard(c) == closing # "stopped" /\
    \E i \in DOMAIN pushed :
        /\ pushed[i].n = bus[c].n /\ bus[c].n # 0 /\ BusTargets(pushed[i].target) # {}
        /\ \A j \in 1 .. i - 1 : pushed[j].from # "none"
CallsReturn == \A c \in BusThreads : Heard(c) ~> bus[c].pc = "idle"
=============================================================================
