------------------------------ MODULE MainQueue ------------------------------
(***************************************************************************)
(* The main queue of ctrlm_main.cpp and the calls of the bus that go       *)
(* through it: a bus thread pushes a message with the address of a         *)
(* semaphore and of a result on its own stack, and waits; the main queue   *)
(* thread handles the message, sets the result, posts the semaphore and    *)
(* frees the message.                                                      *)
(* What the requests change is kept as a version, one more with each       *)
(* change, so that what a later request reads can be compared with it.     *)
(***************************************************************************)
EXTENDS Integers, FiniteSets, Sequences

CONSTANTS
    Callers,      \* threads of the bus
    MaxMessages   \* bound: messages that are ever allocated

VARIABLES
    mainStage,     \* how far main() is
    queue,     \* g_ctrlm.queue
    main,      \* what the main queue thread has in hand
    delayed,   \* messages that ctrlm_message_queue_delay will push again
    memory,    \* how many messages were allocated, and which of them were freed
    call,      \* for each thread of the bus, its call
    settings   \* versions of what the requests change

queueVars == <<mainStage, queue, main, delayed, memory, call, settings>>

\* What is kept for the control service and the properties; and the controllers.
Settings == {"values", "controllers"}
NoCall == [pc |-> "idle", loops |-> TRUE, about |-> "controllers", sets |-> FALSE,
           result |-> "none", sem |-> 0, reply |-> 0, floor |-> 0]
NoMessage == [id |-> 0, kind |-> "none", from |-> "none", valid |-> TRUE]

QueueInit ==
    /\ mainStage = "networks" /\ queue = <<>> /\ delayed = {}
    /\ main = [step |-> "pop", msg |-> NoMessage]
    /\ memory = [count |-> 0, freed |-> {}]
    /\ call = [c \in Callers |-> NoCall]
    /\ settings = [s \in Settings |-> [now |-> 0, told |-> 0]]

-----------------------------------------------------------------------------
(* The threads of the bus.                                                 *)

\* ctrlm_main_queue_msg_push of a new message
Push(kind, from, valid) ==
    /\ memory.count < MaxMessages /\ mainStage # "stopped"
    /\ memory' = [memory EXCEPT !.count = @ + 1]
    /\ queue' = Append(queue, [id |-> memory.count + 1, kind |-> kind, from |-> from, valid |-> valid])

\* The first half of a call. The floor is the version it must find: that of the last
\* change whose caller was told before this call began.
Request(c, kind, valid, about, sets, loops) ==
    /\ call[c].pc = "idle"
    /\ Push(kind, c, valid)
    /\ call' = [call EXCEPT ![c] =
           [pc |-> IF loops THEN "check" ELSE "wait", loops |-> loops, about |-> about,
            sets |-> sets, result |-> "pending", sem |-> 0, reply |-> 0,
            floor |-> settings[about].told]]
    /\ UNCHANGED <<mainStage, main, delayed, settings>>

\* The calls that are for all networks are registered by the startup message.
Up == mainStage = "up"
ControlServiceSetValues(c) == Up /\ Request(c, "global", TRUE, "values", TRUE, TRUE)
ControlServiceGetValues(c) == Up /\ Request(c, "global", TRUE, "values", FALSE, TRUE)
PropertySet(c) == Up /\ Request(c, "global", TRUE, "values", TRUE, TRUE)
PropertyGet(c) == Up /\ Request(c, "global", TRUE, "values", FALSE, TRUE)
DiscoveryConfigSet(c) == Up /\ Request(c, "global", TRUE, "values", TRUE, TRUE)
AutobindConfigSet(c) == Up /\ Request(c, "global", TRUE, "values", TRUE, TRUE)
PrecommissionConfigSet(c) == Up /\ Request(c, "global", TRUE, "controllers", TRUE, TRUE)
FactoryReset(c) == Up /\ Request(c, "global", TRUE, "controllers", TRUE, TRUE)
ControllerUnbind(c) == Up /\ Request(c, "global", TRUE, "controllers", TRUE, TRUE)
StatusGet(c) == Up /\ Request(c, "global", TRUE, "controllers", FALSE, TRUE)

\* Calls for one network, which need not exist; chip status waits once and has no result.
CanFindMyRemote(c, valid) == Up /\ Request(c, "network", valid, "controllers", FALSE, TRUE)
ChipStatus(c, valid) == Up /\ Request(c, "handler", valid, "controllers", FALSE, FALSE)

\* The calls of ctrlm_rcu.cpp are registered before the networks are initialized: they
\* go to a handler of the network, ready or not ...
RcuControllerStatus(c, valid) == Request(c, "handler", valid, "controllers", FALSE, TRUE)
RcuLinkKey(c, valid) == Request(c, "handler", valid, "controllers", FALSE, TRUE)
RibRequest(c, valid, sets) == Request(c, "handler", valid, "controllers", sets, TRUE)
PollingAction(c, valid) == Request(c, "handler", valid, "controllers", TRUE, TRUE)

\* ... but for the type of a controller, and the reverse command, which waits once and
\* then reads the message.
ControllerTypeGet(c, valid) == Request(c, "network", valid, "controllers", FALSE, TRUE)
ReverseCmd(c, valid) == Request(c, "reverse", valid, "controllers", FALSE, FALSE)

\* sem_wait: it goes on to look at the result again, or returns if it waits once.
Woken(c) ==
    /\ call[c].pc = "wait" /\ call[c].sem > 0
    /\ call' = [call EXCEPT ![c].sem = @ - 1, ![c].pc = IF call[c].loops THEN "check" ELSE "return"]
    /\ UNCHANGED <<mainStage, queue, main, delayed, memory, settings>>

\* while(PENDING == cmd_result)
StillPending(c) ==
    /\ call[c].pc = "check" /\ call[c].result = "pending"
    /\ call' = [call EXCEPT ![c].pc = "wait"]
    /\ UNCHANGED <<mainStage, queue, main, delayed, memory, settings>>

\* sem_destroy, and the end of the frame that held the semaphore
Return(c) ==
    LET k == call[c]
    IN  /\ \/ k.pc = "check" /\ k.result # "pending"
           \/ k.pc = "return"
        /\ call' = [call EXCEPT ![c] = [k EXCEPT !.pc = "idle"]]
        /\ settings' = IF k.sets /\ k.reply > settings[k.about].told
                       THEN [settings EXCEPT ![k.about].told = k.reply] ELSE settings
        /\ UNCHANGED <<mainStage, queue, main, delayed, memory>>

-----------------------------------------------------------------------------
(* The main queue thread.                                                  *)

Live(id) == id \notin memory.freed

\* g_async_queue_pop
Pop ==
    /\ main.step = "pop" /\ queue # <<>>
    /\ main' = [step |-> "dispatch", msg |-> Head(queue)]
    /\ queue' = Tail(queue)
    /\ UNCHANGED <<mainStage, delayed, memory, call, settings>>

\* Dropped: a message for a network that does not exist or is not ready; a handler of
\* no network.
Refused(msg) ==
    \/ msg.kind \in {"network", "reverse"} /\ (~msg.valid \/ mainStage = "networks")
    \/ msg.kind = "handler" /\ ~msg.valid
Drop ==
    /\ main.step = "dispatch" /\ Refused(main.msg)
    /\ main' = [main EXCEPT !.step = "free"]
    /\ UNCHANGED <<mainStage, queue, delayed, memory, call, settings>>

\* The handler of a request: what it changes, what it answers, and *cmd_result.
Answers(msg) ==
    \/ msg.kind \in {"global", "network", "handler"}
    \/ msg.kind = "reverse" /\ mainStage \in {"up", "stopping"}

\* Mutant of Handle: a change is answered and not made.
HandleUnmade ==
    LET k == call[main.msg.from]
    IN  /\ main.step = "dispatch" /\ ~Refused(main.msg) /\ Answers(main.msg)
        /\ call' = [call EXCEPT ![main.msg.from].result = "success",
                                ![main.msg.from].reply = settings[k.about].now + IF k.sets THEN 1 ELSE 0]
        /\ main' = [main EXCEPT !.step = "post"]
        /\ UNCHANGED <<mainStage, queue, delayed, memory, settings>>

Handle ==
    LET k == call[main.msg.from]
    IN  /\ main.step = "dispatch" /\ ~Refused(main.msg) /\ Answers(main.msg)
        /\ settings' = IF k.sets THEN [settings EXCEPT ![k.about].now = @ + 1] ELSE settings
        /\ call' = [call EXCEPT ![main.msg.from].result = "success",
                                ![main.msg.from].reply = settings'[k.about].now]
        /\ main' = [main EXCEPT !.step = "post"]
        /\ UNCHANGED <<mainStage, queue, delayed, memory>>

\* sem_post: the caller that saw the result before it waited is gone, and may even have
\* begun another call with a semaphore at the same place.
Post ==
    LET k == call[main.msg.from]
    IN  /\ main.step = "post"
        /\ call' = IF k.pc = "idle" THEN call ELSE [call EXCEPT ![main.msg.from].sem = @ + 1]
        /\ main' = [main EXCEPT !.step = "free"]
        /\ UNCHANGED <<mainStage, queue, delayed, memory, settings>>

\* CTRLM_MAIN_QUEUE_MSG_TYPE_NOTIFY_FIRMWARE before the initialization is done is put off
\* and not freed; so is a reverse command, which is freed.
PutOff ==
    /\ main.step = "dispatch" /\ ~Refused(main.msg)
    /\ main.msg.kind \in {"firmware", "reverse"} /\ mainStage \in {"networks", "ready"}
    /\ delayed' = delayed \cup {main.msg}
    /\ main' = IF main.msg.kind = "firmware" THEN [step |-> "pop", msg |-> NoMessage]
                                             ELSE [main EXCEPT !.step = "free"]
    /\ UNCHANGED <<mainStage, queue, memory, call, settings>>

\* ... and otherwise handled, with nobody to answer.
NotifyFirmware ==
    /\ main.step = "dispatch" /\ main.msg.kind = "firmware" /\ mainStage \in {"up", "stopping"}
    /\ main' = [main EXCEPT !.step = "free"]
    /\ UNCHANGED <<mainStage, queue, delayed, memory, call, settings>>

\* ctrlm_queue_msg_destroy
Free ==
    /\ main.step = "free"
    /\ memory' = [memory EXCEPT !.freed = @ \cup {main.msg.id}]
    /\ main' = [step |-> "pop", msg |-> NoMessage]
    /\ UNCHANGED <<mainStage, queue, delayed, call, settings>>

\* ctrlm_message_queue_delay
PushAgain(msg) ==
    /\ mainStage # "stopped"
    /\ delayed' = delayed \ {msg} /\ queue' = Append(queue, msg)
    /\ UNCHANGED <<mainStage, main, memory, call, settings>>

-----------------------------------------------------------------------------
(* main()                                                                  *)

\* ctrlm_networks_init, and the startup message; the device update thread may already
\* have found an image.
Ready ==
    /\ mainStage = "networks" /\ mainStage' = "ready"
    /\ UNCHANGED <<queue, main, delayed, memory, call, settings>>
Start ==
    /\ mainStage = "ready" /\ mainStage' = "up"
    /\ UNCHANGED <<queue, main, delayed, memory, call, settings>>
Firmware ==
    /\ Push("firmware", "none", TRUE)
    /\ UNCHANGED <<mainStage, main, delayed, call, settings>>

\* ctrlm_terminate: it waits for the thread to take the message, at most five seconds.
Terminate ==
    /\ mainStage = "up" /\ mainStage' = "stopping"
    /\ memory' = [memory EXCEPT !.count = @ + 1]
    /\ queue' = Append(queue, [id |-> memory.count + 1, kind |-> "terminate", from |-> "none",
                               valid |-> TRUE])
    /\ UNCHANGED <<main, delayed, call, settings>>
Stopped ==
    /\ mainStage = "stopping" /\ mainStage' = "stopped"
    /\ \/ main.step = "dispatch" /\ main.msg.kind = "terminate"
       \/ main.step # "pop"      \* the thread did not answer
    /\ UNCHANGED <<queue, main, delayed, memory, call, settings>>

MainThread == Pop \/ Drop \/ Handle \/ Post \/ PutOff \/ NotifyFirmware \/ Free
Caller(c) == Woken(c) \/ StillPending(c) \/ Return(c)
Calls(c) ==
    \/ ControlServiceSetValues(c) \/ ControlServiceGetValues(c)
    \/ PropertySet(c) \/ PropertyGet(c)
    \/ DiscoveryConfigSet(c) \/ AutobindConfigSet(c) \/ PrecommissionConfigSet(c)
    \/ FactoryReset(c) \/ ControllerUnbind(c) \/ StatusGet(c)
    \/ \E valid \in BOOLEAN :
        \/ CanFindMyRemote(c, valid) \/ ChipStatus(c, valid) \/ ReverseCmd(c, valid)
        \/ RcuControllerStatus(c, valid) \/ RcuLinkKey(c, valid) \/ PollingAction(c, valid)
        \/ ControllerTypeGet(c, valid)
        \/ \E sets \in BOOLEAN : RibRequest(c, valid, sets)

QueueNext ==
    /\ mainStage # "stopped"
    /\ \/ MainThread
       \/ \E c \in Callers : Caller(c) \/ Calls(c)
       \/ \E msg \in delayed : PushAgain(msg)
       \/ Ready \/ Start \/ Firmware \/ Terminate \/ Stopped

QueueSpec == QueueInit /\ [][QueueNext]_queueVars

-----------------------------------------------------------------------------
\* A request that begins after a change was confirmed to its caller, whoever that was,
\* finds the change or a later one.
ReadsLatest ==
    \A c \in Callers : call[c].result = "success" => call[c].reply >= call[c].floor

\* A message that is queued, put off or being handled has not been freed, unless it is a
\* reverse command that came before the initialization was done.
InUse == {queue[i] : i \in DOMAIN queue} \cup delayed \cup {main.msg}
MessagesLive == \A msg \in InUse : Live(msg.id) \/ msg.kind = "reverse"

\* Every message that was pushed is in one place: queued, put off, in hand, or freed.
NothingLost ==
    memory.count <= Cardinality(memory.freed \cup {msg.id : msg \in InUse \ {NoMessage}})

\* The comments at 2715 and 2952 of ctrlm_main.cpp say that a message that is put off
\* is not freed.
PutOffNotFreed == \A msg \in delayed : Live(msg.id)

\* No order of messages, delays and calls of several threads uses a message or a
\* semaphore after it is gone, or leaves a caller waiting for an answer nobody gives (the
\* main queue of ctrlm_main.cpp).
QueueSound == ReadsLatest /\ MessagesLive /\ NothingLost
=============================================================================
