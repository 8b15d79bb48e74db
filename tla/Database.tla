------------------------------- MODULE Database -------------------------------
(***************************************************************************)
(* database/ctrlm_database.cpp: what is written goes through the queue of  *)
(* the database thread, what is read does not, and neither does the state  *)
(* of an update session when it is deleted. A controller has an entry in   *)
(* the list of its network and a table of its own.                         *)
(* A value is the number of the write that made it; 0 is no value.         *)
(***************************************************************************)
EXTENDS Integers, FiniteSets, Sequences, SequencesExt

CONSTANTS
    StoredIds,          \* controllers (their ids)
    CloseInSleep,    \* DEEPSLEEP_CLOSE_DB
    MaxWrites,       \* bound: values that are ever written
    MaxQueued,       \* bound: messages in the queue
    MaxRestarts      \* bound: restarts

VARIABLES
    disk,      \* the file: the list, the tables and their values
    known,     \* what the program has: its controllers and their values
    dbQueue,   \* g_ctrlm_db.queue
    dbThread,  \* the thread: "run", "asleep" (sem_wait of ds_signal), "drop", "ended"
    sleep,     \* ds_mode, ds_signal, and the power state
    writes,    \* how many values were written, and restarts made
    torn       \* what went wrong on the way, for each controller

dbVars == <<disk, known, dbQueue, dbThread, sleep, writes, torn>>

Keys == {"entry", "session"}
NoValues == [k \in Keys |-> 0]

DbClosed == sleep.mode
DbOpened == ~DbClosed /\ dbThread # "ended"

\* ctrlm_db_init: the networks' tables are there; a new file has no controllers.
DbInit ==
    /\ disk = [listed |-> {}, tables |-> {}, values |-> [c \in StoredIds |-> NoValues], global |-> 0]
    /\ known = [controllers |-> {}, values |-> [c \in StoredIds |-> NoValues], global |-> 0]
    /\ dbQueue = <<>> /\ dbThread = "run"
    /\ sleep = [mode |-> FALSE, signal |-> 0, power |-> "on", hurried |-> FALSE]
    /\ writes = [count |-> 0, restarts |-> 0]
    /\ torn = [c \in StoredIds |-> {}]

-----------------------------------------------------------------------------
(* The program's side.                                                     *)

PushDb(msg) == Len(dbQueue) < MaxQueued /\ dbQueue' = Append(dbQueue, msg)
Message(type, c, key, value) == [type |-> type, c |-> c, key |-> key, value |-> value]
\* A message of no controller: an element of Stored that no handler looks at
NoOwner == CHOOSE c \in StoredIds : TRUE

ControllerCreate(c) ==
    /\ c \notin known.controllers
    /\ PushDb(Message("create", c, "entry", 0))
    /\ known' = [known EXCEPT !.controllers = @ \cup {c}, !.values[c] = NoValues]
    /\ UNCHANGED <<disk, dbThread, sleep, writes, torn>>
Rf4ceCreate(c) == ControllerCreate(c)
IpCreate(c) == ControllerCreate(c)
BleCreate(c) == ControllerCreate(c)

ControllerDestroy(c) ==
    /\ c \in known.controllers
    /\ PushDb(Message("destroy", c, "entry", 0))
    /\ known' = [known EXCEPT !.controllers = @ \ {c}, !.values[c] = NoValues]
    /\ UNCHANGED <<disk, dbThread, sleep, writes, torn>>
Rf4ceDestroy(c) == ControllerDestroy(c)
IpDestroy(c) == ControllerDestroy(c)
BleDestroy(c) == ControllerDestroy(c)

\* A value of a controller: ctrlm_db_write_blob, _str, _uint64 with its table, or an
\* attribute with its key
WriteAs(type, c, key) ==
    /\ c \in known.controllers /\ writes.count < MaxWrites
    /\ writes' = [writes EXCEPT !.count = @ + 1]
    /\ PushDb(Message(type, c, key, writes.count + 1))
    /\ known' = [known EXCEPT !.values[c][key] = writes.count + 1]
    /\ UNCHANGED <<disk, dbThread, sleep, torn>>
WriteValue(c, key) == WriteAs("write", c, key)
WriteBinding(c) == WriteValue(c, "entry")
WriteStatistics(c) == WriteValue(c, "entry")
WritePolling(c) == WriteValue(c, "entry")
WriteSecurity(c) == WriteValue(c, "entry")
WriteMetrics(c) == WriteValue(c, "entry")
WriteIp(c) == WriteValue(c, "entry")
WriteBle(c) == WriteValue(c, "entry")
WriteAttr(c) == WriteAs("attr", c, "entry")
WriteSessionState(c) == WriteValue(c, "session")

\* A value of no controller
WriteGlobalKey ==
    /\ writes.count < MaxWrites
    /\ writes' = [writes EXCEPT !.count = @ + 1]
    /\ PushDb(Message("global", NoOwner, "entry", writes.count + 1))
    /\ known' = [known EXCEPT !.global = writes.count + 1]
    /\ UNCHANGED <<disk, dbThread, sleep, torn>>
WriteGlobals == WriteGlobalKey
WriteVoice == WriteGlobalKey
WriteVoiceQuery == WriteGlobalKey
WriteFile == WriteGlobalKey

Pending(c, type, key) ==
    \E i \in DOMAIN dbQueue : dbQueue[i].c = c /\ dbQueue[i].type = type /\ dbQueue[i].key = key

PowerPending == \E i \in DOMAIN dbQueue : dbQueue[i].type \in {"on", "deep_sleep"}

\* ctrlm_db_rf4ce_destroy_device_update_session_state: the key is looked for and deleted
\* at once, whatever is queued.
DestroySessionState(c) ==
    /\ c \in known.controllers /\ known.values[c]["session"] # 0
    /\ disk' = IF DbOpened THEN [disk EXCEPT !.values[c]["session"] = 0] ELSE disk
    /\ known' = [known EXCEPT !.values[c]["session"] = 0]
    /\ torn' = IF Pending(c, "write", "session") \/ ~DbOpened
               THEN [torn EXCEPT ![c] = @ \cup {"deleted"}] ELSE torn
    /\ UNCHANGED <<dbQueue, dbThread, sleep, writes>>

\* ctrlm_db_power_state_change: while the mode is that of deep sleep, to the front. It is
\* hurried if the thread has not yet taken the change before (bound: one hurried change).
PowerChange(state) ==
    /\ sleep.power # state /\ ~sleep.hurried /\ Len(dbQueue) < MaxQueued
    /\ LET msg == Message(state, NoOwner, "entry", 0)
           now == [sleep EXCEPT !.power = state, !.hurried = @ \/ PowerPending]
       IN  IF ~CloseInSleep THEN sleep' = [sleep EXCEPT !.power = state] /\ UNCHANGED dbQueue
           ELSE IF sleep.mode
           THEN dbQueue' = <<msg>> \o dbQueue /\ sleep' = [now EXCEPT !.signal = @ + 1]
           ELSE dbQueue' = Append(dbQueue, msg) /\ sleep' = now
    /\ UNCHANGED <<disk, known, dbThread, writes, torn>>

-----------------------------------------------------------------------------
(* The database thread.                                                    *)

Done == dbQueue' = Tail(dbQueue)
\* In deep sleep the thread waits for the signal after every message.
After(mode) == dbThread' = IF mode THEN "asleep" ELSE "run"
Next0(type) == dbThread = "run" /\ dbQueue # <<>> /\ Head(dbQueue).type = type

\* CREATE TABLE IF NOT EXISTS: what the table holds stays. The entry of the list is
\* itself queued, unless it is there.
HandleCreate ==
    LET c == Head(dbQueue).c IN
    /\ Next0("create") /\ After(DbClosed)
    /\ disk' = IF DbClosed THEN disk ELSE [disk EXCEPT !.tables = @ \cup {c}]
    /\ dbQueue' = IF c \in disk.listed THEN Tail(dbQueue)
                  ELSE Append(Tail(dbQueue), Message("list", c, "entry", 0))
    /\ torn' = IF disk.values[c] # NoValues THEN [torn EXCEPT ![c] = @ \cup {"inherited"}] ELSE torn
    /\ UNCHANGED <<known, sleep, writes>>
HandleList ==
    /\ Next0("list") /\ Done /\ After(DbClosed)
    /\ disk' = IF DbClosed THEN disk ELSE [disk EXCEPT !.listed = @ \cup {Head(dbQueue).c}]
    /\ UNCHANGED <<known, sleep, writes, torn>>

\* The entry of the list is deleted, if it is there, and then the table dropped. Mutant
\* of HandleDestroy: the other way round.
HandleDestroyTableFirst ==
    LET c == Head(dbQueue).c IN
    /\ Next0("destroy")
    /\ disk' = [disk EXCEPT !.tables = @ \ {c}, !.values[c] = NoValues]
    /\ torn' = torn
    /\ dbThread' = "drop"
    /\ UNCHANGED <<dbQueue, known, sleep, writes>>
HandleDestroy ==
    LET c == Head(dbQueue).c IN
    /\ Next0("destroy")
    /\ disk' = IF DbClosed THEN disk ELSE [disk EXCEPT !.listed = @ \ {c}]
    /\ torn' = IF Pending(c, "list", "entry") THEN [torn EXCEPT ![c] = @ \cup {"relisted"}] ELSE torn
    /\ dbThread' = "drop"
    /\ UNCHANGED <<dbQueue, known, sleep, writes>>
DropTable ==
    LET c == Head(dbQueue).c IN
    /\ dbThread = "drop" /\ After(DbClosed) /\ Done
    /\ disk' = IF DbClosed THEN disk ELSE [disk EXCEPT !.tables = @ \ {c}, !.values[c] = NoValues]
    /\ UNCHANGED <<known, sleep, writes, torn>>

\* INSERT OR REPLACE: it fails when there is no such table, and when the file is closed.
Insert(type) ==
    LET m == Head(dbQueue) IN
    /\ Next0(type) /\ Done /\ After(DbClosed)
    /\ disk' = IF ~DbClosed /\ m.c \in disk.tables THEN [disk EXCEPT !.values[m.c][m.key] = m.value] ELSE disk
    /\ UNCHANGED <<known, sleep, writes, torn>>
HandleWrite == Insert("write")
HandleAttr == Insert("attr")
HandleGlobal ==
    /\ Next0("global") /\ Done /\ After(DbClosed)
    /\ disk' = IF DbClosed THEN disk ELSE [disk EXCEPT !.global = Head(dbQueue).value]
    /\ UNCHANGED <<known, sleep, writes, torn>>

\* ctrlm_db_power_state_change_: the file is closed or opened again. Mutant of HandlePower: the file is closed and the thread goes on.
HandlePowerAwake ==
    LET deep == Head(dbQueue).type = "deep_sleep" IN
    /\ Next0("on") \/ Next0("deep_sleep")
    /\ Done
    /\ sleep' = [sleep EXCEPT !.mode = deep]
    /\ UNCHANGED <<disk, known, dbThread, writes, torn>>
HandlePower ==
    LET deep == Head(dbQueue).type = "deep_sleep" IN
    /\ Next0("on") \/ Next0("deep_sleep")
    /\ Done
    /\ sleep' = [sleep EXCEPT !.mode = deep]
    /\ After(deep)
    /\ UNCHANGED <<disk, known, writes, torn>>
Wake ==
    /\ dbThread = "asleep" /\ sleep.signal > 0
    /\ sleep' = [sleep EXCEPT !.signal = @ - 1]
    /\ dbThread' = "run"
    /\ UNCHANGED <<disk, known, dbQueue, writes, torn>>

\* The program ends at any moment and starts again: what is queued is lost, and the
\* controllers are those of the list, with what their tables hold.
ReadValue(c, key) == disk.values[c][key]
ReadTable(c) == [k \in Keys |-> ReadValue(c, k)]
DbRestart ==
    /\ writes.restarts < MaxRestarts
    /\ writes' = [writes EXCEPT !.restarts = @ + 1]
    /\ known' = [controllers |-> disk.listed,
                 values |-> [c \in StoredIds |-> IF c \in disk.listed THEN ReadTable(c) ELSE NoValues],
                 global |-> disk.global]
    /\ dbQueue' = <<>> /\ dbThread' = "run"
    /\ sleep' = [mode |-> FALSE, signal |-> 0, power |-> "on", hurried |-> sleep.hurried]
    /\ torn' = [c \in StoredIds |->
                   (torn[c] \ {"deleted"}) \cup (IF disk.values[c] # NoValues /\ c \notin disk.listed
                                                 THEN {"inherited"} ELSE {})
                   \cup (IF c \in disk.tables /\ c \notin disk.listed THEN {"unlisted"} ELSE {})]
    /\ UNCHANGED disk

\* ctrlm_db_terminate: the message that ends the thread is behind everything queued.
DbEnded ==
    /\ dbThread = "run" /\ dbQueue = <<>> /\ dbThread' = "ended"
    /\ UNCHANGED <<disk, known, dbQueue, sleep, writes, torn>>

Program ==
    \/ \E c \in StoredIds :
        \/ Rf4ceCreate(c) \/ IpCreate(c) \/ BleCreate(c)
        \/ Rf4ceDestroy(c) \/ IpDestroy(c) \/ BleDestroy(c)
        \/ WriteBinding(c) \/ WriteStatistics(c) \/ WritePolling(c) \/ WriteSecurity(c)
        \/ WriteMetrics(c) \/ WriteIp(c) \/ WriteBle(c) \/ WriteAttr(c)
        \/ WriteSessionState(c) \/ DestroySessionState(c)
    \/ WriteGlobals \/ WriteVoice \/ WriteVoiceQuery \/ WriteFile
    \/ PowerChange("deep_sleep") \/ PowerChange("on")
Thread ==
    \/ HandleCreate \/ HandleList \/ HandleDestroy \/ DropTable
    \/ HandleWrite \/ HandleAttr \/ HandleGlobal \/ HandlePower \/ Wake

DbNext == (dbThread # "ended" /\ (Program \/ Thread \/ DbEnded)) \/ DbRestart
DbSpec == DbInit /\ [][DbNext]_dbVars

-----------------------------------------------------------------------------
\* A controller of the list has its table, unless it was destroyed before its entry was
\* written: the entry then comes after all, and the next start loads it.
ListedHasTable == \A c \in disk.listed : c \in disk.tables \/ "relisted" \in torn[c]

\* With nothing queued, the file holds the controllers that the program has, and their
\* values: but a deleted state of a session comes back with the write that was queued,
\* and a controller inherits the table that an end of the program left.
Settled == dbQueue = <<>> /\ dbThread = "run"
SettledIsKnown ==
    Settled =>
        /\ disk.global = known.global
        /\ known.controllers \subseteq disk.listed
        /\ \A c \in disk.listed \ known.controllers : "relisted" \in torn[c]
        /\ \A c \in known.controllers, k \in Keys :
               \/ disk.values[c][k] = known.values[c][k]
               \/ torn[c] \cap {"deleted", "inherited", "relisted"} # {}

\* The thread sleeps only in deep sleep, and works on nothing while the file is closed.
SleepsInDeepSleep ==
    /\ dbThread = "asleep" => sleep.power = "deep_sleep" \/ sleep.signal > 0
    /\ DbClosed /\ dbThread # "asleep" => dbQueue # <<>> /\ Head(dbQueue).type = "on"

\* All this unless the power changes faster than the thread takes the changes.
DbSound == sleep.hurried \/ (ListedHasTable /\ SettledIsKnown /\ SleepsInDeepSleep)
=============================================================================
