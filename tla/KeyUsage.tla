------------------------------ MODULE KeyUsage ------------------------------
(***************************************************************************)
(* What ctrlm_main.cpp keeps of the keys it is told of: the lines of sight *)
(* that a setup key opens, the IR remotes used today and yesterday, and    *)
(* the last key.  The bus calls the handler of IR events on a thread of    *)
(* its own; the main queue thread reports, rolls the day over and writes   *)
(* the same data, and nothing serialises the two.                          *)
(***************************************************************************)
EXTENDS Integers, FiniteSets

CONSTANTS
    IrRemotes,      \* kinds of IR remotes; each has a flag for today and one for yesterday
    RfNames,      \* product names of paired remotes, which no kind of IR remote has
    Sights,       \* "line_of_sight" and "autobind", which are handled alike
    MaxDay,       \* bound: days that pass
    MaxSightTimers     \* bound: timers of a line of sight that run or have posted their message

VARIABLES
    clock,      \* the day it is, and whether the clock is past the last shutdown
    usage,      \* g_ctrlm.today and the flags ir_remote_usage_today and _yesterday
    lastKey,    \* last_key_info: source type, last IR remote type, source name
    db,         \* what was written of both
    ir,         \* the handler of IR events: where it is, and what it has found out
    usageMain,       \* the main queue thread in one of its handlers for the same data
    sight,      \* for each line of sight: the flag, the tag, the live timers, the messages
    seen        \* <<day, kind>> of each key that counted, and whether two handlers overlapped

usageVars == <<clock, usage, lastKey, db, ir, usageMain, sight, seen>>

Days == 0..MaxDay
IdleIr == [pc |-> "idle", key |-> "none", kind |-> "none", changed |-> FALSE, write |-> FALSE]
IdleMain == [pc |-> "idle", changed |-> FALSE]
NoSight == [on |-> FALSE, tag |-> 0, live |-> {}, posted |-> 0]

\* main(): nothing in the database yet
UsageInit ==
    /\ clock = [day |-> 1, set |-> TRUE]
    /\ usage = [day |-> 1, today |-> {}, yesterday |-> {}]
    /\ lastKey = [src |-> "none", type |-> "none", name |-> "none"]
    /\ db = [usage |-> usage, lastKey |-> lastKey]
    /\ ir = IdleIr /\ usageMain = IdleMain
    /\ sight = [s \in Sights |-> NoSight]
    /\ seen = [keys |-> {}, overlap |-> FALSE]

-----------------------------------------------------------------------------
(* The clock.                                                              *)

NextDay ==
    /\ clock.set /\ clock.day < MaxDay
    /\ clock' = [clock EXCEPT !.day = @ + 1]
    /\ UNCHANGED <<usage, lastKey, db, ir, usageMain, sight, seen>>

\* The time arrives from the network, after a restart
ClockSet ==
    /\ ~clock.set /\ clock' = [clock EXCEPT !.set = TRUE]
    /\ UNCHANGED <<usage, lastKey, db, ir, usageMain, sight, seen>>

\* Mutant of RolledOver: the flags move to yesterday however many days have passed.
RolledOverAny(u) ==
    IF ~clock.set \/ clock.day = u.day THEN u
    ELSE [day |-> clock.day, today |-> {}, yesterday |-> u.today]

\* ctrlm_main_handle_day_change_ir_remote_usage: nothing before the clock is set; the flags
\* of today become those of yesterday if one day has passed.
RolledOver(u) ==
    IF ~clock.set \/ clock.day = u.day THEN u
    ELSE [day |-> clock.day, today |-> {},
          yesterday |-> IF clock.day = u.day + 1 THEN u.today ELSE {}]

-----------------------------------------------------------------------------
(* ctrlm_event_handler_ir, on the thread of the bus.                       *)

\* Once the two threads have met in the data nothing is claimed about it any more.
Met(other) == IF other.pc # "idle" THEN [keys |-> {}, overlap |-> TRUE] ELSE seen
Counted(kind) ==
    IF usageMain.pc # "idle" \/ seen.overlap THEN [keys |-> {}, overlap |-> TRUE]
    ELSE [seen EXCEPT !.keys = {k \in @ \cup {<<usage.day, kind>>} : k[1] >= usage.day - 1}]

\* A key: its handler rolls the day over. An RF key has the name of its remote; a notify key
\* names the kind of the remote but is no key of its own.
IrBegin(key, kind) ==
    /\ ir.pc = "idle"
    /\ usage' = IF key = "control" THEN RolledOver(usage) ELSE usage
    /\ ir' = [pc |-> "mark", key |-> key, kind |-> kind, write |-> FALSE,
              changed |-> key = "control" /\ RolledOver(usage) # usage]
    /\ seen' = Met(usageMain)
    /\ UNCHANGED <<clock, lastKey, db, usageMain, sight>>

\* A control key with the code of a remote: its flag, its type and, with ctrlm_update_last_key_info,
\* the last key, written if the source or its name has changed.
IrMarkControl ==
    /\ ir.pc = "mark" /\ ir.key = "control"
    /\ usage' = [usage EXCEPT !.today = @ \cup {ir.kind}]
    /\ lastKey' = [src |-> "ir", type |-> ir.kind, name |-> ir.kind]
    /\ ir' = [ir EXCEPT !.pc = "write", !.changed = @ \/ ir.kind \notin usage.today,
                        !.write = lastKey.src # "ir" \/ lastKey.name # ir.kind]
    /\ seen' = Counted(ir.kind)
    /\ UNCHANGED <<clock, db, usageMain, sight>>

\* A notify code: the type and the source are kept, the name waits for the next key.
IrMarkNotify ==
    /\ ir.pc = "mark" /\ ir.key = "notify"
    /\ usage' = [usage EXCEPT !.today = @ \cup {ir.kind}]
    /\ lastKey' = [lastKey EXCEPT !.src = "ir", !.type = ir.kind]
    /\ ir' = [ir EXCEPT !.pc = "write", !.changed = ir.kind \notin usage.today]
    /\ seen' = Counted(ir.kind)
    /\ UNCHANGED <<clock, db, usageMain, sight>>

\* Any other key, from an IR remote (ctrlm_check_for_key_tag may name its type) or an RF one
IrMarkKey ==
    \E type \in {lastKey.type} \cup (IF ir.key = "ir" THEN IrRemotes ELSE {}) :
        LET name == IF ir.key = "rf" THEN ir.kind ELSE type
            source == IF ir.key = "rf" THEN "rf" ELSE "ir"
        IN  /\ ir.pc = "mark" /\ ir.key \in {"rf", "ir"}
            /\ lastKey' = [src |-> source, type |-> type, name |-> name]
            /\ ir' = [ir EXCEPT !.pc = "write",
                                !.write = lastKey.src # source \/ lastKey.name # name]
            /\ seen' = Met(usageMain)
            /\ UNCHANGED <<clock, usage, db, usageMain, sight>>

\* Mutant of IrWrite: a new last key is written only with the flags.
IrWriteTogether ==
    /\ ir.pc = "write"
    /\ db' = [usage |-> IF ir.changed THEN usage ELSE db.usage,
              lastKey |-> IF ir.write /\ ir.changed THEN lastKey ELSE db.lastKey]
    /\ ir' = IdleIr
    /\ seen' = Met(usageMain)
    /\ UNCHANGED <<clock, usage, lastKey, usageMain, sight>>

IrWrite ==
    /\ ir.pc = "write"
    /\ db' = [usage |-> IF ir.changed THEN usage ELSE db.usage,
              lastKey |-> IF ir.write THEN lastKey ELSE db.lastKey]
    /\ ir' = IdleIr
    /\ seen' = Met(usageMain)
    /\ UNCHANGED <<clock, usage, lastKey, usageMain, sight>>

-----------------------------------------------------------------------------
(* The main queue thread.                                                  *)

\* IR_REMOTE_USAGE: a report first rolls the day over, ...
Report ==
    /\ usageMain.pc = "idle"
    /\ usage' = RolledOver(usage)
    /\ usageMain' = [pc |-> "report", changed |-> RolledOver(usage) # usage]
    /\ seen' = Met(ir)
    /\ UNCHANGED <<clock, lastKey, db, ir, sight>>

\* ... and writes if it did
ReportWrite ==
    /\ usageMain.pc = "report"
    /\ db' = IF usageMain.changed THEN [db EXCEPT !.usage = usage] ELSE db
    /\ usageMain' = IdleMain
    /\ seen' = Met(ir)
    /\ UNCHANGED <<clock, usage, lastKey, ir, sight>>

\* The end of a voice session, or a binding: ctrlm_update_last_key_info, always written
MainKey(name) ==
    /\ usageMain.pc = "idle"
    /\ lastKey' = [lastKey EXCEPT !.src = "rf", !.name = name]
    /\ usageMain' = [pc |-> "key", changed |-> TRUE]
    /\ seen' = Met(ir)
    /\ UNCHANGED <<clock, usage, db, ir, sight>>
MainKeyWrite ==
    /\ usageMain.pc = "key"
    /\ db' = [db EXCEPT !.lastKey = lastKey] /\ usageMain' = IdleMain
    /\ seen' = Met(ir)
    /\ UNCHANGED <<clock, usage, lastKey, ir, sight>>

\* ctrlm_property_read_last_key_info
ReadLastKey == db.lastKey

\* The program stops and starts: the data is read back, and rolled over if the clock is set.
UsageRestart ==
    /\ ir.pc = "idle" /\ usageMain.pc = "idle"
    /\ \E set \in BOOLEAN :
        /\ clock' = [clock EXCEPT !.set = set]
        /\ usage' = IF set /\ clock.day # db.usage.day
                    THEN [day |-> clock.day, today |-> {},
                          yesterday |-> IF clock.day = db.usage.day + 1 THEN db.usage.today ELSE {}]
                    ELSE db.usage
    /\ lastKey' = ReadLastKey
    /\ db' = [db EXCEPT !.usage = usage']
    /\ sight' = [s \in Sights |-> NoSight]
    /\ UNCHANGED <<ir, usageMain, seen>>

-----------------------------------------------------------------------------
(* The lines of sight.                                                     *)

FreshTimer(s) == CHOOSE n \in 1..(MaxSightTimers + 1) : n \notin sight[s].live

\* Mutant of SightKey: a line of sight that is open keeps its timer destroyed.
SightKeyOnce(s) ==
    /\ ir.pc = "idle" /\ Cardinality(sight[s].live) + sight[s].posted < MaxSightTimers
    /\ sight' = [sight EXCEPT ![s].live = @ \ {sight[s].tag}, ![s].on = TRUE, ![s].tag = 0]
    /\ ir' = IF sight[s].on THEN ir ELSE [IdleIr EXCEPT !.pc = "sight", !.kind = s]
    /\ UNCHANGED <<clock, usage, lastKey, db, usageMain, seen>>

\* The code of a setup or ghost key: the timer is destroyed and the flag set, ...
SightKey(s) ==
    /\ ir.pc = "idle" /\ Cardinality(sight[s].live) + sight[s].posted < MaxSightTimers
    /\ sight' = [sight EXCEPT ![s].live = @ \ {sight[s].tag}, ![s].on = TRUE, ![s].tag = 0]
    /\ ir' = [IdleIr EXCEPT !.pc = "sight", !.kind = s]
    /\ UNCHANGED <<clock, usage, lastKey, db, usageMain, seen>>

\* ... and another timer is created
SightTimer ==
    LET s == ir.kind
    IN  /\ ir.pc = "sight"
        /\ sight' = [sight EXCEPT ![s].live = @ \cup {FreshTimer(s)}, ![s].tag = FreshTimer(s)]
        /\ ir' = IdleIr
        /\ UNCHANGED <<clock, usage, lastKey, db, usageMain, seen>>

\* ctrlm_timeout_line_of_sight and ctrlm_timeout_autobind, in the glib loop
SightTimeout(s) ==
    \E t \in sight[s].live :
        /\ sight' = [sight EXCEPT ![s].live = @ \ {t}, ![s].tag = 0, ![s].posted = @ + 1]
        /\ UNCHANGED <<clock, usage, lastKey, db, ir, usageMain, seen>>

\* MAIN_TIMEOUT_LINE_OF_SIGHT and MAIN_TIMEOUT_AUTOBIND: the tag is forgotten, its timer is not
\* destroyed.
SightHandle(s) ==
    /\ usageMain.pc = "idle" /\ sight[s].posted > 0
    /\ sight' = [sight EXCEPT ![s].posted = @ - 1, ![s].on = FALSE, ![s].tag = 0]
    /\ UNCHANGED <<clock, usage, lastKey, db, ir, usageMain, seen>>

UsageNext ==
    \/ NextDay \/ ClockSet
    \/ \E kind \in IrRemotes : IrBegin("control", kind) \/ IrBegin("notify", kind)
    \/ \E name \in RfNames : IrBegin("rf", name)
    \/ IrBegin("ir", "none")
    \/ IrMarkControl \/ IrMarkNotify \/ IrMarkKey \/ IrWrite
    \/ Report \/ ReportWrite \/ MainKeyWrite \/ UsageRestart
    \/ \E name \in RfNames : MainKey(name)
    \/ \E s \in Sights : SightKey(s) \/ SightTimeout(s) \/ SightHandle(s)
    \/ SightTimer

UsageSpec == UsageInit /\ [][UsageNext]_usageVars

-----------------------------------------------------------------------------
Quiet == ir.pc = "idle" /\ usageMain.pc = "idle" /\ ~seen.overlap

\* Every flag stands for a key of the day it is reported for, across day changes, restarts
\* and clocks that are not set yet, unless the two threads have met in the data.
FlagsRight ==
    ~seen.overlap =>
        /\ \A k \in usage.today : <<usage.day, k>> \in seen.keys
        /\ \A k \in usage.yesterday : <<usage.day - 1, k>> \in seen.keys

\* Between two handlers the database has the flags, the day and the name of the last key.
UsageStored == Quiet => db.usage = usage /\ db.lastKey.name = lastKey.name

\* A line of sight always ends: a timer or a message is there to close it, whichever way the
\* handler of a key and that of a timeout interleave.
SightEnds ==
    \A s \in Sights :
        sight[s].on => \/ sight[s].live # {} \/ sight[s].posted > 0
                       \/ ir.pc = "sight" /\ ir.kind = s

\* The usage of keys is told and stored once, whichever thread sees the day change
\* (ctrlm_main.cpp).
UsageSound == FlagsRight /\ UsageStored /\ SightEnds
=============================================================================
