------------------------------- MODULE IrCodes --------------------------------
(***************************************************************************)
(* The IR codes a remote sends to the TV and to the receiver (AVR). A      *)
(* client sets the codes of one of the two devices, or clears all; the     *)
(* box puts each code into the slot of its device and key, and gives the   *)
(* slots both devices share (power, volume) to one of them. The remote is  *)
(* told to download the slots when it next asks. Over the air and over     *)
(* RAMS a slot can be written by its number. The slots have a table in     *)
(* the database, which the next start reads.                               *)
(***************************************************************************)
EXTENDS Integers, FiniteSets

CONSTANTS
    KeySets,        \* the keys a set of codes has codes for
    WrittenSlots,   \* the slots that are written by number
    MaxCodes,       \* bound: sets of codes that come
    MaxIrWrites,      \* bound: writes of one slot
    MaxTimers,      \* bound: download timers at a time
    MaxIrStarts       \* bound: restarts of the program

Devices == {"tv", "avr"}
IrKeys == {"on", "off", "toggle", "volume", "input"}     \* the three volume keys are alike

-----------------------------------------------------------------------------
(* The slots (ctrlm_rf4ce_ir_rf_db_t).                                     *)

Own(device, key) == <<device, key>>
Common(key) == <<"any", key>>
Power == {"on", "off", "toggle"}
SharedKeys == {"volume", "input"}
Slots == (Devices \X Power) \cup ({"any"} \X IrKeys)

NoCodes == [device |-> "none", key |-> "none", set |-> 0, flags |-> 0]
NoSlots == [s \in Slots |-> NoCodes]

\* A new entry; a discrete power code suppresses the IR of its key (0x4F).
Entry(device, key, set) ==
    [device |-> device, key |-> key, set |-> set, flags |-> IF key \in {"on", "off"} THEN 79 ELSE 0]

Has(db, s) == db[s] # NoCodes

\* add_ir_code_entry without a slot: the volume slots favour the AVR, which has no inputs.
SlotOf(device, key) == IF key \in Power THEN Own(device, key) ELSE Common(key)
Takes(db, device, key) ==
    ~ \/ device = "tv" /\ key = "volume" /\ db[Common(key)].device = "avr"
      \/ device = "avr" /\ key = "input"
Put(db, device, keys, set) ==
    [s \in Slots |->
        IF \E k \in keys : s = SlotOf(device, k) /\ Takes(db, device, k)
        THEN Entry(device, CHOOSE k \in keys : s = SlotOf(device, k), set) ELSE db[s]]

\* Mutant of Emptied: the volume slots keep the codes that are cleared.
EmptiedButVolume(db, device) ==
    [s \in Slots |-> IF s[1] = device \/ (s = Common("input") /\ device = "tv") THEN NoCodes ELSE db[s]]
\* clear_tv_ir_codes, clear_avr_ir_codes. The input slot is the TV's.
Emptied(db, device) ==
    [s \in Slots |->
        IF \/ s[1] = device
           \/ s = Common("volume") /\ db[s].device = device
           \/ s = Common("input") /\ device = "tv"
        THEN NoCodes ELSE db[s]]

\* fix_common_slots_and_ir_flags: the shared power slots take the first of these that is there.
PowerOrder(key) ==
    IF key = "toggle" THEN <<Own("tv", "toggle"), Own("avr", "toggle")>>
    ELSE <<Own("avr", key), Own("avr", "toggle"), Own("tv", key), Own("tv", "toggle")>>
FirstThere(db, order) ==
    LET S == {i \in DOMAIN order : Has(db, order[i])} IN
    IF S = {} THEN NoCodes ELSE db[order[CHOOSE i \in S : \A j \in S : i <= j]]

\* With a toggle code for one of the two devices the discrete codes suppress the key's IR.
OneToggle(db) == Has(db, Own("avr", "toggle")) # Has(db, Own("tv", "toggle"))

\* Mutant of FixCommon: the shared slots that have a code keep it.
FixCommonKeeps(db) ==
    [s \in Slots |-> IF s[1] = "any" /\ s[2] \in Power /\ ~Has(db, s)
                     THEN FirstThere(db, PowerOrder(s[2])) ELSE db[s]]
FixCommon(db) ==
    [s \in Slots |->
        IF s[1] # "any" \/ s[2] \notin Power THEN db[s]
        ELSE LET e == FirstThere(db, PowerOrder(s[2])) IN
             IF e = NoCodes \/ s[2] = "toggle" THEN e
             ELSE [e EXCEPT !.flags = IF OneToggle(db) THEN 79 ELSE 0]]

\* store_db writes the slots that have an entry; nothing is ever taken out of the table.
Stored(irTable, db) == [s \in Slots |-> IF Has(db, s) THEN db[s] ELSE irTable[s]]

-----------------------------------------------------------------------------

VARIABLES
    xr19,           \* the remote is an XR19, which is told by a polling action instead
    slots,          \* ir_rf_database_
    irTable,          \* the slots' table in the database
    current,        \* of each device, the set of codes the clients gave it last, 0 for none
    download,       \* the remote is to download the slots when it next asks
    asked,          \* the remote has been told so and has not been told else since
    resets,         \* download timers that run
    codes,          \* sets of codes so far
    writes,         \* writes of one slot so far
    boots           \* restarts so far

irVars == <<xr19, slots, irTable, current, download, asked, resets, codes, writes, boots>>

IrInit ==
    /\ xr19 \in BOOLEAN
    /\ slots = NoSlots /\ irTable = NoSlots /\ current = [d \in Devices |-> 0]
    /\ download = FALSE /\ asked = FALSE /\ resets = 0
    /\ codes = 0 /\ writes = 0 /\ boots = 0

\* rf4ce_rib_set_target of the download status: an XR19 has its own way.
Told == /\ download' = (download \/ ~xr19) /\ asked' = (asked /\ xr19)

\* req_process_ir_set_code: the device's codes go, the new ones come, all slots are stored.
SetCode(device, keys) ==
    /\ codes < MaxCodes /\ codes' = codes + 1
    /\ slots' = FixCommon(Put(Emptied(slots, device), device, keys, codes + 1))
    /\ irTable' = Stored(irTable, slots')
    /\ current' = [current EXCEPT ![device] = codes + 1]
    /\ Told
    /\ UNCHANGED <<resets, writes, boots, xr19>>

\* Codes without a key map are refused, after the old ones went; nothing is stored.
SetNothing(device) ==
    /\ codes < MaxCodes /\ codes' = codes + 1
    /\ slots' = FixCommon(Emptied(slots, device))
    /\ current' = [current EXCEPT ![device] = 0]
    /\ UNCHANGED <<irTable, download, asked, resets, writes, boots, xr19>>

\* req_process_ir_clear_codes.
ClearCodes ==
    /\ codes < MaxCodes /\ codes' = codes + 1
    /\ slots' = NoSlots
    /\ irTable' = Stored(irTable, slots')
    /\ current' = [d \in Devices |-> 0]
    /\ Told
    /\ UNCHANGED <<resets, writes, boots, xr19>>

\* property_write_ir_rf_database: the slot is named; an XR19 writes only to one that has none.
WriteSlot(s, device, key) ==
    /\ writes < MaxIrWrites /\ writes' = writes + 1
    /\ IF xr19 /\ Has(slots, s) THEN UNCHANGED <<slots, irTable, download, asked>>
       ELSE /\ slots' = [slots EXCEPT ![s] = Entry(device, key, 0)]
            /\ irTable' = [irTable EXCEPT ![s] = slots'[s]]
            /\ download' = TRUE /\ asked' = FALSE
    /\ UNCHANGED <<current, resets, codes, boots, xr19>>

\* The same with the mark of an empty slot: the slot is emptied in memory only.
WriteDefault(s) ==
    /\ writes < MaxIrWrites /\ writes' = writes + 1
    /\ slots' = [slots EXCEPT ![s] = NoCodes]
    /\ download' = TRUE /\ asked' = FALSE
    /\ UNCHANGED <<irTable, current, resets, codes, boots, xr19>>

\* read_rib of the status by the remote: each read that says "download" starts a timer.
Asks ==
    /\ ~xr19 /\ download /\ resets < MaxTimers
    /\ asked' = TRUE /\ resets' = resets + 1
    /\ UNCHANGED <<slots, irTable, current, download, codes, writes, boots, xr19>>

\* ir_rf_database_status_download_timeout, 200 ms after a read, and the reset it posts.
DownloadReset ==
    /\ resets > 0 /\ resets' = resets - 1
    /\ download' = FALSE /\ asked' = FALSE
    /\ UNCHANGED <<slots, irTable, current, codes, writes, boots, xr19>>

\* load_db.
Boot ==
    /\ boots < MaxIrStarts /\ boots' = boots + 1
    /\ slots' = irTable
    /\ download' = FALSE /\ asked' = FALSE /\ resets' = 0
    /\ UNCHANGED <<irTable, current, codes, writes, xr19>>

IrNext ==
    \/ \E device \in Devices, keys \in KeySets : SetCode(device, keys)
    \/ \E device \in Devices : SetNothing(device)
    \/ ClearCodes
    \/ \E s \in WrittenSlots, device \in Devices : WriteSlot(s, device, "on")
    \/ \E s \in WrittenSlots : WriteDefault(s)
    \/ Asks
    \/ DownloadReset
    \/ Boot

IrSpec == IrInit /\ [][IrNext]_irVars

-----------------------------------------------------------------------------

\* While only the clients set codes, each code the remote can download, whatever slot it is in,
\* is of the set its device was given last: none of an earlier set is left behind.
OnlyCurrent ==
    (writes = 0 /\ boots = 0) =>
        \A s \in Slots : Has(slots, s) => slots[s].set = current[slots[s].device]

\* The remote's power keys have a code when either device has a code that can serve.
PowerServed ==
    (writes = 0 /\ boots = 0) =>
        \A key \in {"on", "off"} :
            Has(slots, Common(key)) <=>
                \E device \in Devices : Has(slots, Own(device, key)) \/ Has(slots, Own(device, "toggle"))

\* A remote that was told to download is told so for a limited time: a timer runs.
EndsDownload == asked => resets > 0

\* The codes a remote can download are those its devices were given last, power keys
\* included (ctrlm_rf4ce_ir_rf_db.cpp).
IrSound == OnlyCurrent /\ PowerServed /\ EndsDownload

\* ctrlm_rf4ce_ir_rf_db.h:45 "clear all IR codes", :74 "store the IR RF Database in the ControlMgr
\* Database": a start reads back no code of a set that was cleared or replaced.
ClearedStayCleared ==
    writes = 0 => \A s \in Slots : Has(irTable, s) => irTable[s].set = current[irTable[s].device]
===============================================================================
