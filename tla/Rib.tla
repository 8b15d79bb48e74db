--------------------------------- MODULE Rib ----------------------------------
(***************************************************************************)
(* The attributes of an RF4CE remote (its "RIB": versions, statistics,     *)
(* names, settings), which the remote writes over the air, the box over    *)
(* the bus, and an import at start. The value in memory has a copy in the  *)
(* database, written by a thread of its own, and one at the HAL, which a   *)
(* box gets that takes the remote over. The attributes differ in who may   *)
(* write them, in when a write goes to the database and under which name.  *)
(* A behaviour follows one attribute, or two that meet in the database.    *)
(***************************************************************************)
EXTENDS Integers, FiniteSets, Sequences

CONSTANTS
    RibValues,      \* the values of an attribute; 0 is the one it has before any write
    MaxJobs,        \* bound: jobs that wait for the database thread
    MaxSets,        \* bound: writes of the attributes
    MaxStarts       \* bound: restarts of the program

-----------------------------------------------------------------------------
(* The attributes. column: the name it is written under; reads: the name   *)
(* it is read back under. how: "held" is written by ctrlm_db_attr_write,   *)
(* which queues the attribute itself; "guarded" by value, and only while   *)
(* the remote is valid and not being loaded; "memory" is not kept.         *)
(* kept: db_store writes it at the validation. exports: export_rib hands   *)
(* it to the HAL. whileImported: it is also written during an import.      *)

Held(column) ==
    [column |-> column, reads |-> column, how |-> "held", kept |-> TRUE, exports |-> FALSE,
     by |-> {"remote"}, whileImported |-> FALSE]
Guarded(column, by) ==
    [Held(column) EXCEPT !.how = "guarded", !.by = by]
InMemory(name, by) ==
    [Held(name) EXCEPT !.how = "memory", !.by = by, !.kept = FALSE]

\* The versions; those of the voice chip are not exported.
SoftwareVersion == [Held("version_software") EXCEPT !.exports = TRUE]
DspVersion == Held("version_dsp")
HardwareVersion == [Held("version_hardware") EXCEPT !.exports = TRUE]
BuildId == Held("version_build_id")
ProductName == [Held("product_name") EXCEPT !.exports = TRUE]

\* to_buffer answers TRUE where export_rib waits for SUCCESS, which is 0: not exported.
BatteryStatus == Held("battery_status")
AudioProfiles == Held("audio_profiles")

\* Written under the name of the audio profiles.
VoiceStatistics == [Held("audio_profiles") EXCEPT !.reads = "voice_statistics"]

\* These two are queued during an import too.
IrdbStatus == [Held("controller_irdb_status") EXCEPT !.whileImported = TRUE]
Capabilities == [Held("controller_capabilities") EXCEPT !.whileImported = TRUE]

\* Each part of the program writes its statistics by value.
FirmwareUpdated == Guarded("firmware_updated", {"box"})
RebootDiagnostics == Guarded("reboot_diagnostics", {"remote", "box"})
MemoryStatistics == Guarded("memory_statistics", {"remote", "box"})
LastCheckin == Guarded("time_last_checkin_for_device_update", {"box"})
MfgTestResult == Guarded("mfg_test_result", {"remote"})
PollingMethods == Guarded("polling_methods", {"box"})
HeartbeatPolling == Guarded("polling_configuration_heartbeat", {"box"})
MacPolling == Guarded("polling_configuration_mac", {"box"})
Privacy == Guarded("privacy", {"remote", "box"})
FarFieldMetrics == Guarded("far_field_metrics", {"remote", "box"})
DspMetrics == Guarded("dsp_metrics", {"remote", "box"})
UptimePrivacy == Guarded("uptime_privacy_info", {"box"})

\* Kept for the run of the program only.
IrRfStatus == InMemory("ir_rf_database_status", {"box"})
CommandStatus == InMemory("voice_command_status", {"box"})
CommandLength == InMemory("voice_command_length", {"box"})
DownloadRate == InMemory("download_rate", {"box"})

\* The attributes all remotes of the network share; the remotes' own copies are not built.
Utterance == InMemory("maximum_utterance_length", {"box"})
Encryption == InMemory("voice_command_encryption", {"box"})
DataRetry == InMemory("max_voice_data_retry", {"box"})
CsmaBackoff == InMemory("max_voice_csma_backoff", {"box"})
DataBackoff == InMemory("min_voice_data_backoff", {"box"})
CheckInterval == InMemory("rib_update_check_interval", {"box"})
NetworkWide == {Utterance, DataRetry, CsmaBackoff, DataBackoff, CheckInterval}

Followed ==
    {{a} : a \in NetworkWide \cup
        {SoftwareVersion, DspVersion, HardwareVersion, BuildId, ProductName, BatteryStatus,
         IrdbStatus, Capabilities, FirmwareUpdated, RebootDiagnostics, MemoryStatistics,
         LastCheckin, MfgTestResult, PollingMethods, HeartbeatPolling, MacPolling, Privacy,
         FarFieldMetrics, DspMetrics, UptimePrivacy, IrRfStatus, CommandStatus, CommandLength,
         DownloadRate, Encryption}}
    \cup {{AudioProfiles, VoiceStatistics}}

VARIABLES
    attrs,      \* the attributes this behaviour follows
    value,      \* their values in memory
    entry,      \* the table of the remote: "none", or what each name has
    jobs,       \* what waits for the database thread
    exported,   \* the values the HAL has
    result,     \* validation_result_, "none" before the remote is paired
    imports,    \* is_import_
    told,       \* rib_entries_updated_
    unread,     \* an attribute the remote was told of has changed since it last asked
    setCount,   \* writes so far
    starts      \* restarts so far

ribVars == <<attrs, value, entry, jobs, exported, result, imports, told, unread, setCount, starts>>

Columns == {a.column : a \in attrs} \cup {a.reads : a \in attrs}
NoTable == [there |-> FALSE]

RibInit ==
    /\ attrs \in Followed
    /\ value = [a \in attrs |-> 0] /\ exported = value
    /\ entry = NoTable /\ jobs = <<>> /\ result = "none" /\ imports = FALSE
    /\ told = TRUE /\ unread = TRUE /\ setCount = 0 /\ starts = 0

Job(op, a, v) == [op |-> op, attr |-> a, value |-> v]

-----------------------------------------------------------------------------
(* Writes (rf4ce_rib_set).                                                 *)

\* Mutant of Queued: the guarded ones ask for a validation that has begun.
QueuedEarly(a, v) ==
    CASE a.how = "held" /\ (~imports \/ a.whileImported) -> <<Job("attr", a, 0)>>
      [] a.how = "guarded" /\ result \in {"pending"} -> <<Job("put", a, v)>>
      [] OTHER -> <<>>
\* What a write that changed a queues.
Queued(a, v) ==
    CASE a.how = "held" /\ (~imports \/ a.whileImported) -> <<Job("attr", a, 0)>>
      [] a.how = "guarded" /\ result = "success" -> <<Job("put", a, v)>>
      [] OTHER -> <<>>

\* write_attribute: an export follows every write that was accepted but those of an import, whose
\* values are the HAL's already.
Set(a, v) ==
    /\ result # "none" /\ setCount < MaxSets /\ Len(jobs) < MaxJobs
    /\ setCount' = setCount + 1
    /\ value' = [value EXCEPT ![a] = v]
    /\ jobs' = IF v = value[a] THEN jobs ELSE jobs \o Queued(a, v)
    /\ exported' = IF a.exports THEN [exported EXCEPT ![a] = v] ELSE exported
    /\ UNCHANGED <<attrs, entry, result, imports, unread, starts>>

RemoteSets(a, v) == "remote" \in a.by /\ ~imports /\ Set(a, v) /\ UNCHANGED told

\* A change of the length of a voice command is told to the remote.
BoxSets(a, v) ==
    /\ "box" \in a.by /\ a \notin NetworkWide /\ ~imports
    /\ Set(a, v)
    /\ told' = (told \/ (a = CommandLength /\ v # value[a]))

\* An import writes with the rights of the remote.
ImportSets(a, v) == imports /\ "remote" \in a.by /\ Set(a, v) /\ UNCHANGED told

\* req_process_rib_set for all remotes: every remote is told of a change.
NetworkSets(a, v) ==
    /\ a \in NetworkWide /\ setCount < MaxSets /\ setCount' = setCount + 1
    /\ value' = [value EXCEPT ![a] = v]
    /\ told' = (told \/ v # value[a]) /\ unread' = (unread \/ v # value[a])
    /\ UNCHANGED <<attrs, entry, jobs, exported, result, imports, starts>>

\* A read of the flag clears it; a remote that reads TRUE reads the attributes again.
RemoteAsks ==
    /\ result # "none" /\ told' = FALSE /\ unread' = (unread /\ ~told)
    /\ UNCHANGED <<attrs, value, entry, jobs, exported, result, imports, setCount, starts>>
BoxAsks ==
    /\ result # "none" /\ told' = FALSE
    /\ UNCHANGED <<attrs, value, entry, jobs, exported, result, imports, unread, setCount, starts>>

-----------------------------------------------------------------------------
(* The life of the remote.                                                 *)

\* A pairing makes the controller; an import makes it while the HAL's data is read.
Paired(byImport) ==
    /\ result = "none" /\ result' = "pending" /\ imports' = byImport
    /\ UNCHANGED <<attrs, value, entry, jobs, exported, told, unread, setCount, starts>>

\* db_store, in its order, without those that are not kept: the held ones first, the rest by value.
\* The time since the remote was validated is counted from here.
Order == IF VoiceStatistics \in attrs THEN <<AudioProfiles, VoiceStatistics>>
         ELSE IF \E a \in attrs : a.kept THEN <<CHOOSE a \in attrs : TRUE>> ELSE <<>>
AtValidation(a) == IF a = UptimePrivacy THEN 0 ELSE value[a]
KeptJobs ==
    LET Of(a) == Job(IF a.how = "held" THEN "attr" ELSE "put", a, AtValidation(a)) IN
    [i \in 1 .. Len(Order) |-> Of(Order[i])]

\* Mutant of StoreJobs: the table is made and filled by the writes that follow.
StoreJobsLater == <<Job("create", CHOOSE a \in attrs : TRUE, 0)>>
\* validation_result_set: the table is made and everything is stored.
StoreJobs == <<Job("create", CHOOSE a \in attrs : TRUE, 0)>> \o KeptJobs
Validated ==
    /\ result = "pending" /\ result' = "success"
    /\ jobs' = jobs \o StoreJobs
    /\ value' = [a \in attrs |-> AtValidation(a)]
    /\ exported' = [a \in attrs |-> IF a.exports THEN value[a] ELSE exported[a]]
    /\ imports' = FALSE
    /\ UNCHANGED <<attrs, entry, told, unread, setCount, starts>>

\* The database thread: a held attribute is read when its turn comes; a write without a table
\* fails. A table that is there already is kept.
DatabaseRuns ==
    /\ jobs # <<>> /\ jobs' = Tail(jobs)
    /\ LET j == Head(jobs)
           v == IF j.op = "attr" THEN value[j.attr] ELSE j.value IN
       entry' = IF j.op = "create"
                THEN IF entry.there THEN entry
                     ELSE [there |-> TRUE, of |-> [c \in Columns |-> <<>>]]
                ELSE IF entry.there
                     THEN [entry EXCEPT !.of[j.attr.column] = <<j.attr.reads, v>>]
                     ELSE entry
    /\ UNCHANGED <<attrs, value, exported, result, imports, told, unread, setCount, starts>>

\* db_load: what an attribute reads back; a value of another attribute has the wrong length.
Loaded(a) ==
    LET e == IF entry.there THEN entry.of[a.reads] ELSE <<>> IN
    IF a.how = "memory" \/ e = <<>> \/ (e # <<>> /\ e[1] # a.reads) THEN 0 ELSE e[2]

\* The program ends, by a crash or not, and starts again: the jobs that wait are lost, a
\* remote without a table is forgotten.
Restart ==
    /\ starts < MaxStarts /\ starts' = starts + 1
    /\ jobs' = <<>> /\ imports' = FALSE
    /\ result' = IF entry.there THEN "success" ELSE "none"
    /\ value' = [a \in attrs |-> Loaded(a)]
    /\ told' = TRUE /\ unread' = TRUE
    /\ UNCHANGED <<attrs, entry, exported, setCount>>

RibNext ==
    \/ \E a \in attrs, v \in RibValues :
        RemoteSets(a, v) \/ BoxSets(a, v) \/ ImportSets(a, v) \/ NetworkSets(a, v)
    \/ RemoteAsks
    \/ BoxAsks
    \/ \E byImport \in BOOLEAN : Paired(byImport)
    \/ Validated
    \/ DatabaseRuns
    \/ Restart

RibSpec == RibInit /\ [][RibNext]_ribVars

-----------------------------------------------------------------------------

\* What a start would read back.
Survives(a) ==
    (a.how # "memory" /\ result = "success" /\ jobs = <<>>) => Loaded(a) = value[a]

\* Once the database thread has caught up, an attribute of a valid remote that has a name of its
\* own reads back what memory has: nothing written before, during or after the validation is
\* lost, whatever came between (validation_result_set, write_rib, ctrlm_db_attr_write).
CaughtUp ==
    \A a \in attrs : (\A b \in attrs \ {a} : b.column # a.column) => Survives(a)

\* Until the program ends, the HAL has the value of every attribute it is handed: the box that
\* takes the remote over reads what this one has.
HalHasIt == starts = 0 => \A a \in attrs : a.exports => exported[a] = value[a]

\* What the database and the HAL keep of an attribute is the value it has, or is on its
\* way (ctrlm_rf4ce_controller.cpp and its attributes).
RibSound == CaughtUp /\ HalHasIt

\* ctrlm_rf4ce_controller_attr_voice.cpp:220 says "written to database" of each attribute: every
\* attribute that is written is there for the next start.
WrittenIsKept == \A a \in attrs : Survives(a)

\* ctrlm_rf4ce_controller_attr_general.h:190: the flag tells the remote that entries have
\* changed; it is up while the remote has not asked since.
RemoteIsTold == unread => told
===============================================================================
