---------------------------- MODULE CrashRecovery ----------------------------
(***************************************************************************)
(* Recovery from crashes before the initialization is done: ctrlm_main.cpp *)
(* and ctrlm_recovery.cpp, with the parts of the RF4CE network that save   *)
(* and restore the memory of the HAL.                                      *)
(* What survives a crash: a shared memory with the count of failed starts  *)
(* and what was found invalid, the memory of the HAL, the database of the  *)
(* control manager, and a backup of both with their times.  A process that *)
(* comes up saves a backup and unlinks the shared memory.                  *)
(***************************************************************************)
EXTENDS Integers

CONSTANTS
    Threshold,    \* crash_recovery_threshold
    Present,      \* NVM_RESTORE: the HAL hands its memory over at its initialization
    MaxData,      \* bound: versions of the data, one for each pairing
    MaxCrashes,   \* bound: crashes that are not caused by the data
    MaxDamage     \* bound: times a store is damaged

ASSUME RecoveryAssumption == Threshold \in Nat \ {0} /\ Present \in BOOLEAN

VARIABLES
    phase,     \* how far the process has come; "down" if none runs
    shared,    \* the shared memory: crash_count, invalid_hal_nvm, invalid_ctrlm_db
    hal, db,   \* the data in the memory of the HAL and in the database
    backup,    \* HAL_NVM_BACKUP and CTRLM_NVM_BACKUP: their data and times
    process,   \* recovery_, nvm_backup_data_ and what ctrlm_crash_recovery_check read
    clock, crashes, damage

recoveryVars == <<phase, shared, hal, db, backup, process, clock, crashes, damage>>

Missing == -2   \* no file
Bad == -1       \* data that the HAL or the database refuses
Empty == 0      \* initialized and without controllers
Versions == {Missing, Bad} \cup 0..MaxData

NewShared == [count |-> 0, badHal |-> FALSE, badDb |-> FALSE]
NewProcess == [mode |-> "none", saved |-> Missing, badHal |-> FALSE, badDb |-> FALSE,
               restored |-> FALSE]

RecoveryInit ==
    /\ phase = "down" /\ shared = NewShared
    /\ hal = 1 /\ db = 1
    /\ backup = [hal |-> Missing, halTime |-> 0, db |-> Missing, dbTime |-> 0]
    /\ process = NewProcess
    /\ clock = 1 /\ crashes = 0 /\ damage = 0

Opened(version) == IF version = Missing THEN Empty ELSE version

-----------------------------------------------------------------------------
\* main: ctrlm_recovery_init opens the shared memory, or creates it and clears it; the
\* check clears what was found invalid and remembers it.
Boot ==
    /\ phase = "down" /\ phase' = "check"
    /\ process' = [NewProcess EXCEPT !.badHal = shared.badHal, !.badDb = shared.badDb]
    /\ shared' = [shared EXCEPT !.badHal = FALSE, !.badDb = FALSE]
    /\ UNCHANGED <<hal, db, backup, clock, crashes, damage>>

\* ctrlm_crash_recovery_check: the backup did not help
Reset ==
    /\ phase = "check" /\ shared.count >= 2 * Threshold
    /\ process.badHal \/ process.badDb
    /\ db' = Missing
    /\ process' = IF process.badHal THEN [process EXCEPT !.mode = "reset"] ELSE process
    /\ shared' = [shared EXCEPT !.count = 0]
    /\ phase' = "open"
    /\ UNCHANGED <<hal, backup, clock, crashes, damage>>

\* ... nothing to do: the stores were found valid, or it is too early
GiveUp ==
    /\ phase = "check" /\ shared.count >= 2 * Threshold
    /\ ~process.badHal /\ ~process.badDb
    /\ phase' = "open"
    /\ UNCHANGED <<shared, hal, db, backup, process, clock, crashes, damage>>

\* Mutant of CountOnly: every start is counted, the one that gives up too.
CountOnlyAlways ==
    /\ phase = "check"
    /\ shared' = [shared EXCEPT !.count = @ + 1]
    /\ phase' = "open"
    /\ UNCHANGED <<hal, db, backup, process, clock, crashes, damage>>

\* ... a start among the first ones is only counted
CountOnly ==
    /\ phase = "check" /\ shared.count < Threshold
    /\ shared' = [shared EXCEPT !.count = @ + 1]
    /\ phase' = "open"
    /\ UNCHANGED <<hal, db, backup, process, clock, crashes, damage>>

InBackupRange == shared.count >= Threshold /\ shared.count < 2 * Threshold

\* Mutant of NoBackup: the start that found no backup is not counted.
NoBackupUncounted ==
    /\ phase = "check" /\ InBackupRange
    /\ backup.hal = Missing \/ backup.db = Missing
    /\ phase' = "open"
    /\ UNCHANGED <<shared, hal, db, backup, process, clock, crashes, damage>>

\* ... a file of the backup has no time, because it does not exist
NoBackup ==
    /\ phase = "check" /\ InBackupRange
    /\ backup.hal = Missing \/ backup.db = Missing
    /\ shared' = [shared EXCEPT !.count = @ + 1]
    /\ phase' = "open"
    /\ UNCHANGED <<hal, db, backup, process, clock, crashes, damage>>

\* ... the files are not of the same time
Inconsistent ==
    /\ phase = "check" /\ InBackupRange
    /\ backup.hal # Missing /\ backup.db # Missing /\ backup.halTime # backup.dbTime
    /\ shared' = [shared EXCEPT !.count = 2 * Threshold]
    /\ phase' = "open"
    /\ UNCHANGED <<hal, db, backup, process, clock, crashes, damage>>

\* ... the database is restored at once, or removed if that fails; the memory of the HAL
\* is restored by its initialization
Restore ==
    /\ phase = "check" /\ InBackupRange
    /\ backup.hal # Missing /\ backup.db # Missing /\ backup.halTime = backup.dbTime
    /\ db' \in {backup.db, Missing}
    /\ process' = [process EXCEPT !.mode = "backup", !.restored = TRUE]
    /\ phase' = "copied"
    /\ UNCHANGED <<shared, hal, backup, clock, crashes, damage>>
CountRestore ==
    /\ phase = "copied" /\ phase' = "open"
    /\ shared' = [shared EXCEPT !.count = @ + 1]
    /\ UNCHANGED <<hal, db, backup, process, clock, crashes, damage>>

\* main: ctrlm_db_init
OpenDatabase ==
    /\ phase = "open"
    /\ IF db = Bad
       THEN /\ shared' = [shared EXCEPT !.badDb = TRUE]
            /\ phase' = "down" /\ UNCHANGED db
       ELSE /\ db' = Opened(db) /\ phase' = "networks" /\ UNCHANGED shared
    /\ UNCHANGED <<hal, backup, process, clock, crashes, damage>>

\* ctrlm_obj_network_rf4ce_t::hal_init_request with the recovery_ it was given,
\* hal_init_confirm and ctrlm_obj_network_t::network_init
InitNetworks ==
    LET memory == CASE process.mode = "reset" -> Empty
                    [] process.mode = "backup" /\ backup.hal # Missing -> backup.hal
                    [] OTHER -> hal
    IN  /\ phase = "networks"
        /\ hal' = memory
        /\ IF memory = Bad
           THEN /\ shared' = [shared EXCEPT !.badHal = TRUE]
                /\ phase' = "down" /\ UNCHANGED process
           ELSE /\ process' = [process EXCEPT !.saved = IF Present THEN memory ELSE Missing]
                /\ phase' = "ready" /\ UNCHANGED shared
        /\ UNCHANGED <<db, backup, clock, crashes, damage>>

\* The clock counts seconds: it may or may not have gone on since a file was written.
Now == {clock, clock + 1}

\* ctrlm_backup_data: the memory of the HAL, as it was at its initialization
BackupHal ==
    /\ phase = "ready" /\ clock' \in Now
    /\ shared' = [shared EXCEPT !.count = 0]
    /\ \/ /\ process.saved # Missing /\ process.saved # backup.hal
          /\ \/ /\ backup' = [backup EXCEPT !.hal = process.saved, !.halTime = clock']
                /\ phase' = "saved"
             \/ backup' = [backup EXCEPT !.hal = Missing] /\ phase' = "done"   \* not written
       \/ /\ process.saved = Missing \/ process.saved = backup.hal
          /\ UNCHANGED backup /\ phase' = "saved"
    /\ UNCHANGED <<hal, db, process, crashes, damage>>

\* ... the database, or neither
BackupDatabase ==
    /\ phase = "saved" /\ clock' \in Now
    /\ \/ backup' = [backup EXCEPT !.db = db, !.dbTime = clock'] /\ phase' = "stamp"
       \/ backup' = [backup EXCEPT !.db = Missing, !.hal = Missing] /\ phase' = "done"
    /\ UNCHANGED <<shared, hal, db, process, crashes, damage>>

\* ... and the time of both; without the file of the HAL that fails and removes the other
Stamp ==
    /\ phase = "stamp" /\ phase' = "done" /\ clock' \in Now
    /\ \/ /\ backup.hal # Missing
          /\ backup' = [backup EXCEPT !.halTime = clock', !.dbTime = clock']
       \/ backup' = [backup EXCEPT !.db = Missing, !.hal = Missing]
    /\ UNCHANGED <<shared, hal, db, process, crashes, damage>>

\* main: ctrlm_recovery_terminate(TRUE) unlinks the shared memory
ComeUp ==
    /\ phase = "done" /\ phase' = "up"
    /\ shared' = NewShared
    /\ UNCHANGED <<hal, db, backup, process, clock, crashes, damage>>

-----------------------------------------------------------------------------
(* What happens to the process.                                            *)

\* A pairing changes the memory of the HAL, and the database some time later.
Pair ==
    /\ phase \in {"ready", "saved", "stamp", "done", "up"} /\ hal = db /\ hal < MaxData
    /\ hal' = hal + 1
    /\ UNCHANGED <<phase, shared, db, backup, process, clock, crashes, damage>>
WriteDatabase ==
    /\ phase \in {"ready", "saved", "stamp", "done", "up"} /\ db < hal
    /\ db' = hal
    /\ UNCHANGED <<phase, shared, hal, backup, process, clock, crashes, damage>>

Crash ==
    /\ phase # "down" /\ crashes < MaxCrashes
    /\ crashes' = crashes + 1 /\ phase' = "down"
    /\ UNCHANGED <<shared, hal, db, backup, process, clock, damage>>

\* A store is damaged while nothing runs: the restart is the environment's.
Damage ==
    /\ phase = "down" /\ damage < MaxDamage
    /\ damage' = damage + 1
    /\ \/ hal' = Bad /\ UNCHANGED <<db, backup>>
       \/ db' = Bad /\ UNCHANGED <<hal, backup>>
       \/ backup.db # Missing /\ backup' = [backup EXCEPT !.db = Bad] /\ UNCHANGED <<hal, db>>
    /\ UNCHANGED <<phase, shared, process, clock, crashes>>

Recover ==
    \/ Boot \/ Reset \/ GiveUp \/ CountOnly \/ NoBackup \/ Inconsistent \/ Restore
    \/ CountRestore \/ OpenDatabase \/ InitNetworks \/ BackupHal \/ BackupDatabase
    \/ Stamp \/ ComeUp

RecoveryNext == Recover \/ Pair \/ WriteDatabase \/ Crash \/ Damage

\* The service manager starts the process again, and the process goes on.
RecoveryFairness == WF_recoveryVars(Recover)
RecoverySpec == RecoveryInit /\ [][RecoveryNext]_recoveryVars /\ RecoveryFairness

-----------------------------------------------------------------------------
\* Whatever is damaged, and however often the process crashes on its way, after enough
\* starts it comes up: by its backup, or without its data.
ComesUp == []<>(phase = "up")

\* A count that reached twice the threshold is only reset by a start that succeeds or by
\* removing data: the count of a crash loop is bounded.
CountBounded == shared.count \in 0..(2 * Threshold)
=============================================================================
