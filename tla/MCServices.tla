------------------------------ MODULE MCServices ------------------------------
(***************************************************************************)
(* The components of the control manager that work beside the RF4CE radio, *)
(* for TLC: the pairing window, the main queue, the monitor of the         *)
(* threads, the database, the usage of keys, BLE and the voice settings.   *)
(* They share no state, so that one run checks them side by side: each     *)
(* behaviour is one of one component.                                      *)
(***************************************************************************)
EXTENDS PairingWindow, MainQueue, MainLoop, Database, KeyUsage, BleUpgrade, BleLink,
        VoiceSettings, TLC

VARIABLE part     \* the component that runs

\* The threads of the bus are alike.
Alike == Permutations(Callers)

\* The file of the configuration enables voice.
EnabledConfigs == {[enable |-> TRUE, force |-> FALSE]}

vars == <<part, windowVars, queueVars, loopVars, dbVars, usageVars, upgradeVars, linkVars,
          settingsVars>>

\* One component runs; the others rest in their first state.
Init ==
    /\ part \in {"window", "queue", "loop", "database", "usage", "upgrade", "link", "voice"}
    /\ WindowInit /\ QueueInit /\ LoopInit /\ DbInit /\ UsageInit /\ UpgradeInit /\ LinkInit
    /\ SettingsInit
    /\ part # "loop" => ~auth.ready

Next ==
    \/ /\ part = "window" /\ WindowNext
       /\ UNCHANGED <<part, queueVars, loopVars, dbVars, usageVars, upgradeVars, linkVars,
                      settingsVars>>
    \/ /\ part = "queue" /\ QueueNext
       /\ UNCHANGED <<part, windowVars, loopVars, dbVars, usageVars, upgradeVars, linkVars,
                      settingsVars>>
    \/ /\ part = "loop" /\ LoopNext
       /\ UNCHANGED <<part, windowVars, queueVars, dbVars, usageVars, upgradeVars, linkVars,
                      settingsVars>>
    \/ /\ part = "database" /\ DbNext
       /\ UNCHANGED <<part, windowVars, queueVars, loopVars, usageVars, upgradeVars, linkVars,
                      settingsVars>>
    \/ /\ part = "usage" /\ UsageNext
       /\ UNCHANGED <<part, windowVars, queueVars, loopVars, dbVars, upgradeVars, linkVars,
                      settingsVars>>
    \/ /\ part = "upgrade" /\ UpgradeNext
       /\ UNCHANGED <<part, windowVars, queueVars, loopVars, dbVars, usageVars, linkVars,
                      settingsVars>>
    \/ /\ part = "link" /\ LinkNext
       /\ UNCHANGED <<part, windowVars, queueVars, loopVars, dbVars, usageVars, upgradeVars,
                      settingsVars>>
    \/ /\ part = "voice" /\ SettingsNext
       /\ UNCHANGED <<part, windowVars, queueVars, loopVars, dbVars, usageVars, upgradeVars,
                      linkVars>>

Spec == Init /\ [][Next]_vars
=============================================================================
