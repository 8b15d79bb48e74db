------------------------------- MODULE MCRf4ce -------------------------------
(***************************************************************************)
(* The components of the RF4CE network besides pairing and voice, for TLC: *)
(* the release of keys, discovery, the controllers the HAL and the         *)
(* database know, the find my remote command, the attributes of a remote,  *)
(* its batteries, its IR codes and its polling. They share no state, so    *)
(* that one run checks them side by side: each behaviour is one of one     *)
(* component.                                                              *)
(***************************************************************************)
EXTENDS KeyRelease, Discovery, ControllerSync, FindRemote, Rib, Battery, IrCodes, Polling

VARIABLE part     \* the component that runs

\* The milestones of one table.
XrLevels == <<177, 163, 150, 140, 136>>
\* Sets of codes with discrete, toggle and shared keys, and two slots written by number.
SomeKeySets ==
    {{}, {"on"}, {"toggle"}, {"off", "volume"}, {"toggle", "volume", "input"}}
SomeSlots == {<<"any", "on">>, <<"tv", "toggle">>}
\* What TR-181 and RFC may say of polling, and what the code says.
Silent == [target |-> Nothing, methods |-> Nothing, every |-> Nothing]
PollSources == {Silent, [target |-> {"hb"}, methods |-> {"hb", "mac"}, every |-> 2]}
CodedConf == [target |-> {"hb", "mac"}, methods |-> {"hb"}, every |-> 1]

vars == <<part, keyVars, discoveryVars, syncVars, findVars, ribVars, batteryVars, irVars,
          pollVars>>

\* One component runs; the others rest in one of their first states.
Init ==
    /\ part \in {"keys", "discovery", "sync", "find", "rib", "battery", "codes", "polling"}
    /\ KeyInit /\ DiscoveryInit /\ SyncInit /\ FindInit /\ RibInit /\ BatteryInit /\ IrInit
    /\ PollInit
    /\ part # "keys" => valid
    /\ part # "find" => paired = <<"r1", "r2", "r3">>
    /\ part # "rib" => attrs = {Utterance}
    /\ part # "battery" => stage = "pending"
    /\ part # "codes" => ~xr19
    /\ part # "polling" => conf = Configured(Silent, Silent)

Next ==
    \/ /\ part = "keys" /\ KeyNext
       /\ UNCHANGED <<part, discoveryVars, syncVars, findVars, ribVars, batteryVars, irVars,
                      pollVars>>
    \/ /\ part = "discovery" /\ DiscoveryNext
       /\ UNCHANGED <<part, keyVars, syncVars, findVars, ribVars, batteryVars, irVars, pollVars>>
    \/ /\ part = "sync" /\ SyncNext
       /\ UNCHANGED <<part, keyVars, discoveryVars, findVars, ribVars, batteryVars, irVars,
                      pollVars>>
    \/ /\ part = "find" /\ FindNext
       /\ UNCHANGED <<part, keyVars, discoveryVars, syncVars, ribVars, batteryVars, irVars,
                      pollVars>>
    \/ /\ part = "rib" /\ RibNext
       /\ UNCHANGED <<part, keyVars, discoveryVars, syncVars, findVars, batteryVars, irVars,
                      pollVars>>
    \/ /\ part = "battery" /\ BatteryNext
       /\ UNCHANGED <<part, keyVars, discoveryVars, syncVars, findVars, ribVars, irVars, pollVars>>
    \/ /\ part = "codes" /\ IrNext
       /\ UNCHANGED <<part, keyVars, discoveryVars, syncVars, findVars, ribVars, batteryVars,
                      pollVars>>
    \/ /\ part = "polling" /\ PollNext
       /\ UNCHANGED <<part, keyVars, discoveryVars, syncVars, findVars, ribVars, batteryVars,
                      irVars>>

Spec == Init /\ [][Next]_vars
=============================================================================
