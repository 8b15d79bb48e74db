----------------------------- MODULE VoiceSettings -----------------------------
(***************************************************************************)
(* The settings of voice (ctrlm_voice_obj.cpp, ctrlm_voice_obj_generic.cpp)*)
(* on a device with a microphone of its own that is turned off by privacy. *)
(* Applications set them over the bus, which works in a thread of its own; *)
(* they are loaded when the process starts, overridden once by RFC, and    *)
(* privacy is taken from the router when the power comes on. The router is *)
(* told where to send the voice of each device that is not disabled: the   *)
(* routes are made under a semaphore and handed over after it is released. *)
(***************************************************************************)
EXTENDS Integers, FiniteSets, Functions

CONSTANTS
    VoiceDevices,   \* the devices, "ptt" and "mic" among them
    Urls,           \* the servers
    Configs,        \* what the configuration file says: enable and force
    MaxSets, MaxTurns, MaxBoots   \* bounds: settings; sessions, updates and changes of the router; starts

VARIABLES
    status,     \* device_status: "disabled", "session", "update" and "privacy" of each device
    url,        \* prefs.server_url_*
    saved,      \* the database: status, url and init
    config,     \* what the configuration file says
    force,      \* prefs.force_voice_settings
    stage,      \* how far the start, the answers of RFC or a change of power have come
    router,     \* xrsr: opened, its routes, its privacy, the init message of its endpoints
    routing,    \* per thread: "no", "read" or "give" in voice_sdk_update_routes, and the routes it made
    json,       \* the bus thread is in the JSON form of voice_configure
    power,      \* the power is on
    asked,      \* what was last asked for each device, of what is to be kept
    past,       \* what happened: "loaded", "converted", "stale", "raced", "reopened"
    sets, turns, boots   \* counters of the bounds

settingsVars == <<status, url, saved, config, force, stage, router, routing, json, power, asked, past, sets, turns, boots>>

Threads == {"bus", "sys"}
Closed(private) == [opened |-> FALSE, routes |-> <<>>, private |-> private, init |-> FALSE]
NotRouting == [at |-> "no", routes |-> <<>>]

-----------------------------------------------------------------------------
\* MASK_DB: what the database keeps of a status.
Kept(bits) == bits \cap {"disabled", "privacy"}

\* voice_sdk_update_routes leaves out a device whose status is just "disabled".
Wanted == [d \in {e \in VoiceDevices : status[e] # {"disabled"}} |-> url[d]]

\* voice_device_enable and _disable: the devices among ds that change, and what becomes of the rest.
Changes(ds, on) == {d \in ds : ("disabled" \in status[d]) = on}
Set(ds, on) ==
    LET bits(d) == IF on THEN status[d] \ {"disabled"} ELSE status[d] \cup {"disabled"}
    IN  [d \in VoiceDevices |-> IF d \in ds THEN bits(d) ELSE status[d]]
\* Mutant of Stored: what is stored lacks privacy.
StoredDisable(ds, new) ==
    [saved EXCEPT !.status = [d \in VoiceDevices |-> IF d \in ds THEN new[d] \cap {"disabled"} ELSE @[d]]]
Stored(ds, new) == [saved EXCEPT !.status = [d \in VoiceDevices |-> IF d \in ds THEN Kept(new[d]) ELSE @[d]]]
Asked(ds, new) == [d \in VoiceDevices |-> IF d \in ds THEN Kept(new[d]) ELSE asked[d]]
Begins(t) == routing' = [routing EXCEPT ![t].at = "read"]

\* voice_privacy_enable and _disable always write; only what the bus asks reaches the router.
Privacy(on) ==
    LET new == [status EXCEPT !["mic"] = IF on THEN @ \cup {"privacy"} ELSE @ \ {"privacy"}]
    IN  /\ status' = new
        /\ saved' = IF new = status THEN saved ELSE Stored({"mic"}, new)
        /\ asked' = IF new = status THEN asked ELSE Asked({"mic"}, new)

SettingsInit ==
    /\ config \in Configs
    /\ status = [d \in VoiceDevices |-> {}] /\ asked = status
    /\ url = [d \in VoiceDevices |-> CHOOSE u \in Urls : TRUE]
    /\ saved = [status |-> status, url |-> url, init |-> FALSE]
    /\ force = config.force /\ stage = "load"
    /\ router = Closed(FALSE) /\ routing = [t \in Threads |-> NotRouting] /\ json = FALSE
    /\ power = TRUE /\ past = {} /\ sets = 0 /\ turns = 0 /\ boots = 0

-----------------------------------------------------------------------------
(* The bus. *)
CallsIn == routing["bus"].at = "no" /\ sets < MaxSets /\ sets' = sets + 1 /\ ~force

\* voice_configure, both forms: the devices first, and routes if one of them changed.
ConfigureDevices(ds, on, form) ==
    /\ CallsIn /\ (form = "json" => router.opened)
    /\ LET changed == Changes(ds, on) IN
        /\ status' = Set(changed, on)
        /\ saved' = Stored(changed, Set(changed, on)) /\ asked' = Asked(changed, Set(changed, on))
        /\ IF changed # {} /\ router.opened THEN Begins("bus") ELSE UNCHANGED routing
    /\ json' = (form = "json")
    /\ UNCHANGED <<url, config, force, stage, router, power, past, turns, boots>>

\* Mutant of ConfigureUrl: a new server makes no routes.
ConfigureUrlUnrouted(ds, u, form) ==
    /\ CallsIn /\ (form = "json" => router.opened)
    /\ url' = [d \in VoiceDevices |-> IF d \in ds THEN u ELSE url[d]]
    /\ saved' = [saved EXCEPT !.url = [d \in VoiceDevices |-> IF d \in ds THEN u ELSE @[d]]]
    /\ json' = (form = "json")
    /\ UNCHANGED <<status, config, force, stage, router, routing, power, asked, past, turns, boots>>
\* A server: the JSON form leaves the database until the router has its routes.
ConfigureUrl(ds, u, form) ==
    /\ CallsIn /\ (form = "json" => router.opened)
    /\ url' = [d \in VoiceDevices |-> IF d \in ds THEN u ELSE url[d]]
    /\ saved' = IF form = "json" THEN saved ELSE [saved EXCEPT !.url = [d \in VoiceDevices |-> IF d \in ds THEN u ELSE @[d]]]
    /\ IF router.opened THEN Begins("bus") ELSE UNCHANGED routing
    /\ json' = (form = "json")
    /\ UNCHANGED <<status, config, force, stage, router, power, asked, past, turns, boots>>

\* The microphone is enabled and disabled by privacy; the routes stay.
ConfigureMic(on) ==
    /\ CallsIn /\ router.opened
    /\ Privacy(~on)
    /\ router' = IF status' = status THEN router ELSE [router EXCEPT !.private = ~on]
    /\ UNCHANGED <<url, config, force, stage, routing, json, power, past, turns, boots>>

\* voice_init_set: the open endpoints are told, and the database.
InitSet ==
    /\ routing["bus"].at = "no" /\ router.opened
    /\ router' = [router EXCEPT !.init = TRUE] /\ saved' = [saved EXCEPT !.init = TRUE]
    /\ UNCHANGED <<status, url, config, force, stage, routing, json, power, asked, past, sets, turns, boots>>

\* voice_sdk_update_routes, in each thread: the statuses and servers are read, then the router is told.
ReadRoutes(t) ==
    /\ routing[t].at = "read"
    /\ routing' = [routing EXCEPT ![t] = [at |-> "give", routes |-> Wanted]]
    /\ UNCHANGED <<status, url, saved, config, force, stage, router, json, power, asked, past, sets, turns, boots>>

GiveRoutes(t) ==
    /\ routing[t].at = "give"
    /\ router' = IF router.opened THEN [router EXCEPT !.routes = routing[t].routes] ELSE router
    /\ routing' = [routing EXCEPT ![t] = NotRouting]
    /\ saved' = IF t = "bus" /\ json THEN [saved EXCEPT !.url = url] ELSE saved
    /\ past' = IF routing[t].routes # Wanted THEN past \cup {"stale"} ELSE past \ {"stale"}
    /\ UNCHANGED <<status, url, config, force, stage, json, power, asked, sets, turns, boots>>

-----------------------------------------------------------------------------
(* The start: voice_configure_config_file_json. *)
At(where) == stage = where /\ routing["sys"].at = "no"

\* A status with a bit of the legacy values that is not just "disabled" is taken for a legacy value.
Legacy(bits) == "disabled" \in bits /\ bits # {"disabled"}

\* The database is read unless the configuration file overrides it. Privacy is set, and so written, first.
Load ==
    /\ At("load") /\ stage' = "open"
    /\ LET off == IF config.enable THEN {} ELSE VoiceDevices
           old == [d \in VoiceDevices |-> IF force THEN {} ELSE saved.status[d]]
           converted == {d \in VoiceDevices : Legacy(old[d])}
       IN  /\ status' = [d \in VoiceDevices |->
                            status[d] \cup (old[d] \ (IF d \in converted THEN {"disabled"} ELSE {}))
                            \cup IF d \in off THEN {"disabled"} ELSE {}]
           /\ saved' = [saved EXCEPT !.status = [d \in VoiceDevices |-> IF d \in converted THEN {} ELSE @[d]]]
           /\ past' = (past \cup IF force THEN {} ELSE {"loaded"}) \cup IF converted # {} THEN {"converted"} ELSE {}
    /\ url' = IF force THEN url ELSE saved.url
    /\ UNCHANGED <<config, force, router, routing, json, power, asked, sets, turns, boots>>

\* voice_sdk_open: the router starts with the privacy of the microphone and without routes.
Opened(init) == [opened |-> TRUE, routes |-> <<>>, private |-> "privacy" \in status["mic"], init |-> init]
Open ==
    /\ At("open") /\ stage' = "sync"
    /\ router' = Opened(FALSE) /\ Begins("sys")
    /\ UNCHANGED <<status, url, saved, config, force, json, power, asked, past, sets, turns, boots>>

\* The endpoints are told the init message. Where privacy differs from the router's, it is set to what it is.
Sync ==
    /\ At("sync") /\ stage' = "voice_rfc"
    /\ router' = [router EXCEPT !.init = @ \/ saved.init]
    /\ UNCHANGED <<status, url, saved, config, force, routing, json, power, asked, past, sets, turns, boots>>

\* voice_rfc_retrieved_handler: RFC may force servers and disable every device, or say nothing of it.
VoiceRfc(forced, enabled, u) ==
    /\ At("voice_rfc") /\ stage' = "vsdk_rfc"
    /\ force' = forced
    /\ LET changed == IF forced /\ ~enabled THEN Changes(VoiceDevices, FALSE) ELSE {} IN
        /\ status' = Set(changed, FALSE)
        /\ saved' = Stored(changed, Set(changed, FALSE)) /\ asked' = Asked(changed, Set(changed, FALSE))
    /\ url' = IF forced THEN [d \in VoiceDevices |-> u] ELSE url
    /\ IF forced THEN Begins("sys") ELSE UNCHANGED routing
    /\ UNCHANGED <<config, router, json, power, past, sets, turns, boots>>
VoiceRfcSilent ==
    /\ At("voice_rfc") /\ stage' = "vsdk_rfc"
    /\ UNCHANGED <<status, url, saved, config, force, router, routing, json, power, asked, past, sets, turns, boots>>

\* vsdk_rfc_retrieved_handler: the router is closed and opened again, with endpoints that know no init message.
CloseSdk ==
    /\ At("vsdk_rfc") /\ stage' = "reopen"
    /\ router' = Closed(router.private)
    /\ UNCHANGED <<status, url, saved, config, force, routing, json, power, asked, past, sets, turns, boots>>
Reopen ==
    /\ At("reopen") /\ stage' = "idle"
    /\ router' = Opened(FALSE) /\ Begins("sys") /\ past' = past \cup {"reopened"}
    /\ UNCHANGED <<status, url, saved, config, force, json, power, asked, sets, turns, boots>>
VsdkRfcSilent ==
    /\ At("vsdk_rfc") /\ stage' = "idle"
    /\ UNCHANGED <<status, url, saved, config, force, router, routing, json, power, asked, past, sets, turns, boots>>

-----------------------------------------------------------------------------
(* Power, sessions, updates, and the end of the process. *)

PowerOff ==
    /\ At("idle") /\ power /\ power' = FALSE
    /\ UNCHANGED <<status, url, saved, config, force, stage, router, routing, json, asked, past, sets, turns, boots>>
\* External: the privacy of the router changes while the power is off.
RouterMutes ==
    /\ ~power /\ router.opened /\ turns < MaxTurns /\ turns' = turns + 1
    /\ router' = [router EXCEPT !.private = ~@]
    /\ UNCHANGED <<status, url, saved, config, force, stage, routing, json, power, asked, past, sets, boots>>
\* voice_power_state_change reads the privacy of the router, then compares it and sets its own.
PowerOn ==
    /\ At("idle") /\ ~power /\ power' = TRUE
    /\ stage' = IF router.private THEN "private" ELSE "public"
    /\ UNCHANGED <<status, url, saved, config, force, router, routing, json, asked, past, sets, turns, boots>>
PowerTakes ==
    /\ stage \in {"private", "public"} /\ stage' = "idle"
    /\ Privacy(stage = "private")
    /\ past' = IF router.private # (stage = "private") THEN past \cup {"raced"} ELSE past \ {"raced"}
    /\ UNCHANGED <<url, config, force, router, routing, json, power, sets, turns, boots>>

\* voice_session_set_active and _inactive, voice_device_update_in_progress_set.
Raises(d, bit) ==
    /\ turns < MaxTurns /\ turns' = turns + 1
    /\ bit \notin status[d]
    /\ bit = "session" => router.opened /\ status[d] \cap {"disabled", "update", "privacy"} = {}
    /\ status' = [status EXCEPT ![d] = @ \cup {bit}]
    /\ UNCHANGED <<url, saved, config, force, stage, router, routing, json, power, asked, past, sets, boots>>
Lowers(d, bit) ==
    /\ bit \in status[d] /\ status' = [status EXCEPT ![d] = @ \ {bit}]
    /\ UNCHANGED <<url, saved, config, force, stage, router, routing, json, power, asked, past, sets, turns, boots>>

\* The process ends at any time and starts again: the database stays.
Restarts ==
    /\ boots < MaxBoots /\ boots' = boots + 1
    /\ status' = [d \in VoiceDevices |-> {}] /\ force' = config.force /\ stage' = "load"
    /\ router' = Closed(FALSE) /\ routing' = [t \in Threads |-> NotRouting] /\ json' = FALSE
    /\ power' = TRUE /\ past' = past \ {"loaded", "stale", "raced", "reopened"}
    /\ UNCHANGED <<url, saved, config, asked, sets, turns>>

Forms == {"json", "legacy"}
SettingsNext ==
    \/ \E on \in BOOLEAN, form \in Forms : ConfigureDevices(VoiceDevices, on, form)
    \/ \E on \in BOOLEAN : ConfigureDevices({"ptt"}, on, "json")
    \/ \E d \in VoiceDevices, u \in Urls, form \in Forms : ConfigureUrl({d}, u, form)
    \/ \E on \in BOOLEAN : ConfigureMic(on)
    \/ InitSet
    \/ \E t \in Threads : ReadRoutes(t) \/ GiveRoutes(t)
    \/ Load \/ Open \/ Sync
    \/ \E forced, enabled \in BOOLEAN, u \in Urls : VoiceRfc(forced, enabled, u)
    \/ VoiceRfcSilent \/ CloseSdk \/ Reopen \/ VsdkRfcSilent
    \/ PowerOff \/ RouterMutes \/ PowerOn \/ PowerTakes
    \/ \E d \in VoiceDevices : Raises(d, "session") \/ Lowers(d, "session")
    \/ Raises("ptt", "update") \/ Lowers("ptt", "update")
    \/ Restarts

SettingsSpec == SettingsInit /\ [][SettingsNext]_settingsVars

-----------------------------------------------------------------------------
Loaded == "loaded" \in past /\ config.enable /\ stage # "load"

\* What was last asked of a device is what holds and what the database keeps, through
\* every restart that loads it (ctrlm_voice_obj.h:150) and whoever asked. What is taken for a legacy value is left out.
AskedHolds ==
    Loaded /\ "converted" \notin past => \A d \in VoiceDevices : Kept(status[d]) = asked[d] /\ saved.status[d] = asked[d]

\* When no thread makes routes, every device that is not disabled is routed to its server,
\* unless routes made earlier were handed over later.
EnabledAreRouted ==
    router.opened /\ (\A t \in Threads : routing[t].at = "no") /\ "stale" \notin past =>
        \A d \in VoiceDevices : "disabled" \notin status[d] => d \in DOMAIN router.routes /\ router.routes[d] = url[d]

\* With the power on the microphone is private for the router exactly if it is for the
\* process, unless a setting came between reading the router and following it.
PrivacyAgrees ==
    router.opened /\ power /\ stage \notin {"private", "public"} /\ "raced" \notin past =>
        router.private = ("privacy" \in status["mic"])

\* The endpoints hold the init message that is kept, until the router is opened again.
InitIsTold ==
    router.opened /\ stage \notin {"load", "open", "sync"} /\ "reopened" \notin past => router.init = saved.init

\* The settings reach the database and the router (voice_configure, voice_configure_config_file_json).
SettingsSound == AskedHolds /\ EnabledAreRouted /\ PrivacyAgrees /\ InitIsTold

\* ctrlm_voice_obj.h:150: "values that are stored in the DB (persistent across reboots and
\* application restart)", disabled and privacy both: what was asked holds after a restart.
AskedSurvives == Loaded => \A d \in VoiceDevices : Kept(status[d]) = asked[d]

=============================================================================
