------------------------------- MODULE BleLink -------------------------------
(***************************************************************************)
(* ble/ctrlm_hal_ble.cpp and ble/ctrlm_ble_network.cpp: the remotes as the *)
(* daemon, the HAL and the network know them. The GLib thread takes the    *)
(* signals of the daemon, changes the HAL's metadata and posts to the main *)
(* thread; the key thread opens the input devices of the remotes that the  *)
(* metadata names and reads their keys from a copy of it, and waits for    *)
(* the main thread to begin and to end a voice session.                    *)
(***************************************************************************)
EXTENDS Integers, FiniteSets, Sequences

CONSTANTS
    BleRemotes,        \* remotes
    MaxLine,        \* bound: messages in the queue of the main thread
    MaxSignals,     \* bound: signals of the daemon on their way
    MaxChanges,     \* bound: remotes added, removed and connected
    MaxIrs,         \* bound: infrared codes programmed
    MaxDowns        \* bound: restarts of the program

VARIABLES
    devs,       \* the daemon's devices
    signals,    \* signals of the daemon to the GLib thread
    meta,       \* rcu_metadata: "none", or the state of input_device_fd
    open,       \* the input devices that are open: how often each is
    keys,       \* the key thread: where it is, its copy of the metadata, what it read last
    linkKnown,      \* controllers_, as its table in the database
    network,    \* of the network: ir_state_, unpair_on_remote_request_
    irCalls,    \* calls of the daemon to program infrared codes that have not ended
    line,       \* messages to the main thread
    stream,     \* remotes whose audio the daemon streams
    apart,      \* remotes where the controllers and the devices may differ: lost (removed
                \* while nobody listened), missed (could not be added); deaf (not reached
                \* when their stream was to end)
    spent       \* what the environment did

linkVars == <<devs, signals, meta, open, keys, linkKnown, network, irCalls, line, stream, apart, spent>>

NoKeys == [pc |-> "find", copy |-> {}, pressed |-> {}]

LinkInit ==
    /\ devs = {} /\ signals = <<>>
    /\ meta = [r \in BleRemotes |-> "none"] /\ open = [r \in BleRemotes |-> 0]
    /\ keys = NoKeys
    /\ linkKnown = {} /\ network = [ir |-> "idle", unpairs |-> TRUE] /\ irCalls = 0
    /\ line = <<>> /\ stream = {}
    /\ apart = [lost |-> {}, missed |-> {}, deaf |-> {}]
    /\ spent = [changes |-> 0, irs |-> 0, downs |-> 0]

Note(kind, r) == [kind |-> kind, r |-> r]
PushLine(kind, r) == Len(line) < MaxLine /\ line' = Append(line, Note(kind, r))
Brings(kind) == line # <<>> /\ Head(line).kind = kind
Whose == Head(line).r

-----------------------------------------------------------------------------
(* The daemon (external).                                                  *)

Signalled(kind, r) ==
    /\ spent.changes < MaxChanges /\ spent' = [spent EXCEPT !.changes = @ + 1]
    /\ Len(signals) < MaxSignals /\ signals' = Append(signals, Note(kind, r))
    /\ UNCHANGED <<meta, open, keys, linkKnown, network, irCalls, line, apart>>
DeviceAdded(r) == r \notin devs /\ devs' = devs \cup {r} /\ Signalled("added", r) /\ UNCHANGED stream
DeviceRemoved(r) == r \in devs /\ devs' = devs \ {r} /\ Signalled("removed", r) /\ stream' = stream \ {r}
DeviceConnected(r) == r \in devs /\ Signalled("connected", r) /\ UNCHANGED <<devs, stream>>
\* The remote tells that it unpaired itself.
DeviceUnpairs(r) == r \in devs /\ Signalled("unpairs", r) /\ UNCHANGED <<devs, stream>>

-----------------------------------------------------------------------------
(* The GLib thread.                                                        *)

Hears(kind) == signals # <<>> /\ Head(signals).kind = kind /\ signals' = Tail(signals)
Named == Head(signals).r

InputClosed(r) == IF meta[r] = "open" THEN [open EXCEPT ![r] = @ - 1] ELSE open

\* ctrlm_hal_ble_HandleAddedDevice: a device that is known is removed first; its proxies
\* may not be had.
AddedSignal == \E proxies \in BOOLEAN :
    LET r == Named IN
    /\ Hears("added")
    /\ open' = InputClosed(r)
    /\ meta' = [meta EXCEPT ![r] = IF proxies THEN "closed" ELSE "none"]
    /\ IF proxies THEN PushLine("paired", r) ELSE UNCHANGED line
    /\ apart' = [apart EXCEPT !.missed = IF proxies THEN @ \ {r} ELSE @ \cup {r}]
    /\ UNCHANGED <<devs, keys, linkKnown, network, irCalls, stream, spent>>
RemovedSignal ==
    LET r == Named IN
    /\ Hears("removed")
    /\ open' = InputClosed(r) /\ meta' = [meta EXCEPT ![r] = "none"]
    /\ PushLine("unpaired", r)
    /\ UNCHANGED <<devs, keys, linkKnown, network, irCalls, stream, apart, spent>>

\* Mutant of PropertyChanged: the descriptor is forgotten without being closed.
PropertyChangedLeaks ==
    LET r == Named IN
    /\ Hears("connected") \/ Hears("unpairs")
    /\ UNCHANGED open
    /\ meta' = IF meta[r] = "open" THEN [meta EXCEPT ![r] = "closed"] ELSE meta
    /\ PushLine(Head(signals).kind, r)
    /\ UNCHANGED <<devs, keys, linkKnown, network, irCalls, stream, apart, spent>>
\* ctrlm_hal_ble_DBusOnPropertyChangedCB: of a remote that connects again the input
\* device is closed, for the key thread to open the new one.
PropertyChanged ==
    LET r == Named  closes == Head(signals).kind = "connected" /\ meta[r] = "open" IN
    /\ Hears("connected") \/ Hears("unpairs")
    /\ open' = IF closes THEN InputClosed(r) ELSE open
    /\ meta' = IF closes THEN [meta EXCEPT ![r] = "closed"] ELSE meta
    /\ PushLine(Head(signals).kind, r)
    /\ UNCHANGED <<devs, keys, linkKnown, network, irCalls, stream, apart, spent>>

\* ctrlm_hal_ble_IR_ResultCB
IrResult == \E state \in {"complete", "failed"} :
    /\ irCalls > 0 /\ irCalls' = irCalls - 1
    /\ PushLine(state, "any")
    /\ UNCHANGED <<devs, signals, meta, open, keys, linkKnown, network, stream, apart, spent>>

-----------------------------------------------------------------------------
(* The key thread.                                                         *)

\* keyMonitorThread_FindRcuInputDevices: what can be opened is opened, and the metadata
\* is copied.
FindInputs == \E found \in SUBSET {r \in BleRemotes : meta[r] = "closed" /\ r \in devs} :
    /\ keys.pc = "find"
    /\ meta' = [r \in BleRemotes |-> IF r \in found THEN "open" ELSE meta[r]]
    /\ open' = [r \in BleRemotes |-> IF r \in found THEN open[r] + 1 ELSE open[r]]
    /\ keys' = [keys EXCEPT !.pc = "read", !.copy = {r \in BleRemotes : meta'[r] = "open"}]
    /\ UNCHANGED <<devs, signals, linkKnown, network, irCalls, line, stream, apart, spent>>

\* Of the devices in the copy one is read; one that was closed since gives nothing.
KeyRead == \E r \in keys.copy, event \in {"voice", "key", "nothing"} :
    /\ keys.pc = "read"
    /\ event # "nothing" => meta[r] = "open"
    /\ IF event = "voice"
       THEN /\ PushLine(IF r \in keys.pressed THEN "voice_end" ELSE "voice_begin", r)
            /\ keys' = [keys EXCEPT !.pc = "waits", !.copy = @ \ {r},
                                    !.pressed = IF r \in @ THEN @ \ {r} ELSE @ \cup {r}]
       ELSE /\ keys' = [keys EXCEPT !.copy = @ \ {r}]
            /\ IF event = "key" THEN PushLine("key", r) ELSE UNCHANGED line
    /\ UNCHANGED <<devs, signals, meta, open, linkKnown, network, irCalls, stream, apart, spent>>
KeyRound ==
    /\ keys.pc = "read" /\ keys' = [keys EXCEPT !.pc = "find", !.copy = {}]
    /\ UNCHANGED <<devs, signals, meta, open, linkKnown, network, irCalls, line, stream, apart, spent>>

-----------------------------------------------------------------------------
(* The main thread.                                                        *)

\* ctrlm_hal_ble_dbusSendMethodCall on the proxy of a remote
Reaches(r) == meta[r] # "none" /\ r \in devs

\* ind_process_paired, controller_add: the controllers that the daemon does not know are
\* removed, if the daemon tells its devices.
LinkPaired == \E told \in BOOLEAN :
    /\ Brings("paired") /\ line' = Tail(line)
    /\ linkKnown' = IF told THEN (linkKnown \cup {Whose}) \cap devs ELSE linkKnown \cup {Whose}
    /\ apart' = [apart EXCEPT !.lost = IF told THEN {} ELSE @]
    /\ UNCHANGED <<devs, signals, meta, open, keys, network, irCalls, stream, spent>>

\* Mutant of LinkUnpaired: a remote whose voice key is pressed is kept.
UnpairedKeeps ==
    /\ Brings("unpaired") /\ line' = Tail(line)
    /\ linkKnown' = linkKnown \ ({Whose} \ keys.pressed)
    /\ UNCHANGED <<devs, signals, meta, open, keys, network, irCalls, stream, apart, spent>>
LinkUnpaired ==
    /\ Brings("unpaired") /\ line' = Tail(line) /\ linkKnown' = linkKnown \ {Whose}
    /\ UNCHANGED <<devs, signals, meta, open, keys, network, irCalls, stream, apart, spent>>

\* ind_process_rcu_status, of an infrared call and of a remote that unpaired itself: the
\* daemon is asked to unpair it too.
IrStatus ==
    /\ Brings("waiting") \/ Brings("complete") \/ Brings("failed")
    /\ network' = [network EXCEPT !.ir = Head(line).kind]
    /\ line' = Tail(line)
    /\ UNCHANGED <<devs, signals, meta, open, keys, linkKnown, irCalls, stream, apart, spent>>
Unpair(r) ==
    IF r \in devs /\ Len(signals) < MaxSignals
    THEN devs' = devs \ {r} /\ stream' = stream \ {r} /\ signals' = Append(signals, Note("removed", r))
    ELSE UNCHANGED <<devs, stream, signals>>
RcuStatus ==
    /\ Brings("connected") \/ Brings("unpairs") \/ Brings("key")
    /\ line' = Tail(line)
    /\ IF Brings("unpairs") /\ Whose \in linkKnown /\ network.unpairs /\ Reaches(Whose) THEN Unpair(Whose)
       ELSE UNCHANGED <<devs, stream, signals>>
    /\ UNCHANGED <<meta, open, keys, linkKnown, network, irCalls, apart, spent>>

\* ctrlm_hal_ble_req_StartAudioStream, and _StopAudioStream
StartAudioStream(r) == IF Reaches(r) THEN stream \cup {r} ELSE stream
StopAudioStream(r) == IF Reaches(r) THEN stream \ {r} ELSE stream

\* req_process_voice_session_begin and _end: the session may be refused, the stream may
\* not start, and then it is stopped; the key thread goes on.
VoiceBegin == \E streams \in BOOLEAN :
    /\ Brings("voice_begin") /\ line' = Tail(line)
    /\ stream' = IF Whose \notin linkKnown THEN stream
                 ELSE IF streams THEN StartAudioStream(Whose) ELSE StopAudioStream(Whose)
    /\ keys' = [keys EXCEPT !.pc = "read"]
    /\ UNCHANGED <<devs, signals, meta, open, linkKnown, network, irCalls, apart, spent>>
\* Mutant of VoiceEnd: the stream is left to the remote.
VoiceEndStreams ==
    /\ Brings("voice_end") /\ line' = Tail(line)
    /\ keys' = [keys EXCEPT !.pc = "read"]
    /\ UNCHANGED <<devs, signals, meta, open, linkKnown, network, irCalls, stream, apart, spent>>
VoiceEnd ==
    /\ Brings("voice_end") /\ line' = Tail(line)
    /\ stream' = IF Whose \in linkKnown THEN StopAudioStream(Whose) ELSE stream
    /\ apart' = [apart EXCEPT !.deaf = IF Reaches(Whose) THEN @ ELSE @ \cup {Whose}]
    /\ keys' = [keys EXCEPT !.pc = "read"]
    /\ UNCHANGED <<devs, signals, meta, open, linkKnown, network, irCalls, spent>>

\* req_process_ir_set_code and req_process_ir_clear_codes: the daemon is called, and the
\* call may end before the state is posted.
IrRequest ==
    /\ linkKnown # {} /\ spent.irs < MaxIrs /\ spent' = [spent EXCEPT !.irs = @ + 1]
    /\ irCalls' = irCalls + 1 /\ PushLine("waiting", "any")
    /\ UNCHANGED <<devs, signals, meta, open, keys, linkKnown, network, stream, apart>>

\* factory_reset: every remote is told to reset, and what they then say is not followed.
BleFactoryReset ==
    /\ network.unpairs /\ network' = [network EXCEPT !.unpairs = FALSE]
    /\ UNCHANGED <<devs, signals, meta, open, keys, linkKnown, irCalls, line, stream, apart, spent>>

\* ctrlm_hal_ble_req_HandleDeepsleep, when the box wakes: every input device is closed.
HandleDeepsleep ==
    /\ \E r \in BleRemotes : meta[r] = "open"
    /\ open' = [r \in BleRemotes |-> InputClosed(r)[r]]
    /\ meta' = [r \in BleRemotes |-> IF meta[r] = "open" THEN "closed" ELSE meta[r]]
    /\ UNCHANGED <<devs, signals, keys, linkKnown, network, irCalls, line, stream, apart, spent>>

-----------------------------------------------------------------------------
(* The program ends, remotes come and go, and it starts again: the HAL     *)
(* adds the devices that the daemon tells, and the network loads the       *)
(* controllers of the database and adds the devices too.                   *)

\* ctrlm_hal_ble_DaemonInit, hal_init_complete
LinkRestart(now, added, told) ==
    /\ spent.downs < MaxDowns /\ spent' = [spent EXCEPT !.downs = @ + 1]
    /\ devs' = now /\ signals' = <<>> /\ line' = <<>> /\ stream' = {} /\ irCalls' = 0
    /\ meta' = [r \in BleRemotes |-> IF r \in added THEN "closed" ELSE "none"]
    /\ open' = [r \in BleRemotes |-> 0]
    /\ keys' = NoKeys /\ network' = [ir |-> "idle", unpairs |-> TRUE]
    /\ linkKnown' = linkKnown \cup told
    /\ apart' = [lost |-> linkKnown \ now, missed |-> now \ told, deaf |-> {}]

LinkMain ==
    \/ LinkPaired \/ LinkUnpaired \/ IrStatus \/ RcuStatus \/ VoiceBegin \/ VoiceEnd
    \/ IrRequest \/ BleFactoryReset \/ HandleDeepsleep
LinkNext ==
    \/ \E r \in BleRemotes : DeviceAdded(r) \/ DeviceRemoved(r) \/ DeviceConnected(r) \/ DeviceUnpairs(r)
    \/ AddedSignal \/ RemovedSignal \/ PropertyChanged \/ IrResult
    \/ FindInputs \/ KeyRead \/ KeyRound
    \/ LinkMain
    \/ \E now \in SUBSET BleRemotes : \E added \in SUBSET now, told \in {{}, now} : LinkRestart(now, added, told)
LinkSpec == LinkInit /\ [][LinkNext]_linkVars

-----------------------------------------------------------------------------
NoneOf(kinds) ==
    /\ \A i \in DOMAIN signals : signals[i].kind \notin kinds
    /\ \A i \in DOMAIN line : line[i].kind \notin kinds

\* An input device is open once, when the metadata says so, and not otherwise.
FdsOwned == \A r \in BleRemotes : open[r] = IF meta[r] = "open" THEN 1 ELSE 0

\* When nothing is under way the controllers are the daemon's devices, but for what
\* happened while nobody listened and for what could not be added.
ControllersAreDevices ==
    NoneOf({"added", "removed", "paired", "unpaired"}) =>
        linkKnown \ devs \subseteq apart.lost /\ devs \ linkKnown \subseteq apart.missed

\* The audio of a remote is streamed only while its voice key is held, as far as that was
\* read, told and passed on to a remote that could be reached.
StreamsWhileHeld ==
    stream \subseteq keys.pressed \cup apart.deaf \cup {line[i].r : i \in {j \in DOMAIN line : line[j].kind = "voice_end"}}

\* The key thread waits only for a message that the main thread will come to.
KeysWaitForMain == keys.pc = "waits" => ~NoneOf({"voice_begin", "voice_end"})

\* The key thread, the D-Bus signals and the main thread agree on the devices of BLE
\* remotes, and a stream ends with its session (ctrlm_hal_ble.cpp).
LinkSound == FdsOwned /\ ControllersAreDevices /\ StreamsWhileHeld /\ KeysWaitForMain
=============================================================================
