------------------------------ MODULE FindRemote ------------------------------
(***************************************************************************)
(* The find my remote command (ctrlm_rf4ce_network.cpp, and the ghost code *)
(* of ctrlm_rf4ce_rcu.cpp). The command asks remotes, the one used last or *)
(* the two used last, to chime when they next poll. One timer waits for    *)
(* the poll, a second one for the chime, and what is left then ends with   *)
(* one event on the bus; a key on a remote that chimes ends it earlier.    *)
(* The timers run in the thread of the GLib loop and post to the queue.    *)
(***************************************************************************)
EXTENDS Integers, Sequences, FiniteSets

CONSTANTS
    Finders,        \* the remotes that poll and can chime
    MaxFound,       \* max_fmr_controllers_
    MaxCommands,    \* bound: commands
    MaxUnpaired     \* bound: remotes that are unpaired

VARIABLES
    paired,     \* the remotes of the network, the last used first
    pending,    \* reverse_cmd_end_event_pending_: the remotes that were asked
    begins,     \* timers for the poll, each with the number of its command
    ends,       \* timers for the chime, each with the number of its command
    chime,      \* reverse_cmd_end_event_timer_id_: the number of its command, or 0
    handlers,   \* what the timers posted to the main queue
    number,     \* the number of the command
    ended       \* how each command ended: by the user, by its time, by another's, or not told

findVars == <<paired, pending, begins, ends, chime, handlers, number, ended>>

Elements(s) == {s[i] : i \in DOMAIN s}
AtMost(s, n) == SubSeq(s, 1, IF Len(s) < n THEN Len(s) ELSE n)
Numbers == 1 .. MaxCommands

FindInit ==
    /\ paired \in {s \in [1 .. Cardinality(Finders) -> Finders] : Elements(s) = Finders}
    /\ pending = {} /\ begins = {} /\ ends = {} /\ chime = 0 /\ handlers = <<>>
    /\ number = 0 /\ ended = [n \in Numbers |-> {}]

\* Mutant of ReverseCmd: it is not refused while a command is pending.
ReverseCmdAgain(rcus) ==
    /\ number < MaxCommands /\ rcus # {}
    /\ number' = number + 1 /\ pending' = rcus /\ begins' = begins \cup {number + 1}
    /\ UNCHANGED <<paired, ends, chime, handlers, ended>>
\* req_process_reverse_cmd: refused while a command is pending, and without a remote.
ReverseCmd(rcus) ==
    /\ number < MaxCommands /\ pending = {} /\ rcus # {}
    /\ number' = number + 1 /\ pending' = rcus /\ begins' = begins \cup {number + 1}
    /\ UNCHANGED <<paired, ends, chime, handlers, ended>>
LastUsed == paired # <<>> /\ ReverseCmd({Head(paired)})
AllRemotes == ReverseCmd(Elements(AtMost(paired, MaxFound)))
OneRemote == \E r \in Elements(paired) : ReverseCmd({r})

\* reverse_cmd_event_timer_proc: a timer posts the handler.
BeginFires(n) ==
    /\ n \in begins /\ begins' = begins \ {n}
    /\ handlers' = Append(handlers, [does |-> "begin", cmd |-> n])
    /\ UNCHANGED <<paired, pending, ends, chime, number, ended>>
EndFires(n) ==
    /\ n \in ends /\ ends' = ends \ {n}
    /\ handlers' = Append(handlers, [does |-> "end", cmd |-> n])
    /\ UNCHANGED <<paired, pending, begins, chime, number, ended>>

Handled(does) == handlers # <<>> /\ Head(handlers).does = does /\ handlers' = Tail(handlers)

\* reverse_cmd_begin_event: the second timer starts, whatever is pending.
BeginEvent ==
    /\ Handled("begin")
    /\ chime' = Head(handlers).cmd /\ ends' = ends \cup {Head(handlers).cmd}
    /\ UNCHANGED <<paired, pending, begins, number, ended>>

EndsWith(how) == ended' = [ended EXCEPT ![number] = @ \cup {how}]

\* reverse_cmd_end_event: one event for the remotes that are still paired, if any is.
EndEvent ==
    /\ Handled("end")
    /\ pending' = {} /\ chime' = 0
    /\ IF pending = {} THEN UNCHANGED ended
       ELSE IF pending \cap Elements(paired) = {} THEN EndsWith("untold")
       ELSE EndsWith(IF Head(handlers).cmd = number THEN "time" ELSE "other")
    /\ UNCHANGED <<paired, begins, ends, number>>

\* The ghost code of a remote: any remote ends what is pending, and the second timer.
GhostCode ==
    /\ paired # <<>> /\ (pending # {} \/ chime # 0)
    /\ pending' = {} /\ chime' = 0 /\ ends' = ends \ {chime}
    /\ IF pending = {} THEN UNCHANGED ended ELSE EndsWith("user")
    /\ UNCHANGED <<paired, begins, handlers, number>>

\* A remote is used, and is the last used; a remote is unpaired.
Used(i) ==
    /\ i \in 2 .. Len(paired)
    /\ paired' = <<paired[i]>> \o SubSeq(paired, 1, i - 1) \o SubSeq(paired, i + 1, Len(paired))
    /\ UNCHANGED <<pending, begins, ends, chime, handlers, number, ended>>
Unpaired(i) ==
    /\ i \in DOMAIN paired /\ Cardinality(Finders) - Len(paired) < MaxUnpaired
    /\ paired' = SubSeq(paired, 1, i - 1) \o SubSeq(paired, i + 1, Len(paired))
    /\ UNCHANGED <<pending, begins, ends, chime, handlers, number, ended>>

FindNext ==
    \/ LastUsed \/ AllRemotes \/ OneRemote \/ BeginEvent \/ EndEvent \/ GhostCode
    \/ \E n \in Numbers : BeginFires(n) \/ EndFires(n)
    \/ \E i \in 1 .. Cardinality(Finders) : Used(i) \/ Unpaired(i)
FindSpec == FindInit /\ [][FindNext]_findVars

-----------------------------------------------------------------------------
\* A command that is pending has something on its way that ends it.
PendingEnds ==
    pending # {} => begins \cup ends # {} \/ handlers # <<>>

\* A command ends at most once, and the one that is pending has not ended.
EndedOnce ==
    /\ \A n \in Numbers : Cardinality(ended[n]) <= 1
    /\ \A n \in Numbers : n < number => ended[n] # {}
    /\ pending # {} => ended[number] = {}

\* A find my remote command that is pending ends, once (ctrlm_rf4ce_network.cpp).
FindSound == PendingEnds /\ EndedOnce
=============================================================================
