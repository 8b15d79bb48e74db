---------------------------- MODULE ControllerSync ----------------------------
(***************************************************************************)
(* Two tables of one set of RF4CE remotes (ctrlm_rf4ce_network.cpp): the   *)
(* controllers the control manager keeps and stores in its database, and   *)
(* the pairing table of the HAL. Either changes first, writes to the       *)
(* database are queued, and the program may end between any two steps, so  *)
(* hal_init_complete compares the tables at every start and mends them.    *)
(* A remote that pairs again while it is known is in module Pairing.       *)
(***************************************************************************)
EXTENDS Integers, Sequences, FiniteSets

CONSTANTS
    Addresses,      \* the addresses of the remotes
    Ids,            \* the identifiers: 1 .. 254 in the program
    NoOne,          \* no remote
    MaxWrites,      \* bound: writes to the database that wait
    MaxEnds,        \* bound: times the program ends
    MaxRollbacks    \* bound: times it finds an older database

VARIABLES
    controllers,    \* controllers_: the address under each identifier, and is_bound
    stored,         \* the database: the address under each identifier
    older,          \* a copy of the database from an earlier start
    unwritten,      \* writes that wait for the thread of the database
    table,          \* the HAL: the identifier of each remote that is paired, or 0
    versions,       \* the remotes whose versions were exported to the HAL
    proven,         \* the remotes that passed validation since they paired
    start,          \* hal_init_complete: where it is, the list it was given, whether that was
                    \* compared, and whether it unpaired an identifier two remotes had
    times           \* how often the program ended and the database was older

syncVars == <<controllers, stored, older, unwritten, table, versions, proven, start, times>>

None == [who |-> NoOne, bound |-> FALSE]
Empty == [c \in Ids |-> NoOne]
SyncUsed == {c \in Ids : controllers[c] # None}
KnownAs(a) == {c \in Ids : controllers[c].who = a}
Lowest(s) == CHOOSE c \in s : \A d \in s : c <= d

\* controller_id_assign, for the controllers in t.
IdAssign(t) == Lowest({c \in Ids : t[c] = None})

SyncInit ==
    /\ controllers = [c \in Ids |-> None] /\ stored = Empty /\ older = Empty
    /\ unwritten = <<>> /\ table = [a \in Addresses |-> 0]
    /\ versions = {} /\ proven = {}
    /\ start = [pc |-> "load", at |-> 1, list |-> {}, synced |-> FALSE, clash |-> FALSE]
    /\ times = [ends |-> 0, rollbacks |-> 0]

-----------------------------------------------------------------------------
(* The start.                                                              *)

\* controllers_load: what is in the database is bound.
ControllersLoad ==
    /\ start.pc = "load" /\ start' = [start EXCEPT !.pc = "list"]
    /\ controllers' = [c \in Ids |-> [who |-> stored[c], bound |-> stored[c] # NoOne]]
    /\ older' = stored
    /\ UNCHANGED <<stored, unwritten, table, versions, proven, times>>

\* The HAL gives its list, or fails and nothing is compared.
ControllerList ==
    /\ start.pc = "list"
    /\ \/ start' = [start EXCEPT !.pc = "first", !.at = 1,
                                 !.list = {<<table[a], a>> : a \in {b \in Addresses : table[b] # 0}}]
       \/ start' = [start EXCEPT !.pc = "runs"]
    /\ UNCHANGED <<controllers, stored, older, unwritten, table, versions, proven, times>>

Write(w) == unwritten' = unwritten \o w

\* controllers_ in order, from where the first pass is
Unseen == {c \in SyncUsed : c >= start.at}

\* A controller in the database the HAL does not have is removed; one it has under another
\* identifier is imported again, under an identifier that is free now, which the HAL takes over.
Reconcile ==
    LET c == Lowest(Unseen)
        a == controllers[c].who
        free == IdAssign([controllers EXCEPT ![c] = None])
    IN  /\ start.pc = "first" /\ Unseen # {}
        /\ \/ /\ \A e \in start.list : e[2] # a
              /\ controllers' = [controllers EXCEPT ![c] = None]
              /\ Write(<< <<c, NoOne>> >>)
              /\ UNCHANGED table
           \/ /\ <<c, a>> \in start.list
              /\ UNCHANGED <<controllers, unwritten, table>>
           \/ /\ \E d \in Ids \ {c} : <<d, a>> \in start.list
              /\ controllers' = [controllers EXCEPT ![c] = None, ![free] = [who |-> a, bound |-> TRUE]]
              /\ Write(<< <<c, NoOne>>, <<free, a>> >>)
              /\ table' = [table EXCEPT ![a] = free]
        /\ start' = [start EXCEPT !.at = c + 1]
        /\ UNCHANGED <<stored, older, versions, proven, times>>
SecondPass ==
    /\ start.pc = "first" /\ Unseen = {} /\ start' = [start EXCEPT !.pc = "second"]
    /\ UNCHANGED <<controllers, stored, older, unwritten, table, versions, proven, times>>

\* The HAL unpairs by identifier: where two remotes have it, either may be the one.
SyncUnpaired(t, c) ==
    {[a \in Addresses |-> IF a = b THEN 0 ELSE t[a]] : b \in {a \in Addresses : t[a] = c}}
Unpair(t, c) == \/ table' \in SyncUnpaired(t, c)
                \/ SyncUnpaired(t, c) = {} /\ table' = t

\* A remote only the HAL knows is imported. It is taken for validated if its versions can be
\* read, and unbound otherwise.
Import ==
    /\ start.pc = "second"
    /\ \E e \in start.list :
        LET a == e[2]
            c == IdAssign(controllers)
            imported == [table EXCEPT ![a] = c]
        IN  /\ \A f \in start.list : e[1] <= f[1]
            /\ start' = [start EXCEPT !.list = @ \ {e},
                 !.clash = @ \/ (KnownAs(a) = {} /\ a \notin versions /\ Cardinality(SyncUnpaired(imported, c)) > 1)]
            /\ IF KnownAs(a) # {}
               THEN UNCHANGED <<controllers, unwritten, table, versions, proven>>
               ELSE IF a \in versions
               THEN /\ controllers' = [controllers EXCEPT ![c] = [who |-> a, bound |-> TRUE]]
                    /\ Write(<< <<c, a>> >>) /\ table' = imported
                    /\ UNCHANGED <<versions, proven>>
               ELSE /\ Unpair(imported, c) /\ Write(<< <<c, NoOne>> >>)
                    /\ versions' = {b \in versions : table'[b] # 0}
                    /\ proven' = {b \in proven : table'[b] # 0}
                    /\ UNCHANGED controllers
    /\ UNCHANGED <<stored, older, times>>
HalInitComplete ==
    /\ start.pc = "second" /\ start.list = {}
    /\ start' = [start EXCEPT !.pc = "runs", !.synced = TRUE]
    /\ UNCHANGED <<controllers, stored, older, unwritten, table, versions, proven, times>>

-----------------------------------------------------------------------------
(* Once it runs.                                                           *)

Runs == start.pc = "runs" /\ Len(unwritten) < MaxWrites

\* process_pair_request and its result: inserted under a free identifier, not yet bound;
\* the HAL pairs it in the place of that identifier.
SyncPaired(a) ==
    /\ Runs /\ KnownAs(a) = {} /\ \E c \in Ids : controllers[c] = None
    /\ LET c == IdAssign(controllers) IN
        /\ controllers' = [controllers EXCEPT ![c] = [who |-> a, bound |-> FALSE]]
        /\ table' = [b \in Addresses |-> IF b = a THEN c ELSE IF table[b] = c THEN 0 ELSE table[b]]
    /\ versions' = versions \ {a} /\ proven' = proven \ {a}
    /\ UNCHANGED <<stored, older, unwritten, start, times>>

\* A remote writes its versions, validated or not, and they are exported.
RibExport(c) ==
    /\ start.pc = "runs" /\ c \in SyncUsed /\ versions' = versions \cup {controllers[c].who}
    /\ UNCHANGED <<controllers, stored, older, unwritten, table, proven, start, times>>

\* validation_result_set with success: db_create, db_store.
SyncValidated(c) ==
    /\ Runs /\ c \in SyncUsed /\ ~controllers[c].bound
    /\ controllers' = [controllers EXCEPT ![c].bound = TRUE]
    /\ Write(<< <<c, controllers[c].who>> >>)
    /\ versions' = versions \cup {controllers[c].who}
    /\ proven' = proven \cup {controllers[c].who}
    /\ UNCHANGED <<stored, older, table, start, times>>

\* Mutant of Unbind: only a controller that is bound is unpaired in the HAL.
UnbindIfBound(c) ==
    /\ Runs /\ c \in SyncUsed
    /\ controllers' = [controllers EXCEPT ![c] = None]
    /\ IF controllers[c].bound THEN Unpair(table, c) ELSE UNCHANGED table
    /\ Write(<< <<c, NoOne>> >>)
    /\ versions' = {b \in versions : table'[b] # 0} /\ proven' = {b \in proven : table'[b] # 0}
    /\ UNCHANGED <<stored, older, start, times>>

\* The validation failed, or controller_unbind: the HAL unpairs, then the controller goes.
Unbind(c) ==
    /\ Runs /\ c \in SyncUsed
    /\ controllers' = [controllers EXCEPT ![c] = None]
    /\ Unpair(table, c) /\ Write(<< <<c, NoOne>> >>)
    /\ versions' = {b \in versions : table'[b] # 0} /\ proven' = {b \in proven : table'[b] # 0}
    /\ UNCHANGED <<stored, older, start, times>>

\* factory_reset: every controller is unbound, and the HAL forgets every remote.
FactoryReset ==
    /\ Runs /\ SyncUsed # {}
    /\ controllers' = [c \in Ids |-> None] /\ table' = [a \in Addresses |-> 0]
    /\ Write([i \in 1 .. Cardinality(Ids) |-> <<i, NoOne>>])
    /\ versions' = {} /\ proven' = {}
    /\ UNCHANGED <<stored, older, start, times>>

DatabaseWrite ==
    /\ unwritten # <<>>
    /\ LET w == Head(unwritten) IN stored' = [stored EXCEPT ![w[1]] = w[2]]
    /\ unwritten' = Tail(unwritten)
    /\ UNCHANGED <<controllers, older, table, versions, proven, start, times>>

\* The program ends anywhere; what was not written is lost, and the recovery may put an
\* older database in place of the one there is.
End ==
    /\ times.ends < MaxEnds
    /\ controllers' = [c \in Ids |-> None] /\ unwritten' = <<>>
    /\ start' = [pc |-> "load", at |-> 1, list |-> {}, synced |-> FALSE, clash |-> FALSE]
    /\ \/ times' = [times EXCEPT !.ends = @ + 1] /\ UNCHANGED stored
       \/ /\ times.rollbacks < MaxRollbacks /\ stored' = older
          /\ times' = [ends |-> times.ends + 1, rollbacks |-> times.rollbacks + 1]
    /\ UNCHANGED <<older, table, versions, proven>>

SyncNext ==
    \/ ControllersLoad \/ ControllerList \/ Reconcile \/ SecondPass \/ Import \/ HalInitComplete
    \/ \E a \in Addresses : SyncPaired(a)
    \/ \E c \in Ids : RibExport(c) \/ SyncValidated(c) \/ Unbind(c)
    \/ FactoryReset \/ DatabaseWrite \/ End
SyncSpec == SyncInit /\ [][SyncNext]_syncVars

-----------------------------------------------------------------------------
\* No remote is a controller twice.
OneEach == \A a \in Addresses : Cardinality(KnownAs(a)) <= 1

\* Once the tables were compared they agree: a controller is paired in the HAL under its
\* own identifier, and the HAL has no remote that is not a controller; unless the HAL was told
\* to unpair an identifier that two remotes had, where it is the HAL's choice which one goes.
TablesAgree ==
    start.pc = "runs" /\ start.synced /\ ~start.clash =>
        \A a \in Addresses : KnownAs(a) = IF table[a] = 0 THEN {} ELSE {table[a]}

\* A controller of the list stays one across the end of the program: a remote that passed
\* validation and is paired is bound again once the tables were compared.
ProvenAreBound ==
    start.pc = "runs" /\ start.synced /\ ~start.clash =>
        \A a \in proven : table[a] # 0 => \E c \in KnownAs(a) : controllers[c].bound

\* The tables of the HAL and of the database agree after each start, whatever was lost
\* (ctrlm_rf4ce_network.cpp).
SyncSound == OneEach /\ TablesAgree /\ ProvenAreBound

\* A remote is bound only if it was properly validated, as the import says it checks.
BoundWereValidated ==
    start.pc = "runs" /\ start.synced =>
        \A c \in Ids : controllers[c].bound => controllers[c].who \in proven
=============================================================================
