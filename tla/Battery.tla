------------------------------- MODULE Battery --------------------------------
(***************************************************************************)
(* The battery of an RF4CE remote. The remote reports its voltage now and  *)
(* then; the box turns the voltage into a percentage with a table for each *)
(* type of remote, decides whether the batteries are others than before,   *)
(* and notes when they first fell to 75, 50, 25, 5 and 0 percent (the      *)
(* milestones). The milestones are told to the clients and kept in the     *)
(* database, where the reports are kept too.                               *)
(***************************************************************************)
EXTENDS Integers, Sequences, FiniteSets

CONSTANTS
    Volts,          \* raw unloaded voltages (4 V is 255) a remote reports
    Sags,           \* how much lower the loaded voltage is
    Levels,         \* the table of the remote, one of those below
    MaxReports,     \* bound: reports
    MaxBatteryStarts       \* bound: restarts of the program

-----------------------------------------------------------------------------
(* battery_level_percent. Of each table the milestones only tell where it  *)
(* falls to 75, 50, 25, 5 and 0 percent.                                   *)

Percents == <<75, 50, 25, 5, 0>>

TableLinear == <<175, 159, 143, 131, 127>>
TableXr11 == <<178, 167, 158, 148, 146>>
TableXr11Fixed == <<178, 165, 151, 140, 136>>
TableXr15 == <<177, 163, 150, 140, 136>>
TableXr15V2 == <<178, 165, 151, 140, 136>>
TableXr16 == <<176, 162, 150, 140, 136>>
TableXra == <<178, 165, 151, 140, 136>>

\* The milestones a voltage has fallen to.
Fallen(v) == {i \in 1 .. 5 : v <= Levels[i]}

\* 0.3 V and 0.2 V.
IsBatteriesChanged(new, old) == new >= old + 19
IsLargeVoltageJump(new, old) == new >= old + 12

-----------------------------------------------------------------------------

VARIABLES
    stage,      \* the remote: "imported", "pending" or "valid"
    status,     \* battery_status_: its voltages and the number of the report, 0 for none
    miles,      \* battery_milestones_
    news,       \* the last event told, and which report told it
    batteryJobs,       \* what waits for the database thread
    disk,       \* the remote's table
    reports,    \* reports so far; they are the clock
    restarts,   \* restarts so far
    early       \* a report came before the validation

batteryVars == <<stage, status, miles, news, batteryJobs, disk, reports, restarts, early>>

NoStatus == [unloaded |-> 191, loaded |-> 191, time |-> 0]

\* changed: when the batteries were found to be others; at: when they fell to each milestone.
NoMilestones ==
    [first |-> TRUE, changed |-> 0, at |-> [i \in 1 .. 5 |-> 0], jumps |-> 0, decline |-> FALSE,
     good |-> NoStatus]

\* An event is the milestone it is about, or one of these.
Replaced == 0
NoEvent == -1
NoNews == [event |-> NoEvent, report |-> 0]
EmptyTable == [status |-> <<>>, miles |-> <<>>, jumps |-> 0]

BatteryInit ==
    /\ stage \in {"imported", "pending"}
    /\ status = NoStatus /\ miles = NoMilestones /\ news = NoNews
    /\ batteryJobs = <<>> /\ disk = [there |-> FALSE, has |-> EmptyTable]
    /\ reports = 0 /\ restarts = 0 /\ early = FALSE

LowestLevel(S) == CHOOSE i \in S : \A j \in S : j <= i

\* Mutant of Reached: of the milestones a report has fallen to, only the lowest is noted.
ReachedLowest(m, new) ==
    {i \in Fallen(new.unloaded) : m.at[i] = 0 /\ \A j \in Fallen(new.unloaded) : j <= i}
\* The milestones a report reaches. One is not noted when a lower one has been, by an image that
\* kept those only.
Reached(m, new) ==
    {i \in Fallen(new.unloaded) : m.at[i] = 0 /\ \A j \in (i + 1) .. 5 : m.at[j] = 0}

\* Mutant of Renewed: the milestones of the old batteries stay.
RenewedStale(m, new) ==
    [m EXCEPT !.first = FALSE, !.changed = new.time, !.jumps = 0, !.decline = FALSE]
Renewed(m, new) ==
    [m EXCEPT !.first = FALSE, !.changed = new.time, !.at = [i \in 1 .. 5 |-> 0],
              !.jumps = 0, !.decline = FALSE]

Marked(m, new, changed) ==
    LET S == Reached(m, new) IN
    [m EXCEPT !.at = [i \in 1 .. 5 |-> IF i \in S THEN new.time ELSE m.at[i]],
              !.decline = @ \/ (~changed /\ Cardinality(S) > 1),
              !.good = new]

\* battery_status_updated: what it makes of the milestones, its event, what it writes.
Updated(old, new, importing) ==
    LET up == new.unloaded > miles.good.unloaded \/ new.loaded > miles.good.loaded
        changed == miles.first \/ (up /\ IsBatteriesChanged(new.unloaded, old.unloaded))
        jump == up /\ IsLargeVoltageJump(new.unloaded, old.unloaded)
        base == IF changed THEN Renewed(miles, new) ELSE miles
        S == Reached(base, new)
        Write(name) == IF importing THEN <<>> ELSE <<name>> IN
    CASE changed \/ ~up ->
            [miles |-> Marked(base, new, changed),
             event |-> IF importing THEN NoEvent
                       ELSE IF S # {} THEN LowestLevel(S)
                       ELSE IF changed THEN Replaced ELSE NoEvent,
             jobs |-> Write("miles")]
      [] ~changed /\ jump ->
            [miles |-> [miles EXCEPT !.jumps = @ + 1], event |-> NoEvent, jobs |-> Write("jumps")]
      [] OTHER -> [miles |-> miles, event |-> NoEvent, jobs |-> <<>>]

-----------------------------------------------------------------------------

\* write_rib of the battery status. The number of codes sent makes two reports differ.
Report(u, sag) ==
    /\ reports < MaxReports /\ reports' = reports + 1
    /\ LET new == [unloaded |-> u, loaded |-> u - sag, time |-> reports + 1]
           importing == stage = "imported"
           done == Updated(status, new, importing) IN
       /\ status' = new
       /\ miles' = done.miles
       /\ news' = IF done.event = NoEvent THEN news
                  ELSE [event |-> done.event, report |-> new.time]
       /\ batteryJobs' = batteryJobs \o (IF importing THEN <<>> ELSE <<"status">>) \o done.jobs
       /\ early' = (early \/ stage # "valid")
    /\ UNCHANGED <<stage, disk, restarts>>

\* validation_result_set: the table is made, db_store puts the status in it, not the milestones.
BatteryValidated ==
    /\ stage # "valid" /\ stage' = "valid"
    /\ batteryJobs' = batteryJobs \o <<"create", "status">>
    /\ UNCHANGED <<status, miles, news, disk, reports, restarts, early>>

\* The database thread writes what the attribute has when its turn comes.
DatabaseWrites ==
    /\ batteryJobs # <<>> /\ batteryJobs' = Tail(batteryJobs)
    /\ LET job == Head(batteryJobs) IN
       disk' = CASE job = "create" -> IF disk.there THEN disk
                                      ELSE [there |-> TRUE, has |-> EmptyTable]
                 [] job = "status" /\ disk.there -> [disk EXCEPT !.has.status = <<status>>]
                 [] job = "miles" /\ disk.there ->
                        [disk EXCEPT !.has.miles = <<miles>>, !.has.jumps = miles.jumps]
                 [] job = "jumps" /\ disk.there -> [disk EXCEPT !.has.jumps = miles.jumps]
                 [] OTHER -> disk
    /\ UNCHANGED <<stage, status, miles, news, reports, restarts, early>>

\* db_load: the status first, its voltages are the last good ones unless the milestones have some.
LoadedStatus == IF disk.has.status = <<>> THEN NoStatus ELSE disk.has.status[1]
LoadedMilestones ==
    LET m == IF disk.has.miles # <<>> THEN disk.has.miles[1]
             ELSE [NoMilestones EXCEPT !.good = LoadedStatus] IN
    [m EXCEPT !.first = LoadedStatus.time = 0, !.jumps = disk.has.jumps]

\* The program ends and starts again; what the database thread has not written is lost.
BatteryRestart ==
    /\ restarts < MaxBatteryStarts /\ restarts' = restarts + 1
    /\ disk.there
    /\ stage' = "valid" /\ batteryJobs' = <<>>
    /\ status' = LoadedStatus /\ miles' = LoadedMilestones
    /\ news' = NoNews
    /\ UNCHANGED <<disk, reports, early>>

BatteryNext ==
    \/ \E u \in Volts, sag \in Sags : Report(u, sag)
    \/ BatteryValidated
    \/ DatabaseWrites
    \/ BatteryRestart

BatterySpec == BatteryInit /\ [][BatteryNext]_batteryVars

-----------------------------------------------------------------------------

\* Batteries that have fallen to a milestone have fallen to those above it, and not later.
MilesInOrder ==
    \A i \in 1 .. 4 : miles.at[i + 1] # 0 =>
        /\ miles.at[i] # 0 /\ miles.at[i] <= miles.at[i + 1]
        /\ miles.at[i] >= miles.changed

\* The last report that counted has left no milestone unmarked, and no batteries that were
\* taken out are marked: the marks are those of the batteries that are in.
MarksAreDue == miles.good.time # 0 /\ miles.changed # 0 =>
    \A i \in Fallen(miles.good.unloaded) : miles.at[i] # 0

\* Milestones that came together, but with new batteries, are noted as a large decline.
DeclineNoted ==
    (\E i \in 1 .. 4 : /\ miles.at[i] # 0 /\ miles.at[i] = miles.at[i + 1]
                       /\ miles.at[i] # miles.changed) => miles.decline

\* get_last_battery_event names the event that was told last (no restart since).
LastBatteryEvent ==
    LET S == {i \in 1 .. 5 : miles.at[i] # 0} IN
    IF S # {} THEN LowestLevel(S) ELSE IF miles.changed # 0 THEN Replaced ELSE NoEvent
EventIsLast == (~early /\ restarts = 0) => news.event = LastBatteryEvent

\* A start reads back the milestones, once the database thread has caught up, unless a report
\* came before the validation: db_store does not write what such a report has left.
Marks(m) == <<m.changed, m.at, m.decline, m.jumps>>
MilestonesSurvive ==
    (stage = "valid" /\ batteryJobs = <<>> /\ ~early) => Marks(LoadedMilestones) = Marks(miles)

\* The milestones are told, kept and in order.
BatterySound == MilesInOrder /\ MarksAreDue /\ DeclineNoted /\ EventIsLast /\ MilestonesSurvive
===============================================================================
