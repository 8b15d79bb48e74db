------------------------------ MODULE BleUpgrade ------------------------------
(***************************************************************************)
(* ble/ctrlm_ble_network.cpp: firmware upgrades of BLE remotes. The main   *)
(* thread asks the remote daemon to upgrade one remote at a time, and goes *)
(* on when a timer of five minutes posts it a message; what the daemon     *)
(* says of an upgrade comes through the same queue. A key pressed on a     *)
(* remote that is being upgraded pauses the upgrade for two minutes.       *)
(* An image is the set of the remotes of its product; a remote runs the    *)
(* old software or that of the image.                                      *)
(***************************************************************************)
EXTENDS Integers, FiniteSets, Sequences

CONSTANTS
    Rcus,           \* remotes (numbers: in the order of products and controller ids)
    Products,       \* the sets of remotes that take the same image
    MaxRetries,     \* OTA_MAX_RETRIES
    Pausable,       \* getUpgradePauseSupported
    MaxPosts,       \* bound: messages in the queue of the main thread
    MaxImages,      \* bound: archives that bring the image
    MaxTouches      \* bound: keys pressed and remotes unpaired

VARIABLES
    rcus,       \* controllers_: what is kept of each remote
    fleet,      \* of the network: images (upgrade_images_), busy (upgrade_in_progress_)
    daemon,     \* the daemon: what it does with each remote
    goOn,       \* upgrade_controllers_timer_tag and the timers alive
    pause,      \* upgrade_pause_timer_tag and the timers alive
    posts,      \* messages to the main thread
    otaSeen,       \* counters of the environment
    news        \* remotes paired since the last pass over all

upgradeVars == <<rcus, fleet, daemon, goOn, pause, posts, otaSeen, news>>

NewRcu == [here |-> TRUE, new |-> FALSE, attempted |-> FALSE, active |-> FALSE,
           paused |-> FALSE, stuck |-> FALSE, fails |-> 0, tries |-> 0]
NoTimer == [alive |-> 0, tag |-> "none", firing |-> FALSE]

UpgradeInit ==
    /\ rcus = [r \in Rcus |-> NewRcu]
    /\ fleet = [images |-> {}, busy |-> FALSE]
    /\ daemon = [r \in Rcus |-> "idle"]
    /\ goOn = NoTimer /\ pause = NoTimer
    /\ posts = <<>>
    /\ otaSeen = [images |-> 0, touches |-> 0]
    /\ news = {}

-----------------------------------------------------------------------------
(* Timers: ctrlm_timeout_create and _destroy, and the callbacks, which run *)
(* in the GLib loop: they post, and only then forget the timer.            *)

WithoutTimer(t) == IF t.tag = "alive" THEN [t EXCEPT !.alive = @ - 1, !.tag = "none"]
                ELSE [t EXCEPT !.tag = "none"]
Created(t) == [t EXCEPT !.alive = @ + 1, !.tag = "alive"]
Restarted(t) == Created(WithoutTimer(t))

Told(kind, r) == [kind |-> kind, r |-> r]
NoRemote == "nobody"
PostUpgrade(msgs) == Len(posts) + Len(msgs) <= MaxPosts /\ posts' = posts \o msgs

\* The timer that ends is the one the tag names, or one that nothing names any more.
Ends(t, tracked) ==
    /\ t.alive > 0 /\ ~t.firing
    /\ IF tracked THEN t.tag = "alive" ELSE t.alive > 1 \/ t.tag # "alive"
Ending(t, tracked) ==
    [t EXCEPT !.alive = @ - 1, !.firing = TRUE, !.tag = IF tracked THEN "firing" ELSE @]

\* ctrlm_ble_upgrade_controllers and ctrlm_ble_upgrade_resume
UpgradeTimer == \E tracked \in BOOLEAN :
    /\ Ends(goOn, tracked) /\ goOn' = Ending(goOn, tracked)
    /\ PostUpgrade(<<Told("continue", NoRemote)>>)
    /\ UNCHANGED <<rcus, fleet, daemon, pause, otaSeen, news>>
ResumeTimer == \E tracked \in BOOLEAN :
    /\ Ends(pause, tracked) /\ pause' = Ending(pause, tracked)
    /\ PostUpgrade(<<Told("all", NoRemote)>>)
    /\ UNCHANGED <<rcus, fleet, daemon, goOn, otaSeen, news>>
TimerForgotten ==
    \/ /\ goOn.firing /\ goOn' = [goOn EXCEPT !.firing = FALSE, !.tag = "none"]
       /\ UNCHANGED <<rcus, fleet, daemon, pause, posts, otaSeen, news>>
    \/ /\ pause.firing /\ pause' = [pause EXCEPT !.firing = FALSE, !.tag = "none"]
       /\ UNCHANGED <<rcus, fleet, daemon, goOn, posts, otaSeen, news>>

-----------------------------------------------------------------------------
(* The main thread.                                                        *)

Takes(kind) == posts # <<>> /\ Head(posts).kind = kind
Told1 == Head(posts).r

\* swUpgradeRequired: a remote that has the software forgets its failures.
UpgradeRequired(rs, r) == rs[r].here /\ r \in fleet.images /\ ~rs[r].new /\ ~rs[r].attempted
Checked(rs, r) == IF rs[r].here /\ r \in fleet.images /\ rs[r].new THEN [rs EXCEPT ![r].fails = 0, ![r].stuck = FALSE] ELSE rs

\* fw_upgrade and fw_upgrade_cancel of the HAL: asynchronous calls of the daemon.
FwUpgrade(r) == daemon' = [daemon EXCEPT ![r] = IF @ = "running" THEN @ ELSE "asked"]
FwUpgradeCancel(r) == daemon' = IF daemon[r] = "running" THEN [daemon EXCEPT ![r] = "ended"] ELSE daemon

\* A pass over the images and the remotes, up to the first that needs an image.
CleanState(rs) == [r \in Rcus |-> [rs[r] EXCEPT !.attempted = FALSE, !.paused = FALSE,
                                               !.fails = 0, !.stuck = FALSE, !.tries = 0]]

\* Mutant of PassBusy: the timer is not set again while an upgrade is going on.
PassBusyForgets(rs, timer) == rcus' = rs /\ goOn' = timer /\ UNCHANGED daemon
PassBusy(rs, timer) == rcus' = rs /\ goOn' = Restarted(timer) /\ UNCHANGED daemon
PassStarts(rs, timer, r) ==
    /\ UpgradeRequired(rs, r) /\ \A q \in Rcus : UpgradeRequired(rs, q) => r <= q
    /\ rcus' = [q \in Rcus |-> IF q < r THEN Checked(rs, q)[q]
                               ELSE IF q = r THEN [rs[r] EXCEPT !.attempted = TRUE, !.tries = @ + 1]
                               ELSE rs[q]]
    /\ goOn' = Restarted(timer)
    /\ FwUpgrade(r)
PassEnds(rs, timer) ==
    /\ \A r \in Rcus : ~UpgradeRequired(rs, r)
    /\ rcus' = [r \in Rcus |-> Checked(rs, r)[r]]
    /\ goOn' = timer
    /\ UNCHANGED daemon
UpgradePass(rs, timer) ==
    IF fleet.busy THEN PassBusy(rs, timer)
    ELSE PassEnds(rs, timer) \/ \E r \in Rcus : PassStarts(rs, timer, r)

\* req_process_upgrade_controllers
UpgradeControllers ==
    /\ Takes("continue") \/ Takes("all")
    /\ posts' = Tail(posts)
    /\ IF fleet.images = {} THEN UNCHANGED <<rcus, daemon, goOn, pause, news>>
       ELSE IF Takes("all")
       THEN UpgradePass(CleanState(rcus), WithoutTimer(goOn)) /\ pause' = WithoutTimer(pause) /\ news' = {}
       ELSE UpgradePass(rcus, goOn) /\ UNCHANGED <<pause, news>>
    /\ UNCHANGED <<fleet, otaSeen>>

\* ctrlm_ble_parse_upgrade_image_info, addUpgradeImage: an image of a product replaces
\* the one before it when it is newer or forced, and here all are of one version.
AddImage(image) == fleet' = [fleet EXCEPT !.images = @ \cup image]

\* req_process_network_managed_upgrade: the archive may hold no image that can be read,
\* and the pass over all is asked for whatever it holds.
NetworkManagedUpgrade(image) ==
    /\ otaSeen.images < MaxImages
    /\ otaSeen' = [otaSeen EXCEPT !.images = @ + 1]
    /\ AddImage(image)
    /\ PostUpgrade(<<Told("all", NoRemote)>>)
    /\ UNCHANGED <<rcus, daemon, goOn, pause, news>>

\* ind_process_rcu_status: a remote that is not known is not listened to.
Upgrading ==
    LET r == Told1  now == Takes("upgrading") IN
    /\ Takes("upgrading") \/ Takes("upgraded")
    /\ posts' = Tail(posts)
    /\ IF rcus[r].here
       THEN /\ fleet' = [fleet EXCEPT !.busy = now]
            /\ rcus' = IF now THEN rcus ELSE [rcus EXCEPT ![r].active = FALSE]
       ELSE UNCHANGED <<fleet, rcus>>
    /\ UNCHANGED <<daemon, goOn, pause, otaSeen, news>>
UpgradeProgress ==
    LET r == Told1 IN
    /\ Takes("progress") \/ Takes("complete")
    /\ posts' = Tail(posts)
    /\ rcus' = IF rcus[r].here THEN [rcus EXCEPT ![r].active = Takes("progress")] ELSE rcus
    /\ UNCHANGED <<fleet, daemon, goOn, pause, otaSeen, news>>

\* Mutant of UpgradeError: the limit of retries is looked at after the failure is
\* counted, and the wrong way.
UpgradeErrorAlways ==
    LET r == Told1 IN
    /\ Takes("error") /\ posts' = Tail(posts)
    /\ IF rcus[r].here
       THEN rcus' = [rcus EXCEPT ![r].attempted = FALSE] /\ goOn' = Restarted(goOn)
       ELSE UNCHANGED <<rcus, goOn>>
    /\ UNCHANGED <<fleet, daemon, pause, otaSeen, news>>
\* A few times the upgrade is tried again; then the remote counts as stuck, if its
\* software is one that gets stuck.
UpgradeError ==
    LET r == Told1
        retry == rcus[r].fails < MaxRetries
    IN
    /\ Takes("error") /\ posts' = Tail(posts)
    /\ IF ~rcus[r].here THEN UNCHANGED <<rcus, goOn>>
       ELSE /\ rcus' = [rcus EXCEPT ![r].fails = IF retry THEN @ + 1 ELSE @,
                                    ![r].attempted = @ /\ ~retry,
                                    ![r].stuck = @ \/ (~retry /\ ~Pausable)]
            /\ goOn' = IF retry THEN Restarted(goOn) ELSE goOn
    /\ UNCHANGED <<fleet, daemon, pause, otaSeen, news>>

\* The remote has rebooted with the new software.
Revision ==
    LET r == Told1 IN
    /\ Takes("revision") /\ posts' = Tail(posts)
    /\ rcus' = IF rcus[r].here THEN [rcus EXCEPT ![r].new = TRUE, ![r].fails = 0, ![r].stuck = FALSE] ELSE rcus
    /\ UNCHANGED <<fleet, daemon, goOn, pause, otaSeen, news>>

\* ind_process_unpaired and ind_process_paired
UpgradeUnpaired ==
    /\ Takes("unpaired") /\ posts' = Tail(posts)
    /\ rcus' = [rcus EXCEPT ![Told1] = [NewRcu EXCEPT !.here = FALSE]]
    /\ UNCHANGED <<fleet, daemon, goOn, pause, otaSeen, news>>
UpgradePaired ==
    /\ Takes("paired") /\ posts' = Tail(posts)
    /\ rcus' = IF rcus[Told1].here THEN rcus ELSE [rcus EXCEPT ![Told1] = NewRcu]
    /\ news' = news \cup {Told1}
    /\ UNCHANGED <<fleet, daemon, goOn, pause, otaSeen>>

\* ind_process_keypress, of a key that goes down: the daemon cancels the upgrade.
Keypress ==
    LET r == Told1
        cancels == rcus[r].active /\ Pausable
        paused == rcus[r].paused \/ cancels
    IN
    /\ Takes("key") /\ posts' = Tail(posts)
    /\ IF ~rcus[r].here THEN UNCHANGED <<rcus, daemon, pause>>
       ELSE /\ rcus' = [rcus EXCEPT ![r].paused = paused]
            /\ IF cancels THEN FwUpgradeCancel(r) ELSE UNCHANGED daemon
            /\ pause' = IF paused \/ (rcus[r].stuck /\ ~fleet.busy) THEN Restarted(pause) ELSE pause
    /\ UNCHANGED <<fleet, goOn, otaSeen, news>>

-----------------------------------------------------------------------------
(* The daemon and the remotes (external).                                  *)

DaemonDoes(r, from, to, msgs) ==
    /\ daemon[r] = from /\ daemon' = [daemon EXCEPT ![r] = to]
    /\ PostUpgrade([i \in DOMAIN msgs |-> Told(msgs[i], r)])
    /\ UNCHANGED <<rcus, fleet, goOn, pause, otaSeen, news>>
DaemonStarts(r) == DaemonDoes(r, "asked", "running", <<"upgrading", "progress">>)
DaemonRefuses(r) == DaemonDoes(r, "asked", "idle", <<"error">>)
\* The image is sent; the remote may reboot with it, or stay with what it has.
DaemonCompletes(r) ==
    \/ DaemonDoes(r, "running", "sent", <<"complete">>)
    \/ DaemonDoes(r, "sent", "idle", <<"upgraded", "revision">>)
    \/ DaemonDoes(r, "sent", "idle", <<"upgraded">>)
DaemonFails(r) ==
    \/ DaemonDoes(r, "running", "idle", <<"error", "upgraded">>)
    \/ DaemonDoes(r, "ended", "idle", <<"error", "upgraded">>)
DaemonUnpairs(r) ==
    /\ daemon[r] # "gone" /\ otaSeen.touches < MaxTouches
    /\ daemon' = [daemon EXCEPT ![r] = "gone"]
    /\ otaSeen' = [otaSeen EXCEPT !.touches = @ + 1]
    /\ PostUpgrade(<<Told("unpaired", r)>>)
    /\ UNCHANGED <<rcus, fleet, goOn, pause, news>>
DaemonPairs(r) == DaemonDoes(r, "gone", "idle", <<"paired">>)
KeyDown(r) ==
    /\ daemon[r] # "gone" /\ otaSeen.touches < MaxTouches
    /\ otaSeen' = [otaSeen EXCEPT !.touches = @ + 1]
    /\ PostUpgrade(<<Told("key", r)>>)
    /\ UNCHANGED <<rcus, fleet, daemon, goOn, pause, news>>

UpgradeMain ==
    \/ UpgradeControllers \/ Upgrading \/ UpgradeProgress \/ UpgradeError \/ Revision
    \/ UpgradeUnpaired \/ UpgradePaired \/ Keypress
UpgradeNext ==
    \/ UpgradeMain
    \/ UpgradeTimer \/ ResumeTimer \/ TimerForgotten
    \/ \E image \in Products \cup {{}} : NetworkManagedUpgrade(image)
    \/ \E r \in Rcus :
        \/ DaemonStarts(r) \/ DaemonRefuses(r) \/ DaemonCompletes(r) \/ DaemonFails(r)
        \/ DaemonUnpairs(r) \/ DaemonPairs(r) \/ KeyDown(r)
UpgradeSpec == UpgradeInit /\ [][UpgradeNext]_upgradeVars

-----------------------------------------------------------------------------
Posted(kinds) == \E i \in DOMAIN posts : posts[i].kind \in kinds

\* A remote that needs the image and was not tried is not forgotten: a timer or a
\* message goes on with it (one that was paired since waits for the next image).
NobodyForgotten ==
    \A r \in Rcus \ news : UpgradeRequired(rcus, r) =>
        goOn.alive > 0 \/ pause.alive > 0 \/ Posted({"continue", "all"})

\* A paused upgrade goes on: its timer runs, or has just posted.
PausedResumes == \A r \in Rcus : rcus[r].paused => pause.alive > 0 \/ Posted({"all"})

\* Since the last pass over all, no remote is tried more often than the retries allow.
TriesBounded == \A r \in Rcus : rcus[r].tries <= MaxRetries + 1

\* What the timers name is alive, and each timer is named once.
TimersNamed == \A t \in {goOn, pause} : t.tag = "alive" => t.alive > 0

\* An upgrade of BLE remotes goes on until each was tried, and pauses and retries lose none
\* (ctrlm_ble_network.cpp).
UpgradeSound == NobodyForgotten /\ PausedResumes /\ TriesBounded /\ TimersNamed

\* One remote is upgraded at a time, as the network says when it sets the timer.
OneAtATime == Cardinality({r \in Rcus : daemon[r] = "running"}) <= 1
=============================================================================
