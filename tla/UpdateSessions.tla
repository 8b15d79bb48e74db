--------------------------- MODULE UpdateSessions ---------------------------
(***************************************************************************)
(* The sessions in which RF4CE controllers update their firmware:          *)
(* ctrlm_device_update.cpp and rf4ce/ctrlm_rf4ce_device_update.cpp.        *)
(* The main queue thread begins and ends a session for a controller and    *)
(* counts the sessions and the readers of each image; the device update    *)
(* thread extracts and removes the archives, opens the files and deletes   *)
(* the sessions, by the counts it finds in its messages; a timer on the    *)
(* main loop ends a session whose controller is silent.                    *)
(* The data of a session are the subject of ImageChunks.                   *)
(***************************************************************************)
EXTENDS Integers, FiniteSets, Sequences

CONSTANTS
    Controllers,  \* controllers that are bound
    Images,       \* image ids: indices in rf4ce_images
    Wants,        \* for each controller, the images that are newer than what it has
    Resume,       \* controllers that resume a session after a restart, and have no timer
    ActiveMax,    \* RF4CE_SIMULTANEOUS_SESSION_QTY
    Interactive,  \* prefs.download.interactive
    Background,   \* prefs.download.background
    Announced,    \* images whose file may be announced to the control manager again
    Quick,        \* TRUE if a session that ended is deleted before its controller or timer does more
    MaxBegins,    \* bound: image checks
    MaxRestarts   \* bound: restarts of the control manager

ASSUME ControllersAssumption ==
    /\ Images \subseteq Nat /\ 0 \in Images
    /\ Wants \in [Controllers -> SUBSET Images]
    /\ Resume \subseteq Controllers /\ Announced \subseteq Images

ASSUME PreferencesAssumption ==
    /\ {Interactive, Background, Quick} \subseteq BOOLEAN
    /\ ActiveMax \in Nat \ {0} /\ MaxBegins \in Nat /\ MaxRestarts \in Nat

VARIABLES
    du,         \* g_ctrlm_device_update: sessions, counts, queue; the voice object's device update flag
    extracted,  \* images whose archive is extracted below temp_file_path
    firing,     \* the timer callback the main loop has dispatched and that waits for the mutex
    ctl,        \* controllers: the image they were told is available, and what the code keeps for them
    stored,     \* the database: the image of each controller's session to resume
    resuming,   \* g_ctrlm_device_update.sessions: controllers to resume after a restart
    begins, restarts

vars == <<du, extracted, firing, ctl, stored, resuming, begins, restarts>>

None == -1     \* no image
Failed == -2   \* a file that could not be opened
NoTimer == [ctl |-> {}, image |-> None]

NewSession(i) ==
    [image |-> i, file |-> None, downloading |-> FALSE, waiting |-> FALSE,
     initiated |-> FALSE, background |-> Background, tag |-> "none", param |-> None]
NoSession == NewSession(None)
\* What operator[] of the map makes of a session that is gone.
Phantom == [NewSession(0) EXCEPT !.background = FALSE]

Exists(c) == du.sessions[c].image # None
Queued(type, c) == {m \in {du.queue[k] : k \in DOMAIN du.queue} : m.type = type /\ m.ctl = c}

\* A session that has not ended.
Live(c) == Exists(c) /\ Queued("unstage", c) = {}
Settled(c) == Quick => Queued("unstage", c) = {} /\ firing.ctl # {c}

-----------------------------------------------------------------------------
(* Parts of the handlers, as functions of du.                              *)

\* ctrlm_device_update_timeout_session_update: a source that has fired is replaced too
Rearm(d, c) ==
    IF d.sessions[c].tag = "none" THEN d ELSE [d EXCEPT !.sessions[c].tag = "armed"]

\* Mutant of DownloadComplete: nobody looks at the other sessions.
DownloadCompleteAlone(d, c) ==
    LET s == d.sessions[c]
    IN  IF ~s.downloading THEN d
        ELSE [d EXCEPT !.sessions[c].downloading = FALSE,
                       !.sessions[c].background = Background,
                       !.voice = @ /\ s.background]

\* ctrlm_device_update_rf4ce_download_complete
DownloadComplete(d, c) ==
    LET s == d.sessions[c]
        others == {o \in Controllers \ {c} : d.sessions[o].downloading /\ ~d.sessions[o].background}
        e == [d EXCEPT !.sessions[c].downloading = FALSE]
    IN  IF ~s.downloading THEN d
        ELSE IF s.background THEN e
        ELSE [e EXCEPT !.sessions[c].background = Background,
                       !.voice = @ /\ others # {}]

LessOne(n) == IF n > 0 THEN n - 1 ELSE n
StageMsg(d, c, i) ==
    [type |-> "stage", ctl |-> c, image |-> i, count |-> d.count, readers |-> d.readers[i]]
UnstageMsg(d, c, i) == [StageMsg(d, c, i) EXCEPT !.type = "unstage"]

\* Mutant of EndSession: the count of active downloads is taken down twice, when
\* the image has been read and at the end.
EndSessionTwice(d, c, i) ==
    LET e == DownloadComplete(d, c)
        f == [e EXCEPT !.active = LessOne(@), !.count = @ - 1, !.readers[i] = @ - 1]
    IN  IF d.sessions[c].image = None THEN d
        ELSE [f EXCEPT !.queue = Append(@, UnstageMsg(f, c, i))]

\* Mutant of EndSession: the count of readers is taken down after the message is sent.
EndSessionLate(d, c, i) ==
    LET e == DownloadComplete(d, c)
        f == [e EXCEPT !.active = IF d.sessions[c].waiting THEN @ ELSE LessOne(@),
                       !.count = @ - 1]
    IN  IF d.sessions[c].image = None THEN d
        ELSE [f EXCEPT !.queue = Append(@, UnstageMsg(f, c, i)), !.readers[i] = @ - 1]

\* ctrlm_device_update_rf4ce_end, for the image that the caller names
EndSession(d, c, i) ==
    LET e == DownloadComplete(d, c)
        f == [e EXCEPT !.active = IF d.sessions[c].waiting THEN @ ELSE LessOne(@),
                       !.count = @ - 1,
                       !.readers[i] = @ - 1]
    IN  IF d.sessions[c].image = None THEN d
        ELSE [f EXCEPT !.queue = Append(@, UnstageMsg(f, c, i))]

\* Mutant of Acquired: a session that is resumed is not an active download.
AcquiredInactive(c, i) ==
    IF Exists(c) THEN du
    ELSE [du EXCEPT !.count = @ + 1, !.active = IF c \in resuming THEN @ ELSE @ + 1,
                    !.readers[i] = @ + 1, !.sessions[c] = NewSession(i)]

\* ctrlm_device_update_rf4ce_begin, where it acquires a session ...
Acquired(c, i) ==
    IF Exists(c) THEN du
    ELSE [du EXCEPT !.count = @ + 1, !.active = @ + 1, !.readers[i] = @ + 1,
                    !.sessions[c] = NewSession(i)]

\* ... gives the counts back ...
Released(d, i) == [d EXCEPT !.count = @ - 1, !.active = LessOne(@), !.readers[i] = @ - 1]

\* ... and starts the download.  A tag that was set is overwritten, its source stays.
Started(d, c, i, manual) ==
    LET s == d.sessions[c]
        timed == c \notin Resume
        background == s.background /\ ~manual
    IN  [d EXCEPT !.queue = Append(@, StageMsg(d, c, i)),
                  !.sessions[c] = [s EXCEPT !.tag = IF timed THEN "armed" ELSE @,
                                            !.param = IF timed THEN i ELSE @,
                                            !.background = background,
                                            !.downloading = TRUE],
                  !.stray = IF timed /\ s.tag = "armed"
                              THEN @ \cup {[ctl |-> {c}, image |-> s.param]} ELSE @,
                  !.voice = @ \/ ~background]

-----------------------------------------------------------------------------
(* The main queue thread.                                                  *)

\* Mutant of Again: a session that is stored is taken to exist.
AgainStored(c, i) == stored[c] = i \/ (Exists(c) /\ du.sessions[c].image = i)

Again(c, i) == Exists(c) /\ du.sessions[c].image = i

\* Mutant of Full: one more.
FullLate(c) == ~Exists(c) /\ du.active > ActiveMax

Full(c) == ~Exists(c) /\ du.active >= ActiveMax

\* Mutant of Waits: nobody waits for the application.
WaitsNever(c, i) == FALSE

\* Interactive: wait for download initiate from the update manager service.
Waits(c, i) == Interactive /\ ~Acquired(c, i).sessions[c].initiated

\* ctrlm_device_update_rf4ce_begin; ready is its result
Begin(c, i, manual, ready) ==
    \/ Again(c, i) /\ ready /\ du' = du
    \/ Full(c) /\ ~ready /\ du' = du
    \/ /\ ~Again(c, i) /\ ~Full(c) /\ Waits(c, i) /\ ~ready
       /\ du' = Released(Acquired(c, i), i)
    \/ /\ ~Again(c, i) /\ ~Full(c) /\ ~Waits(c, i) /\ ready
       /\ du' = Started(Acquired(c, i), c, i, manual)

\* device_update_image_check_request: the controller asks whether an image is available
ImageCheck(c, i, manual) ==
    /\ begins < MaxBegins /\ begins' = begins + 1
    /\ Settled(c)
    /\ i \in Wants[c] /\ ~ctl[c].done
    /\ \E ready \in BOOLEAN :
          /\ Begin(c, i, manual, ready)
          /\ ctl' = [ctl EXCEPT ![c].image = IF ready THEN i ELSE None,
                                ![c].progress = TRUE, ![c].over = FALSE]
          /\ stored' = IF ready /\ c \in Resume THEN [stored EXCEPT ![c] = i] ELSE stored
    /\ UNCHANGED <<extracted, firing, resuming, restarts>>

\* device_update_image_data_request, the one that reads the last of the image or any other
DataRequest(c, last) ==
    LET s == du.sessions[c]
        d == Rearm(du, c)
    IN  /\ Settled(c)
        /\ ctl[c].image # None /\ Exists(c)
        /\ last => s.file \notin {None, Failed} /\ ~s.waiting
        /\ du' = IF last THEN [d EXCEPT !.sessions[c].waiting = TRUE, !.active = LessOne(@)] ELSE d
        /\ UNCHANGED <<extracted, firing, ctl, stored, resuming, begins, restarts>>

\* device_update_image_load_request: the controller asks when to load what it has downloaded
LoadRequest(c) ==
    /\ Settled(c)
    /\ ctl[c].image # None /\ Exists(c)
    /\ du' = Rearm(DownloadComplete(du, c), c)
    /\ UNCHANGED <<extracted, firing, ctl, stored, resuming, begins, restarts>>

Over(c, done) == [ctl EXCEPT ![c] = [image |-> None, progress |-> FALSE, over |-> TRUE, done |-> done]]

\* Mutant of Completed: a download that fails does not end its session.
CompletedIfLoaded(c, done) ==
    IF ctl[c].progress /\ done THEN EndSession(du, c, ctl[c].image) ELSE du

\* End the download session since the controller has finished loading the image
Completed(c, done) == IF ctl[c].progress THEN EndSession(du, c, ctl[c].image) ELSE du

\* device_update_image_download_complete: the controller has loaded the image, or gives up
DownloadCompleted(c, done) ==
    /\ Settled(c)
    /\ ctl[c].image # None
    /\ du' = Completed(c, done)
    /\ stored' = IF ctl[c].progress THEN [stored EXCEPT ![c] = None] ELSE stored
    /\ ctl' = Over(c, done)
    /\ UNCHANGED <<extracted, firing, resuming, begins, restarts>>

\* ctrlm_device_update_rf4ce_notify_reboot, for a controller that will not resume
Reboot(c) ==
    /\ Settled(c)
    /\ c \notin Resume /\ Exists(c)
    /\ du' = EndSession(du, c, du.sessions[c].image)
    /\ ctl' = [ctl EXCEPT ![c].image = None, ![c].over = TRUE]
    /\ UNCHANGED <<extracted, firing, stored, resuming, begins, restarts>>

\* device_update_session_resume_unload, for a controller that has been paired again
Unload(c) ==
    /\ Settled(c)
    /\ stored[c] # None
    /\ du' = EndSession(du, c, stored[c])
    /\ stored' = [stored EXCEPT ![c] = None]
    /\ ctl' = [ctl EXCEPT ![c].image = None, ![c].over = TRUE]
    /\ UNCHANGED <<extracted, firing, resuming, begins, restarts>>

\* ctrlm_device_update_interactive_download_start, from the bus
DownloadStart(c, background) ==
    /\ Interactive
    /\ Exists(c)
    /\ du' = [du EXCEPT !.sessions[c].initiated = TRUE, !.sessions[c].background = background]
    /\ UNCHANGED <<extracted, firing, ctl, stored, resuming, begins, restarts>>

-----------------------------------------------------------------------------
(* The session timer, on the main loop.                                    *)

\* The main loop dispatches a source that is due: a session's own, or a stray one.
TimerFires ==
    /\ firing = NoTimer
    /\ \/ \E c \in Controllers :
             /\ du.sessions[c].tag = "armed" /\ (Quick => Live(c))
             /\ firing' = [ctl |-> {c}, image |-> du.sessions[c].param]
             /\ du' = [du EXCEPT !.sessions[c].tag = "fired"]
       \/ \E t \in du.stray : firing' = t /\ du' = [du EXCEPT !.stray = @ \ {t}]
    /\ UNCHANGED <<extracted, ctl, stored, resuming, begins, restarts>>

\* Mutant of TimedOut: the timer only forgets itself.
TimedOutIgnored(c, i) == [du EXCEPT !.sessions[c].tag = "none"]

\* ctrlm_device_update_timeout_session for a session that exists; a source that
\* replaced this one while it waited for the mutex loses its tag
TimedOut(c, i) ==
    LET d == EndSession(du, c, i)
    IN  [d EXCEPT !.sessions[c].tag = "none",
                  !.stray = IF d.sessions[c].tag = "armed"
                              THEN @ \cup {[ctl |-> {c}, image |-> i]} ELSE @]

\* ... and of its parameters.  If the session is gone they have been freed, and name
\* any controller; the code writes to the session they name.
TimerRuns ==
    /\ firing # NoTimer
    /\ firing' = NoTimer
    /\ \E c \in Controllers :
          /\ \A o \in firing.ctl : Exists(o) => c = o
          /\ IF Exists(c)
               THEN /\ du' = TimedOut(c, firing.image)
                    /\ ctl' = [ctl EXCEPT ![c].over = TRUE]
               ELSE du' = [du EXCEPT !.sessions[c] = Phantom] /\ ctl' = ctl
    /\ UNCHANGED <<extracted, stored, resuming, begins, restarts>>

-----------------------------------------------------------------------------
(* The device update thread.                                               *)

Taken(type) == du.queue # <<>> /\ Head(du.queue).type = type

\* Mutant of Extracts: the count of readers when the message is processed.
ExtractsNow(m) == du.readers[m.image] = 1

\* Image is NOT already extracted
Extracts(m) == m.readers = 1

\* DEVICE_UPDATE_QUEUE_MSG_TYPE_IMAGE_STAGE
ThreadStage ==
    /\ Taken("stage")
    /\ LET m == Head(du.queue)
           d == [du EXCEPT !.queue = Tail(@)]
       IN  IF Exists(m.ctl)
             THEN /\ extracted' = extracted \cup (IF Extracts(m) THEN {m.image} ELSE {})
                  /\ du' = [d EXCEPT !.sessions[m.ctl].file =
                                        IF m.image \in extracted' THEN m.image ELSE Failed]
             ELSE du' = d /\ extracted' = extracted
    /\ UNCHANGED <<firing, ctl, stored, resuming, begins, restarts>>

\* Mutant of Left: the archive goes with every session.
LeftNever(m) == extracted \ {m.image}

\* The archives left by the end of a session: the last reader removes its archive,
\* the last session the directory of all of them
Left(m) ==
    IF m.count = 0 THEN {} ELSE IF m.readers = 0 THEN extracted \ {m.image} ELSE extracted

\* DEVICE_UPDATE_QUEUE_MSG_TYPE_IMAGE_UNSTAGE
ThreadUnstage ==
    /\ Taken("unstage")
    /\ LET m == Head(du.queue)
       IN  /\ du' = [du EXCEPT !.queue = Tail(@), !.sessions[m.ctl] = NoSession]
           /\ extracted' = Left(m)
    /\ UNCHANGED <<firing, ctl, stored, resuming, begins, restarts>>

\* DEVICE_UPDATE_QUEUE_MSG_TYPE_PROCESS_XCONF for a file that is known already: the
\* thread extracts the archive to look into it, and removes it
ThreadAnnounced(i) ==
    /\ extracted' = extracted \ {i}
    /\ UNCHANGED <<du, firing, ctl, stored, resuming, begins, restarts>>

-----------------------------------------------------------------------------
(* Restarts of the control manager.                                        *)

InitDu ==
    [sessions |-> [c \in Controllers |-> NoSession], count |-> 0, active |-> 0,
     readers |-> [i \in Images |-> 0], queue |-> <<>>, stray |-> {}, voice |-> FALSE]

\* A controller that resumes goes on with its download; ctrlm forgets the rest.
Restart ==
    /\ restarts < MaxRestarts /\ restarts' = restarts + 1
    /\ du' = InitDu /\ extracted' = {} /\ firing' = NoTimer
    /\ resuming' = {c \in Controllers : stored[c] # None}
    /\ ctl' = [c \in Controllers |->
                 [image |-> IF c \in Resume THEN ctl[c].image ELSE None,
                  progress |-> FALSE, over |-> TRUE, done |-> ctl[c].done]]
    /\ UNCHANGED <<stored, begins>>

\* ctrlm_device_update_rf4ce_session_resume_check, for one of the stored sessions
ResumeSession(c, manual) ==
    /\ c \in resuming /\ Settled(c) /\ ~ctl[c].done
    /\ \E i \in Wants[c], ready \in BOOLEAN :
          /\ stored[c] \in {i, None}
          /\ Begin(c, i, manual, ready)
          /\ resuming' = IF ready THEN resuming \ {c} ELSE resuming
          /\ ctl' = IF ready THEN [ctl EXCEPT ![c].over = FALSE] ELSE ctl
    /\ UNCHANGED <<extracted, firing, stored, begins, restarts>>

-----------------------------------------------------------------------------
Init ==
    /\ du = InitDu /\ extracted = {} /\ firing = NoTimer
    /\ ctl = [c \in Controllers |->
                [image |-> None, progress |-> FALSE, over |-> FALSE, done |-> FALSE]]
    /\ stored = [c \in Controllers |-> None] /\ resuming = {}
    /\ begins = 0 /\ restarts = 0

Main(c) ==
    \/ \E i \in Images, manual \in BOOLEAN : ImageCheck(c, i, manual)
    \/ \E flag \in BOOLEAN :
         DataRequest(c, flag) \/ DownloadCompleted(c, flag)
           \/ DownloadStart(c, flag) \/ ResumeSession(c, flag)
    \/ LoadRequest(c) \/ Reboot(c) \/ Unload(c)
Thread == ThreadStage \/ ThreadUnstage
Timer == TimerFires \/ TimerRuns

Next ==
    \/ \E c \in Controllers : Main(c)
    \/ Thread \/ Timer
    \/ \E i \in Announced : ThreadAnnounced(i)
    \/ Restart

Spec == Init /\ [][Next]_vars

\* The thread serves its queue, and the main loop its timers: a controller does not
\* put its timer off for ever.
FairSpec == Spec /\ WF_vars(Thread) /\ WF_vars(Timer)

-----------------------------------------------------------------------------
(* Properties.                                                             *)

LiveOn(i) == {c \in Controllers : Live(c) /\ du.sessions[c].image = i}
Loading == {c \in Controllers : Live(c) /\ ~du.sessions[c].waiting}

\* Every variable has its type.
TypeOK ==
    /\ \A c \in Controllers :
         /\ du.sessions[c].image \in Images \cup {None}
         /\ du.sessions[c].file \in Images \cup {None, Failed}
         /\ du.sessions[c].param \in Images \cup {None}
         /\ du.sessions[c].tag \in {"none", "armed", "fired"}
    /\ du.count \in Int /\ du.active \in 0..ActiveMax /\ du.readers \in [Images -> Int]
    /\ extracted \subseteq Images /\ resuming \subseteq Controllers
    /\ firing.ctl \subseteq Controllers /\ stored \in [Controllers -> Images \cup {None}]

\* The count of readers of an image, the count of sessions and the count of active
\* downloads are those of the sessions that have not ended, however sessions
\* end (completed, timed out, rebooted, paired again) and overlap.
CountsMatch ==
    /\ \A i \in Images : du.readers[i] = Cardinality(LiveOn(i))
    /\ du.count = Cardinality({c \in Controllers : Live(c)})
    /\ du.active = Cardinality(Loading)

\* Never more than two controllers download at a time.
DownloadsBounded == Cardinality(Loading) <= ActiveMax

\* A session never fails to open its image: its archive has been extracted.
StageFindsArchive == \A c \in Controllers : du.sessions[c].file # Failed

\* Once the thread has nothing to do, exactly the archives of the sessions are extracted.
ArchivesMatch ==
    du.queue = <<>> => extracted = {i \in Images : LiveOn(i) # {}}

\* Voice is disabled exactly while a foreground download is in progress.
VoiceOffInForeground ==
    du.voice <=> \E c \in Controllers :
                    du.sessions[c].downloading /\ ~du.sessions[c].background

\* What a controller has been told to download is staged, or about to be, until its session ends.
AvailableIsStaged ==
    \A c \in Controllers :
       ctl[c].image # None /\ ~ctl[c].over =>
          \/ du.sessions[c].file = ctl[c].image
          \/ \E m \in Queued("stage", c) : m.image = ctl[c].image

\* Together: with every type kept, counts, archives, voice and what controllers were told
\* are those of the sessions.
UpdateSound ==
    /\ TypeOK /\ CountsMatch /\ DownloadsBounded /\ StageFindsArchive
    /\ ArchivesMatch /\ VoiceOffInForeground /\ AvailableIsStaged

\* When a controller has finished its download, reboots or is paired again, its session
\* ends.  Not so the session that a controller resumed: only a new pairing ends it.
FinishedEnds ==
    [][\A c \in Controllers :
          /\ ctl[c].image # None /\ ctl'[c].image = None
          /\ begins' = begins /\ restarts' = restarts
          /\ c \in Resume => restarts = 0
          => ~Live(c)']_vars

\* Interactive: an image is staged only after the application has initiated the download.
InitiatedBeforeStaged ==
    Interactive => \A c \in Controllers :
        Queued("stage", c) # {} \/ du.sessions[c].file # None => du.sessions[c].initiated

\* A session of a controller that does not resume ends, whatever the controller does.
SessionEnds == \A c \in Controllers \ Resume : Exists(c) ~> ~Exists(c)
=============================================================================
