----------------------------- MODULE CallRuntime -----------------------------
(***************************************************************************)
(* The call runtime of one device (reticulum_call_runtime.cpp): the state  *)
(* behind s_state.mutex, and the hooks its operations call when they have  *)
(* let the mutex go.  Three tasks run them: the UI task (the call page and *)
(* the dialler), the task that holds the mesh router's lock, and an audio  *)
(* worker that failed.  Every action below is one critical section, or one *)
(* hook; `task' is where each task stands between two of them.             *)
(*                                                                         *)
(* The hooks are app_runtime_support.cpp's, over the Wi-Fi lease of        *)
(* platform_ui_wifi_access_runtime.cpp.  The mesh side is the pump and the *)
(* packet handlers of lxmf_adapter_call.cpp, its link sessions reduced to  *)
(* their direction and what is left of them; LxstCall models the protocol. *)
(* Peer names, codec, mute, audio packets and counters are left out.       *)
(***************************************************************************)
CONSTANTS
    Link,       \* link ids
    NoLink      \* no link id yet

ASSUME CallLinksAssumption == NoLink \notin Link

VARIABLES
    callLink,   \* s_state.snapshot: link_id
    callState,  \*                   state
    callPhase,  \*                   realtime_phase
    accepted,   \*                   accepted
    linkUp,     \*                   link_active
    mediaOn,    \*                   media_active
    hangup,     \* s_state.hangup_requested
    wakeLease,  \* s_state.sleep_wake_lease
    lease,      \* the Wi-Fi access runtime's call phase and call link
    held,       \* GPS and radio receive are suspended for a call
    audio,      \* the audio engine's media session
    session,    \* the mesh adapter's link session of each link
    page,       \* the call page is on the screen
    task        \* what each task does next

snapshot == <<callLink, callState, callPhase, accepted, linkUp, mediaOn>>

callVars ==
    <<snapshot, hangup, wakeLease, lease, held, audio, session, page, task>>

Task == {"ui", "mesh", "worker"}

\* Idle, Ended and Failed are one to every guard of the code: Over.
State == {"Over", "Incoming", "Outgoing", "Active"}

Phase == {"Idle", "IncomingIdentifying", "IncomingRinging", "AcceptedStarting",
          "ActiveCall", "ClosingCall"}

\* The phases in which the call holds the hard lease.
Exclusive == {"AcceptedStarting", "ActiveCall", "ClosingCall"}

LeasePhase == {"Idle", "RingingSoft", "Exclusive", "ClosingSoft",
               "ClosingExclusive"}

Step == {"Rest",
         "CloseAsking", "CloseTold",                \* close_call, to be entered
         "StopMedia", "BeginClosing", "EndRealtime",    \* its hooks
         "Identify", "SoftPreempt", "Ring", "Alert",    \* an incoming call
         "Prepare", "Reserve", "Start", "Activate",     \* the media
         "CloseLink", "NotifyClosed", "Pump",           \* the link
         "AcceptExclusive", "AcceptCheck",              \* the answer button
         "DialExclusive", "DialStart",                  \* an outgoing call
         "MediaFailed"}                                 \* a worker gave up

\* A link's session: none yet, a callee's before and after LinkIdentify, a
\* caller's, closed (and kept a while), erased or discarded.
Session == {"None", "Incoming", "Identified", "Outgoing", "Closed", "Erased"}

\* A task's next step, the link it is about, what follows when the operation
\* is over, and two things close_call decided under the lock.
Doing == [at : Step, link : Link \cup {NoLink},
          after : {"Rest", "Ring", "CloseLink", "Dial"},
          hook : {"BeginClosing", "EndRealtime"}, keep : BOOLEAN]

CallTypeOK ==
    /\ callLink \in Link \cup {NoLink}
    /\ callState \in State
    /\ callPhase \in Phase
    /\ accepted \in BOOLEAN /\ linkUp \in BOOLEAN /\ mediaOn \in BOOLEAN
    /\ hangup \in BOOLEAN /\ wakeLease \in BOOLEAN
    /\ lease \in [phase : LeasePhase, link : Link \cup {NoLink}]
    /\ held \in BOOLEAN
    /\ audio \in {"None", "Running", "Stopping"}
    /\ session \in [Link -> Session]
    /\ page \in BOOLEAN
    /\ task \in [Task -> Doing]

Does(s, l, after, hook, keep) ==
    [at |-> s, link |-> l, after |-> after, hook |-> hook, keep |-> keep]

Resting == Does("Rest", NoLink, "Rest", "EndRealtime", FALSE)

Released == [phase |-> "Idle", link |-> NoLink]

CallInit ==
    /\ callLink = NoLink
    /\ callState = "Over"
    /\ callPhase = "Idle"
    /\ accepted = FALSE
    /\ linkUp = FALSE
    /\ mediaOn = FALSE
    /\ hangup = FALSE
    /\ wakeLease = FALSE
    /\ lease = Released
    /\ held = FALSE
    /\ audio = "None"
    /\ session = [l \in Link |-> "None"]
    /\ page = FALSE
    /\ task = [t \in Task |-> Resting]

-----------------------------------------------------------------------------
(***************************************************************************)
(* Where the tasks are.                                                    *)
(***************************************************************************)
At(t, s) == task[t].at = s

\* Begin step s about link l, of an operation that `after' will follow.
BeginFor(t, s, l, after) ==
    task' = [task EXCEPT ![t] = Does(s, l, after, "EndRealtime", FALSE)]

Begin(t, s, l) == BeginFor(t, s, l, "Rest")

Continue(t, s) ==
    task' = [task EXCEPT ![t] = Does(s, @.link, @.after, @.hook, @.keep)]

\* Write the snapshot's fields that steps depend on.
Becomes(l, s, ph, acc, up, med) ==
    /\ callLink' = l
    /\ callState' = s
    /\ callPhase' = ph
    /\ accepted' = acc
    /\ linkUp' = up
    /\ mediaOn' = med

\* Mutant: whoever called, the task goes on to its next step; a dialler whose
\* request could not be sent has none.
ResumeAtCaller(d) == Does(d.after, d.link, "Rest", "EndRealtime", FALSE)

\* The operation is over: on to what called it.  A dialler whose request could
\* not be sent has its session discarded.
Resume(d) ==
    IF d.after = "Ring"
    THEN Does("Ring", d.link, "CloseLink", "EndRealtime", FALSE)
    ELSE IF d.after = "CloseLink"
    THEN Does("CloseLink", d.link, "Rest", "EndRealtime", FALSE)
    ELSE Resting

Finish(t) == task' = [task EXCEPT ![t] = Resume(@)]

\* The dialler runs on the UI task under the router's lock.
Dialling == At("ui", "DialExclusive") \/ At("ui", "DialStart")
              \/ task["ui"].after = "Dial"

\* The steps before which a task holds the hard lease, or has a hook to call
\* that takes it away.
Holding == {"AcceptCheck", "DialStart", "StopMedia", "BeginClosing",
            "EndRealtime"}

\* Mutant: the dialler does not take the router's lock.
MeshIsFreeAnyway == At("mesh", "Rest")

\* The router's lock can be taken by the mesh task.
MeshIsFree == At("mesh", "Rest") /\ ~Dialling

\* The link has a session that is not over.
Open(l) == session[l] \in {"Incoming", "Identified", "Outgoing"}

Busy == callState \in {"Incoming", "Outgoing", "Active"}

-----------------------------------------------------------------------------
(***************************************************************************)
(* close_call, by any task.                                                *)
(***************************************************************************)
\* The critical section of close_call.  `asks' is request_remote_close: a call
\* that has a link id waits in ClosingCall for the pump.
CloseLocked(t, asks, after) ==
    LET ask == asks /\ callLink # NoLink
        ends == callPhase # "Idle" /\ callLink # NoLink
        hook == IF ask THEN "BeginClosing" ELSE "EndRealtime"
        doing == Does(IF mediaOn THEN "StopMedia" ELSE hook, callLink, after,
                      hook, callPhase \in Exclusive)
    IN  /\ Becomes(callLink, "Over", IF ask THEN "ClosingCall" ELSE "Idle",
                   FALSE, FALSE, FALSE)
        /\ hangup' = ask
        /\ wakeLease' = (ask /\ wakeLease)
        /\ task' = [task EXCEPT ![t] =
                      IF ask \/ ends \/ mediaOn THEN doing ELSE Resume(doing)]

\* An operation that failed calls close_call(Failed, true).
CloseAsking(t) ==
    /\ At(t, "CloseAsking")
    /\ CloseLocked(t, TRUE, task[t].after)
    /\ UNCHANGED <<lease, held, audio, session, page>>

\* notify_link_closed, past its check: close_call(Ended, false).
CloseTold(t) ==
    /\ At(t, "CloseTold")
    /\ CloseLocked(t, FALSE, task[t].after)
    /\ UNCHANGED <<lease, held, audio, session, page>>

\* media_stop asks the workers to leave and waits for them, but not for long.
StopMedia(t) ==
    /\ At(t, "StopMedia")
    /\ audio' = IF audio = "Running" THEN "Stopping" ELSE audio
    /\ Continue(t, task[t].hook)
    /\ UNCHANGED <<snapshot, hangup, wakeLease, lease, held, session, page>>

\* enter_call_closing, after the resources were suspended.
BeginClosing(t) ==
    /\ At(t, "BeginClosing")
    /\ lease' = [phase |-> IF task[t].keep THEN "ClosingExclusive"
                                           ELSE "ClosingSoft",
                 link |-> task[t].link]
    /\ held' = TRUE
    /\ Finish(t)
    /\ UNCHANGED <<snapshot, hangup, wakeLease, audio, session, page>>

\* exit_call leaves the lease of another call's link alone.
ExitCall(l) ==
    lease' = IF lease.link \in {l, NoLink} THEN Released ELSE lease

\* exit_call, then the resources run again, whosever lease it was.
EndRealtime(t) ==
    /\ At(t, "EndRealtime")
    /\ ExitCall(task[t].link)
    /\ held' = FALSE
    /\ Finish(t)
    /\ UNCHANGED <<snapshot, hangup, wakeLease, audio, session, page>>

-----------------------------------------------------------------------------
(***************************************************************************)
(* An incoming call, on the mesh task.                                     *)
(***************************************************************************)
\* handleLinkRequestPacket: the runtime is Idle, so the call is admitted.  A
\* request that finds another call in hand is sent away and changes nothing.
LinkRequest(l) ==
    /\ MeshIsFree
    /\ session[l] = "None"
    /\ callPhase = "Idle"
    /\ session' = [session EXCEPT ![l] = "Incoming"]
    /\ Begin("mesh", "Identify", l)
    /\ UNCHANGED <<snapshot, hangup, wakeLease, lease, held, audio, page>>

\* LinkIdentify, taken in once: beginIncomingCallRuntime, which announces the
\* call once more and makes it ring.
LinkIdentify(l) ==
    /\ MeshIsFree
    /\ session[l] = "Incoming"
    /\ session' = [session EXCEPT ![l] = "Identified"]
    /\ BeginFor("mesh", "Identify", l, "Ring")
    /\ UNCHANGED <<snapshot, hangup, wakeLease, lease, held, audio, page>>

\* begin_incoming_identifying under the lock.  A call that is over, even one
\* whose hang-up nobody has taken yet, is forgotten.
Identify ==
    LET l == task["mesh"].link
    IN  /\ At("mesh", "Identify")
        /\ \/ /\ Busy
              /\ callLink = l
              /\ Finish("mesh")
              /\ UNCHANGED <<snapshot, hangup, wakeLease>>
           \/ /\ Busy
              /\ callLink # l
              /\ IF task["mesh"].after = "Ring"
                 THEN Begin("mesh", "CloseLink", l)
                 ELSE Begin("mesh", "Rest", NoLink)
              /\ UNCHANGED <<snapshot, hangup, wakeLease>>
           \/ /\ ~Busy
              /\ Becomes(l, "Incoming", "IncomingIdentifying",
                         FALSE, FALSE, FALSE)
              /\ hangup' = FALSE
              /\ wakeLease' = TRUE
              /\ Continue("mesh", "SoftPreempt")
        /\ UNCHANGED <<lease, held, audio, session, page>>

\* enter_call_ringing, after the resources were suspended.  It refuses only an
\* empty link id.
SoftPreempt ==
    /\ At("mesh", "SoftPreempt")
    /\ lease' = [phase |-> "RingingSoft", link |-> task["mesh"].link]
    /\ held' = TRUE
    /\ Finish("mesh")
    /\ UNCHANGED <<snapshot, hangup, wakeLease, audio, session, page>>

\* mark_incoming_ringing under the lock; a refusal is AdmissionDenied.
Ring ==
    /\ At("mesh", "Ring")
    /\ \/ /\ callLink = task["mesh"].link
          /\ callPhase = "IncomingIdentifying"
          /\ Becomes(callLink, callState, "IncomingRinging",
                     accepted, linkUp, mediaOn)
          /\ Continue("mesh", "Alert")
       \/ /\ callLink = task["mesh"].link
          /\ callPhase = "IncomingRinging"
          /\ Begin("mesh", "Rest", NoLink)
          /\ UNCHANGED snapshot
       \/ /\ \/ callLink # task["mesh"].link
             \/ callPhase \notin {"IncomingIdentifying", "IncomingRinging"}
          /\ Finish("mesh")
          /\ UNCHANGED snapshot
    /\ UNCHANGED <<hangup, wakeLease, lease, held, audio, session, page>>

\* The ringing tone's task, which may not be created.
Alert ==
    /\ At("mesh", "Alert")
    /\ \/ Begin("mesh", "Rest", NoLink)
       \/ Continue("mesh", "CloseAsking")
    /\ UNCHANGED <<snapshot, hangup, wakeLease, lease, held, audio,
                   session, page>>

-----------------------------------------------------------------------------
(***************************************************************************)
(* The link and the media, on the mesh task.                               *)
(***************************************************************************)
\* mark_link_active, by the handshake or by the pump.
MarkLinkActive(l) ==
    /\ MeshIsFree
    /\ Open(l)
    /\ callLink = l
    /\ Busy
    /\ Becomes(callLink, callState, callPhase, accepted, TRUE, mediaOn)
    /\ UNCHANGED <<hangup, wakeLease, lease, held, audio, session, page, task>>

\* The pump saw an accepted call that rings (LocalAccepted), or the callee's
\* signals asked the caller for its media: prepare_media is next.
ConnectMedia(l) ==
    /\ MeshIsFree
    /\ Open(l)
    /\ callLink = l
    /\ accepted
    /\ BeginFor("mesh", "Prepare", l, "CloseLink")
    /\ UNCHANGED <<snapshot, hangup, wakeLease, lease, held, audio,
                   session, page>>

MediaMayStart ==
    /\ accepted
    /\ linkUp
    /\ callPhase \in {"AcceptedStarting", "ActiveCall"}

\* prepare_media's check; a refusal is OperationFailed, which closes the link.
Prepare ==
    /\ At("mesh", "Prepare")
    /\ \/ /\ callLink = task["mesh"].link
          /\ MediaMayStart
          /\ Continue("mesh", IF mediaOn THEN "Activate" ELSE "Reserve")
       \/ /\ ~(callLink = task["mesh"].link /\ MediaMayStart)
          /\ Finish("mesh")
    /\ UNCHANGED <<snapshot, hangup, wakeLease, lease, held, audio,
                   session, page>>

\* Mutant: the media are reserved without a second look at the call.
ReserveUnchecked ==
    /\ At("mesh", "Reserve")
    /\ Becomes(callLink, callState, callPhase, accepted, linkUp, TRUE)
    /\ Continue("mesh", "Start")
    /\ UNCHANGED <<hangup, wakeLease, lease, held, audio, session, page>>

\* start_media_if_needed under the lock: the flag is set before the workers
\* run.  The queues may not be had.
Reserve ==
    /\ At("mesh", "Reserve")
    /\ \/ /\ MediaMayStart /\ ~mediaOn
          /\ Becomes(callLink, callState, callPhase, accepted, linkUp, TRUE)
          /\ Continue("mesh", "Start")
       \/ /\ MediaMayStart /\ ~mediaOn
          /\ Continue("mesh", "CloseAsking")
          /\ UNCHANGED snapshot
       \/ /\ ~(MediaMayStart /\ ~mediaOn)
          /\ Continue("mesh", "Activate")
          /\ UNCHANGED snapshot
    /\ UNCHANGED <<hangup, wakeLease, lease, held, audio, session, page>>

\* media_start: a session that is being stopped is no use.
Start ==
    /\ At("mesh", "Start")
    /\ \/ /\ audio # "Stopping"
          /\ audio' = "Running"
          /\ Continue("mesh", "Activate")
       \/ /\ audio # "Running"
          /\ Continue("mesh", "CloseAsking")
          /\ UNCHANGED audio
    /\ UNCHANGED <<snapshot, hangup, wakeLease, lease, held, session, page>>

\* The last check of prepare_media and mark_call_active, which asks the same.
Activate ==
    /\ At("mesh", "Activate")
    /\ \/ /\ callLink = task["mesh"].link
          /\ accepted /\ linkUp /\ mediaOn /\ Busy
          /\ Becomes(callLink, "Active", "ActiveCall",
                     accepted, linkUp, mediaOn)
          /\ Begin("mesh", "Rest", NoLink)
       \/ /\ ~(/\ callLink = task["mesh"].link
               /\ accepted /\ linkUp /\ mediaOn /\ Busy)
          /\ Finish("mesh")
          /\ UNCHANGED snapshot
    /\ UNCHANGED <<hangup, wakeLease, lease, held, audio, session, page>>

\* closeLinkSession, which tells the runtime of the sessions that were open.
CloseSession(l) ==
    /\ session' = [session EXCEPT ![l] = IF Open(l) THEN "Closed" ELSE @]
    /\ IF Open(l) THEN Begin("mesh", "NotifyClosed", l)
                  ELSE Begin("mesh", "Rest", NoLink)

\* A refused step of the protocol closes the link.
CloseLink ==
    /\ At("mesh", "CloseLink")
    /\ CloseSession(task["mesh"].link)
    /\ UNCHANGED <<snapshot, hangup, wakeLease, lease, held, audio, page>>

\* The remote end, or a clock of the link, closes it.
LinkLost(l) ==
    /\ MeshIsFree
    /\ Open(l)
    /\ CloseSession(l)
    /\ UNCHANGED <<snapshot, hangup, wakeLease, lease, held, audio, page>>

\* A closed session is kept for five seconds.
Forget(l) ==
    /\ MeshIsFree
    /\ session[l] = "Closed"
    /\ session' = [session EXCEPT ![l] = "Erased"]
    /\ UNCHANGED <<snapshot, hangup, wakeLease, lease, held, audio, page, task>>

\* notify_link_closed looks at the link id, lets the lock go, and closes.
NotifyClosed(t) ==
    /\ At(t, "NotifyClosed")
    /\ \/ /\ callLink = task[t].link
          /\ Continue(t, "CloseTold")
       \/ /\ callLink # task[t].link
          /\ Finish(t)
    /\ UNCHANGED <<snapshot, hangup, wakeLease, lease, held, audio,
                   session, page>>

\* consume_hangup_request.
ConsumeHangup ==
    /\ MeshIsFree
    /\ hangup
    /\ hangup' = FALSE
    /\ Begin("mesh", "Pump", callLink)
    /\ UNCHANGED <<snapshot, wakeLease, lease, held, audio, session, page>>

\* Mutant: only a session that is gone is answered.
PumpLeavesOpen ==
    LET l == task["mesh"].link
    IN  /\ At("mesh", "Pump")
        /\ IF session[l] \in {"None", "Erased"}
           THEN Begin("mesh", "NotifyClosed", l)
           ELSE Begin("mesh", "Rest", NoLink)
        /\ UNCHANGED <<snapshot, hangup, wakeLease, lease, held, audio,
                       session, page>>

\* What the pump does with the request: LocalHangup closes an open session and
\* is refused by one that is closed; without a session the runtime is told.
Pump ==
    LET l == task["mesh"].link
    IN  /\ At("mesh", "Pump")
        /\ IF session[l] \in {"None", "Erased"}
           THEN Begin("mesh", "NotifyClosed", l) /\ UNCHANGED session
           ELSE CloseSession(l)
        /\ UNCHANGED <<snapshot, hangup, wakeLease, lease, held, audio, page>>

-----------------------------------------------------------------------------
(***************************************************************************)
(* The UI task.                                                            *)
(***************************************************************************)
\* tick of the call page.
Tick ==
    /\ At("ui", "Rest")
    /\ page' = (callPhase # "Idle")
    /\ UNCHANGED <<snapshot, hangup, wakeLease, lease, held, audio,
                   session, task>>

\* Mutant: the resources are only ever given back.
GuardReleases ==
    /\ At("ui", "Rest")
    /\ held' = (held /\ (hangup \/ callPhase # "Idle" \/ lease.phase # "Idle"))
    /\ UNCHANGED <<snapshot, hangup, wakeLease, lease, audio, session,
                   page, task>>

\* applyCallRealtimeResourceGuard.
Guard ==
    /\ At("ui", "Rest")
    /\ held' = (hangup \/ callPhase # "Idle" \/ lease.phase # "Idle")
    /\ UNCHANGED <<snapshot, hangup, wakeLease, lease, audio, session,
                   page, task>>

\* Mutant: the answer is not checked again once the lease is had.
AnswerUnchecked ==
    /\ At("ui", "AcceptCheck")
    /\ Becomes(callLink, callState, "AcceptedStarting", TRUE, linkUp, mediaOn)
    /\ wakeLease' = TRUE
    /\ Begin("ui", "Rest", NoLink)
    /\ UNCHANGED <<hangup, lease, held, audio, session, page>>

\* accept, up to the first unlock.
Accept ==
    /\ At("ui", "Rest")
    /\ page
    /\ callState = "Incoming"
    /\ callPhase = "IncomingRinging"
    /\ Begin("ui", "AcceptExclusive", callLink)
    /\ UNCHANGED <<snapshot, hangup, wakeLease, lease, held, audio,
                   session, page>>

\* enter_call_exclusive, which a non-preemptible activity denies (so does a
\* ringing tone that does not stop), then the resources are suspended.
EnterExclusive(l) ==
    /\ lease' = [phase |-> "Exclusive", link |-> l]
    /\ held' = TRUE

AcceptExclusive ==
    /\ At("ui", "AcceptExclusive")
    /\ \/ /\ EnterExclusive(task["ui"].link)
          /\ Continue("ui", "AcceptCheck")
       \/ /\ Continue("ui", "CloseAsking")
          /\ UNCHANGED <<lease, held>>
    /\ UNCHANGED <<snapshot, hangup, wakeLease, audio, session, page>>

\* accept, the second look: the call may have gone meanwhile.
AcceptCheck ==
    /\ At("ui", "AcceptCheck")
    /\ \/ /\ callLink = task["ui"].link
          /\ callPhase = "IncomingRinging"
          /\ Becomes(callLink, callState, "AcceptedStarting",
                     TRUE, linkUp, mediaOn)
          /\ wakeLease' = TRUE
          /\ Begin("ui", "Rest", NoLink)
       \/ /\ \/ callLink # task["ui"].link
             \/ callPhase # "IncomingRinging"
          /\ Continue("ui", "EndRealtime")
          /\ UNCHANGED <<snapshot, wakeLease>>
    /\ UNCHANGED <<hangup, lease, held, audio, session, page>>

\* hangup or reject, from a page that may be a moment old.
Hangup ==
    /\ At("ui", "Rest")
    /\ page
    /\ CloseLocked("ui", TRUE, "Rest")
    /\ UNCHANGED <<lease, held, audio, session, page>>

\* startReticulumAudioCall under the router's lock: the runtime is Idle, a
\* session is opened, begin_outgoing is called.
Dial(l) ==
    /\ At("ui", "Rest")
    /\ At("mesh", "Rest")
    /\ ~page
    /\ callPhase = "Idle"
    /\ session[l] = "None"
    /\ session' = [session EXCEPT ![l] = "Outgoing"]
    /\ Begin("ui", "DialExclusive", l)
    /\ UNCHANGED <<snapshot, hangup, wakeLease, lease, held, audio, page>>

\* The session of a call that cannot start is discarded.
DialExclusive ==
    LET l == task["ui"].link
    IN  /\ At("ui", "DialExclusive")
        /\ \/ /\ EnterExclusive(l)
              /\ Continue("ui", "DialStart")
              /\ UNCHANGED session
           \/ /\ session' = [session EXCEPT ![l] = "Erased"]
              /\ Begin("ui", "Rest", NoLink)
              /\ UNCHANGED <<lease, held>>
        /\ UNCHANGED <<snapshot, hangup, wakeLease, audio, page>>

\* begin_outgoing, the second look.  Calls begin under the router's lock only,
\* so it finds the runtime as free as the first one did.  A request that
\* cannot be sent takes the call down again.
DialStart ==
    LET l == task["ui"].link
    IN  /\ At("ui", "DialStart")
        /\ Becomes(l, "Outgoing", "AcceptedStarting", TRUE, FALSE, FALSE)
        /\ hangup' = FALSE
        /\ wakeLease' = TRUE
        /\ \/ /\ Begin("ui", "Rest", NoLink)
              /\ UNCHANGED session
           \/ /\ BeginFor("ui", "NotifyClosed", l, "Dial")
              /\ session' = [session EXCEPT ![l] = "Erased"]
        /\ UNCHANGED <<lease, held, audio, page>>

-----------------------------------------------------------------------------
(***************************************************************************)
(* The audio workers.                                                      *)
(***************************************************************************)
\* media_should_run.
MediaShouldRun == MediaMayStart /\ mediaOn

\* request_session_failure, once per session: repeated I/O errors.
WorkerFails ==
    /\ At("worker", "Rest")
    /\ audio = "Running"
    /\ audio' = "Stopping"
    /\ Begin("worker", "MediaFailed", NoLink)
    /\ UNCHANGED <<snapshot, hangup, wakeLease, lease, held, session, page>>

\* notify_media_failed: whichever call has the media now.
MediaFailed ==
    /\ At("worker", "MediaFailed")
    /\ Begin("worker",
             IF accepted /\ mediaOn THEN "CloseAsking" ELSE "Rest",
             NoLink)
    /\ UNCHANGED <<snapshot, hangup, wakeLease, lease, held, audio,
                   session, page>>

\* worker_finished: both workers are gone.
WorkersLeave ==
    /\ At("worker", "Rest")
    /\ audio = "Stopping" \/ (audio = "Running" /\ ~MediaShouldRun)
    /\ audio' = "None"
    /\ UNCHANGED <<snapshot, hangup, wakeLease, lease, held, session,
                   page, task>>

-----------------------------------------------------------------------------
CloseSteps(t) ==
    \/ CloseAsking(t) \/ CloseTold(t) \/ StopMedia(t)
    \/ BeginClosing(t) \/ EndRealtime(t) \/ NotifyClosed(t)

\* What a task does once it has begun.
UiSteps == AcceptExclusive \/ AcceptCheck \/ DialExclusive \/ DialStart

MeshSteps ==
    \/ Identify \/ SoftPreempt \/ Ring \/ Alert
    \/ Prepare \/ Reserve \/ Start \/ Activate
    \/ CloseLink \/ Pump

CallNext ==
    \/ \E t \in Task : CloseSteps(t)
    \/ UiSteps \/ MeshSteps \/ MediaFailed
    \/ Accept \/ Hangup \/ Tick \/ Guard
    \/ ConsumeHangup
    \/ WorkerFails \/ WorkersLeave
    \/ \E l \in Link :
         \/ LinkRequest(l) \/ LinkIdentify(l) \/ MarkLinkActive(l)
         \/ ConnectMedia(l) \/ LinkLost(l) \/ Forget(l) \/ Dial(l)

(***************************************************************************)
(* A task that has begun an operation goes on, the mesh task takes the     *)
(* hang-up requests once per pass, the UI loop ticks, and workers leave.   *)
(***************************************************************************)
CallFairness ==
    /\ \A t \in Task : WF_callVars(CloseSteps(t))
    /\ WF_callVars(UiSteps)
    /\ WF_callVars(MeshSteps)
    /\ WF_callVars(MediaFailed)
    /\ SF_callVars(ConsumeHangup)
    /\ SF_callVars(Guard)

CallSpec == CallInit /\ [][CallNext]_callVars /\ CallFairness

-----------------------------------------------------------------------------
(***************************************************************************)
(* Properties.                                                             *)
(***************************************************************************)
\* Whatever the tasks do between two critical sections, the runtime keeps the
\* promise of CallOwnership: a call that begins takes over no call in hand,
\* and brings no consent of an earlier one with it.
Ownership == INSTANCE CallOwnership WITH
    NoCall <- NoLink,
    owner <- IF Busy THEN callLink ELSE NoLink,
    consent <- accepted,
    talking <- mediaOn

OwnershipSpec == Ownership!Spec

\* The media belong to an accepted call whose link is up, even if the call
\* ended between prepare_media's look and the reservation (media_should_run
\* and enqueue_packet rely on it).
MediaNeedsCall == mediaOn => MediaMayStart

\* The hard Wi-Fi lease is never left behind by the answer button or the
\* dialler: it is the accepted call's, or a task is about to take it or to
\* give it back.
ExclusiveHasCall ==
    lease.phase = "Exclusive"
        => \/ /\ callLink = lease.link
              /\ callPhase \in {"AcceptedStarting", "ActiveCall"}
           \/ \E t \in Task :
                /\ task[t].link = lease.link
                /\ task[t].at \in Holding

\* The screen may sleep again when no call is left (release_sleep_wake_lease).
WakeLeaseReleased == wakeLease => callPhase # "Idle"

\* begin_outgoing takes the hard lease without the lock; the router's lock
\* keeps an incoming call from beginning meanwhile.
DiallerFindsRoom == At("ui", "DialStart") => ~Busy

\* A hang-up request reaches the link: its session is closed, unless the
\* identification of the same call, handled first, makes it ring again.
HangupReachesLink ==
    \A l \in Link :
        (hangup /\ callLink = l /\ Open(l))
            ~> (~Open(l) \/ (Busy /\ callLink = l))

\* GPS and radio are suspended for a call whatever late hook of an earlier one
\* lets them run (the guard of the main loop).
ResourcesFollowCall ==
    (callPhase # "Idle") ~> (held \/ callPhase = "Idle")

\* A finished call leaves nothing behind: when no task is inside the runtime,
\* no call is in hand, its link is closed and nothing is asked, the Wi-Fi lease
\* is free ("release media, realtime leases, and Call Page -> Idle").
LeaseReleasedWithCall ==
    /\ ~Busy /\ ~hangup
    /\ \A l \in Link : ~Open(l)
    /\ \A t \in Task : At(t, "Rest")
    => lease.phase = "Idle"
=============================================================================
