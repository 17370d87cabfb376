-------------------------- MODULE CallRuntime_proofs --------------------------
(***************************************************************************)
(* Proofs about CallRuntime, for any set of links.                         *)
(*                                                                         *)
(* The inductive invariant CallInv says what the fields of the snapshot    *)
(* have to do with one another whenever the mutex is free, that no call    *)
(* begins while the dialler waits for the hard lease, and who answers for  *)
(* that lease.  Only actions that write the snapshot can disturb the first *)
(* part; the others depend on where the tasks are.                         *)
(*                                                                         *)
(* LeaseFit, further down, says who answers for the Wi-Fi lease whatever   *)
(* its phase, as long as two kinds of step do not happen.                  *)
(***************************************************************************)
EXTENDS CallRuntime, TLAPS

InHand == {"IncomingIdentifying", "IncomingRinging", "AcceptedStarting",
           "ActiveCall"}

CallShape ==
    /\ Busy <=> callPhase \in InHand
    /\ callPhase \in {"IncomingIdentifying", "IncomingRinging"}
         => callState = "Incoming"
    /\ accepted => callPhase \in {"AcceptedStarting", "ActiveCall"}
    /\ mediaOn => accepted /\ linkUp
    /\ callPhase # "Idle" => callLink # NoLink
    /\ wakeLease => callPhase # "Idle"

TaskShape ==
    /\ At("mesh", "Identify") => task["mesh"].link \in Link
    /\ At("ui", "DialExclusive") \/ At("ui", "DialStart")
         => task["ui"].link \in Link /\ At("mesh", "Rest") /\ ~Busy

CallInv == CallTypeOK /\ CallShape /\ TaskShape /\ ExclusiveHasCall

\* What a step has to show.
Kept == CallInv' /\ (Ownership!Next \/ UNCHANGED Ownership!ownership)

\* Task t goes to step s of an operation about link l, alone.
Goes(t, s, l) ==
    /\ task' \in [Task -> Doing]
    /\ \A u \in Task : u # t => task'[u] = task[u]
    /\ task'[t].at = s
    /\ task'[t].link = l

-----------------------------------------------------------------------------
\* A record of Doing, by its fields.
LEMMA DoesType ==
    ASSUME NEW s \in Step, NEW l \in Link \cup {NoLink},
           NEW a \in {"Rest", "Ring", "CloseLink", "Dial"},
           NEW h \in {"BeginClosing", "EndRealtime"}, NEW k \in BOOLEAN
    PROVE  /\ Does(s, l, a, h, k) \in Doing
           /\ Does(s, l, a, h, k).at = s
           /\ Does(s, l, a, h, k).link = l
  BY SMT DEF Does, Doing

LEMMA RestingType == Resting \in Doing /\ Resting.at = "Rest"
  BY SMT DEF Resting, Does, Doing, Step

\* The initial state satisfies the invariant and is CallOwnership's.
LEMMA InitInv == CallInit => CallInv /\ Ownership!Init
  <1> SUFFICES ASSUME CallInit PROVE CallInv /\ Ownership!Init
    OBVIOUS
  <1>1. Resting \in Doing /\ Resting.at = "Rest"
    BY RestingType
  <1>2. CallTypeOK
    <2>1. task \in [Task -> Doing]
      BY <1>1 DEF CallInit
    <2>2. lease \in [phase : LeasePhase, link : Link \cup {NoLink}]
      BY SMT DEF CallInit, Released, LeasePhase
    <2>3. session \in [Link -> Session]
      BY DEF CallInit, Session
    <2>4. /\ callLink \in Link \cup {NoLink} /\ callState \in State
          /\ callPhase \in Phase /\ audio \in {"None", "Running", "Stopping"}
      BY DEF CallInit, State, Phase
    <2>5. /\ accepted \in BOOLEAN /\ linkUp \in BOOLEAN /\ mediaOn \in BOOLEAN
          /\ hangup \in BOOLEAN /\ wakeLease \in BOOLEAN
          /\ held \in BOOLEAN /\ page \in BOOLEAN
      BY DEF CallInit
    <2> QED
      BY <2>1, <2>2, <2>3, <2>4, <2>5 DEF CallTypeOK
  <1>3. \A t \in Task : task[t].at = "Rest"
    BY <1>1 DEF CallInit
  <1>4. CallShape /\ TaskShape /\ ExclusiveHasCall
    BY <1>3, SMT DEF CallInit, CallShape, TaskShape, ExclusiveHasCall, Released,
       InHand, Busy, At, Task
  <1>5. Ownership!Init
    BY SMT DEF CallInit, Ownership!Init, Busy
  <1> QED
    BY <1>2, <1>4, <1>5 DEF CallInv

\* A task goes on to another step of its operation.
LEMMA ContinueGoes ==
    ASSUME CallTypeOK, NEW t \in Task, NEW s \in Step, Continue(t, s)
    PROVE  Goes(t, s, task[t].link)
  <1>1. /\ task[t].link \in Link \cup {NoLink}
        /\ task[t].after \in {"Rest", "Ring", "CloseLink", "Dial"}
        /\ task[t].hook \in {"BeginClosing", "EndRealtime"}
        /\ task[t].keep \in BOOLEAN
    BY SMT DEF CallTypeOK, Doing
  <1> DEFINE d == Does(s, task[t].link, task[t].after, task[t].hook, task[t].keep)
  <1>2. d \in Doing /\ d.at = s /\ d.link = task[t].link
    BY <1>1, DoesType
  <1>3. task' = [task EXCEPT ![t] = d]
    BY DEF Continue
  <1> HIDE DEF d
  <1> QED
    BY <1>2, <1>3, SMT DEF CallTypeOK, Goes

\* A task begins an operation.
LEMMA BeginGoes ==
    ASSUME CallTypeOK, NEW t \in Task, NEW s \in Step, NEW l \in Link \cup {NoLink},
           NEW a \in {"Rest", "Ring", "CloseLink", "Dial"}, BeginFor(t, s, l, a)
    PROVE  Goes(t, s, l)
  <1> DEFINE d == Does(s, l, a, "EndRealtime", FALSE)
  <1>2. d \in Doing /\ d.at = s /\ d.link = l
    BY SMT DEF Does, Doing
  <1>3. task' = [task EXCEPT ![t] = d]
    BY DEF BeginFor
  <1> HIDE DEF d
  <1> QED
    BY <1>2, <1>3, SMT DEF CallTypeOK, Goes

\* An operation that is over resumes at one of three steps.
LEMMA ResumeType ==
    ASSUME NEW d \in Doing
    PROVE  Resume(d) \in Doing /\ Resume(d).at \in {"Rest", "Ring", "CloseLink"}
  <1>1. d.link \in Link \cup {NoLink}
    BY SMT DEF Doing
  <1>2. /\ Does("Ring", d.link, "CloseLink", "EndRealtime", FALSE) \in Doing
        /\ Does("Ring", d.link, "CloseLink", "EndRealtime", FALSE).at = "Ring"
    BY <1>1, SMT DEF Does, Doing, Step
  <1>3. /\ Does("CloseLink", d.link, "Rest", "EndRealtime", FALSE) \in Doing
        /\ Does("CloseLink", d.link, "Rest", "EndRealtime", FALSE).at = "CloseLink"
    BY <1>1, SMT DEF Does, Doing, Step
  <1> QED
    BY <1>2, <1>3, RestingType DEF Resume

LEMMA FinishGoes ==
    ASSUME CallTypeOK, NEW t \in Task, Finish(t)
    PROVE  \E s \in {"Rest", "Ring", "CloseLink"} : \E l : Goes(t, s, l)
  <1>1. task[t] \in Doing
    BY DEF CallTypeOK
  <1> DEFINE d == Resume(task[t])
  <1>2. d \in Doing /\ d.at \in {"Rest", "Ring", "CloseLink"}
    BY <1>1, ResumeType
  <1>3. task' = [task EXCEPT ![t] = d]
    BY DEF Finish
  <1> HIDE DEF d
  <1>4. Goes(t, d.at, d.link)
    BY <1>2, <1>3, SMT DEF CallTypeOK, Goes
  <1> QED
    BY <1>2, <1>4
-----------------------------------------------------------------------------
\* A step that leaves the snapshot alone.
LEMMA Quiet ==
    ASSUME CallInv, UNCHANGED snapshot, UNCHANGED wakeLease,
           CallTypeOK', TaskShape', ExclusiveHasCall'
    PROVE  Kept
  <1>1. CallShape'
    BY SMT DEF CallInv, CallShape, snapshot, Busy, InHand
  <1>2. UNCHANGED Ownership!ownership
    BY SMT DEF Ownership!ownership, snapshot, Busy
  <1> QED
    BY <1>1, <1>2 DEF Kept, CallInv

\* A task goes on, and no call begins.
LEMMA NoCallBegins ==
    ASSUME CallInv, NEW t \in Task, NEW s, NEW l, Goes(t, s, l),
           s \notin {"Identify", "DialExclusive", "DialStart"},
           t = "mesh" => ~(At("ui", "DialExclusive") \/ At("ui", "DialStart")),
           Busy' => Busy
    PROVE  TaskShape'
  BY SMT DEF CallInv, TaskShape, Goes, At, Task

\* The lease stays with whoever held it, if the task that goes on does not.
LEMMA LeaseStays ==
    ASSUME CallInv, NEW t \in Task, NEW s, NEW l, Goes(t, s, l),
           UNCHANGED lease, UNCHANGED callLink, UNCHANGED callPhase,
           task[t].at \notin Holding
    PROVE  ExclusiveHasCall'
  BY SMT DEF CallInv, ExclusiveHasCall, Goes, Holding, Task

\* The mesh task works, so the dialler does not have the router's lock.
LEMMA MeshWorks ==
    ASSUME CallInv, ~At("mesh", "Rest")
    PROVE  ~(At("ui", "DialExclusive") \/ At("ui", "DialStart"))
  BY DEF CallInv, TaskShape

\* Most steps only move a task: they touch neither the snapshot nor the lease.
LEMMA OnlyMoves ==
    ASSUME CallInv, NEW t \in Task, NEW s, NEW l, Goes(t, s, l),
           s \notin {"Identify", "DialExclusive", "DialStart"},
           t = "mesh" => MeshIsFree \/ ~At("mesh", "Rest"),
           task[t].at \notin Holding,
           UNCHANGED snapshot, UNCHANGED wakeLease, UNCHANGED lease, CallTypeOK'
    PROVE  Kept
  <1>1. t = "mesh" => ~(At("ui", "DialExclusive") \/ At("ui", "DialStart"))
    BY MeshWorks DEF MeshIsFree, Dialling
  <1>2. Busy' => Busy
    BY DEF snapshot, Busy
  <1>3. TaskShape'
    BY <1>1, <1>2, NoCallBegins
  <1>4. ExclusiveHasCall'
    BY LeaseStays DEF snapshot
  <1> QED
    BY <1>3, <1>4, Quiet

-----------------------------------------------------------------------------
(***************************************************************************)
(* close_call.                                                             *)
(***************************************************************************)
LEMMA CloseLockedKept ==
    ASSUME CallInv, NEW t \in Task, NEW asks \in BOOLEAN,
           NEW after \in {"Rest", "Ring", "CloseLink", "Dial"},
           CloseLocked(t, asks, after), task[t].at \notin Holding,
           t = "mesh" => ~At("mesh", "Rest"),
           UNCHANGED <<lease, held, audio, session, page>>
    PROVE  Kept
  <1> DEFINE ask == asks /\ callLink # NoLink
             ends == callPhase # "Idle" /\ callLink # NoLink
             hook == IF ask THEN "BeginClosing" ELSE "EndRealtime"
             d == Does(IF mediaOn THEN "StopMedia" ELSE hook, callLink, after,
                       hook, callPhase \in Exclusive)
             e == IF ask \/ ends \/ mediaOn THEN d ELSE Resume(d)
  <1>1. /\ callLink' = callLink /\ callState' = "Over"
        /\ callPhase' = (IF ask THEN "ClosingCall" ELSE "Idle")
        /\ ~accepted' /\ ~linkUp' /\ ~mediaOn'
        /\ accepted' \in BOOLEAN /\ linkUp' \in BOOLEAN /\ mediaOn' \in BOOLEAN
        /\ hangup' = ask
        /\ wakeLease' = (ask /\ wakeLease)
        /\ task' = [task EXCEPT ![t] = e]
    BY DEF CloseLocked, Becomes
  <1>2. callLink \in Link \cup {NoLink}
    BY DEF CallInv, CallTypeOK
  <1>3. /\ d \in Doing
        /\ d.at \in {"StopMedia", "BeginClosing", "EndRealtime"}
        /\ d.link = callLink
    BY <1>2, SMT DEF Does, Doing, Step
  <1>4. /\ e \in Doing
        /\ e.at \in {"StopMedia", "BeginClosing", "EndRealtime",
                     "Rest", "Ring", "CloseLink"}
    <2> HIDE DEF d
    <2> QED
      BY <1>3, ResumeType
  <1>5. callPhase # "Idle" => e = d
    BY DEF CallInv, CallShape
  <1> HIDE DEF d, e
  <1>6. Goes(t, e.at, e.link)
    BY <1>1, <1>4, SMT DEF Goes, CallInv, CallTypeOK
  <1>7. CallTypeOK'
    <2>1. hangup' \in BOOLEAN /\ wakeLease' \in BOOLEAN
      BY <1>1
    <2>2. callState' \in State /\ callPhase' \in Phase
      BY <1>1 DEF State, Phase
    <2> QED
      BY <1>1, <1>2, <1>6, <2>1, <2>2 DEF CallInv, CallTypeOK, Goes
  <1>8. ~Busy'
    BY <1>1 DEF Busy
  <1>9. CallShape'
    <2>1. callPhase' # "Idle" => ask
      BY <1>1
    <2>2. callPhase' \in {"ClosingCall", "Idle"}
      BY <1>1
    <2>3. wakeLease' => ask
      BY <1>1
    <2>4. ask => callPhase' # "Idle"
      BY <1>1
    <2> QED
      BY <1>1, <1>8, <2>1, <2>2, <2>3, <2>4 DEF CallShape, InHand
  <1>10. TaskShape'
    BY <1>4, <1>6, <1>8, MeshWorks, NoCallBegins
  <1>11. ExclusiveHasCall'
    <2> SUFFICES ASSUME (lease.phase = "Exclusive")'
                 PROVE  \E u \in Task : task'[u].link = lease'.link
                                        /\ task'[u].at \in Holding
      BY DEF ExclusiveHasCall
    <2>1. lease' = lease
      OBVIOUS
    <2>2. CASE callLink = lease.link /\ callPhase \in {"AcceptedStarting", "ActiveCall"}
      <3>1. e = d
        BY <2>2, <1>5
      <3>2. task'[t].link = lease'.link /\ task'[t].at \in Holding
        BY <1>3, <1>6, <2>1, <2>2, <3>1 DEF Goes, Holding
      <3> QED
        BY <3>2
    <2>3. CASE \E u \in Task : task[u].link = lease.link /\ task[u].at \in Holding
      BY <2>1, <2>3, <1>6 DEF Goes
    <2> QED
      BY <2>1, <2>2, <2>3 DEF CallInv, ExclusiveHasCall
  <1>12. Ownership!End
    BY <1>1, <1>8 DEF Ownership!End
  <1> QED
    BY <1>7, <1>9, <1>10, <1>11, <1>12 DEF Kept, CallInv, Ownership!Next
LEMMA CloseAskingKept ==
    ASSUME CallInv, NEW t \in Task, CloseAsking(t)
    PROVE  Kept
  <1>1. task[t].after \in {"Rest", "Ring", "CloseLink", "Dial"}
    BY SMT DEF CallInv, CallTypeOK, Doing
  <1>2. task[t].at \notin Holding /\ task[t].at # "Rest"
    BY DEF CloseAsking, At, Holding
  <1> QED
    BY <1>1, <1>2, CloseLockedKept DEF CloseAsking, At

LEMMA CloseToldKept ==
    ASSUME CallInv, NEW t \in Task, CloseTold(t)
    PROVE  Kept
  <1>1. task[t].after \in {"Rest", "Ring", "CloseLink", "Dial"}
    BY SMT DEF CallInv, CallTypeOK, Doing
  <1>2. task[t].at \notin Holding /\ task[t].at # "Rest"
    BY DEF CloseTold, At, Holding
  <1> QED
    BY <1>1, <1>2, CloseLockedKept DEF CloseTold, At

LEMMA HangupKept == ASSUME CallInv, Hangup PROVE Kept
  <1>1. task["ui"].at \notin Holding
    BY DEF Hangup, At, Holding
  <1> QED
    BY <1>1, CloseLockedKept DEF Hangup, Task

\* The lease's holder waits for the media, and then has a hook to call.
LEMMA StopMediaKept ==
    ASSUME CallInv, NEW t \in Task, StopMedia(t)
    PROVE  Kept
  <1> DEFINE h == task[t].hook
  <1>1. h \in {"BeginClosing", "EndRealtime"} /\ h \in Step
    BY SMT DEF CallInv, CallTypeOK, Doing, Step
  <1>2. Goes(t, h, task[t].link)
    BY <1>1, ContinueGoes DEF CallInv, StopMedia
  <1>3. UNCHANGED snapshot /\ UNCHANGED wakeLease
    BY DEF StopMedia
  <1>4. CallTypeOK'
    <2>1. audio' \in {"None", "Running", "Stopping"}
      BY DEF StopMedia, CallInv, CallTypeOK
    <2> QED
      BY <1>2, <1>3, <2>1 DEF StopMedia, CallInv, CallTypeOK, Goes, snapshot
  <1>5. TaskShape'
    <2>1. t = "mesh" => ~(At("ui", "DialExclusive") \/ At("ui", "DialStart"))
      BY MeshWorks DEF StopMedia, At
    <2>2. Busy' => Busy
      BY <1>3 DEF snapshot, Busy
    <2> QED
      BY <1>1, <1>2, <2>1, <2>2, NoCallBegins
  <1>6. ExclusiveHasCall'
    BY <1>1, <1>2, <1>3, SMT
    DEF CallInv, ExclusiveHasCall, Goes, Holding, snapshot, StopMedia
  <1> QED
    BY <1>3, <1>4, <1>5, <1>6, Quiet

\* The two hooks that give up the hard lease.
LEMMA HooksKept ==
    ASSUME CallInv, NEW t \in Task, BeginClosing(t) \/ EndRealtime(t)
    PROVE  Kept
  <1>1. PICK s, l : s \in {"Rest", "Ring", "CloseLink"} /\ Goes(t, s, l)
    BY FinishGoes DEF CallInv, BeginClosing, EndRealtime
  <1>2. UNCHANGED snapshot /\ UNCHANGED wakeLease
    BY DEF BeginClosing, EndRealtime
  <1>3. task[t].link \in Link \cup {NoLink} /\ task[t].keep \in BOOLEAN
    BY SMT DEF CallInv, CallTypeOK, Doing
  <1>4. /\ lease' \in [phase : LeasePhase, link : Link \cup {NoLink}]
        /\ lease'.phase = "Exclusive"
             => lease' = lease /\ lease.link # task[t].link
    <2>1. CASE BeginClosing(t)
      <3>1. lease' = [phase |-> IF task[t].keep THEN "ClosingExclusive"
                                                ELSE "ClosingSoft",
                      link |-> task[t].link]
        BY <2>1 DEF BeginClosing
      <3> QED
        BY <1>3, <3>1, SMT DEF LeasePhase
    <2>2. CASE EndRealtime(t)
      <3>1. lease' = IF lease.link \in {task[t].link, NoLink}
                     THEN Released ELSE lease
        BY <2>2 DEF EndRealtime, ExitCall
      <3>2. Released \in [phase : LeasePhase, link : Link \cup {NoLink}]
        BY SMT DEF Released, LeasePhase
      <3>3. Released.phase # "Exclusive"
        BY SMT DEF Released
      <3> QED
        BY <3>1, <3>2, <3>3 DEF CallInv, CallTypeOK
    <2> QED
      BY <2>1, <2>2
  <1>5. CallTypeOK'
    <2>1. held' \in BOOLEAN
      BY DEF BeginClosing, EndRealtime
    <2> QED
      BY <1>1, <1>2, <1>4, <2>1
      DEF BeginClosing, EndRealtime, CallInv, CallTypeOK, Goes, snapshot
  <1>6. TaskShape'
    <2>1. t = "mesh" => ~(At("ui", "DialExclusive") \/ At("ui", "DialStart"))
      BY MeshWorks DEF BeginClosing, EndRealtime, At
    <2>2. Busy' => Busy
      BY <1>2 DEF snapshot, Busy
    <2> QED
      BY <1>1, <2>1, <2>2, NoCallBegins
  <1>7. ExclusiveHasCall'
    BY <1>1, <1>2, <1>4, SMT DEF CallInv, ExclusiveHasCall, Goes, snapshot
  <1> QED
    BY <1>2, <1>5, <1>6, <1>7, Quiet

LEMMA NotifyClosedKept ==
    ASSUME CallInv, NEW t \in Task, NotifyClosed(t)
    PROVE  Kept
  <1>1. PICK s, l : s \in {"CloseTold", "Rest", "Ring", "CloseLink"} /\ Goes(t, s, l)
    <2>1. "CloseTold" \in Step
      BY DEF Step
    <2> QED
      BY <2>1, ContinueGoes, FinishGoes DEF CallInv, NotifyClosed
  <1>2. /\ UNCHANGED snapshot /\ UNCHANGED wakeLease /\ UNCHANGED lease
        /\ task[t].at \notin Holding /\ task[t].at # "Rest"
    BY DEF NotifyClosed, Holding, At
  <1>3. CallTypeOK'
    BY <1>1, <1>2 DEF NotifyClosed, CallInv, CallTypeOK, Goes, snapshot
  <1> QED
    BY <1>1, <1>2, <1>3, OnlyMoves DEF At
-----------------------------------------------------------------------------
(***************************************************************************)
(* An incoming call, the link and the media.                               *)
(***************************************************************************)
LEMMA AnnounceKept ==
    ASSUME CallInv, NEW l \in Link, LinkRequest(l) \/ LinkIdentify(l)
    PROVE  Kept
  <1>1. MeshIsFree /\ ~(At("ui", "DialExclusive") \/ At("ui", "DialStart"))
    BY DEF LinkRequest, LinkIdentify, MeshIsFree, Dialling
  <1>2. Goes("mesh", "Identify", l)
    <2>1. "Identify" \in Step
      BY DEF Step
    <2> QED
      BY <2>1, BeginGoes DEF CallInv, LinkRequest, LinkIdentify, Begin, Task
  <1>3. UNCHANGED snapshot /\ UNCHANGED wakeLease /\ UNCHANGED lease
    BY DEF LinkRequest, LinkIdentify
  <1>4. CallTypeOK'
    <2>1. session' \in [Link -> Session]
      BY DEF LinkRequest, LinkIdentify, CallInv, CallTypeOK, Session
    <2> QED
      BY <1>2, <1>3, <2>1
      DEF LinkRequest, LinkIdentify, CallInv, CallTypeOK, Goes, snapshot
  <1>5. TaskShape'
    BY <1>1, <1>2, <1>3, SMT DEF CallInv, TaskShape, Goes, At, Task
  <1>6. ExclusiveHasCall'
    <2>1. task["mesh"].at \notin Holding
      BY <1>1 DEF MeshIsFree, At, Holding
    <2> QED
      BY <1>2, <1>3, <2>1, LeaseStays DEF snapshot, Task
  <1> QED
    BY <1>3, <1>4, <1>5, <1>6, Quiet

LEMMA IdentifyKept == ASSUME CallInv, Identify PROVE Kept
  <1> DEFINE l == task["mesh"].link
  <1>1. l \in Link /\ l # NoLink /\ "mesh" \in Task
    BY CallLinksAssumption DEF CallInv, TaskShape, Identify, Task
  <1>2. /\ task["mesh"].at \notin Holding /\ task["mesh"].at # "Rest"
        /\ ~At("mesh", "Rest")
    BY DEF Identify, Holding, At
  <1>3. CASE UNCHANGED snapshot /\ UNCHANGED wakeLease /\ UNCHANGED hangup
             /\ (Finish("mesh") \/ Begin("mesh", "CloseLink", l)
                                \/ Begin("mesh", "Rest", NoLink))
    <2>1. PICK s, k : s \in {"Rest", "Ring", "CloseLink"} /\ Goes("mesh", s, k)
      <3>1. "CloseLink" \in Step /\ "Rest" \in Step
        BY DEF Step
      <3> QED
        BY <1>1, <1>3, <3>1, FinishGoes, BeginGoes DEF CallInv, Begin
    <2>2. CallTypeOK'
      BY <1>3, <2>1 DEF Identify, CallInv, CallTypeOK, Goes, snapshot
    <2>3. UNCHANGED lease
      BY DEF Identify
    <2> QED
      BY <1>1, <1>2, <1>3, <2>1, <2>2, <2>3, OnlyMoves
  <1>4. CASE /\ ~Busy
             /\ Becomes(l, "Incoming", "IncomingIdentifying",
                        FALSE, FALSE, FALSE)
             /\ hangup' = FALSE /\ wakeLease' = TRUE
             /\ Continue("mesh", "SoftPreempt")
    <2>1. Goes("mesh", "SoftPreempt", l)
      <3>1. "SoftPreempt" \in Step
        BY DEF Step
      <3> QED
        BY <1>1, <1>4, <3>1, ContinueGoes DEF CallInv
    <2>2. /\ callLink' = l /\ callState' = "Incoming"
          /\ callPhase' = "IncomingIdentifying"
          /\ accepted' = FALSE /\ linkUp' = FALSE /\ mediaOn' = FALSE
      BY <1>4 DEF Becomes
    <2>3. UNCHANGED lease
      BY DEF Identify
    <2>4. CallTypeOK'
      <3>1. callState' \in State /\ callPhase' \in Phase
        BY <2>2 DEF State, Phase
      <3> QED
        BY <1>1, <1>4, <2>1, <2>2, <3>1 DEF Identify, CallInv, CallTypeOK, Goes
    <2>5. CallShape'
      BY <1>1, <2>2, SMT DEF CallShape, Busy, InHand
    <2>6. TaskShape'
      BY <1>1, <1>2, <2>1, SMT DEF CallInv, TaskShape, Goes, At, Task
    <2>7. ExclusiveHasCall'
      BY <1>2, <1>4, <2>1, <2>3, SMT
      DEF CallInv, CallShape, InHand, ExclusiveHasCall, Goes, Holding
    <2>8. Ownership!Ring(l)
      <3>1. ~accepted /\ ~mediaOn
        BY <1>4, SMT DEF CallInv, CallShape, InHand
      <3>2. accepted' = accepted /\ mediaOn' = mediaOn
        BY <2>2, <3>1 DEF CallInv, CallTypeOK
      <3>3. Busy'
        BY <2>2 DEF Busy
      <3> QED
        BY <1>4, <2>2, <3>2, <3>3 DEF Ownership!Ring
    <2> QED
      BY <1>1, <2>4, <2>5, <2>6, <2>7, <2>8 DEF Kept, CallInv, Ownership!Next
  <1> QED
    BY <1>3, <1>4 DEF Identify

LEMMA SoftPreemptKept == ASSUME CallInv, SoftPreempt PROVE Kept
  <1>1. PICK s, l : s \in {"Rest", "Ring", "CloseLink"} /\ Goes("mesh", s, l)
    BY FinishGoes DEF CallInv, SoftPreempt, Task
  <1>2. UNCHANGED snapshot /\ UNCHANGED wakeLease
    BY DEF SoftPreempt
  <1>3. task["mesh"].link \in Link \cup {NoLink}
    BY SMT DEF CallInv, CallTypeOK, Doing, Task
  <1>4. /\ lease' \in [phase : LeasePhase, link : Link \cup {NoLink}]
        /\ lease'.phase # "Exclusive"
    BY <1>3, SMT DEF SoftPreempt, LeasePhase
  <1>5. CallTypeOK'
    BY <1>1, <1>2, <1>4 DEF SoftPreempt, CallInv, CallTypeOK, Goes, snapshot
  <1>6. TaskShape'
    <2>1. ~(At("ui", "DialExclusive") \/ At("ui", "DialStart"))
      BY MeshWorks DEF SoftPreempt, At
    <2>2. Busy' => Busy
      BY <1>2 DEF snapshot, Busy
    <2> QED
      BY <1>1, <2>1, <2>2, NoCallBegins DEF Task
  <1>7. ExclusiveHasCall'
    BY <1>4 DEF ExclusiveHasCall
  <1> QED
    BY <1>2, <1>5, <1>6, <1>7, Quiet

\* A step of the mesh task that writes some field of the snapshot, of the call
\* in hand.
LEMMA MeshWrites ==
    ASSUME CallInv, NEW s, NEW l, Goes("mesh", s, l),
           s \notin {"Identify", "DialExclusive", "DialStart"},
           MeshIsFree \/ ~At("mesh", "Rest"),
           task["mesh"].at \notin Holding,
           UNCHANGED lease, UNCHANGED callLink, Busy' => Busy,
           callPhase \in {"AcceptedStarting", "ActiveCall"}
             => callPhase' \in {"AcceptedStarting", "ActiveCall"}
    PROVE  TaskShape' /\ ExclusiveHasCall'
  <1>1. ~(At("ui", "DialExclusive") \/ At("ui", "DialStart"))
    BY MeshWorks DEF MeshIsFree, Dialling
  <1>2. TaskShape'
    BY <1>1, NoCallBegins DEF Task
  <1>3. ExclusiveHasCall'
    BY SMT DEF CallInv, ExclusiveHasCall, Goes, Holding, Task
  <1> QED
    BY <1>2, <1>3

LEMMA RingKept == ASSUME CallInv, Ring PROVE Kept
  <1>1. /\ task["mesh"].at \notin Holding /\ ~At("mesh", "Rest")
        /\ UNCHANGED wakeLease /\ UNCHANGED lease /\ "mesh" \in Task
    BY DEF Ring, Holding, At, Task
  <1>2. PICK s, l : s \in {"Alert", "Rest", "Ring", "CloseLink"} /\ Goes("mesh", s, l)
    <2>1. "Alert" \in Step /\ "Rest" \in Step
      BY DEF Step
    <2> QED
      BY <1>1, <2>1, ContinueGoes, BeginGoes, FinishGoes DEF CallInv, Ring, Begin
  <1>3. CASE UNCHANGED snapshot
    <2>1. CallTypeOK'
      BY <1>2, <1>3 DEF Ring, CallInv, CallTypeOK, Goes, snapshot
    <2> QED
      BY <1>1, <1>2, <1>3, <2>1, OnlyMoves
  <1>4. CASE /\ callPhase = "IncomingIdentifying"
             /\ Becomes(callLink, callState, "IncomingRinging",
                        accepted, linkUp, mediaOn)
    <2>1. /\ UNCHANGED <<callLink, callState, accepted, linkUp, mediaOn>>
          /\ callPhase' = "IncomingRinging"
      BY <1>4 DEF Becomes
    <2>2. CallTypeOK'
      <3>1. callPhase' \in Phase
        BY <2>1 DEF Phase
      <3> QED
        BY <1>2, <2>1, <3>1 DEF Ring, CallInv, CallTypeOK, Goes
    <2>3. CallShape'
      BY <1>1, <1>4, <2>1, SMT DEF CallInv, CallShape, Busy, InHand
    <2>4. TaskShape' /\ ExclusiveHasCall'
      <3>1. Busy' => Busy
        BY <2>1 DEF Busy
      <3> QED
        BY <1>1, <1>2, <1>4, <2>1, <3>1, MeshWrites
    <2>5. UNCHANGED Ownership!ownership
      BY <2>1, SMT DEF Ownership!ownership, Busy
    <2> QED
      BY <2>2, <2>3, <2>4, <2>5 DEF Kept, CallInv
  <1> QED
    BY <1>3, <1>4 DEF Ring

\* Steps of the mesh task that leave snapshot and lease alone.
LEMMA MeshMovesKept ==
    ASSUME CallInv,
           \/ Alert \/ Prepare \/ Start \/ CloseLink \/ Pump \/ ConsumeHangup
           \/ \E l \in Link : ConnectMedia(l) \/ LinkLost(l)
    PROVE  Kept
  <1>1. /\ UNCHANGED snapshot /\ UNCHANGED wakeLease /\ UNCHANGED lease
        /\ MeshIsFree \/ ~At("mesh", "Rest")
        /\ task["mesh"].at \notin Holding
        /\ "mesh" \in Task
    BY DEF Alert, Prepare, Start, CloseLink, Pump, ConsumeHangup, ConnectMedia,
           LinkLost, MeshIsFree, Holding, At, Task
  <1>2. task["mesh"].link \in Link \cup {NoLink} /\ callLink \in Link \cup {NoLink}
    BY SMT DEF CallInv, CallTypeOK, Doing, Task
  <1> DEFINE S == {"CloseAsking", "Activate", "Reserve", "Prepare",
                   "NotifyClosed", "Pump", "Rest", "Ring", "CloseLink"}
  <1>3. \A s \in S : s \in Step
    BY DEF Step
  <1>4. PICK s, l : s \in S /\ Goes("mesh", s, l)
    <2>1. \A s \in S : Continue("mesh", s) => Goes("mesh", s, task["mesh"].link)
      BY <1>1, <1>3, ContinueGoes DEF CallInv
    <2>2. \A s \in S, l \in Link \cup {NoLink},
             a \in {"Rest", "Ring", "CloseLink", "Dial"} :
            BeginFor("mesh", s, l, a) => Goes("mesh", s, l)
      BY <1>1, <1>3, BeginGoes DEF CallInv
    <2>3. Finish("mesh") => \E s \in S : \E l : Goes("mesh", s, l)
      BY <1>1, FinishGoes DEF CallInv
    <2>4. CASE Alert \/ Prepare \/ Start
      BY <2>1, <2>2, <2>3, <2>4 DEF Alert, Prepare, Start, Begin
    <2>5. CASE CloseLink \/ Pump \/ ConsumeHangup
      BY <1>2, <2>2, <2>5
      DEF CloseLink, Pump, ConsumeHangup, CloseSession, Begin
    <2>6. CASE \E l \in Link : ConnectMedia(l) \/ LinkLost(l)
      BY <2>2, <2>6 DEF ConnectMedia, LinkLost, CloseSession, Begin
    <2> QED
      BY <2>4, <2>5, <2>6
  <1>5. /\ session' \in [Link -> Session]
        /\ audio' \in {"None", "Running", "Stopping"}
        /\ hangup' \in BOOLEAN
    BY DEF Alert, Prepare, Start, CloseLink, Pump, ConsumeHangup, ConnectMedia,
           LinkLost, CloseSession, CallInv, CallTypeOK, Session
  <1>6. UNCHANGED held /\ UNCHANGED page
    BY DEF Alert, Prepare, Start, CloseLink, Pump, ConsumeHangup, ConnectMedia,
           LinkLost
  <1>7. CallTypeOK'
    BY <1>1, <1>4, <1>5, <1>6 DEF CallInv, CallTypeOK, Goes, snapshot
  <1> QED
    BY <1>1, <1>4, <1>7, OnlyMoves
\* No task moves.
LEMMA StillKept ==
    ASSUME CallInv, UNCHANGED snapshot, UNCHANGED wakeLease, UNCHANGED lease,
           UNCHANGED task, CallTypeOK'
    PROVE  Kept
  <1>1. TaskShape'
    BY SMT DEF CallInv, TaskShape, At, snapshot, Busy
  <1>2. ExclusiveHasCall'
    BY SMT DEF CallInv, ExclusiveHasCall, snapshot
  <1> QED
    BY <1>1, <1>2, Quiet

LEMMA MarkLinkActiveKept ==
    ASSUME CallInv, NEW l \in Link, MarkLinkActive(l)
    PROVE  Kept
  <1>1. /\ UNCHANGED <<callLink, callState, callPhase, accepted, mediaOn,
                       wakeLease, lease, task>>
        /\ linkUp' = TRUE
    BY DEF MarkLinkActive, Becomes
  <1>2. CallTypeOK'
    BY <1>1 DEF MarkLinkActive, CallInv, CallTypeOK
  <1>3. CallShape'
    BY <1>1, SMT DEF CallInv, CallShape, Busy, InHand
  <1>4. TaskShape'
    BY <1>1, SMT DEF CallInv, TaskShape, At, Busy
  <1>5. ExclusiveHasCall'
    BY <1>1, SMT DEF CallInv, ExclusiveHasCall
  <1>6. UNCHANGED Ownership!ownership
    BY <1>1, SMT DEF Ownership!ownership, Busy
  <1> QED
    BY <1>2, <1>3, <1>4, <1>5, <1>6 DEF Kept, CallInv

LEMMA ReserveKept == ASSUME CallInv, Reserve PROVE Kept
  <1>1. /\ task["mesh"].at \notin Holding /\ ~At("mesh", "Rest")
        /\ UNCHANGED wakeLease /\ UNCHANGED lease /\ "mesh" \in Task
    BY DEF Reserve, Holding, At, Task
  <1>2. PICK s, l : s \in {"Start", "CloseAsking", "Activate"} /\ Goes("mesh", s, l)
    <2>1. "Start" \in Step /\ "CloseAsking" \in Step /\ "Activate" \in Step
      BY DEF Step
    <2>2. \E s \in {"Start", "CloseAsking", "Activate"} : Continue("mesh", s)
      BY DEF Reserve
    <2>3. PICK s \in {"Start", "CloseAsking", "Activate"} : Continue("mesh", s)
      BY <2>2
    <2>4. Goes("mesh", s, task["mesh"].link)
      BY <1>1, <2>1, <2>3, ContinueGoes DEF CallInv
    <2> QED
      BY <2>3, <2>4
  <1>3. CASE UNCHANGED snapshot
    <2>1. CallTypeOK'
      BY <1>2, <1>3 DEF Reserve, CallInv, CallTypeOK, Goes, snapshot
    <2> QED
      BY <1>1, <1>2, <1>3, <2>1, OnlyMoves
  <1>4. CASE /\ MediaMayStart
             /\ Becomes(callLink, callState, callPhase, accepted, linkUp, TRUE)
    <2>1. /\ UNCHANGED <<callLink, callState, callPhase, accepted, linkUp>>
          /\ mediaOn' = TRUE
      BY <1>4 DEF Becomes
    <2>2. CallTypeOK'
      BY <1>2, <2>1 DEF Reserve, CallInv, CallTypeOK, Goes
    <2>3. CallShape'
      BY <1>1, <1>4, <2>1, SMT DEF CallInv, CallShape, Busy, InHand, MediaMayStart
    <2>4. TaskShape' /\ ExclusiveHasCall'
      <3>1. Busy' => Busy
        BY <2>1 DEF Busy
      <3> QED
        BY <1>1, <1>2, <2>1, <3>1, MeshWrites
    <2>5. Ownership!Talk
      <3>1. Busy' = Busy
        BY <2>1 DEF Busy
      <3> QED
        BY <1>4, <2>1, <3>1 DEF Ownership!Talk, MediaMayStart
    <2> QED
      BY <2>2, <2>3, <2>4, <2>5 DEF Kept, CallInv, Ownership!Next
  <1> QED
    BY <1>3, <1>4 DEF Reserve

LEMMA ActivateKept == ASSUME CallInv, Activate PROVE Kept
  <1>1. /\ task["mesh"].at \notin Holding /\ ~At("mesh", "Rest")
        /\ UNCHANGED wakeLease /\ UNCHANGED lease /\ "mesh" \in Task
    BY DEF Activate, Holding, At, Task
  <1>2. PICK s, l : s \in {"Rest", "Ring", "CloseLink"} /\ Goes("mesh", s, l)
    <2>1. "Rest" \in Step
      BY DEF Step
    <2> QED
      BY <1>1, <2>1, BeginGoes, FinishGoes DEF CallInv, Activate, Begin
  <1>3. CASE UNCHANGED snapshot
    <2>1. CallTypeOK'
      BY <1>2, <1>3 DEF Activate, CallInv, CallTypeOK, Goes, snapshot
    <2> QED
      BY <1>1, <1>2, <1>3, <2>1, OnlyMoves
  <1>4. CASE /\ accepted /\ Busy
             /\ Becomes(callLink, "Active", "ActiveCall",
                        accepted, linkUp, mediaOn)
    <2>1. /\ UNCHANGED <<callLink, accepted, linkUp, mediaOn>>
          /\ callState' = "Active" /\ callPhase' = "ActiveCall"
      BY <1>4 DEF Becomes
    <2>2. CallTypeOK'
      <3>1. callState' \in State /\ callPhase' \in Phase
        BY <2>1 DEF State, Phase
      <3> QED
        BY <1>2, <2>1, <3>1 DEF Activate, CallInv, CallTypeOK, Goes
    <2>3. CallShape'
      BY <1>1, <1>4, <2>1, SMT DEF CallInv, CallShape, Busy, InHand
    <2>4. TaskShape' /\ ExclusiveHasCall'
      BY <1>1, <1>2, <1>4, <2>1, MeshWrites
    <2>5. UNCHANGED Ownership!ownership
      BY <1>4, <2>1, SMT DEF Ownership!ownership, Busy
    <2> QED
      BY <2>2, <2>3, <2>4, <2>5 DEF Kept, CallInv
  <1> QED
    BY <1>3, <1>4 DEF Activate

-----------------------------------------------------------------------------
(***************************************************************************)
(* The UI task and the audio workers.                                      *)
(***************************************************************************)
LEMMA ClocksKept ==
    ASSUME CallInv,
           Tick \/ Guard \/ WorkersLeave \/ (\E l \in Link : Forget(l))
    PROVE  Kept
  <1>1. UNCHANGED snapshot /\ UNCHANGED <<hangup, wakeLease, lease, task>>
    BY DEF Tick, Guard, WorkersLeave, Forget
  <1>2. /\ session' \in [Link -> Session]
        /\ audio' \in {"None", "Running", "Stopping"}
    BY DEF Tick, Guard, WorkersLeave, Forget, CallInv, CallTypeOK, Session
  <1>3. held' \in BOOLEAN /\ page' \in BOOLEAN
    BY DEF Tick, Guard, WorkersLeave, Forget, CallInv, CallTypeOK
  <1>4. CallTypeOK'
    BY <1>1, <1>2, <1>3 DEF CallInv, CallTypeOK, snapshot
  <1> QED
    BY <1>1, <1>4, StillKept

LEMMA WorkerKept == ASSUME CallInv, WorkerFails \/ MediaFailed PROVE Kept
  <1>1. /\ UNCHANGED snapshot /\ UNCHANGED wakeLease /\ UNCHANGED lease
        /\ task["worker"].at \notin Holding
    BY DEF WorkerFails, MediaFailed, Holding, At
  <1>2. PICK s \in {"MediaFailed", "CloseAsking", "Rest"} :
          Goes("worker", s, NoLink)
    <2>1. "MediaFailed" \in Step /\ "CloseAsking" \in Step /\ "Rest" \in Step
      BY DEF Step
    <2>2. "worker" \in Task
      BY DEF Task
    <2> QED
      BY <2>1, <2>2, BeginGoes DEF CallInv, WorkerFails, MediaFailed, Begin
  <1>3. CallTypeOK'
    BY <1>1, <1>2 DEF WorkerFails, MediaFailed, CallInv, CallTypeOK, Goes, snapshot
  <1> QED
    BY <1>1, <1>2, <1>3, OnlyMoves DEF Task

LEMMA AcceptKept == ASSUME CallInv, Accept PROVE Kept
  <1>1. /\ UNCHANGED snapshot /\ UNCHANGED wakeLease /\ UNCHANGED lease
        /\ task["ui"].at \notin Holding /\ "ui" \in Task
    BY DEF Accept, Holding, At, Task
  <1>2. Goes("ui", "AcceptExclusive", callLink)
    <2>1. "AcceptExclusive" \in Step
      BY DEF Step
    <2> QED
      BY <1>1, <2>1, BeginGoes DEF CallInv, CallTypeOK, Accept, Begin
  <1>3. CallTypeOK'
    BY <1>1, <1>2 DEF Accept, CallInv, CallTypeOK, Goes, snapshot
  <1> QED
    BY <1>1, <1>2, <1>3, OnlyMoves
\* The hard lease, taken by the task that is going to check the call.
LEMMA EnterExclusiveHeld ==
    ASSUME CallInv, NEW l \in Link \cup {NoLink}, EnterExclusive(l),
           NEW s \in {"AcceptCheck", "DialStart"}, Goes("ui", s, l)
    PROVE  /\ lease' \in [phase : LeasePhase, link : Link \cup {NoLink}]
           /\ ExclusiveHasCall'
  <1>1. /\ lease' \in [phase : LeasePhase, link : Link \cup {NoLink}]
        /\ lease'.link = l
    BY SMT DEF EnterExclusive, LeasePhase
  <1>2. "ui" \in Task
    BY DEF Task
  <1> QED
    BY <1>1, <1>2 DEF ExclusiveHasCall, Goes, Holding

LEMMA AcceptExclusiveKept == ASSUME CallInv, AcceptExclusive PROVE Kept
  <1> DEFINE l == task["ui"].link
  <1>1. /\ UNCHANGED snapshot /\ UNCHANGED wakeLease
        /\ task["ui"].at \notin Holding /\ "ui" \in Task
        /\ "AcceptCheck" \in Step /\ "CloseAsking" \in Step
    BY DEF AcceptExclusive, Holding, At, Task, Step
  <1>2. l \in Link \cup {NoLink}
    BY SMT DEF CallInv, CallTypeOK, Doing, Task
  <1>3. CASE EnterExclusive(l) /\ Continue("ui", "AcceptCheck")
    <2>1. Goes("ui", "AcceptCheck", l)
      BY <1>1, <1>3, ContinueGoes DEF CallInv
    <2>2. /\ lease' \in [phase : LeasePhase, link : Link \cup {NoLink}]
          /\ ExclusiveHasCall'
      BY <1>2, <1>3, <2>1, EnterExclusiveHeld
    <2>3. CallTypeOK'
      <3>1. held' \in BOOLEAN
        BY <1>3 DEF EnterExclusive
      <3> QED
        BY <1>1, <2>1, <2>2, <3>1
        DEF AcceptExclusive, CallInv, CallTypeOK, Goes, snapshot
    <2>4. TaskShape'
      <3>1. Busy' => Busy
        BY <1>1 DEF snapshot, Busy
      <3> QED
        BY <1>1, <2>1, <3>1, NoCallBegins
    <2> QED
      BY <1>1, <2>2, <2>3, <2>4, Quiet
  <1>4. CASE Continue("ui", "CloseAsking") /\ UNCHANGED <<lease, held>>
    <2>1. Goes("ui", "CloseAsking", l)
      BY <1>1, <1>4, ContinueGoes DEF CallInv
    <2>2. CallTypeOK'
      BY <1>1, <1>4, <2>1 DEF AcceptExclusive, CallInv, CallTypeOK, Goes, snapshot
    <2> QED
      BY <1>1, <1>4, <2>1, <2>2, OnlyMoves
  <1> QED
    BY <1>3, <1>4 DEF AcceptExclusive

\* The call that was answered takes the hard lease over from the button.
LEMMA AcceptCheckKept == ASSUME CallInv, AcceptCheck PROVE Kept
  <1> DEFINE l == task["ui"].link
  <1>1. /\ UNCHANGED lease /\ At("ui", "AcceptCheck") /\ "ui" \in Task
        /\ "Rest" \in Step /\ "EndRealtime" \in Step
    BY DEF AcceptCheck, Task, Step
  <1>2. CASE /\ callLink = l /\ callPhase = "IncomingRinging"
             /\ Becomes(callLink, callState, "AcceptedStarting",
                        TRUE, linkUp, mediaOn)
             /\ wakeLease' = TRUE
             /\ Begin("ui", "Rest", NoLink)
    <2>1. Goes("ui", "Rest", NoLink)
      BY <1>1, <1>2, BeginGoes DEF CallInv, Begin
    <2>2. /\ UNCHANGED <<callLink, callState, linkUp, mediaOn>>
          /\ callPhase' = "AcceptedStarting" /\ accepted' = TRUE
      BY <1>2 DEF Becomes
    <2>3. CallTypeOK'
      <3>1. callPhase' \in Phase
        BY <2>2 DEF Phase
      <3> QED
        BY <1>1, <1>2, <2>1, <2>2, <3>1 DEF AcceptCheck, CallInv, CallTypeOK, Goes
    <2>4. CallShape'
      BY <1>2, <2>2, SMT DEF CallInv, CallShape, Busy, InHand
    <2>5. TaskShape'
      <3>1. Busy' => Busy
        BY <2>2 DEF Busy
      <3> QED
        BY <1>1, <2>1, <3>1, NoCallBegins
    <2>6. ExclusiveHasCall'
      BY <1>1, <1>2, <2>1, <2>2, SMT DEF CallInv, ExclusiveHasCall, Goes
    <2>7. Ownership!Answer
      <3>1. Busy /\ Busy' /\ callLink # NoLink /\ ~accepted
        BY <1>2, <2>2, SMT DEF CallInv, CallShape, Busy, InHand
      <3>2. mediaOn' \in BOOLEAN
        BY <2>3 DEF CallTypeOK
      <3> QED
        BY <2>2, <3>1, <3>2 DEF Ownership!Answer
    <2> QED
      BY <2>3, <2>4, <2>5, <2>6, <2>7 DEF Kept, CallInv, Ownership!Next
  <1>3. CASE Continue("ui", "EndRealtime") /\ UNCHANGED <<snapshot, wakeLease>>
    <2>1. Goes("ui", "EndRealtime", l)
      BY <1>1, <1>3, ContinueGoes DEF CallInv
    <2>2. CallTypeOK'
      BY <1>3, <2>1 DEF AcceptCheck, CallInv, CallTypeOK, Goes, snapshot
    <2>3. TaskShape'
      <3>1. Busy' => Busy
        BY <1>3 DEF snapshot, Busy
      <3> QED
        BY <1>1, <2>1, <3>1, NoCallBegins
    <2>4. ExclusiveHasCall'
      BY <1>1, <1>3, <2>1, SMT
      DEF CallInv, ExclusiveHasCall, Goes, Holding, snapshot
    <2> QED
      BY <1>3, <2>2, <2>3, <2>4, Quiet
  <1> QED
    BY <1>2, <1>3 DEF AcceptCheck

\* While the runtime is Idle no call is in hand, and none begins before the
\* dialler is through, which has the router's lock.
LEMMA DialKept == ASSUME CallInv, NEW l \in Link, Dial(l) PROVE Kept
  <1>1. /\ UNCHANGED snapshot /\ UNCHANGED wakeLease /\ UNCHANGED lease
        /\ task["ui"].at \notin Holding /\ "ui" \in Task
    BY DEF Dial, Holding, At, Task
  <1>2. Goes("ui", "DialExclusive", l)
    <2>1. "DialExclusive" \in Step
      BY DEF Step
    <2> QED
      BY <1>1, <2>1, BeginGoes DEF CallInv, Dial, Begin
  <1>3. CallTypeOK'
    <2>1. session' \in [Link -> Session]
      BY DEF Dial, CallInv, CallTypeOK, Session
    <2> QED
      BY <1>1, <1>2, <2>1 DEF Dial, CallInv, CallTypeOK, Goes, snapshot
  <1>4. TaskShape'
    <2>1. ~Busy /\ ~Busy'
      BY <1>1, SMT DEF Dial, CallInv, CallShape, InHand, Busy, snapshot
    <2> QED
      BY <1>1, <1>2, <2>1, SMT DEF Dial, TaskShape, At, Goes, Task
  <1>5. ExclusiveHasCall'
    BY <1>1, <1>2, LeaseStays DEF snapshot
  <1> QED
    BY <1>1, <1>3, <1>4, <1>5, Quiet

LEMMA DialExclusiveKept == ASSUME CallInv, DialExclusive PROVE Kept
  <1> DEFINE l == task["ui"].link
  <1>1. /\ UNCHANGED snapshot /\ UNCHANGED wakeLease
        /\ At("ui", "DialExclusive") /\ task["ui"].at \notin Holding
        /\ "ui" \in Task /\ "DialStart" \in Step /\ "Rest" \in Step
    BY DEF DialExclusive, Holding, At, Task, Step
  <1>2. l \in Link /\ At("mesh", "Rest") /\ ~Busy
    BY <1>1 DEF CallInv, TaskShape
  <1>3. CASE EnterExclusive(l) /\ Continue("ui", "DialStart") /\ UNCHANGED session
    <2>1. Goes("ui", "DialStart", l)
      BY <1>1, <1>3, ContinueGoes DEF CallInv
    <2>2. /\ lease' \in [phase : LeasePhase, link : Link \cup {NoLink}]
          /\ ExclusiveHasCall'
      BY <1>2, <1>3, <2>1, EnterExclusiveHeld
    <2>3. CallTypeOK'
      <3>1. held' \in BOOLEAN
        BY <1>3 DEF EnterExclusive
      <3> QED
        BY <1>1, <1>3, <2>1, <2>2, <3>1
        DEF DialExclusive, CallInv, CallTypeOK, Goes, snapshot
    <2>4. TaskShape'
      <3>1. ~Busy'
        BY <1>1, <1>2 DEF snapshot, Busy
      <3> QED
        BY <1>2, <2>1, <3>1, SMT DEF TaskShape, At, Goes, Task
    <2> QED
      BY <1>1, <2>2, <2>3, <2>4, Quiet
  <1>4. CASE /\ session' = [session EXCEPT ![l] = "Erased"]
             /\ Begin("ui", "Rest", NoLink) /\ UNCHANGED <<lease, held>>
    <2>1. Goes("ui", "Rest", NoLink)
      BY <1>1, <1>4, BeginGoes DEF CallInv, Begin
    <2>2. CallTypeOK'
      <3>1. session' \in [Link -> Session]
        BY <1>4 DEF CallInv, CallTypeOK, Session
      <3> QED
        BY <1>1, <1>4, <2>1, <3>1
        DEF DialExclusive, CallInv, CallTypeOK, Goes, snapshot
    <2> QED
      BY <1>1, <1>4, <2>1, <2>2, OnlyMoves
  <1> QED
    BY <1>3, <1>4 DEF DialExclusive

LEMMA DialStartKept == ASSUME CallInv, DialStart PROVE Kept
  <1> DEFINE l == task["ui"].link
  <1>1. /\ UNCHANGED lease /\ At("ui", "DialStart") /\ "ui" \in Task
        /\ "Rest" \in Step /\ "NotifyClosed" \in Step
    BY DEF DialStart, Task, Step
  <1>2. l \in Link /\ l # NoLink /\ At("mesh", "Rest") /\ ~Busy
    BY <1>1, CallLinksAssumption DEF CallInv, TaskShape
  <1>3. /\ callLink' = l /\ callState' = "Outgoing"
        /\ callPhase' = "AcceptedStarting" /\ accepted' = TRUE
        /\ linkUp' = FALSE /\ mediaOn' = FALSE
        /\ hangup' = FALSE /\ wakeLease' = TRUE
    BY DEF DialStart, Becomes
  <1>4. PICK s, k : s \in {"Rest", "NotifyClosed"} /\ Goes("ui", s, k)
    BY <1>1, <1>2, BeginGoes DEF CallInv, DialStart, Begin
  <1>5. CallTypeOK'
    <2>1. callState' \in State /\ callPhase' \in Phase
      BY <1>3 DEF State, Phase
    <2>2. session' \in [Link -> Session]
      BY DEF DialStart, CallInv, CallTypeOK, Session
    <2> QED
      BY <1>2, <1>3, <1>4, <2>1, <2>2 DEF DialStart, CallInv, CallTypeOK, Goes
  <1>6. CallShape'
    BY <1>2, <1>3, SMT DEF CallShape, Busy, InHand
  <1>7. TaskShape'
    BY <1>1, <1>2, <1>4, SMT DEF TaskShape, At, Goes, Task
  <1>8. ExclusiveHasCall'
    <2>1. callPhase \notin {"AcceptedStarting", "ActiveCall"}
      BY <1>2 DEF CallInv, CallShape, InHand
    <2> QED
      BY <1>1, <1>3, <1>4, <2>1, SMT DEF CallInv, ExclusiveHasCall, Goes
  <1>9. Ownership!Dial(l)
    <2>1. ~mediaOn
      BY <1>2, SMT DEF CallInv, CallShape, InHand
    <2>2. UNCHANGED mediaOn
      BY <1>3, <2>1 DEF CallInv, CallTypeOK
    <2>3. Busy'
      BY <1>3 DEF Busy
    <2> QED
      BY <1>2, <1>3, <2>2, <2>3 DEF Ownership!Dial
  <1> QED
    BY <1>2, <1>5, <1>6, <1>7, <1>8, <1>9 DEF Kept, CallInv, Ownership!Next

-----------------------------------------------------------------------------
\* Every step keeps the invariant and is a step of CallOwnership.
LEMMA NextInv == ASSUME CallInv, [CallNext]_callVars PROVE Kept
  <1>1. CASE UNCHANGED callVars
    <2>1. CallTypeOK'
      BY <1>1 DEF callVars, snapshot, CallInv, CallTypeOK
    <2> QED
      BY <1>1, <2>1, StillKept DEF callVars
  <1>2. ASSUME NEW t \in Task, CloseSteps(t) PROVE Kept
    BY <1>2, CloseAskingKept, CloseToldKept, StopMediaKept, HooksKept,
       NotifyClosedKept DEF CloseSteps
  <1>3. CASE UiSteps
    BY <1>3, AcceptExclusiveKept, AcceptCheckKept, DialExclusiveKept,
       DialStartKept DEF UiSteps
  <1>4. CASE MeshSteps
    BY <1>4, IdentifyKept, SoftPreemptKept, RingKept, ReserveKept, ActivateKept,
       MeshMovesKept DEF MeshSteps
  <1>5. CASE Accept \/ Hangup \/ Tick \/ Guard \/ WorkersLeave
    BY <1>5, AcceptKept, HangupKept, ClocksKept
  <1>6. CASE MediaFailed \/ WorkerFails \/ ConsumeHangup
    BY <1>6, WorkerKept, MeshMovesKept
  <1>7. ASSUME NEW l \in Link,
               \/ LinkRequest(l) \/ LinkIdentify(l) \/ MarkLinkActive(l)
               \/ ConnectMedia(l) \/ LinkLost(l) \/ Forget(l) \/ Dial(l)
        PROVE  Kept
    BY <1>7, AnnounceKept, MarkLinkActiveKept, MeshMovesKept, ClocksKept, DialKept
  <1> QED
    BY <1>1, <1>2, <1>3, <1>4, <1>5, <1>6, <1>7 DEF CallNext

\* CallInv is an invariant of the runtime.
THEOREM CallInvariant == CallSpec => []CallInv
  <1>1. CallInit => CallInv
    BY InitInv
  <1>2. CallInv /\ [CallNext]_callVars => CallInv'
    BY NextInv DEF Kept
  <1> QED
    BY <1>1, <1>2, PTL DEF CallSpec

\* The runtime implements CallOwnership: whatever three tasks do between two
\* critical sections, no call takes over another, and no consent is inherited
\* (reticulum_call_runtime.cpp as a whole).
THEOREM CallRuntimeOwnership == CallSpec => OwnershipSpec
  <1>1. CallInit => Ownership!Init
    BY InitInv
  <1>2. CallInv /\ [CallNext]_callVars => [Ownership!Next]_(Ownership!ownership)
    BY NextInv DEF Kept
  <1> QED
    BY <1>1, <1>2, CallInvariant, PTL DEF CallSpec, OwnershipSpec, Ownership!Spec

\* Every variable keeps its type.
THEOREM CallRuntimeType == CallSpec => []CallTypeOK
  <1>1. CallInv => CallTypeOK
    BY DEF CallInv
  <1> QED
    BY <1>1, CallInvariant, PTL

\* Media run only for an accepted call whose link is up: what media_should_run
\* and enqueue_packet rely on, whoever ended the call meanwhile.
THEOREM CallMediaNeedsCall == CallSpec => []MediaNeedsCall
  <1>1. CallInv => MediaNeedsCall
    BY DEF CallInv, CallShape, MediaNeedsCall, MediaMayStart
  <1> QED
    BY <1>1, CallInvariant, PTL

\* The hard Wi-Fi lease is an accepted call's, or the business of a task.
THEOREM CallExclusiveHasCall == CallSpec => []ExclusiveHasCall
  <1>1. CallInv => ExclusiveHasCall
    BY DEF CallInv
  <1> QED
    BY <1>1, CallInvariant, PTL

\* The screen's wake lease does not outlive the call.
THEOREM CallWakeLeaseReleased == CallSpec => []WakeLeaseReleased
  <1>1. CallInv => WakeLeaseReleased
    BY DEF CallInv, CallShape, WakeLeaseReleased
  <1> QED
    BY <1>1, CallInvariant, PTL

\* No call begins between the dialler's check and begin_outgoing.
THEOREM CallDiallerFindsRoom == CallSpec => []DiallerFindsRoom
  <1>1. CallInv => DiallerFindsRoom
    BY DEF CallInv, TaskShape, DiallerFindsRoom
  <1> QED
    BY <1>1, CallInvariant, PTL

-----------------------------------------------------------------------------
(***************************************************************************)
(* What becomes of the Wi-Fi lease of a call.  LeaseReleasedWithCall fails *)
(* (CallRuntimeLease.cfg), and it fails in two ways only: a hook that was  *)
(* decided on under the lock runs after the call has gone, or close_call   *)
(* is asked to end a call that is over already.  Without these two kinds   *)
(* of step LeaseFit is inductive.                                          *)
(***************************************************************************)
\* enter_call_closing for a call that is not being closed any more.
LateHook ==
    \E t \in Task :
        BeginClosing(t) /\ ~(callPhase = "ClosingCall" /\ callLink = task[t].link)

\* close_call with request_remote_close for a call that is not in hand.
StaleClose == ~Busy /\ (Hangup \/ \E t \in Task : CloseAsking(t))

Answers == {"NotifyClosed", "CloseTold"}

\* The mesh task has closed the link of the call, and is about to tell so.
ClosedIsTold ==
    callPhase # "Idle" /\ session[callLink] = "Closed"
        => task["mesh"].at \in Answers /\ task["mesh"].link = callLink

\* Somebody is going to end a call that waits in ClosingCall.
ClosingIsAsked ==
    callPhase = "ClosingCall"
        => \/ hangup
           \/ /\ task["mesh"].at \in Answers \cup {"Pump"}
              /\ task["mesh"].link = callLink

\* Task t is going to give up the lease, or to take the call that owns it.
Exits(t) ==
    \/ task[t].at \in {"AcceptCheck", "DialStart", "EndRealtime"}
    \/ task[t].at = "StopMedia" /\ task[t].hook = "EndRealtime"

\* The lease is that of the call in hand, or somebody's who will not leave it.
LeaseIsAnswered ==
    lease.phase # "Idle"
        => \/ callPhase # "Idle" /\ callLink = lease.link
           \/ At("mesh", "SoftPreempt")
           \/ \E t \in Task : task[t].link = lease.link /\ Exits(t)

StepShape ==
    /\ At("mesh", "Identify") => Open(task["mesh"].link)
    /\ At("mesh", "SoftPreempt")
         => callLink = task["mesh"].link /\ callPhase # "Idle"
    /\ At("ui", "DialExclusive") \/ At("ui", "DialStart")
         => session[task["ui"].link] = "Outgoing" /\ callPhase = "Idle"
    /\ task["ui"].at \in Answers => task["ui"].after = "Dial" /\ At("mesh", "Rest")
    /\ task["worker"].at \notin Answers

LeaseFit == ClosedIsTold /\ ClosingIsAsked /\ LeaseIsAnswered /\ StepShape

-----------------------------------------------------------------------------
LEMMA TaskIs == /\ "ui" \in Task /\ "mesh" \in Task /\ "worker" \in Task
                /\ \A t \in Task : t = "ui" \/ t = "mesh" \/ t = "worker"
  BY DEF Task

\* The router's lock is not to be had while the dialler tells of its failure.
LEMMA NobodyAnswers ==
    ASSUME LeaseFit, MeshIsFree \/ ~At("mesh", "Rest")
    PROVE  task["ui"].at \notin Answers
  BY DEF LeaseFit, StepShape, MeshIsFree, Dialling

\* A step that has nothing to do with the end of a call moves one task, and
\* no call becomes idle, closing, or another's.
LEMMA LeaseMoves ==
    ASSUME CallInv, LeaseFit, NEW t \in Task, NEW s, NEW l, Goes(t, s, l),
           UNCHANGED <<callLink, hangup, lease, session>>,
           (callPhase' = "Idle") <=> (callPhase = "Idle"),
           callPhase' = "ClosingCall" => callPhase = "ClosingCall",
           task[t].at \notin Answers \cup {"Pump", "SoftPreempt", "AcceptCheck",
                               "DialStart", "EndRealtime", "StopMedia"},
           s \notin Answers \cup {"Identify", "SoftPreempt",
                               "DialExclusive", "DialStart"},
           t = "mesh" => MeshIsFree \/ ~At("mesh", "Rest")
    PROVE  LeaseFit'
  <1> USE DEF LeaseFit, Goes, Answers
  <1>1. t # "mesh" => task'["mesh"] = task["mesh"]
    BY TaskIs
  <1>2. ClosedIsTold'
    BY <1>1 DEF ClosedIsTold
  <1>3. ClosingIsAsked'
    BY <1>1 DEF ClosingIsAsked
  <1>4. LeaseIsAnswered'
    BY <1>1 DEF LeaseIsAnswered, Exits, At
  <1>5. t # "ui" => task'["ui"] = task["ui"]
    BY TaskIs
  <1>6. t # "worker" => task'["worker"] = task["worker"]
    BY TaskIs
  <1>7. t = "mesh" => task["ui"].at \notin Answers
    BY NobodyAnswers
  <1>8. StepShape'
    BY <1>1, <1>5, <1>6, <1>7 DEF StepShape, At, Open
  <1> QED
    BY <1>2, <1>3, <1>4, <1>8

\* A step that changes none of this.
LEMMA LeaseStill ==
    ASSUME LeaseFit,
           UNCHANGED <<callLink, callPhase, hangup, lease, session, task>>
    PROVE  LeaseFit'
  BY DEF LeaseFit, ClosedIsTold, ClosingIsAsked, LeaseIsAnswered, StepShape,
     Exits, At, Open, Answers

\* A task that begins or goes on keeps what is to follow.
LEMMA NextDoing ==
    ASSUME CallTypeOK, NEW t \in Task, NEW s, NEW l, NEW a, NEW h, NEW k,
           task' = [task EXCEPT ![t] = Does(s, l, a, h, k)]
    PROVE  task'[t].after = a /\ task'[t].hook = h
  BY DEF CallTypeOK, Does

-----------------------------------------------------------------------------
\* The end of a call, as far as the lease is concerned.
LEMMA CloseLockedGoes ==
    ASSUME CallInv, NEW t \in Task, NEW asks \in BOOLEAN,
           NEW after \in {"Rest", "Ring", "CloseLink", "Dial"},
           CloseLocked(t, asks, after)
    PROVE  \E s, l :
             /\ Goes(t, s, l)
             /\ s \in {"StopMedia", "BeginClosing", "EndRealtime",
                       "Rest", "Ring", "CloseLink"}
             /\ UNCHANGED callLink
             /\ asks /\ callPhase # "Idle" => callPhase' = "ClosingCall" /\ hangup'
             /\ ~asks => callPhase' = "Idle"
             /\ ~asks /\ callPhase # "Idle" => l = callLink /\ Exits(t)'
  <1> DEFINE ask == asks /\ callLink # NoLink
             ends == callPhase # "Idle" /\ callLink # NoLink
             hook == IF ask THEN "BeginClosing" ELSE "EndRealtime"
             d == Does(IF mediaOn THEN "StopMedia" ELSE hook, callLink, after,
                       hook, callPhase \in Exclusive)
             e == IF ask \/ ends \/ mediaOn THEN d ELSE Resume(d)
  <1>1. /\ callLink' = callLink
        /\ callPhase' = (IF ask THEN "ClosingCall" ELSE "Idle")
        /\ hangup' = ask
        /\ task' = [task EXCEPT ![t] = e]
    BY DEF CloseLocked, Becomes
  <1>2. callLink \in Link \cup {NoLink}
    BY DEF CallInv, CallTypeOK
  <1>3. /\ d \in Doing
        /\ d.at \in {"StopMedia", "BeginClosing", "EndRealtime"}
        /\ d.link = callLink
        /\ ~ask => d.at = "EndRealtime" \/ (d.at = "StopMedia" /\ d.hook = "EndRealtime")
    BY <1>2, SMT DEF Does, Doing, Step
  <1>4. /\ e \in Doing
        /\ e.at \in {"StopMedia", "BeginClosing", "EndRealtime",
                     "Rest", "Ring", "CloseLink"}
    <2> HIDE DEF d
    <2> QED
      BY <1>3, ResumeType
  <1>5. callPhase # "Idle" => e = d /\ callLink # NoLink
    BY DEF CallInv, CallShape
  <1> HIDE DEF d, e
  <1>6. Goes(t, e.at, e.link) /\ task'[t] = e
    BY <1>1, <1>4, SMT DEF Goes, CallInv, CallTypeOK
  <1>7. ~asks /\ callPhase # "Idle" => e.link = callLink /\ Exits(t)'
    BY <1>3, <1>5, <1>6 DEF Exits
  <1> QED
    BY <1>1, <1>4, <1>5, <1>6, <1>7

\* close_call of a call in hand leaves a request that the pump will take.
LEMMA CloseInHand ==
    ASSUME CallInv, LeaseFit, Busy, NEW t \in Task,
           NEW after \in {"Rest", "Ring", "CloseLink", "Dial"},
           CloseLocked(t, TRUE, after), UNCHANGED <<lease, session>>,
           task[t].at = "CloseAsking" \/ (t = "ui" /\ task[t].at = "Rest")
    PROVE  LeaseFit'
  <1>1. callPhase # "Idle"
    BY DEF CallInv, CallShape, InHand
  <1>2. PICK s, l :
          /\ Goes(t, s, l)
          /\ s \in {"StopMedia", "BeginClosing", "EndRealtime",
                    "Rest", "Ring", "CloseLink"}
          /\ UNCHANGED callLink
          /\ callPhase' = "ClosingCall" /\ hangup'
    BY <1>1, CloseLockedGoes
  <1> USE <1>2, TaskIs DEF Goes, LeaseFit, Answers
  <1>3. t # "mesh" => task'["mesh"] = task["mesh"]
    OBVIOUS
  <1>4. ClosedIsTold'
    BY <1>1, <1>3 DEF ClosedIsTold
  <1>5. ClosingIsAsked'
    BY DEF ClosingIsAsked
  <1>6. LeaseIsAnswered'
    BY <1>1, <1>3 DEF LeaseIsAnswered, Exits, At
  <1>7. StepShape'
    <2>1. t # "ui" => task'["ui"] = task["ui"]
      OBVIOUS
    <2>2. t = "mesh" => task["ui"].at \notin Answers
      BY DEF StepShape, At
    <2>3. ~(At("ui", "DialExclusive") \/ At("ui", "DialStart"))
      BY <1>1 DEF StepShape
    <2> QED
      BY <1>1, <1>3, <2>1, <2>2, <2>3 DEF StepShape, At, Open
  <1> QED
    BY <1>4, <1>5, <1>6, <1>7

LEMMA CloseAskingFit ==
    ASSUME CallInv, LeaseFit, NEW t \in Task, CloseAsking(t), ~StaleClose
    PROVE  LeaseFit'
  <1>1. task[t].after \in {"Rest", "Ring", "CloseLink", "Dial"}
    BY SMT DEF CallInv, CallTypeOK, Doing
  <1> QED
    BY <1>1, CloseInHand DEF CloseAsking, At, StaleClose

LEMMA HangupFit ==
    ASSUME CallInv, LeaseFit, Hangup, ~StaleClose
    PROVE  LeaseFit'
  BY CloseInHand, TaskIs DEF Hangup, At, StaleClose

\* The call is over, and the task that ended it has the lease to give back.
LEMMA CloseToldFit ==
    ASSUME CallInv, LeaseFit, NEW t \in Task, CloseTold(t)
    PROVE  LeaseFit'
  <1>1. task[t].after \in {"Rest", "Ring", "CloseLink", "Dial"}
    BY SMT DEF CallInv, CallTypeOK, Doing
  <1>2. PICK s, l :
          /\ Goes(t, s, l)
          /\ s \in {"StopMedia", "BeginClosing", "EndRealtime",
                    "Rest", "Ring", "CloseLink"}
          /\ UNCHANGED callLink /\ callPhase' = "Idle"
          /\ callPhase # "Idle" => l = callLink /\ Exits(t)'
    BY <1>1, CloseLockedGoes DEF CloseTold
  <1>3. UNCHANGED <<lease, session>> /\ task[t].at = "CloseTold"
    BY DEF CloseTold, At
  <1> USE <1>2, <1>3, TaskIs DEF Goes, LeaseFit, Answers
  <1>4. ClosedIsTold' /\ ClosingIsAsked'
    BY DEF ClosedIsTold, ClosingIsAsked
  <1>5. ~At("mesh", "SoftPreempt")
    BY DEF StepShape, At
  <1>6. LeaseIsAnswered'
    <2> SUFFICES ASSUME lease.phase # "Idle"
                 PROVE  \E u \in Task : task'[u].link = lease.link /\ Exits(u)'
      BY DEF LeaseIsAnswered
    <2>1. CASE callPhase # "Idle" /\ callLink = lease.link
      BY <2>1
    <2>2. ASSUME NEW u \in Task, task[u].link = lease.link, Exits(u)
          PROVE  task'[u].link = lease.link /\ Exits(u)'
      BY <2>2 DEF Exits
    <2> QED
      BY <1>5, <2>1, <2>2 DEF LeaseIsAnswered
  <1>7. StepShape'
    <2>1. t # "ui" => task'["ui"] = task["ui"]
      OBVIOUS
    <2>2. t # "mesh" => task'["mesh"] = task["mesh"]
      OBVIOUS
    <2>3. t = "mesh" => task["ui"].at \notin Answers
      BY DEF StepShape, At
    <2>4. t # "worker" /\ task'["worker"] = task["worker"]
      BY DEF StepShape
    <2> QED
      BY <1>5, <2>1, <2>2, <2>3, <2>4 DEF StepShape, At, Open
  <1> QED
    BY <1>4, <1>6, <1>7

LEMMA StopMediaFit ==
    ASSUME CallInv, LeaseFit, NEW t \in Task, StopMedia(t)
    PROVE  LeaseFit'
  <1> DEFINE h == task[t].hook
  <1>1. h \in {"BeginClosing", "EndRealtime"} /\ h \in Step
    BY SMT DEF CallInv, CallTypeOK, Doing, Step
  <1>2. Goes(t, h, task[t].link)
    BY <1>1, ContinueGoes DEF CallInv, StopMedia
  <1>3. /\ UNCHANGED <<callLink, callPhase, hangup, lease, session>>
        /\ task[t].at = "StopMedia"
    BY DEF StopMedia, snapshot, At
  <1> USE <1>1, <1>2, <1>3, TaskIs DEF Goes, LeaseFit, Answers
  <1>4. t # "mesh" => task'["mesh"] = task["mesh"]
    OBVIOUS
  <1>5. ClosedIsTold' /\ ClosingIsAsked'
    BY <1>4 DEF ClosedIsTold, ClosingIsAsked
  <1>6. LeaseIsAnswered'
    BY <1>4 DEF LeaseIsAnswered, Exits, At
  <1>7. StepShape'
    <2>1. t # "ui" => task'["ui"] = task["ui"]
      OBVIOUS
    <2>2. t = "mesh" => task["ui"].at \notin Answers
      BY DEF StepShape, At
    <2>3. t # "worker" => task'["worker"] = task["worker"]
      OBVIOUS
    <2> QED
      BY <1>4, <2>1, <2>2, <2>3 DEF StepShape, At, Open
  <1> QED
    BY <1>5, <1>6, <1>7

\* The two hooks: one moves the lease to the call that is closing, the other
\* gives it up.
LEMMA HooksFit ==
    ASSUME CallInv, LeaseFit, NEW t \in Task, ~LateHook,
           BeginClosing(t) \/ EndRealtime(t)
    PROVE  LeaseFit'
  <1>1. PICK s, l : s \in {"Rest", "Ring", "CloseLink"} /\ Goes(t, s, l)
    BY FinishGoes DEF CallInv, BeginClosing, EndRealtime
  <1>2. /\ UNCHANGED <<callLink, callPhase, hangup, session>>
        /\ task[t].at \in {"BeginClosing", "EndRealtime"}
    BY DEF BeginClosing, EndRealtime, snapshot, At
  <1> USE <1>1, <1>2, TaskIs DEF Goes, LeaseFit, Answers
  <1>4. t # "mesh" => task'["mesh"] = task["mesh"]
    OBVIOUS
  <1>5. ClosedIsTold' /\ ClosingIsAsked'
    BY <1>4 DEF ClosedIsTold, ClosingIsAsked
  <1>6. LeaseIsAnswered'
    <2>1. CASE BeginClosing(t)
      <3>1. lease'.link = task[t].link
        BY <2>1 DEF BeginClosing
      <3>2. callPhase = "ClosingCall" /\ callLink = task[t].link
        BY <2>1 DEF LateHook
      <3> QED
        BY <3>1, <3>2 DEF LeaseIsAnswered
    <2>2. CASE EndRealtime(t)
      <3>1. \/ lease'.phase = "Idle"
            \/ lease' = lease /\ lease.link # task[t].link
        BY <2>2 DEF EndRealtime, ExitCall, Released
      <3> QED
        BY <1>4, <2>2, <3>1 DEF LeaseIsAnswered, Exits, At, EndRealtime
    <2> QED
      BY <2>1, <2>2
  <1>7. StepShape'
    <2>1. t # "ui" => task'["ui"] = task["ui"]
      OBVIOUS
    <2>2. t = "mesh" => task["ui"].at \notin Answers
      BY DEF StepShape, At
    <2>3. t # "worker" => task'["worker"] = task["worker"]
      OBVIOUS
    <2> QED
      BY <1>4, <2>1, <2>2, <2>3 DEF StepShape, At, Open
  <1> QED
    BY <1>5, <1>6, <1>7

\* notify_link_closed goes on to close the call it found.
LEMMA NotifyClosedFit ==
    ASSUME CallInv, LeaseFit, NEW t \in Task, NotifyClosed(t)
    PROVE  LeaseFit'
  <1>1. /\ UNCHANGED <<callLink, callPhase, hangup, lease, session>>
        /\ task[t].at = "NotifyClosed"
    BY DEF NotifyClosed, snapshot, At
  <1>2. PICK s, l :
          /\ Goes(t, s, l) /\ s \in {"CloseTold", "Rest", "Ring", "CloseLink"}
          /\ callLink = task[t].link => s = "CloseTold" /\ l = task[t].link
          /\ s = "CloseTold" => task'[t].after = task[t].after
    <2>1. CASE callLink = task[t].link /\ Continue(t, "CloseTold")
      <3>1. "CloseTold" \in Step
        BY DEF Step
      <3>2. Goes(t, "CloseTold", task[t].link)
        BY <2>1, <3>1, ContinueGoes DEF CallInv
      <3>3. task'[t].after = task[t].after
        BY <2>1, NextDoing DEF CallInv, Continue
      <3> QED
        BY <2>1, <3>2, <3>3
    <2>2. CASE callLink # task[t].link /\ Finish(t)
      <3>1. PICK s, l : s \in {"Rest", "Ring", "CloseLink"} /\ Goes(t, s, l)
        BY <2>2, FinishGoes DEF CallInv
      <3> QED
        BY <2>2, <3>1
    <2> QED
      BY <2>1, <2>2 DEF NotifyClosed
  <1> USE <1>1, <1>2, TaskIs DEF Goes, LeaseFit, Answers
  <1>3. t # "mesh" => task'["mesh"] = task["mesh"]
    OBVIOUS
  <1>4. ClosedIsTold' /\ ClosingIsAsked'
    BY <1>3 DEF ClosedIsTold, ClosingIsAsked
  <1>5. LeaseIsAnswered'
    BY <1>3 DEF LeaseIsAnswered, Exits, At
  <1>6. StepShape'
    <2>1. t # "ui" => task'["ui"] = task["ui"]
      OBVIOUS
    <2>2. t = "mesh" => task["ui"].at \notin Answers
      BY DEF StepShape, At
    <2>3. t # "worker" => task'["worker"] = task["worker"]
      OBVIOUS
    <2> QED
      BY <1>3, <2>1, <2>2, <2>3 DEF StepShape, At, Open
  <1> QED
    BY <1>4, <1>5, <1>6

-----------------------------------------------------------------------------
\* A session is opened or identified: no call ends by it.
LEMMA AnnounceFit ==
    ASSUME CallInv, LeaseFit, NEW l \in Link, LinkRequest(l) \/ LinkIdentify(l)
    PROVE  LeaseFit'
  <1>1. /\ UNCHANGED <<callLink, callPhase, hangup, lease>>
        /\ MeshIsFree /\ At("mesh", "Rest")
    BY DEF LinkRequest, LinkIdentify, snapshot, MeshIsFree
  <1>2. Goes("mesh", "Identify", l)
    <2>1. "Identify" \in Step
      BY DEF Step
    <2> QED
      BY <2>1, BeginGoes, TaskIs DEF CallInv, LinkRequest, LinkIdentify, Begin
  <1>3. PICK x \in {"Incoming", "Identified"} : session' = [session EXCEPT ![l] = x]
    BY DEF LinkRequest, LinkIdentify
  <1>4. session \in [Link -> Session]
    BY DEF CallInv, CallTypeOK
  <1> USE <1>1, <1>2, TaskIs DEF Goes, LeaseFit
  <1>5. task'["ui"] = task["ui"] /\ task'["worker"] = task["worker"]
    OBVIOUS
  <1>6. \A k : session'[k] = "Closed" => session[k] = "Closed"
    <2> SUFFICES ASSUME NEW k, session'[k] = "Closed" PROVE session[k] = "Closed"
      OBVIOUS
    <2>1. CASE k = l
      BY <1>3, <1>4, <2>1
    <2>2. CASE k # l
      BY <1>3, <1>4, <2>2
    <2> QED
      BY <2>1, <2>2
  <1>7. ClosedIsTold' /\ ClosingIsAsked'
    BY <1>6 DEF ClosedIsTold, ClosingIsAsked, At, Answers
  <1>8. LeaseIsAnswered'
    BY DEF LeaseIsAnswered, Exits, At
  <1>9. StepShape'
    <2>1. Open(l)'
      BY <1>3, <1>4 DEF Open
    <2> QED
      BY <1>5, <2>1, NobodyAnswers DEF StepShape, At, Answers, MeshIsFree, Dialling
  <1> QED
    BY <1>7, <1>8, <1>9

\* A call begins: its link is open, and the soft lease is next.
LEMMA IdentifyFit ==
    ASSUME CallInv, LeaseFit, Identify
    PROVE  LeaseFit'
  <1> DEFINE l == task["mesh"].link
  <1>1. At("mesh", "Identify") /\ UNCHANGED <<lease, session>> /\ "mesh" \in Task
    BY TaskIs DEF Identify
  <1>2. l \in Link /\ Open(l)
    BY <1>1 DEF CallInv, TaskShape, LeaseFit, StepShape
  <1>3. CASE Busy /\ UNCHANGED <<snapshot, hangup, wakeLease>>
             /\ \/ Finish("mesh")
                \/ Begin("mesh", "CloseLink", l)
                \/ Begin("mesh", "Rest", NoLink)
    <2>1. PICK s, k : s \in {"Rest", "Ring", "CloseLink"} /\ Goes("mesh", s, k)
      <3>1. "Rest" \in Step /\ "CloseLink" \in Step
        BY DEF Step
      <3> QED
        BY <1>1, <1>2, <1>3, <3>1, FinishGoes, BeginGoes DEF CallInv, Begin
    <2> QED
      BY <1>1, <1>3, <2>1, LeaseMoves DEF snapshot, At, Answers
  <1>4. CASE /\ ~Busy
             /\ Becomes(l, "Incoming", "IncomingIdentifying", FALSE, FALSE, FALSE)
             /\ Continue("mesh", "SoftPreempt")
    <2>1. Goes("mesh", "SoftPreempt", l)
      <3>1. "SoftPreempt" \in Step
        BY DEF Step
      <3> QED
        BY <1>1, <1>4, <3>1, ContinueGoes DEF CallInv
    <2>2. callLink' = l /\ callPhase' = "IncomingIdentifying"
      BY <1>4 DEF Becomes
    <2> USE <1>1, <1>2, <2>1, <2>2, TaskIs DEF Goes
    <2>3. task'["ui"] = task["ui"] /\ task'["worker"] = task["worker"]
      OBVIOUS
    <2>4. ClosedIsTold' /\ ClosingIsAsked'
      BY DEF ClosedIsTold, ClosingIsAsked, Open
    <2>5. LeaseIsAnswered'
      BY DEF LeaseIsAnswered, At
    <2>6. StepShape'
      <3>1. ~(At("ui", "DialExclusive") \/ At("ui", "DialStart"))
        BY MeshWorks DEF At
      <3>2. task["ui"].at \notin Answers
        BY NobodyAnswers DEF At
      <3> QED
        BY <2>3, <3>1, <3>2 DEF LeaseFit, StepShape, At, Answers
    <2> QED
      BY <2>4, <2>5, <2>6 DEF LeaseFit
  <1> QED
    BY <1>3, <1>4 DEF Identify

LEMMA SoftPreemptFit ==
    ASSUME CallInv, LeaseFit, SoftPreempt
    PROVE  LeaseFit'
  <1>1. PICK s, l : s \in {"Rest", "Ring", "CloseLink"} /\ Goes("mesh", s, l)
    BY FinishGoes, TaskIs DEF CallInv, SoftPreempt
  <1>2. /\ UNCHANGED <<callLink, callPhase, hangup, session>>
        /\ task["mesh"].at = "SoftPreempt"
        /\ lease'.link = callLink /\ callPhase # "Idle"
    BY DEF SoftPreempt, snapshot, At, LeaseFit, StepShape
  <1> USE <1>1, <1>2, TaskIs DEF Goes, Answers
  <1>3. task'["ui"] = task["ui"] /\ task'["worker"] = task["worker"]
    OBVIOUS
  <1>4. ClosedIsTold' /\ ClosingIsAsked'
    BY DEF LeaseFit, ClosedIsTold, ClosingIsAsked
  <1>5. LeaseIsAnswered'
    BY DEF LeaseIsAnswered
  <1>6. StepShape'
    <2>1. task["ui"].at \notin Answers
      BY NobodyAnswers DEF At
    <2> QED
      BY <1>3, <2>1 DEF LeaseFit, StepShape, At, Open
  <1> QED
    BY <1>4, <1>5, <1>6 DEF LeaseFit

-----------------------------------------------------------------------------
\* The steps of the mesh task that lead to the media: what they write of the
\* snapshot neither ends a call nor begins one.
LEMMA MediaFit ==
    ASSUME CallInv, LeaseFit,
           \/ Ring \/ Alert \/ Prepare \/ Reserve \/ Start \/ Activate
           \/ \E l \in Link : ConnectMedia(l)
    PROVE  LeaseFit'
  <1>1. /\ UNCHANGED <<callLink, hangup, lease, session>>
        /\ (callPhase' = "Idle") <=> (callPhase = "Idle")
        /\ callPhase' = "ClosingCall" => callPhase = "ClosingCall"
    <2>1. Busy => callPhase # "Idle"
      BY DEF CallInv, CallShape, InHand
    <2> QED
      BY <2>1 DEF Ring, Alert, Prepare, Reserve, Start, Activate, ConnectMedia,
                  Becomes, snapshot
  <1>2. /\ task["mesh"].at \in {"Rest", "Ring", "Alert", "Prepare", "Reserve",
                                "Start", "Activate"}
        /\ MeshIsFree \/ ~At("mesh", "Rest")
    BY DEF Ring, Alert, Prepare, Reserve, Start, Activate, ConnectMedia, At, MeshIsFree
  <1>3. \E s, l : /\ Goes("mesh", s, l)
                  /\ s \in {"Rest", "Ring", "Alert", "Prepare", "Reserve", "Start",
                            "Activate", "CloseAsking", "CloseLink"}
    <2>1. /\ "Rest" \in Step /\ "Alert" \in Step /\ "Prepare" \in Step
          /\ "Reserve" \in Step /\ "Start" \in Step /\ "Activate" \in Step
          /\ "CloseAsking" \in Step
      BY DEF Step
    <2>2. ASSUME NEW s \in {"Alert", "Reserve", "Start", "Activate", "CloseAsking"},
                 Continue("mesh", s)
          PROVE  Goes("mesh", s, task["mesh"].link)
      BY <2>1, <2>2, ContinueGoes, TaskIs DEF CallInv
    <2>3. CASE Begin("mesh", "Rest", NoLink)
      BY <2>1, <2>3, BeginGoes, TaskIs DEF CallInv, Begin
    <2>4. CASE Finish("mesh")
      BY <2>4, FinishGoes, TaskIs DEF CallInv
    <2>5. ASSUME NEW l \in Link, ConnectMedia(l) PROVE Goes("mesh", "Prepare", l)
      BY <2>1, <2>5, BeginGoes, TaskIs DEF CallInv, ConnectMedia
    <2> QED
      BY <2>2, <2>3, <2>4, <2>5
      DEF Ring, Alert, Prepare, Reserve, Start, Activate
  <1> QED
    BY <1>1, <1>2, <1>3, LeaseMoves, TaskIs DEF Answers

-----------------------------------------------------------------------------
\* A link that is closed is told of; the pump tells of the one that is gone.
LEMMA CloseSessionFit ==
    ASSUME CallInv, LeaseFit, NEW l \in Link \cup {NoLink}, CloseSession(l),
           UNCHANGED <<snapshot, hangup, lease>>,
           \/ MeshIsFree
           \/ At("mesh", "CloseLink")
           \/ /\ At("mesh", "Pump") /\ l = task["mesh"].link
              /\ session[l] \notin {"None", "Erased"}
    PROVE  LeaseFit'
  <1>1. UNCHANGED <<callLink, callPhase, hangup, lease>>
    BY DEF snapshot
  <1>2. \/ Open(l) /\ Goes("mesh", "NotifyClosed", l)
        \/ ~Open(l) /\ Goes("mesh", "Rest", NoLink)
    <2>1. "NotifyClosed" \in Step /\ "Rest" \in Step
      BY DEF Step
    <2> QED
      BY <2>1, BeginGoes, TaskIs DEF CallInv, CloseSession, Begin
  <1>3. session \in [Link -> Session]
    BY DEF CallInv, CallTypeOK
  <1>4. \A k \in Link : session'[k] = IF k = l /\ Open(l) THEN "Closed" ELSE session[k]
    BY <1>3 DEF CloseSession
  <1>5. callPhase # "Idle" => callLink \in Link
    BY DEF CallInv, CallTypeOK, CallShape
  <1> USE <1>1, <1>2, TaskIs DEF Goes, LeaseFit, Answers
  <1>6. task'["ui"] = task["ui"] /\ task'["worker"] = task["worker"]
    OBVIOUS
  <1>7. task["mesh"].at \in {"Rest", "CloseLink", "Pump"}
    BY DEF At, MeshIsFree
  <1>8. ClosedIsTold'
    BY <1>4, <1>5, <1>7 DEF ClosedIsTold
  <1>9. ClosingIsAsked'
    <2> SUFFICES ASSUME callPhase = "ClosingCall", ~hangup
                 PROVE  task'["mesh"].at \in Answers /\ task'["mesh"].link = callLink
      BY DEF ClosingIsAsked
    <2>1. At("mesh", "Pump") /\ l = callLink /\ session[l] \notin {"None", "Erased"}
      BY <1>7 DEF ClosingIsAsked, At, MeshIsFree
    <2>2. l \in Link /\ session[l] # "Closed"
      BY <1>5, <2>1 DEF ClosedIsTold, At
    <2>3. Open(l)
      BY <1>3, <2>1, <2>2 DEF Open, Session
    <2> QED
      BY <2>1, <2>3
  <1>10. LeaseIsAnswered'
    BY <1>7 DEF LeaseIsAnswered, Exits, At
  <1>11. StepShape'
    <2>1. ~(At("ui", "DialExclusive") \/ At("ui", "DialStart"))
      BY MeshWorks DEF At, MeshIsFree, Dialling
    <2>2. task["ui"].at \notin Answers
      BY NobodyAnswers DEF At, MeshIsFree
    <2> QED
      BY <1>6, <2>1, <2>2 DEF StepShape, At
  <1> QED
    BY <1>8, <1>9, <1>10, <1>11

LEMMA LinkClosesFit ==
    ASSUME CallInv, LeaseFit, CloseLink \/ \E l \in Link : LinkLost(l)
    PROVE  LeaseFit'
  <1>1. task["mesh"].link \in Link \cup {NoLink}
    BY SMT, TaskIs DEF CallInv, CallTypeOK, Doing
  <1> QED
    BY <1>1, CloseSessionFit DEF CloseLink, LinkLost

LEMMA PumpFit ==
    ASSUME CallInv, LeaseFit, Pump
    PROVE  LeaseFit'
  <1> DEFINE l == task["mesh"].link
  <1>1. l \in Link \cup {NoLink}
    BY SMT, TaskIs DEF CallInv, CallTypeOK, Doing
  <1>2. CASE session[l] \in {"None", "Erased"}
    <2>1. Goes("mesh", "NotifyClosed", l) /\ UNCHANGED session
      <3>1. "NotifyClosed" \in Step
        BY DEF Step
      <3> QED
        BY <1>1, <1>2, <3>1, BeginGoes, TaskIs DEF CallInv, Pump, Begin
    <2>2. /\ UNCHANGED <<callLink, callPhase, hangup, lease>>
          /\ task["mesh"].at = "Pump"
      BY DEF Pump, snapshot, At
    <2> USE <2>1, <2>2, TaskIs DEF Goes, LeaseFit, Answers
    <2>3. task'["ui"] = task["ui"] /\ task'["worker"] = task["worker"]
      OBVIOUS
    <2>4. ClosedIsTold' /\ ClosingIsAsked'
      BY DEF ClosedIsTold, ClosingIsAsked
    <2>5. LeaseIsAnswered'
      BY DEF LeaseIsAnswered, Exits, At
    <2>6. StepShape'
      <3>1. task["ui"].at \notin Answers
        BY NobodyAnswers DEF At
      <3> QED
        BY <2>3, <3>1 DEF StepShape, At, Open
    <2> QED
      BY <2>4, <2>5, <2>6
  <1>3. CASE session[l] \notin {"None", "Erased"}
    BY <1>1, <1>3, CloseSessionFit DEF Pump
  <1> QED
    BY <1>2, <1>3

\* A session that was closed is erased, when nobody tells of it any more.
LEMMA ForgetFit ==
    ASSUME CallInv, LeaseFit, NEW l \in Link, Forget(l)
    PROVE  LeaseFit'
  <1>1. /\ UNCHANGED <<callLink, callPhase, hangup, lease, task>>
        /\ MeshIsFree /\ session' = [session EXCEPT ![l] = "Erased"]
        /\ session \in [Link -> Session]
    BY DEF Forget, snapshot, CallInv, CallTypeOK
  <1>2. \A k \in Link : session'[k] = IF k = l THEN "Erased" ELSE session[k]
    BY <1>1
  <1>3. callPhase # "Idle" => callLink \in Link
    BY DEF CallInv, CallTypeOK, CallShape
  <1> USE <1>1 DEF LeaseFit
  <1>4. ClosedIsTold' /\ ClosingIsAsked'
    BY <1>2, <1>3 DEF ClosedIsTold, ClosingIsAsked
  <1>5. LeaseIsAnswered'
    BY DEF LeaseIsAnswered, Exits, At
  <1>6. StepShape'
    BY DEF StepShape, MeshIsFree, Dialling, At, Answers
  <1> QED
    BY <1>4, <1>5, <1>6

\* The request changes hands.
LEMMA ConsumeHangupFit ==
    ASSUME CallInv, LeaseFit, ConsumeHangup
    PROVE  LeaseFit'
  <1>1. /\ UNCHANGED <<callLink, callPhase, lease, session>>
        /\ MeshIsFree /\ task["mesh"].at = "Rest"
    BY DEF ConsumeHangup, snapshot, MeshIsFree, At
  <1>2. Goes("mesh", "Pump", callLink)
    <2>1. "Pump" \in Step
      BY DEF Step
    <2> QED
      BY <2>1, BeginGoes, TaskIs DEF CallInv, CallTypeOK, ConsumeHangup, Begin
  <1> USE <1>1, <1>2, TaskIs DEF Goes, LeaseFit, Answers
  <1>3. task'["ui"] = task["ui"] /\ task'["worker"] = task["worker"]
    OBVIOUS
  <1>4. ClosedIsTold' /\ ClosingIsAsked'
    BY DEF ClosedIsTold, ClosingIsAsked
  <1>5. LeaseIsAnswered'
    BY DEF LeaseIsAnswered, Exits, At
  <1>6. StepShape'
    BY <1>3, NobodyAnswers DEF StepShape, At, Open
  <1> QED
    BY <1>4, <1>5, <1>6

-----------------------------------------------------------------------------
\* The answer button: the hard lease is taken by a task that will check.
LEMMA AcceptFit ==
    ASSUME CallInv, LeaseFit, Accept \/ AcceptExclusive
    PROVE  LeaseFit'
  <1>1. /\ UNCHANGED <<callLink, callPhase, hangup, session>>
        /\ "AcceptExclusive" \in Step /\ "AcceptCheck" \in Step
        /\ "CloseAsking" \in Step
    BY DEF Accept, AcceptExclusive, snapshot, Step
  <1>2. CASE Accept
    <2>1. Goes("ui", "AcceptExclusive", callLink)
      BY <1>1, <1>2, BeginGoes, TaskIs DEF CallInv, CallTypeOK, Accept, Begin
    <2> QED
      BY <1>1, <1>2, <2>1, LeaseMoves, TaskIs DEF Accept, At, Answers
  <1>3. CASE Continue("ui", "CloseAsking") /\ UNCHANGED lease /\ AcceptExclusive
    <2>1. Goes("ui", "CloseAsking", task["ui"].link)
      BY <1>1, <1>3, ContinueGoes, TaskIs DEF CallInv
    <2> QED
      BY <1>1, <1>3, <2>1, LeaseMoves, TaskIs DEF AcceptExclusive, At, Answers
  <1>4. CASE Continue("ui", "AcceptCheck") /\ EnterExclusive(task["ui"].link)
             /\ AcceptExclusive
    <2>1. Goes("ui", "AcceptCheck", task["ui"].link)
      BY <1>1, <1>4, ContinueGoes, TaskIs DEF CallInv
    <2>2. lease'.link = task["ui"].link
      BY <1>4 DEF EnterExclusive
    <2> USE <1>1, <2>1, <2>2, TaskIs DEF Goes, LeaseFit, Answers
    <2>3. task'["mesh"] = task["mesh"] /\ task'["worker"] = task["worker"]
      OBVIOUS
    <2>4. ClosedIsTold' /\ ClosingIsAsked'
      BY <2>3 DEF ClosedIsTold, ClosingIsAsked
    <2>5. LeaseIsAnswered'
      BY DEF LeaseIsAnswered, Exits
    <2>6. StepShape'
      BY <2>3 DEF StepShape, At, Open
    <2> QED
      BY <2>4, <2>5, <2>6
  <1> QED
    BY <1>2, <1>3, <1>4 DEF AcceptExclusive

\* The check: the call takes the lease over, or the button gives it back.
LEMMA AcceptCheckFit ==
    ASSUME CallInv, LeaseFit, AcceptCheck
    PROVE  LeaseFit'
  <1>1. /\ UNCHANGED <<callLink, hangup, lease, session>> /\ task["ui"].at = "AcceptCheck"
        /\ "Rest" \in Step /\ "EndRealtime" \in Step
    BY DEF AcceptCheck, snapshot, Becomes, At, Step
  <1>2. PICK s, l :
          /\ Goes("ui", s, l)
          /\ \/ /\ s = "Rest" /\ callLink = task["ui"].link
                /\ callPhase = "IncomingRinging" /\ callPhase' = "AcceptedStarting"
             \/ s = "EndRealtime" /\ l = task["ui"].link /\ UNCHANGED callPhase
    <2>1. CASE /\ callLink = task["ui"].link /\ callPhase = "IncomingRinging"
               /\ Becomes(callLink, callState, "AcceptedStarting", TRUE, linkUp, mediaOn)
               /\ Begin("ui", "Rest", NoLink)
      BY <1>1, <2>1, BeginGoes, TaskIs DEF CallInv, Begin, Becomes
    <2>2. CASE Continue("ui", "EndRealtime") /\ UNCHANGED snapshot
      BY <1>1, <2>2, ContinueGoes, TaskIs DEF CallInv, snapshot
    <2> QED
      BY <2>1, <2>2 DEF AcceptCheck
  <1> USE <1>1, <1>2, TaskIs DEF Goes, LeaseFit, Answers
  <1>3. task'["mesh"] = task["mesh"] /\ task'["worker"] = task["worker"]
    OBVIOUS
  <1>4. ClosedIsTold' /\ ClosingIsAsked'
    BY <1>3 DEF ClosedIsTold, ClosingIsAsked
  <1>5. LeaseIsAnswered'
    BY <1>3 DEF LeaseIsAnswered, Exits, At
  <1>6. StepShape'
    BY <1>3 DEF StepShape, At, Open
  <1> QED
    BY <1>4, <1>5, <1>6

-----------------------------------------------------------------------------
(***************************************************************************)
(* The dialler, which has the router's lock until its call has begun: no   *)
(* call is in hand or closing when it takes the hard lease.                *)
(***************************************************************************)
LEMMA DialFit ==
    ASSUME CallInv, LeaseFit, NEW l \in Link, Dial(l)
    PROVE  LeaseFit'
  <1>1. /\ UNCHANGED <<callLink, callPhase, hangup, lease>>
        /\ callPhase = "Idle" /\ task["ui"].at = "Rest" /\ task["mesh"].at = "Rest"
        /\ session' = [session EXCEPT ![l] = "Outgoing"]
        /\ session \in [Link -> Session]
    BY DEF Dial, snapshot, At, CallInv, CallTypeOK
  <1>2. Goes("ui", "DialExclusive", l)
    <2>1. "DialExclusive" \in Step
      BY DEF Step
    <2> QED
      BY <2>1, BeginGoes, TaskIs DEF CallInv, Dial, Begin
  <1> USE <1>1, <1>2, TaskIs DEF Goes, LeaseFit, Answers
  <1>3. task'["mesh"] = task["mesh"] /\ task'["worker"] = task["worker"]
    OBVIOUS
  <1>4. ClosedIsTold' /\ ClosingIsAsked'
    BY DEF ClosedIsTold, ClosingIsAsked
  <1>5. LeaseIsAnswered'
    BY DEF LeaseIsAnswered, Exits, At
  <1>6. session'[l] = "Outgoing"
    OBVIOUS
  <1>7. StepShape'
    BY <1>3, <1>6 DEF StepShape, At
  <1> QED
    BY <1>4, <1>5, <1>7

LEMMA DialExclusiveFit ==
    ASSUME CallInv, LeaseFit, DialExclusive
    PROVE  LeaseFit'
  <1> DEFINE l == task["ui"].link
  <1>1. /\ UNCHANGED <<callLink, callPhase, hangup>>
        /\ task["ui"].at = "DialExclusive" /\ task["mesh"].at = "Rest"
        /\ session[l] = "Outgoing" /\ callPhase = "Idle" /\ "ui" \in Task
        /\ "DialStart" \in Step /\ "Rest" \in Step
    BY TaskIs DEF DialExclusive, snapshot, At, CallInv, TaskShape, LeaseFit, StepShape, Step
  <1>2. \/ /\ Goes("ui", "DialStart", l) /\ UNCHANGED session
           /\ lease'.link = l
        \/ Goes("ui", "Rest", NoLink) /\ UNCHANGED lease
    <2>1. CASE EnterExclusive(l) /\ Continue("ui", "DialStart") /\ UNCHANGED session
      BY <1>1, <2>1, ContinueGoes DEF CallInv, EnterExclusive
    <2>2. CASE Begin("ui", "Rest", NoLink) /\ UNCHANGED lease
      BY <1>1, <2>2, BeginGoes DEF CallInv, Begin
    <2> QED
      BY <2>1, <2>2 DEF DialExclusive
  <1> USE <1>1, <1>2, TaskIs DEF Goes, LeaseFit, Answers
  <1>3. task'["mesh"] = task["mesh"] /\ task'["worker"] = task["worker"]
    OBVIOUS
  <1>4. ClosedIsTold' /\ ClosingIsAsked'
    BY DEF ClosedIsTold, ClosingIsAsked
  <1>5. LeaseIsAnswered'
    BY DEF LeaseIsAnswered, Exits, At
  <1>6. StepShape'
    BY <1>3 DEF StepShape, At
  <1> QED
    BY <1>4, <1>5, <1>6

\* The call that was dialled takes the lease over.
LEMMA DialStartFit ==
    ASSUME CallInv, LeaseFit, DialStart
    PROVE  LeaseFit'
  <1> DEFINE l == task["ui"].link
  <1>1. /\ UNCHANGED lease /\ task["ui"].at = "DialStart" /\ task["mesh"].at = "Rest"
        /\ session[l] = "Outgoing" /\ callPhase = "Idle" /\ l \in Link
        /\ callLink' = l /\ callPhase' = "AcceptedStarting"
        /\ session \in [Link -> Session]
    BY DEF DialStart, Becomes, At, CallInv, CallTypeOK, TaskShape, LeaseFit, StepShape
  <1>2. PICK s, k : /\ Goes("ui", s, k) /\ s \in {"Rest", "NotifyClosed"}
                    /\ s = "NotifyClosed" => task'["ui"].after = "Dial"
    <2>1. "Rest" \in Step /\ "NotifyClosed" \in Step
      BY DEF Step
    <2>2. CASE Begin("ui", "Rest", NoLink)
      BY <2>1, <2>2, BeginGoes, TaskIs DEF CallInv, Begin
    <2>3. CASE BeginFor("ui", "NotifyClosed", l, "Dial")
      <3>1. Goes("ui", "NotifyClosed", l)
        BY <1>1, <2>1, <2>3, BeginGoes, TaskIs DEF CallInv
      <3>2. task'["ui"].after = "Dial"
        BY <2>3, NextDoing, TaskIs DEF CallInv, BeginFor
      <3> QED
        BY <3>1, <3>2
    <2> QED
      BY <2>2, <2>3 DEF DialStart
  <1>3. session'[l] \in {"Outgoing", "Erased"}
    BY <1>1 DEF DialStart
  <1> USE <1>1, <1>2, TaskIs DEF Goes, LeaseFit, Answers
  <1>4. task'["mesh"] = task["mesh"] /\ task'["worker"] = task["worker"]
    OBVIOUS
  <1>5. ClosedIsTold' /\ ClosingIsAsked'
    BY <1>3 DEF ClosedIsTold, ClosingIsAsked
  <1>6. LeaseIsAnswered'
    BY <1>4 DEF LeaseIsAnswered, Exits, At
  <1>7. StepShape'
    BY <1>4 DEF StepShape, At
  <1> QED
    BY <1>5, <1>6, <1>7

-----------------------------------------------------------------------------
LEMMA WorkerFit ==
    ASSUME CallInv, LeaseFit, WorkerFails \/ MediaFailed
    PROVE  LeaseFit'
  <1>1. /\ UNCHANGED <<callLink, callPhase, hangup, lease, session>>
        /\ task["worker"].at \in {"Rest", "MediaFailed"}
    BY DEF WorkerFails, MediaFailed, snapshot, At
  <1>2. \E s, l : /\ s \in {"Rest", "MediaFailed", "CloseAsking"}
                  /\ Goes("worker", s, l)
    <2>1. "Rest" \in Step /\ "MediaFailed" \in Step /\ "CloseAsking" \in Step
      BY DEF Step
    <2> QED
      BY <2>1, BeginGoes, TaskIs DEF CallInv, WorkerFails, MediaFailed, Begin
  <1> QED
    BY <1>1, <1>2, LeaseMoves, TaskIs DEF Answers

LEMMA ClocksFit ==
    ASSUME LeaseFit,
           \/ Tick \/ Guard \/ WorkersLeave
           \/ \E l \in Link : MarkLinkActive(l)
           \/ UNCHANGED callVars
    PROVE  LeaseFit'
  <1>1. UNCHANGED <<callLink, callPhase, hangup, lease, session, task>>
    BY DEF Tick, Guard, WorkersLeave, MarkLinkActive, Becomes, callVars, snapshot
  <1> QED
    BY <1>1, LeaseStill

\* Every step keeps LeaseFit, but those two.
LEMMA NextFit ==
    ASSUME CallInv, LeaseFit, [CallNext]_callVars, ~LateHook, ~StaleClose
    PROVE  LeaseFit'
  <1>1. ASSUME NEW t \in Task, CloseSteps(t) PROVE LeaseFit'
    BY <1>1, CloseAskingFit, CloseToldFit, StopMediaFit, HooksFit, NotifyClosedFit
    DEF CloseSteps
  <1>2. CASE UiSteps \/ Accept \/ Hangup
    BY <1>2, AcceptFit, AcceptCheckFit, DialExclusiveFit, DialStartFit, HangupFit
    DEF UiSteps
  <1>3. CASE MeshSteps \/ ConsumeHangup
    BY <1>3, IdentifyFit, SoftPreemptFit, MediaFit, LinkClosesFit, PumpFit,
       ConsumeHangupFit DEF MeshSteps
  <1>4. CASE MediaFailed \/ WorkerFails \/ Tick \/ Guard \/ WorkersLeave
             \/ UNCHANGED callVars
    BY <1>4, WorkerFit, ClocksFit
  <1>5. ASSUME NEW l \in Link,
               \/ LinkRequest(l) \/ LinkIdentify(l) \/ MarkLinkActive(l)
               \/ ConnectMedia(l) \/ LinkLost(l) \/ Forget(l) \/ Dial(l)
        PROVE  LeaseFit'
    BY <1>5, AnnounceFit, ClocksFit, MediaFit, LinkClosesFit, ForgetFit, DialFit
  <1> QED
    BY <1>1, <1>2, <1>3, <1>4, <1>5 DEF CallNext

LEMMA InitFit == CallInit => LeaseFit
  <1> SUFFICES ASSUME CallInit PROVE LeaseFit
    OBVIOUS
  <1>1. \A t \in Task : task[t].at = "Rest"
    BY RestingType DEF CallInit
  <1> QED
    BY <1>1, TaskIs DEF CallInit, Released, LeaseFit, ClosedIsTold, ClosingIsAsked,
       LeaseIsAnswered, StepShape, At, Answers

\* A finished call leaves the Wi-Fi lease behind only through a late hook or a
\* second end of a call that is over: a runtime that avoids these two steps
\* always gives it back (close_call, notify_media_failed, hangup).
THEOREM LeaseLeftByTwoSteps ==
    CallSpec /\ [][~LateHook /\ ~StaleClose]_callVars => []LeaseReleasedWithCall
  <1>1. CallInit => LeaseFit
    BY InitFit
  <1>2. /\ CallInv /\ LeaseFit
        /\ [CallNext]_callVars /\ [~LateHook /\ ~StaleClose]_callVars
        => LeaseFit'
    BY NextFit, ClocksFit
  <1>3. CallInv /\ LeaseFit => LeaseReleasedWithCall
    BY TaskIs, SMT DEF CallInv, CallTypeOK, CallShape, InHand, LeaseFit, ClosingIsAsked,
       LeaseIsAnswered, Exits, At, Answers, LeaseReleasedWithCall, Phase
  <1> QED
    BY <1>1, <1>2, <1>3, CallInvariant, PTL DEF CallSpec

-----------------------------------------------------------------------------
(***************************************************************************)
(* Between the look at the call and close_call the lock is free.  Which    *)
(* call does close_call then end?  For the mesh task and the dialler, the  *)
(* one they looked at: no call begins without the router's lock.  The      *)
(* answer button, refused the lease, and a media worker have no such lock: *)
(* they end whichever call is in hand by then.                             *)
(***************************************************************************)
\* Steps the mesh task takes for a call it found in hand.
Owning == {"Alert", "Reserve", "Start", "Activate", "CloseAsking", "CloseTold",
           "Pump"}

OwnsCall ==
    /\ task["mesh"].at \in Owning => callLink = task["mesh"].link
    /\ task["ui"].at \in Answers
         => /\ callLink = task["ui"].link
            /\ task["ui"].after = "Dial"
            /\ At("mesh", "Rest")
    /\ task["worker"].at \notin Answers
    /\ hangup => callPhase = "ClosingCall"

\* The task that ends a call, for the mesh task and whoever answers for a link
\* that is closed, ends the call it decided to end; so does the pump.
CloseHitsItsCall ==
    /\ \A t \in Task : CloseTold(t) => callLink = task[t].link
    /\ CloseAsking("mesh") \/ Pump => callLink = task["mesh"].link

\* A hang-up request is not inherited by the next call.
RequestEndsNoOther ==
    hangup /\ hangup' => callLink' = callLink /\ callPhase' = "ClosingCall"

\* Most steps: one task moves, the call in hand is the same link's.
LEMMA OwnMoves ==
    ASSUME CallInv, OwnsCall, NEW t \in Task, NEW s, NEW l, Goes(t, s, l),
           UNCHANGED callLink, hangup' => callPhase' = "ClosingCall",
           t = "mesh" => /\ MeshIsFree \/ ~At("mesh", "Rest")
                         /\ s \in Owning => l = callLink,
           t # "mesh" => s \notin Answers
    PROVE  OwnsCall'
  <1> USE TaskIs DEF Goes, OwnsCall
  <1>1. t # "mesh" => task'["mesh"] = task["mesh"]
    OBVIOUS
  <1>2. t # "ui" => task'["ui"] = task["ui"]
    OBVIOUS
  <1>3. t # "worker" => task'["worker"] = task["worker"]
    OBVIOUS
  <1>4. t = "mesh" => task["ui"].at \notin Answers
    BY DEF MeshIsFree, Dialling, At
  <1> QED
    BY <1>1, <1>2, <1>3, <1>4 DEF At

LEMMA OwnStill ==
    ASSUME OwnsCall, UNCHANGED <<callLink, callPhase, hangup, task>>
    PROVE  OwnsCall'
  BY DEF OwnsCall, At

LEMMA OwnClose ==
    ASSUME CallInv, OwnsCall, NEW t \in Task, NEW asks \in BOOLEAN,
           NEW after \in {"Rest", "Ring", "CloseLink", "Dial"},
           CloseLocked(t, asks, after), t = "mesh" => ~At("mesh", "Rest")
    PROVE  OwnsCall'
  <1>1. PICK s, l :
          /\ Goes(t, s, l) /\ UNCHANGED callLink
          /\ s \in {"StopMedia", "BeginClosing", "EndRealtime",
                    "Rest", "Ring", "CloseLink"}
    BY CloseLockedGoes
  <1>2. hangup' => callPhase' = "ClosingCall"
    BY DEF CloseLocked, Becomes
  <1> QED
    BY <1>1, <1>2, OwnMoves DEF Owning, Answers

LEMMA OwnCloseSteps ==
    ASSUME CallInv, OwnsCall, NEW t \in Task, CloseSteps(t)
    PROVE  OwnsCall'
  <1>1. CASE CloseAsking(t) \/ CloseTold(t)
    <2>1. task[t].after \in {"Rest", "Ring", "CloseLink", "Dial"}
      BY SMT DEF CallInv, CallTypeOK, Doing
    <2> QED
      BY <1>1, <2>1, OwnClose DEF CloseAsking, CloseTold, At
  <1>2. CASE StopMedia(t) \/ BeginClosing(t) \/ EndRealtime(t)
    <2>1. \E s, l : /\ Goes(t, s, l)
                    /\ s \in {"BeginClosing", "EndRealtime", "Rest", "Ring", "CloseLink"}
      <3>1. CASE StopMedia(t)
        <4>1. task[t].hook \in {"BeginClosing", "EndRealtime"} /\ task[t].hook \in Step
          BY SMT DEF CallInv, CallTypeOK, Doing, Step
        <4> QED
          BY <3>1, <4>1, ContinueGoes DEF CallInv, StopMedia
      <3>2. CASE BeginClosing(t) \/ EndRealtime(t)
        <4>1. Finish(t)
          BY <3>2 DEF BeginClosing, EndRealtime
        <4> QED
          BY <4>1, FinishGoes DEF CallInv
      <3> QED
        BY <1>2, <3>1, <3>2
    <2>2. UNCHANGED <<callLink, callPhase, hangup>>
      BY <1>2 DEF StopMedia, BeginClosing, EndRealtime, snapshot
    <2>3. t = "mesh" => ~At("mesh", "Rest")
      BY <1>2 DEF StopMedia, BeginClosing, EndRealtime, At
    <2>4. hangup' => callPhase' = "ClosingCall"
      BY <2>2 DEF OwnsCall
    <2> QED
      BY <2>1, <2>2, <2>3, <2>4, OwnMoves DEF Owning, Answers
  <1>3. CASE NotifyClosed(t)
    <2>1. UNCHANGED <<callLink, callPhase, hangup>> /\ task[t].at = "NotifyClosed"
      BY <1>3 DEF NotifyClosed, snapshot, At
    <2>2. CASE callLink = task[t].link /\ Continue(t, "CloseTold")
      <3>1. Goes(t, "CloseTold", task[t].link)
        <4>1. "CloseTold" \in Step
          BY DEF Step
        <4> QED
          BY <2>2, <4>1, ContinueGoes DEF CallInv
      <3>2. CASE t = "mesh"
        <4>1. hangup' => callPhase' = "ClosingCall"
          BY <2>1 DEF OwnsCall
        <4> QED
          BY <2>1, <2>2, <3>1, <3>2, <4>1, OwnMoves DEF At
      <3>3. CASE t # "mesh"
        <4>1. t = "ui"
          BY <2>1, <3>3, TaskIs DEF OwnsCall, Answers
        <4>2. task'["ui"].after = task["ui"].after
          BY <2>2, <4>1, NextDoing, TaskIs DEF CallInv, Continue
        <4>3. task'["mesh"] = task["mesh"] /\ task'["worker"] = task["worker"]
          BY <3>1, <4>1, TaskIs DEF Goes
        <4> QED
          BY <2>1, <2>2, <3>1, <4>1, <4>2, <4>3 DEF OwnsCall, Goes, At, Answers
      <3> QED
        BY <3>2, <3>3
    <2>3. CASE callLink # task[t].link /\ Finish(t)
      <3>1. PICK s, l : s \in {"Rest", "Ring", "CloseLink"} /\ Goes(t, s, l)
        BY <2>3, FinishGoes DEF CallInv
      <3>2. hangup' => callPhase' = "ClosingCall"
        BY <2>1 DEF OwnsCall
      <3> QED
        BY <2>1, <3>1, <3>2, OwnMoves DEF At, Owning, Answers
    <2> QED
      BY <1>3, <2>2, <2>3 DEF NotifyClosed
  <1> QED
    BY <1>1, <1>2, <1>3 DEF CloseSteps

LEMMA OwnMesh ==
    ASSUME CallInv, OwnsCall, MeshSteps \/ ConsumeHangup
    PROVE  OwnsCall'
  <1> DEFINE l == task["mesh"].link
  <1>1. l \in Link \cup {NoLink} /\ "mesh" \in Task
    BY SMT, TaskIs DEF CallInv, CallTypeOK, Doing
  <1>2. /\ "Rest" \in Step /\ "SoftPreempt" \in Step /\ "Alert" \in Step
        /\ "Reserve" \in Step /\ "Start" \in Step /\ "Activate" \in Step
        /\ "CloseAsking" \in Step /\ "CloseLink" \in Step
        /\ "NotifyClosed" \in Step /\ "Pump" \in Step
    BY DEF Step
  <1>3. ASSUME NEW s \in Step, Continue("mesh", s) PROVE Goes("mesh", s, l)
    BY <1>1, <1>3, ContinueGoes DEF CallInv
  <1>4. ASSUME Finish("mesh")
        PROVE  \E s, k : s \in {"Rest", "Ring", "CloseLink"} /\ Goes("mesh", s, k)
    BY <1>1, <1>4, FinishGoes DEF CallInv
  <1>5. ASSUME NEW s \in Step, NEW k \in Link \cup {NoLink}, Begin("mesh", s, k)
        PROVE  Goes("mesh", s, k)
    BY <1>1, <1>5, BeginGoes DEF CallInv, Begin
  <1>6. Busy => ~hangup
    BY DEF OwnsCall, CallInv, CallShape, InHand
  \* A step that leaves the call in hand to its link and moves the mesh task.
  <1>7. ASSUME NEW s, NEW k, Goes("mesh", s, k), s \in Owning => k = callLink,
               UNCHANGED callLink, hangup' => hangup, ~hangup \/ UNCHANGED callPhase,
               MeshIsFree \/ ~At("mesh", "Rest")
        PROVE  OwnsCall'
    <2>1. hangup' => callPhase' = "ClosingCall"
      BY <1>7 DEF OwnsCall
    <2> QED
      BY <1>1, <1>7, <2>1, OwnMoves
  <1>8. CASE Identify
    <2>1. CASE /\ Busy /\ UNCHANGED <<snapshot, hangup, wakeLease>>
               /\ \/ Finish("mesh")
                  \/ Begin("mesh", "CloseLink", l)
                  \/ Begin("mesh", "Rest", NoLink)
      <3>1. \E s, k : s \in {"Rest", "Ring", "CloseLink"} /\ Goes("mesh", s, k)
        BY <1>1, <1>2, <1>4, <1>5, <2>1
      <3> QED
        BY <1>7, <1>8, <2>1, <3>1 DEF Identify, At, snapshot, Owning
    <2>2. CASE /\ ~Busy
               /\ Becomes(l, "Incoming", "IncomingIdentifying", FALSE, FALSE, FALSE)
               /\ hangup' = FALSE
               /\ Continue("mesh", "SoftPreempt")
      <3>1. Goes("mesh", "SoftPreempt", l)
        BY <1>2, <1>3, <2>2
      <3>2. task'["ui"] = task["ui"] /\ task'["worker"] = task["worker"]
        BY <3>1, TaskIs DEF Goes
      <3>3. task["ui"].at \notin Answers
        BY <1>8 DEF Identify, OwnsCall, At
      <3> QED
        BY <2>2, <3>1, <3>2, <3>3 DEF OwnsCall, Goes, Owning
    <2> QED
      BY <1>8, <2>1, <2>2 DEF Identify
  <1>9. CASE SoftPreempt
    <2>1. \E s, k : s \in {"Rest", "Ring", "CloseLink"} /\ Goes("mesh", s, k)
      BY <1>4, <1>9 DEF SoftPreempt
    <2> QED
      BY <1>7, <1>9, <2>1 DEF SoftPreempt, At, snapshot, Owning
  <1>10. CASE Ring
    <2>1. UNCHANGED <<callLink, hangup>> /\ At("mesh", "Ring")
      BY <1>10 DEF Ring, Becomes, snapshot
    <2>2. ~hangup \/ UNCHANGED callPhase
      BY <1>10 DEF Ring, Becomes, snapshot, OwnsCall
    <2>3. \E s, k : Goes("mesh", s, k) /\ (s \in Owning => k = callLink)
      <3>1. CASE callLink = l /\ Continue("mesh", "Alert")
        BY <1>2, <1>3, <3>1
      <3>2. CASE Begin("mesh", "Rest", NoLink)
        BY <1>2, <1>5, <3>2 DEF Owning
      <3>3. CASE Finish("mesh")
        BY <1>4, <3>3 DEF Owning
      <3> QED
        BY <1>10, <3>1, <3>2, <3>3 DEF Ring
    <2> QED
      BY <1>7, <2>1, <2>2, <2>3 DEF At
  <1>11. CASE Alert \/ Prepare \/ Reserve \/ Start
    <2>1. /\ UNCHANGED <<callLink, callPhase, hangup>>
          /\ At("mesh", "Prepare") \/ task["mesh"].at \in Owning
          /\ ~At("mesh", "Rest")
      BY <1>11 DEF Alert, Prepare, Reserve, Start, Becomes, snapshot, At, Owning
    <2>2. \E s, k : Goes("mesh", s, k) /\ (s \in Owning => k = callLink)
      <3>1. CASE \E s \in Step : Continue("mesh", s) /\ l = callLink
        BY <1>3, <3>1
      <3>2. CASE Begin("mesh", "Rest", NoLink)
        BY <1>2, <1>5, <3>2 DEF Owning
      <3>3. CASE Finish("mesh")
        BY <1>4, <3>3 DEF Owning
      <3>4. CASE Alert
        BY <1>2, <2>1, <3>1, <3>2, <3>4 DEF Alert, OwnsCall, At
      <3>5. CASE Prepare
        BY <1>2, <3>1, <3>3, <3>5 DEF Prepare
      <3>6. CASE Reserve \/ Start
        BY <1>2, <2>1, <3>1, <3>6 DEF Reserve, Start, OwnsCall, At
      <3> QED
        BY <1>11, <3>4, <3>5, <3>6
    <2> QED
      BY <1>7, <2>1, <2>2
  <1>12. CASE Activate
    <2>1. UNCHANGED <<callLink, hangup>> /\ ~At("mesh", "Rest")
      BY <1>12 DEF Activate, Becomes, snapshot, At
    <2>2. ~hangup \/ UNCHANGED callPhase
      BY <1>6, <1>12 DEF Activate, snapshot
    <2>3. \E s, k : Goes("mesh", s, k) /\ s \notin Owning
      <3>1. CASE Begin("mesh", "Rest", NoLink)
        BY <1>2, <1>5, <3>1 DEF Owning
      <3>2. CASE Finish("mesh")
        BY <1>4, <3>2 DEF Owning
      <3> QED
        BY <1>12, <3>1, <3>2 DEF Activate
    <2> QED
      BY <1>7, <2>1, <2>2, <2>3
  <1>13. CASE CloseLink \/ Pump
    <2>1. \E s, k : Goes("mesh", s, k) /\ s \in {"NotifyClosed", "Rest"}
      BY <1>1, <1>2, <1>5, <1>13 DEF CloseLink, Pump, CloseSession
    <2> QED
      BY <1>7, <1>13, <2>1 DEF CloseLink, Pump, snapshot, At, Owning
  <1>14. CASE ConsumeHangup
    <2>1. Goes("mesh", "Pump", callLink)
      BY <1>2, <1>5, <1>14 DEF ConsumeHangup, CallInv, CallTypeOK
    <2> QED
      BY <1>7, <1>14, <2>1 DEF ConsumeHangup, snapshot
  <1> QED
    BY <1>8, <1>9, <1>10, <1>11, <1>12, <1>13, <1>14 DEF MeshSteps

LEMMA OwnLinks ==
    ASSUME CallInv, OwnsCall, NEW l \in Link,
           LinkRequest(l) \/ LinkIdentify(l) \/ ConnectMedia(l) \/ LinkLost(l)
    PROVE  OwnsCall'
  <1>1. /\ UNCHANGED <<callLink, callPhase, hangup>> /\ MeshIsFree
        /\ "Rest" \in Step /\ "Identify" \in Step /\ "Prepare" \in Step
        /\ "NotifyClosed" \in Step
    BY DEF LinkRequest, LinkIdentify, ConnectMedia, LinkLost, snapshot, Step
  <1>2. \E s, k : /\ Goes("mesh", s, k)
                  /\ s \in {"Rest", "Identify", "Prepare", "NotifyClosed"}
    BY <1>1, BeginGoes, TaskIs
    DEF CallInv, LinkRequest, LinkIdentify, ConnectMedia, LinkLost, CloseSession,
        Begin
  <1>3. hangup' => callPhase' = "ClosingCall"
    BY <1>1 DEF OwnsCall
  <1> QED
    BY <1>1, <1>2, <1>3, OwnMoves, TaskIs DEF Owning

LEMMA OwnUi ==
    ASSUME CallInv, OwnsCall,
           \/ UiSteps \/ Accept \/ Hangup
           \/ \E l \in Link : Dial(l)
    PROVE  OwnsCall'
  <1>1. /\ "Rest" \in Step /\ "AcceptExclusive" \in Step /\ "AcceptCheck" \in Step
        /\ "CloseAsking" \in Step /\ "EndRealtime" \in Step
        /\ "DialExclusive" \in Step /\ "DialStart" \in Step
        /\ "NotifyClosed" \in Step /\ "ui" \in Task
    BY TaskIs DEF Step
  <1>2. ASSUME NEW s \in Step \ Answers, NEW k, Goes("ui", s, k), UNCHANGED callLink,
               hangup' = hangup, ~hangup \/ UNCHANGED callPhase
        PROVE  OwnsCall'
    <2>1. hangup' => callPhase' = "ClosingCall"
      BY <1>2 DEF OwnsCall
    <2> QED
      BY <1>1, <1>2, <2>1, OwnMoves DEF Answers
  <1>3. CASE Accept \/ AcceptExclusive \/ AcceptCheck \/ DialExclusive
             \/ \E l \in Link : Dial(l)
    <2>1. UNCHANGED callLink /\ hangup' = hangup
      BY <1>3 DEF Accept, AcceptExclusive, AcceptCheck, DialExclusive, Dial, Becomes,
                  snapshot
    <2>2. ~hangup \/ UNCHANGED callPhase
      BY <1>3 DEF Accept, AcceptExclusive, AcceptCheck, DialExclusive, Dial, Becomes,
                  snapshot, OwnsCall
    <2>3. \E s \in Step \ Answers : \E k : Goes("ui", s, k)
      <3>1. CASE \E s \in Step \ Answers : Continue("ui", s)
        BY <1>1, <3>1, ContinueGoes DEF CallInv
      <3>2. CASE \E s \in Step \ Answers, k \in Link \cup {NoLink} : Begin("ui", s, k)
        BY <1>1, <3>2, BeginGoes DEF CallInv, Begin
      <3>3. callLink \in Link \cup {NoLink}
        BY DEF CallInv, CallTypeOK
      <3> QED
        BY <1>1, <1>3, <3>1, <3>2, <3>3
        DEF Accept, AcceptExclusive, AcceptCheck, DialExclusive, Dial, Answers
    <2> QED
      BY <1>2, <2>1, <2>2, <2>3
  <1>4. CASE Hangup
    BY <1>1, <1>4, OwnClose DEF Hangup
  <1>5. CASE DialStart
    <2> DEFINE l == task["ui"].link
    <2>1. /\ callLink' = l /\ hangup' = FALSE
          /\ At("mesh", "Rest") /\ l \in Link
      BY <1>5 DEF DialStart, Becomes, CallInv, TaskShape
    <2>2. \/ Goes("ui", "Rest", NoLink)
          \/ Goes("ui", "NotifyClosed", l) /\ task'["ui"].after = "Dial"
      <3>1. CASE Begin("ui", "Rest", NoLink)
        BY <1>1, <3>1, BeginGoes DEF CallInv, Begin
      <3>2. CASE BeginFor("ui", "NotifyClosed", l, "Dial")
        <4>1. Goes("ui", "NotifyClosed", l)
          BY <1>1, <2>1, <3>2, BeginGoes DEF CallInv
        <4>2. task'["ui"].after = "Dial"
          BY <1>1, <3>2, NextDoing DEF CallInv, BeginFor
        <4> QED
          BY <4>1, <4>2
      <3> QED
        BY <1>5, <3>1, <3>2 DEF DialStart
    <2>3. task'["mesh"] = task["mesh"] /\ task'["worker"] = task["worker"]
      BY <2>2, TaskIs DEF Goes
    <2> QED
      BY <2>1, <2>2, <2>3 DEF OwnsCall, Goes, At, Owning, Answers
  <1> QED
    BY <1>3, <1>4, <1>5 DEF UiSteps

LEMMA OwnOthers ==
    ASSUME CallInv, OwnsCall,
           \/ WorkerFails \/ MediaFailed
           \/ Tick \/ Guard \/ WorkersLeave
           \/ \E l \in Link : MarkLinkActive(l) \/ Forget(l)
           \/ UNCHANGED callVars
    PROVE  OwnsCall'
  <1>1. UNCHANGED <<callLink, callPhase, hangup>>
    BY DEF WorkerFails, MediaFailed, Tick, Guard, WorkersLeave, MarkLinkActive,
       Forget, Becomes, callVars, snapshot
  <1>2. CASE WorkerFails \/ MediaFailed
    <2>1. \E s, l : /\ s \in {"Rest", "MediaFailed", "CloseAsking"}
                    /\ Goes("worker", s, l)
      <3>1. "Rest" \in Step /\ "MediaFailed" \in Step /\ "CloseAsking" \in Step
        BY DEF Step
      <3> QED
        BY <1>2, <3>1, BeginGoes, TaskIs DEF CallInv, WorkerFails, MediaFailed, Begin
    <2>2. hangup' => callPhase' = "ClosingCall"
      BY <1>1 DEF OwnsCall
    <2> QED
      BY <1>1, <2>1, <2>2, OwnMoves, TaskIs DEF Answers
  <1>3. CASE UNCHANGED task
    BY <1>1, <1>3, OwnStill
  <1> QED
    BY <1>2, <1>3 DEF Tick, Guard, WorkersLeave, MarkLinkActive, Forget, callVars

LEMMA OwnNext ==
    ASSUME CallInv, OwnsCall, [CallNext]_callVars
    PROVE  OwnsCall' /\ [RequestEndsNoOther]_callVars
  <1>1. OwnsCall'
    BY OwnCloseSteps, OwnMesh, OwnLinks, OwnUi, OwnOthers DEF CallNext
  <1>2. ASSUME CallNext, hangup, hangup' PROVE callLink' = callLink
    <2>1. CASE \E t \in Task : CloseSteps(t)
      BY <2>1 DEF CloseSteps, CloseAsking, CloseTold, StopMedia, BeginClosing,
                  EndRealtime, NotifyClosed, CloseLocked, Becomes, snapshot
    <2>2. CASE UiSteps \/ Accept \/ Hangup \/ Tick \/ Guard
      BY <1>2, <2>2 DEF UiSteps, AcceptExclusive, AcceptCheck, DialExclusive,
                  DialStart, Accept, Hangup, Tick, Guard, CloseLocked, Becomes, snapshot
    <2>3. CASE MeshSteps
      BY <1>2, <2>3 DEF MeshSteps, Identify, SoftPreempt, Ring, Alert, Prepare, Reserve,
                  Start, Activate, CloseLink, Pump, Becomes, snapshot
    <2>4. CASE MediaFailed \/ ConsumeHangup \/ WorkerFails \/ WorkersLeave
      BY <2>4 DEF MediaFailed, ConsumeHangup, WorkerFails, WorkersLeave, snapshot
    <2>5. CASE \E l \in Link :
                 \/ LinkRequest(l) \/ LinkIdentify(l) \/ MarkLinkActive(l)
                 \/ ConnectMedia(l) \/ LinkLost(l) \/ Forget(l) \/ Dial(l)
      BY <2>5 DEF LinkRequest, LinkIdentify, MarkLinkActive, ConnectMedia, LinkLost,
                  Forget, Dial, Becomes, snapshot
    <2> QED
      BY <1>2, <2>1, <2>2, <2>3, <2>4, <2>5 DEF CallNext
  <1> QED
    BY <1>1, <1>2 DEF RequestEndsNoOther, OwnsCall

\* notify_link_closed, the pump and a refused step of the protocol end the call
\* they found, although the lock was free in between, and a hang-up request
\* stays with its call (consume_hangup_request, notify_link_closed).
THEOREM CallEndsItsOwn ==
    CallSpec => [][CloseHitsItsCall /\ RequestEndsNoOther]_callVars
  <1>1. CallInit => OwnsCall
    <2>1. CallInit => \A t \in Task : task[t].at = "Rest"
      BY RestingType DEF CallInit
    <2> QED
      BY <2>1, TaskIs DEF CallInit, OwnsCall, Owning, Answers
  <1>2. CallInv /\ OwnsCall /\ [CallNext]_callVars
        => OwnsCall' /\ [RequestEndsNoOther]_callVars
    BY OwnNext
  <1>3. OwnsCall => CloseHitsItsCall
    BY TaskIs DEF OwnsCall, CloseHitsItsCall, CloseTold, CloseAsking, Pump, At, Owning,
       Answers
  <1> QED
    BY <1>1, <1>2, <1>3, CallInvariant, PTL DEF CallSpec
=============================================================================
