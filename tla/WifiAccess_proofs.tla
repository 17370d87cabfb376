-------------------------- MODULE WifiAccess_proofs ---------------------------
(***************************************************************************)
(* Proofs about WifiAccess, for any set of clients.                        *)
(*                                                                         *)
(* OneTransaction is inductive with the types.  A transaction that was cut *)
(* short stays cut because the history of them only names holders, and     *)
(* none whose lease is current: a grant goes to a client that holds        *)
(* nothing.  The announcement belongs to its batch because the route       *)
(* worker decides on it before the batch begins.                           *)
(***************************************************************************)
EXTENDS WifiAccess, Integers, TLAPS

CutShape == \A c \in preempted : at[c] \in HoldingSteps /\ c \notin fresh

ScopeShape == at[Foreground] = "SetPending" => batch = "None"

WifiInv == WifiTypeOK /\ OneTransaction /\ CutShape /\ ScopeShape

-----------------------------------------------------------------------------
\* The initial state satisfies the invariant.
LEMMA InitWifiInv == WifiInit => WifiInv
  <1> SUFFICES ASSUME WifiInit PROVE WifiInv
    OBVIOUS
  <1>1. "Rest" \in WorkerStep /\ "Rest" \notin HoldingSteps
    BY SMT DEF WorkerStep, HoldingSteps
  <1>2. \A c \in Client : at[c] = "Rest"
    BY DEF WifiInit
  <1>3. WifiTypeOK
    BY <1>1 DEF WifiInit, WifiTypeOK
  <1>4. OneTransaction
    BY <1>1, <1>2, ClientsAssumption DEF WifiInit, OneTransaction
  <1>5. CutShape /\ ScopeShape
    BY <1>2, ClientsAssumption DEF WifiInit, CutShape, ScopeShape
  <1> QED
    BY <1>3, <1>4, <1>5 DEF WifiInv

\* A worker goes to its next step, alone.
LEMMA GoesAlone ==
    ASSUME WifiTypeOK, NEW c \in Client, NEW s \in WorkerStep, Goes(c, s)
    PROVE  /\ at' \in [Client -> WorkerStep]
           /\ at'[c] = s
           /\ \A d \in Client : d # c => at'[d] = at[d]
  BY SMT DEF WifiTypeOK, Goes

\* A step of a worker that neither takes HTTP nor lets it go, nor is about
\* the announcement, keeps the invariant.
LEMMA WorkerKeepsInv ==
    ASSUME WifiInv, NEW c \in Client, NEW s \in WorkerStep, Goes(c, s),
           at[c] \in HoldingSteps <=> s \in HoldingSteps,
           c = Foreground => s # "SetPending",
           reserved' \in BOOLEAN,
           UNCHANGED <<wifiOn, http, pending, call, fresh, batch, pairing,
                       preempted>>
    PROVE  WifiInv'
  <1>1. /\ at' \in [Client -> WorkerStep]
        /\ at'[c] = s
        /\ \A d \in Client : d # c => at'[d] = at[d]
    BY GoesAlone DEF WifiInv
  <1>2. WifiTypeOK'
    BY <1>1, SMT DEF WifiInv, WifiTypeOK
  <1>3. \A d \in Client : at'[d] \in HoldingSteps <=> at[d] \in HoldingSteps
    BY <1>1
  <1>4. OneTransaction'
    BY <1>3 DEF WifiInv, OneTransaction
  <1>5. CutShape'
    BY <1>3, SMT DEF WifiInv, CutShape, WifiTypeOK
  <1>6. ScopeShape'
    BY <1>1, ClientsAssumption, SMT DEF WifiInv, ScopeShape
  <1> QED
    BY <1>2, <1>4, <1>5, <1>6 DEF WifiInv

\* A step that moves no worker and revokes leases or does not keeps it too.
LEMMA OperationKeepsInv ==
    ASSUME WifiInv,
           wifiOn' \in BOOLEAN, pending' \in BOOLEAN, reserved' \in BOOLEAN,
           call' \in {"Idle", "Soft", "Exclusive"},
           pairing' \in {"Off", "Starting", "On"},
           pending' => pending,
           RevokeLeases \/ UNCHANGED <<fresh, preempted>>,
           UNCHANGED <<http, at, batch>>
    PROVE  WifiInv'
  <1>1. WifiTypeOK'
    BY SMT DEF WifiInv, WifiTypeOK, RevokeLeases, Holders
  <1>2. OneTransaction' /\ ScopeShape'
    BY DEF WifiInv, OneTransaction, ScopeShape
  <1>3. CutShape'
    BY SMT DEF WifiInv, CutShape, RevokeLeases, Holders
  <1> QED
    BY <1>1, <1>2, <1>3 DEF WifiInv

-----------------------------------------------------------------------------
\* The grant and the release change who holds HTTP.
LEMMA AskHttpKeepsInv ==
    ASSUME WifiInv, NEW c \in Client, AskHttp(c)
    PROVE  WifiInv'
  <1>1. CASE Goes(c, "Rest") /\ UNCHANGED <<http, fresh>>
    <2>1. "Rest" \in WorkerStep
      BY DEF WorkerStep
    <2> QED
      BY <1>1, <2>1, WorkerKeepsInv, SMT
      DEF AskHttp, HoldingSteps, WifiInv, WifiTypeOK
  <1>2. CASE http = NoClient /\ http' = c /\ fresh' = fresh \cup {c}
             /\ Goes(c, "Connect")
    <2>1. "Connect" \in WorkerStep /\ "Connect" \in HoldingSteps
      BY DEF WorkerStep, HoldingSteps
    <2>2. /\ at' \in [Client -> WorkerStep]
          /\ at'[c] = "Connect"
          /\ \A d \in Client : d # c => at'[d] = at[d]
      BY <1>2, <2>1, GoesAlone DEF WifiInv
    <2>3. at[c] = "AskHttp" /\ at[c] \notin HoldingSteps
      BY SMT DEF AskHttp, HoldingSteps
    <2>4. UNCHANGED <<wifiOn, pending, call, reserved, batch, pairing,
                      preempted>>
      BY DEF AskHttp
    <2>5. WifiTypeOK'
      BY <1>2, <2>2, <2>4, SMT DEF WifiInv, WifiTypeOK
    <2>6. OneTransaction'
      BY <1>2, <2>1, <2>2, ClientsAssumption, SMT DEF WifiInv, OneTransaction
    <2>7. CutShape'
      BY <1>2, <2>2, <2>3, <2>4, SMT DEF WifiInv, CutShape, WifiTypeOK
    <2>8. ScopeShape'
      BY <2>2, <2>4, ClientsAssumption, SMT DEF WifiInv, ScopeShape
    <2> QED
      BY <2>5, <2>6, <2>7, <2>8 DEF WifiInv
  <1> QED
    BY <1>1, <1>2 DEF AskHttp

LEMMA ReleaseKeepsInv ==
    ASSUME WifiInv, NEW c \in Client, Release(c)
    PROVE  WifiInv'
  <1>1. PICK s \in {"Finalize", "Rest"} : Goes(c, s)
    BY DEF Release
  <1>2. s \in WorkerStep /\ s \notin HoldingSteps /\ s # "SetPending"
    BY SMT DEF WorkerStep, HoldingSteps, Critical
  <1>3. /\ at' \in [Client -> WorkerStep]
        /\ at'[c] = s
        /\ \A d \in Client : d # c => at'[d] = at[d]
    BY <1>1, <1>2, GoesAlone DEF WifiInv
  <1>4. at[c] \in HoldingSteps
    BY DEF Release, HoldingSteps
  <1>5. http = c /\ http' = NoClient
    BY <1>4 DEF WifiInv, OneTransaction, Release
  <1>6. /\ fresh' = fresh \ {c} /\ preempted' = preempted \ {c}
        /\ UNCHANGED <<wifiOn, pending, call, reserved, batch, pairing>>
    BY DEF Release
  <1>7. WifiTypeOK'
    BY <1>3, <1>5, <1>6, SMT DEF WifiInv, WifiTypeOK
  <1>8. OneTransaction'
    BY <1>2, <1>3, <1>5, ClientsAssumption, SMT DEF WifiInv, OneTransaction
  <1>9. CutShape'
    BY <1>3, <1>6, SMT DEF WifiInv, CutShape, WifiTypeOK
  <1>10. ScopeShape'
    BY <1>2, <1>3, <1>6, ClientsAssumption, SMT DEF WifiInv, ScopeShape
  <1> QED
    BY <1>7, <1>8, <1>9, <1>10 DEF WifiInv

\* The route worker's look at HTTP and what it announces.
LEMMA ForegroundKeepsInv ==
    ASSUME WifiInv, BeginForeground \/ SetPending \/ EndBatch
    PROVE  WifiInv'
  <1>1. Foreground \in Client
    BY ClientsAssumption
  <1>2. CASE BeginForeground
    <2>1. CASE Goes(Foreground, "SetPending") /\ UNCHANGED batch
      <3>1. "SetPending" \in WorkerStep /\ "SetPending" \notin HoldingSteps
            /\ "Rest" \notin HoldingSteps
        BY SMT DEF WorkerStep, HoldingSteps
      <3>2. /\ at' \in [Client -> WorkerStep]
            /\ at'[Foreground] = "SetPending"
            /\ \A d \in Client : d # Foreground => at'[d] = at[d]
        BY <1>1, <2>1, <3>1, GoesAlone DEF WifiInv
      <3>3. /\ at[Foreground] = "Rest" /\ batch = "None"
            /\ UNCHANGED <<wifiOn, http, pending, call, reserved, fresh,
                           pairing, preempted>>
        BY <1>2 DEF BeginForeground
      <3>4. \A d \in Client :
                at'[d] \in HoldingSteps <=> at[d] \in HoldingSteps
        BY <3>1, <3>2, <3>3
      <3>5. WifiTypeOK'
        BY <2>1, <3>2, <3>3, SMT DEF WifiInv, WifiTypeOK
      <3>6. OneTransaction' /\ ScopeShape'
        BY <2>1, <3>3, <3>4 DEF WifiInv, OneTransaction, ScopeShape
      <3>7. CutShape'
        BY <3>3, <3>4, SMT DEF WifiInv, CutShape, WifiTypeOK
      <3> QED
        BY <3>5, <3>6, <3>7 DEF WifiInv
    <2>2. CASE batch' = "Refused" /\ UNCHANGED at
      BY <1>2, <2>2, SMT
      DEF BeginForeground, WifiInv, WifiTypeOK, OneTransaction, CutShape,
          ScopeShape
    <2> QED
      BY <1>2, <2>1, <2>2 DEF BeginForeground
  <1>3. CASE SetPending
    <2>1. "Rest" \in WorkerStep /\ "Rest" \notin HoldingSteps
          /\ "SetPending" \notin HoldingSteps
      BY SMT DEF WorkerStep, HoldingSteps
    <2>2. /\ at' \in [Client -> WorkerStep]
          /\ at'[Foreground] = "Rest"
          /\ \A d \in Client : d # Foreground => at'[d] = at[d]
      BY <1>1, <1>3, <2>1, GoesAlone DEF SetPending, WifiInv
    <2>3. /\ at[Foreground] = "SetPending"
          /\ UNCHANGED <<wifiOn, http, call, reserved, fresh, pairing,
                         preempted>>
      BY <1>3 DEF SetPending
    <2>4. \A d \in Client : at'[d] \in HoldingSteps <=> at[d] \in HoldingSteps
      BY <2>1, <2>2, <2>3
    <2>5. batch = "None" /\ ~pending
      BY <2>3 DEF WifiInv, WifiTypeOK, ScopeShape
    <2>6. /\ pending' \in BOOLEAN /\ batch' \in {"Refused", "Announced"}
          /\ pending' => batch' = "Announced"
      BY <1>3, <2>5 DEF SetPending
    <2>7. WifiTypeOK'
      BY <2>2, <2>3, <2>6, SMT DEF WifiInv, WifiTypeOK
    <2>8. OneTransaction'
      BY <2>3, <2>4 DEF WifiInv, OneTransaction
    <2>9. ScopeShape'
      BY <2>2 DEF ScopeShape
    <2>10. CutShape'
      BY <2>3, <2>4, SMT DEF WifiInv, CutShape, WifiTypeOK
    <2> QED
      BY <2>7, <2>8, <2>9, <2>10 DEF WifiInv
  <1>4. CASE EndBatch
    <2>1. ~pending' /\ pending' \in BOOLEAN
      BY <1>4 DEF EndBatch, WifiInv, WifiTypeOK
    <2> QED
      BY <1>4, <2>1, SMT
      DEF EndBatch, WifiInv, WifiTypeOK, OneTransaction, CutShape, ScopeShape
  <1> QED
    BY <1>2, <1>3, <1>4

-----------------------------------------------------------------------------
\* A worker's step keeps the invariant.
LEMMA TransactKeepsInv ==
    ASSUME WifiInv, NEW c \in Client, Acquire(c) \/ Transact(c)
    PROVE  WifiInv'
  <1> DEFINE Between(s) ==
        /\ s \in WorkerStep /\ s # "SetPending" /\ Goes(c, s)
        /\ at[c] \in HoldingSteps <=> s \in HoldingSteps
        /\ UNCHANGED <<wifiOn, http, pending, call, reserved, fresh, batch,
                       pairing, preempted>>
  <1>1. ASSUME NEW s, Between(s) PROVE WifiInv'
    <2>1. reserved' \in BOOLEAN
      BY <1>1 DEF WifiInv, WifiTypeOK
    <2> QED
      BY <1>1, <2>1, WorkerKeepsInv
  <1>2. CASE Acquire(c)
    <2>1. Between("AskCall")
      BY <1>2, SMT DEF Acquire, WorkerStep, HoldingSteps
    <2> QED
      BY <1>1, <2>1
  <1>3. CASE AskCall(c)
    <2>1. Between("AskHttp") \/ Between("Rest")
      BY <1>3, SMT DEF AskCall, WorkerStep, HoldingSteps
    <2> QED
      BY <1>1, <2>1
  <1>4. CASE Connect(c)
    <2>1. Between("ConnectCall") \/ Between("Release")
      BY <1>4, SMT DEF Connect, WorkerStep, HoldingSteps
    <2> QED
      BY <1>1, <2>1
  <1>5. CASE ConnectCall(c)
    <2>1. Between("Poll") \/ Between("Release")
      BY <1>5, SMT DEF ConnectCall, WorkerStep, HoldingSteps
    <2> QED
      BY <1>1, <2>1
  <1>6. CASE Poll(c)
    <2>1. Between("Read") \/ Between("Release")
      BY <1>6, SMT DEF Poll, WorkerStep, HoldingSteps
    <2> QED
      BY <1>1, <2>1
  <1>7. CASE Read(c)
    <2>1. PICK s \in {"Write", "Release", "Finish", "Poll"} : Goes(c, s)
      BY <1>7 DEF Read
    <2>2. Between(s)
      BY <1>7, <2>1, SMT DEF Read, WorkerStep, HoldingSteps
    <2> QED
      BY <1>1, <2>2
  <1> QED
    BY <1>2, <1>3, <1>4, <1>5, <1>6, <1>7, AskHttpKeepsInv, ReleaseKeepsInv
    DEF Transact

\* The firmware update's does.
LEMMA UpdateKeepsInv ==
    ASSUME WifiInv, Update
    PROVE  WifiInv'
  <1>1. Updater \in Client /\ Foreground # Updater
    BY ClientsAssumption
  <1>2. CASE EnterCritical \/ LeaveCritical
    <2>1. PICK s \in {"Writing", "Finalizing", "Activating", "Poll", "Release",
                      "Activate", "Restart", "Rest"} :
              /\ Goes(Updater, s)
              /\ at[Updater] \in HoldingSteps <=> s \in HoldingSteps
      <3>1. CASE EnterCritical
        BY <3>1, SMT DEF EnterCritical, HoldingSteps
      <3>2. CASE LeaveCritical
        BY <3>2, SMT DEF LeaveCritical, HoldingSteps
      <3> QED
        BY <1>2, <3>1, <3>2
    <2>2. s \in WorkerStep
      BY SMT DEF WorkerStep, HoldingSteps, Critical
    <2>3. /\ reserved' \in BOOLEAN
          /\ UNCHANGED <<wifiOn, http, pending, call, fresh, batch, pairing,
                         preempted>>
      BY <1>2 DEF EnterCritical, LeaveCritical
    <2> QED
      BY <1>1, <2>1, <2>2, <2>3, WorkerKeepsInv
  <1>3. CASE Restart
    <2>1. "Rest" \in WorkerStep /\ "Rest" \notin HoldingSteps
      BY SMT DEF WorkerStep, HoldingSteps
    <2>2. \A c \in Client : at'[c] = "Rest"
      BY <1>3 DEF Restart
    <2>3. WifiTypeOK'
      BY <1>3, <2>1 DEF Restart, WifiTypeOK
    <2>4. OneTransaction'
      BY <1>3, <2>1, <2>2, ClientsAssumption DEF Restart, OneTransaction
    <2>5. CutShape' /\ ScopeShape'
      BY <1>3, <2>2, ClientsAssumption DEF Restart, CutShape, ScopeShape
    <2> QED
      BY <2>3, <2>4, <2>5 DEF WifiInv
  <1> QED
    BY <1>2, <1>3 DEF Update

\* The operations of the call and of the UI task do.
LEMMA OperationsKeepInv ==
    ASSUME WifiInv, CallOperations \/ RadioOperations
    PROVE  WifiInv'
  <1>1. /\ wifiOn \in BOOLEAN /\ pending \in BOOLEAN /\ reserved \in BOOLEAN
        /\ call \in {"Idle", "Soft", "Exclusive"}
        /\ pairing \in {"Off", "Starting", "On"}
    BY DEF WifiInv, WifiTypeOK
  <1>2. CASE EnterCallRinging
    BY <1>1, <1>2, OperationKeepsInv DEF EnterCallRinging
  <1>3. CASE EnterCallExclusive
    BY <1>1, <1>3, OperationKeepsInv DEF EnterCallExclusive
  <1>4. CASE ExitCall
    BY <1>1, <1>4, OperationKeepsInv DEF ExitCall
  <1>5. ASSUME NEW keep \in BOOLEAN, EnterCallClosing(keep) PROVE WifiInv'
    BY <1>1, <1>5, OperationKeepsInv DEF EnterCallClosing
  <1>6. CASE TurnOff
    BY <1>1, <1>6, OperationKeepsInv DEF TurnOff, TransportOff
  <1>7. CASE TurnOn
    BY <1>1, <1>7, OperationKeepsInv DEF TurnOn
  <1>8. CASE BeginPairing
    <2>1. /\ wifiOn' \in BOOLEAN /\ pending' \in BOOLEAN
          /\ pending' => pending
          /\ RevokeLeases \/ UNCHANGED <<fresh, preempted>>
      <3>1. CASE TransportOff
        BY <3>1 DEF TransportOff
      <3>2. CASE UNCHANGED <<wifiOn, pending, fresh, preempted>>
        BY <1>1, <3>2
      <3> QED
        BY <1>8, <3>1, <3>2 DEF BeginPairing
    <2>2. /\ pairing' \in {"Off", "Starting", "On"}
          /\ UNCHANGED <<http, call, reserved, at, batch>>
      BY <1>8 DEF BeginPairing
    <2>3. reserved' \in BOOLEAN /\ call' \in {"Idle", "Soft", "Exclusive"}
      BY <1>1, <2>2
    <2> QED
      BY <2>1, <2>2, <2>3, OperationKeepsInv
  <1>9. CASE ReserveRadio
    BY <1>1, <1>9, OperationKeepsInv DEF ReserveRadio
  <1>10. CASE EndPairing
    BY <1>1, <1>10, OperationKeepsInv DEF EndPairing
  <1> QED
    BY <1>2, <1>3, <1>4, <1>5, <1>6, <1>7, <1>8, <1>9, <1>10
    DEF CallOperations, RadioOperations

LEMMA StepKeepsWifiInv == WifiInv /\ [WifiNext]_wifiVars => WifiInv'
  <1> SUFFICES ASSUME WifiInv, [WifiNext]_wifiVars PROVE WifiInv'
    OBVIOUS
  <1>1. CASE UNCHANGED wifiVars
    BY <1>1, SMT
    DEF wifiVars, WifiInv, WifiTypeOK, OneTransaction, CutShape, ScopeShape
  <1>2. CASE WifiNext
    BY <1>2, TransactKeepsInv, UpdateKeepsInv, ForegroundKeepsInv,
       OperationsKeepInv DEF WifiNext
  <1> QED
    BY <1>1, <1>2

-----------------------------------------------------------------------------
\* The invariant holds in every reachable state.
THEOREM WifiInvariant == WifiSpec => []WifiInv
  BY InitWifiInv, StepKeepsWifiInv, PTL DEF WifiSpec

\* Types, and the announcement of a foreground download belongs to a batch
\* that runs.
THEOREM WifiTypes == WifiSpec => []WifiTypeOK
  BY WifiInvariant, PTL DEF WifiInv

\* Of all workers, the one between its grant and its release is the owner of
\* the HTTP resource, through calls, switches, pairing and restarts.
THEOREM WifiOneTransaction == WifiSpec => []OneTransaction
  BY WifiInvariant, PTL DEF WifiInv

\* A transaction that was cut short finds its lease revoked at every later
\* poll, whatever happens in between.
THEOREM WifiPreemptedIsRevoked == WifiSpec => []PreemptedIsRevoked
  <1>1. WifiInv => PreemptedIsRevoked
    BY DEF WifiInv, CutShape, PreemptedIsRevoked, Revoked
  <1> QED
    BY <1>1, WifiInvariant, PTL

-----------------------------------------------------------------------------
(***************************************************************************)
(* What a transaction that was cut short still does.  PreemptedLetsGo says *)
(* that it lets HTTP go; the fairness of the workers is needed for that,   *)
(* but the way there is short whatever they do.                            *)
(***************************************************************************)
\* Steps to the release, when the next poll finds the lease revoked.
StepsToGo ==
    [s \in WorkerStep |->
        CASE s = "Connect" -> 7
          [] s = "ConnectCall" -> 6
          [] s = "Read" -> 5
          [] s = "Write" -> 4
          [] s = "Writing" -> 3
          [] s = "Poll" -> 2
          [] s \in {"Release", "Finish"} -> 1
          [] OTHER -> 0]

\* It comes closer to its release with each step it takes, reads at most once
\* more, and is through only when it has released HTTP itself, or the device
\* restarts.
CutComesToRelease ==
    \A c \in preempted :
        /\ at'[c] # at[c] => StepsToGo[at'[c]] < StepsToGo[at[c]]
        /\ c \notin preempted' => Release(c) \/ Restart

LEMMA HoldingToGo ==
    /\ \A s \in WorkerStep : StepsToGo[s] =
          CASE s = "Connect" -> 7
            [] s = "ConnectCall" -> 6
            [] s = "Read" -> 5
            [] s = "Write" -> 4
            [] s = "Writing" -> 3
            [] s = "Poll" -> 2
            [] s \in {"Release", "Finish"} -> 1
            [] OTHER -> 0
    /\ HoldingSteps \in SUBSET WorkerStep
    /\ {"Rest", "Finalize"} \in SUBSET WorkerStep
    /\ \A s \in HoldingSteps : StepsToGo[s] > 0
    /\ StepsToGo["Rest"] = 0 /\ StepsToGo["Finalize"] = 0
  <1>1. \A s \in WorkerStep : StepsToGo[s] =
          CASE s = "Connect" -> 7
            [] s = "ConnectCall" -> 6
            [] s = "Read" -> 5
            [] s = "Write" -> 4
            [] s = "Writing" -> 3
            [] s = "Poll" -> 2
            [] s \in {"Release", "Finish"} -> 1
            [] OTHER -> 0
    BY SMT DEF StepsToGo
  <1>2. HoldingSteps \in SUBSET WorkerStep
        /\ {"Rest", "Finalize"} \in SUBSET WorkerStep
    BY SMT DEF HoldingSteps, WorkerStep
  <1>3. \A s \in HoldingSteps : StepsToGo[s] > 0
    BY <1>1, <1>2, SMT DEF HoldingSteps
  <1>4. StepsToGo["Rest"] = 0 /\ StepsToGo["Finalize"] = 0
    BY <1>1, <1>2, SMT
  <1> QED
    BY <1>1, <1>2, <1>3, <1>4

LEMMA StepComesToRelease ==
    ASSUME WifiInv, [WifiNext]_wifiVars
    PROVE  [CutComesToRelease]_wifiVars
  <1> SUFFICES ASSUME WifiNext, NEW c \in preempted
               PROVE  /\ at'[c] # at[c] => StepsToGo[at'[c]] < StepsToGo[at[c]]
                      /\ c \notin preempted' => Release(c) \/ Restart
    BY DEF CutComesToRelease
  <1>1. /\ c \in Client /\ at[c] \in HoldingSteps /\ c \notin fresh
        /\ at \in [Client -> WorkerStep]
    BY DEF WifiInv, WifiTypeOK, CutShape
  <1>2. ASSUME NEW d \in Client, Acquire(d) \/ Transact(d)
        PROVE  /\ at'[c] # at[c] => StepsToGo[at'[c]] < StepsToGo[at[c]]
               /\ c \notin preempted' => Release(c)
    <2>1. d # c => at'[c] = at[c]
      BY <1>1, <1>2, SMT
      DEF Acquire, Transact, AskCall, AskHttp, Connect, ConnectCall, Poll, Read,
          Release, Goes
    <2>2. CASE d = c /\ Connect(c)
      <3>1. at[c] = "Connect" /\ at'[c] \in {"ConnectCall", "Release"}
        BY <1>1, <2>2, SMT DEF Connect, Goes
      <3> QED
        BY <2>2, <3>1, HoldingToGo, SMT DEF Connect, HoldingSteps
    <2>3. CASE d = c /\ ConnectCall(c)
      <3>1. at[c] = "ConnectCall" /\ at'[c] \in {"Poll", "Release"}
        BY <1>1, <2>3, SMT DEF ConnectCall, Goes
      <3> QED
        BY <2>3, <3>1, HoldingToGo, SMT DEF ConnectCall, HoldingSteps
    <2>4. CASE d = c /\ Poll(c)
      <3>1. at[c] = "Poll" /\ at'[c] = "Release"
        BY <1>1, <2>4, SMT DEF Poll, Goes, Revoked
      <3> QED
        BY <2>4, <3>1, HoldingToGo, SMT DEF Poll, HoldingSteps
    <2>5. CASE d = c /\ Read(c)
      <3>1. at[c] = "Read" /\ at'[c] \in {"Write", "Poll", "Release", "Finish"}
        BY <1>1, <2>5, SMT DEF Read, Goes
      <3> QED
        BY <2>5, <3>1, HoldingToGo, SMT DEF Read, HoldingSteps
    <2>6. CASE d = c /\ Release(c)
      <3>1. at'[c] \in {"Finalize", "Rest"}
        BY <1>1, <2>6, SMT DEF Release, Goes
      <3> QED
        BY <1>1, <2>6, <3>1, HoldingToGo, SMT
    <2>7. d = c => ~(Acquire(c) \/ AskCall(c) \/ AskHttp(c))
      BY <1>1 DEF Acquire, AskCall, AskHttp, HoldingSteps
    <2>8. d # c => c \in preempted'
      BY <1>2, SMT
      DEF Acquire, Transact, AskCall, AskHttp, Connect, ConnectCall, Poll, Read,
          Release
    <2> QED
      BY <1>2, <2>1, <2>2, <2>3, <2>4, <2>5, <2>6, <2>7, <2>8 DEF Transact
  <1>3. CASE EnterCritical \/ LeaveCritical
    <2>1. preempted' = preempted
      BY <1>3 DEF EnterCritical, LeaveCritical
    <2>2. c # Updater => at'[c] = at[c]
      BY <1>1, <1>3, ClientsAssumption, SMT DEF EnterCritical, LeaveCritical, Goes
    <2>3. c = Updater => \/ at[c] = "Write" /\ at'[c] = "Writing"
                         \/ at[c] = "Writing" /\ at'[c] \in {"Poll", "Release"}
      BY <1>1, <1>3, SMT DEF EnterCritical, LeaveCritical, Goes, HoldingSteps
    <2> QED
      BY <2>1, <2>2, <2>3, HoldingToGo, SMT DEF HoldingSteps
  <1>4. CASE Restart
    <2>1. at'[c] = "Rest"
      BY <1>1, <1>4 DEF Restart
    <2> QED
      BY <1>1, <1>4, <2>1, HoldingToGo, SMT
  <1>5. CASE BeginForeground \/ SetPending \/ EndBatch
    <2>1. preempted' = preempted
      BY <1>5 DEF BeginForeground, SetPending, EndBatch
    <2>2. c # Foreground => at'[c] = at[c]
      BY <1>1, <1>5, SMT DEF BeginForeground, SetPending, EndBatch, Goes
    <2>3. c # Foreground \/ EndBatch
      BY <1>1, <1>5 DEF BeginForeground, SetPending, HoldingSteps
    <2> QED
      BY <2>1, <2>2, <2>3 DEF EndBatch
  <1>6. CASE CallOperations \/ RadioOperations
    <2>1. UNCHANGED at
      BY <1>6
      DEF CallOperations, RadioOperations, EnterCallRinging, EnterCallExclusive,
          EnterCallClosing, ExitCall, TurnOff, TurnOn, BeginPairing, ReserveRadio,
          EndPairing
    <2>2. preempted \subseteq preempted'
      BY <1>6
      DEF CallOperations, RadioOperations, EnterCallRinging, EnterCallExclusive,
          EnterCallClosing, ExitCall, TurnOff, TurnOn, BeginPairing, ReserveRadio,
          EndPairing, TransportOff, RevokeLeases
    <2> QED
      BY <2>1, <2>2
  <1> QED
    BY <1>2, <1>3, <1>4, <1>5, <1>6 DEF WifiNext, Update

\* A transaction that a call or the user cut short is on its way out: at most
\* one more read, one more write, and the poll that ends it
\* (lease_revoked in the download loop of the HTTP client).
THEOREM WifiCutComesToRelease == WifiSpec => [][CutComesToRelease]_wifiVars
  BY WifiInvariant, StepComesToRelease, PTL DEF WifiSpec

-----------------------------------------------------------------------------
(***************************************************************************)
(* The reservation is one flag for two users (WifiAccessPairing.cfg).      *)
(***************************************************************************)
\* The firmware update may not be interrupted in these steps.
UpdateReserved == at[Updater] \in Critical => reserved

\* Each of the two loses the radio by the other one's end, and by nothing else.
LostToEachOther ==
    /\ RadioReservedWhilePairing /\ ~RadioReservedWhilePairing' => LeaveCritical
    /\ UpdateReserved /\ ~UpdateReserved' => EndPairing

\* Neither calls nor the user's switch nor a restart takes the reservation from
\* pairing or from a firmware write: only these two take it from one another
\* (set_non_preemptible_activity, without a count).
THEOREM WifiLostToEachOther == WifiSpec => [][LostToEachOther]_wifiVars
  <1>1. WifiInv /\ [WifiNext]_wifiVars => [LostToEachOther]_wifiVars
    <2> SUFFICES ASSUME WifiInv, WifiNext PROVE LostToEachOther
      OBVIOUS
    <2>1. at \in [Client -> WorkerStep] /\ Updater \in Client
      BY ClientsAssumption DEF WifiInv, WifiTypeOK
    <2>2. ASSUME NEW c \in Client, Acquire(c) \/ Transact(c)
          PROVE  /\ UNCHANGED <<reserved, pairing>>
                 /\ at'[Updater] \notin Critical \/ at'[Updater] = at[Updater]
      <3>1. \/ at' = at
            \/ \E s \in WorkerStep \ Critical : Goes(c, s)
        BY <2>2, SMT
        DEF Acquire, Transact, AskCall, AskHttp, Connect, ConnectCall, Poll, Read,
            Release, Critical, WorkerStep, HoldingSteps
      <3>2. at'[Updater] \notin Critical \/ at'[Updater] = at[Updater]
        BY <2>1, <3>1 DEF Goes
      <3> QED
        BY <2>2, <3>2
        DEF Acquire, Transact, AskCall, AskHttp, Connect, ConnectCall, Poll, Read,
            Release
    <2>3. CASE EnterCritical
      BY <2>3 DEF EnterCritical, LostToEachOther, RadioReservedWhilePairing,
                  UpdateReserved
    <2>4. CASE LeaveCritical
      <3>1. at'[Updater] \notin Critical
        BY <2>1, <2>4, SMT DEF LeaveCritical, Goes, Critical
      <3> QED
        BY <2>4, <3>1 DEF LostToEachOther, UpdateReserved
    <2>5. CASE Restart
      <3>1. at'[Updater] \notin Critical /\ pairing' = "Off"
        BY <2>1, <2>5 DEF Restart, Critical
      <3> QED
        BY <3>1 DEF LostToEachOther, UpdateReserved, RadioReservedWhilePairing
    <2>6. CASE BeginForeground \/ SetPending \/ EndBatch
      <3>1. UNCHANGED <<reserved, pairing>> /\ at'[Updater] = at[Updater]
        BY <2>1, <2>6, ClientsAssumption
        DEF BeginForeground, SetPending, EndBatch, Goes
      <3> QED
        BY <3>1 DEF LostToEachOther, UpdateReserved, RadioReservedWhilePairing
    <2>7. CASE CallOperations
      BY <2>7
      DEF CallOperations, EnterCallRinging, EnterCallExclusive, EnterCallClosing,
          ExitCall, LostToEachOther, UpdateReserved, RadioReservedWhilePairing
    <2>8. CASE RadioOperations
      BY <2>8
      DEF RadioOperations, TurnOff, TurnOn, BeginPairing, ReserveRadio, EndPairing,
          LostToEachOther, UpdateReserved, RadioReservedWhilePairing
    <2> QED
      BY <2>2, <2>3, <2>4, <2>5, <2>6, <2>7, <2>8
      DEF WifiNext, Update, LostToEachOther, UpdateReserved,
          RadioReservedWhilePairing
  <1> QED
    BY <1>1, WifiInvariant, PTL DEF WifiSpec
=============================================================================
