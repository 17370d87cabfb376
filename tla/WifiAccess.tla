------------------------------ MODULE WifiAccess ------------------------------
(***************************************************************************)
(* Who may use the one Wi-Fi radio (platform_ui_wifi_access_runtime.cpp):  *)
(* HTTP transactions of several worker tasks, one at a time; the call      *)
(* runtime, which preempts them; the firmware update, whose writes may not *)
(* be interrupted; team pairing, which takes the radio for ESP-NOW; and    *)
(* the user, who turns Wi-Fi off and on.                                   *)
(*                                                                         *)
(* Every action is one critical section under s_lock, or one step of a     *)
(* worker between two of them.  The call's operations may come in any      *)
(* order: CallRuntime shows how late a hook can be.  The screen's phase    *)
(* (it only defers), connect back-off, traffic budgets in bytes and the    *)
(* settle time after a download are left out; a client is a (client, kind) *)
(* pair of the code.                                                       *)
(***************************************************************************)
CONSTANTS
    Client,     \* the users of HTTP
    Foreground, \* route storage, which announces its downloads to the others
    Updater,    \* the firmware download
    NoClient    \* nobody

ASSUME ClientsAssumption ==
    /\ Foreground \in Client /\ Updater \in Client /\ Foreground # Updater
    /\ NoClient \notin Client

VARIABLES
    wifiOn,     \* s_state: transport_enabled
    http,       \*          http_active, owner and active_kind
    pending,    \*          foreground_download_pending (by Foreground)
    call,       \*          call_phase: Soft and Exclusive, closing or not
    reserved,   \*          non_preemptible_active
    fresh,      \* the clients whose lease has the present revoke_generation
    at,         \* where each client's worker is
    batch,      \* the route worker's batch, and its foreground scope
    pairing,    \* the ESP-NOW transport of team pairing
    preempted   \* history: the transactions a call or the user cut short

wifiVars ==
    <<wifiOn, http, pending, call, reserved, fresh, at, batch, pairing,
      preempted>>

\* Steps of a worker that holds the HTTP resource.
HoldingSteps == {"Connect", "ConnectCall", "Poll", "Read", "Write", "Writing",
                 "Release", "Finish"}

\* Steps of a worker in which it may not be interrupted.
Critical == {"Writing", "Finalizing", "Activating"}

WorkerStep ==
    HoldingSteps \cup Critical \cup
        {"Rest", "SetPending", "AskCall", "AskHttp", "Finalize", "Activate",
         "Restart"}

WifiTypeOK ==
    /\ wifiOn \in BOOLEAN
    /\ http \in Client \cup {NoClient}
    /\ pending \in BOOLEAN
    /\ call \in {"Idle", "Soft", "Exclusive"}
    /\ reserved \in BOOLEAN
    /\ fresh \in SUBSET Client
    /\ at \in [Client -> WorkerStep]
    /\ batch \in {"None", "Refused", "Announced"}
    /\ pairing \in {"Off", "Starting", "On"}
    /\ preempted \in SUBSET Client
    /\ pending => batch = "Announced"

WifiInit ==
    /\ wifiOn = TRUE
    /\ http = NoClient
    /\ pending = FALSE
    /\ call = "Idle"
    /\ reserved = FALSE
    /\ fresh = {}
    /\ at = [c \in Client |-> "Rest"]
    /\ batch = "None"
    /\ pairing = "Off"
    /\ preempted = {}

Goes(c, s) == at' = [at EXCEPT ![c] = s]

Holders == {c \in Client : at[c] \in HoldingSteps}

\* lease_revoked, for a lease that is not the call's own.
Revoked(c) == c \notin fresh \/ call = "Exclusive"

-----------------------------------------------------------------------------
(***************************************************************************)
(* A transaction: acquire and release, and download of the HTTP client.    *)
(***************************************************************************)
\* acquire looks at the transport first.
Acquire(c) ==
    /\ at[c] = "Rest"
    /\ c = Foreground => batch # "None"
    /\ wifiOn
    /\ Goes(c, "AskCall")
    /\ UNCHANGED <<wifiOn, http, pending, call, reserved, fresh, batch,
                   pairing, preempted>>

\* Then at the call, in a critical section of its own, and at the screen.
AskCall(c) ==
    /\ at[c] = "AskCall"
    /\ \/ call = "Idle" /\ Goes(c, "AskHttp")
       \/ Goes(c, "Rest")
    /\ UNCHANGED <<wifiOn, http, pending, call, reserved, fresh, batch,
                   pairing, preempted>>

\* Mutant: an announced download may start beside the one that runs.
AskHttpIfAnnounced(c) ==
    /\ at[c] = "AskHttp"
    /\ http = NoClient \/ (pending /\ c = Foreground)
    /\ http' = c
    /\ fresh' = fresh \cup {c}
    /\ Goes(c, "Connect")
    /\ UNCHANGED <<wifiOn, pending, call, reserved, batch, pairing, preempted>>

\* The grant, unless HTTP is taken or announced by another.
AskHttp(c) ==
    /\ at[c] = "AskHttp"
    /\ \/ /\ http = NoClient
          /\ pending => c = Foreground
          /\ http' = c
          /\ fresh' = fresh \cup {c}
          /\ Goes(c, "Connect")
       \/ /\ http # NoClient \/ (pending /\ c # Foreground)
          /\ Goes(c, "Rest")
          /\ UNCHANGED <<http, fresh>>
    /\ UNCHANGED <<wifiOn, pending, call, reserved, batch, pairing, preempted>>

\* ensure_connected asks again: for the transport ...
Connect(c) ==
    /\ at[c] = "Connect"
    /\ Goes(c, IF wifiOn THEN "ConnectCall" ELSE "Release")
    /\ UNCHANGED <<wifiOn, http, pending, call, reserved, fresh, batch,
                   pairing, preempted>>

\* ... and for the call; the connection may also fail.
ConnectCall(c) ==
    /\ at[c] = "ConnectCall"
    /\ \/ call = "Idle" /\ Goes(c, "Poll")
       \/ Goes(c, "Release")
    /\ UNCHANGED <<wifiOn, http, pending, call, reserved, fresh, batch,
                   pairing, preempted>>

\* Mutant: a lease is given up only while the call is there.
PollCallOnly(c) ==
    /\ at[c] = "Poll"
    /\ Goes(c, IF call = "Exclusive" THEN "Release" ELSE "Read")
    /\ UNCHANGED <<wifiOn, http, pending, call, reserved, fresh, batch,
                   pairing, preempted>>

\* The poll point before every read.
Poll(c) ==
    /\ at[c] = "Poll"
    /\ Goes(c, IF Revoked(c) THEN "Release" ELSE "Read")
    /\ UNCHANGED <<wifiOn, http, pending, call, reserved, fresh, batch,
                   pairing, preempted>>

\* More data, the end, or a failure.
Read(c) ==
    /\ at[c] = "Read"
    /\ \E s \in IF c = Updater THEN {"Write", "Release", "Finish"}
                               ELSE {"Poll", "Release"} : Goes(c, s)
    /\ UNCHANGED <<wifiOn, http, pending, call, reserved, fresh, batch,
                   pairing, preempted>>

\* release frees what is registered under the lease's client and kind.
Release(c) ==
    /\ at[c] \in {"Release", "Finish"}
    /\ http' = IF http = c THEN NoClient ELSE http
    /\ fresh' = fresh \ {c}
    /\ preempted' = preempted \ {c}
    /\ Goes(c, IF at[c] = "Finish" THEN "Finalize" ELSE "Rest")
    /\ UNCHANGED <<wifiOn, pending, call, reserved, batch, pairing>>

-----------------------------------------------------------------------------
(***************************************************************************)
(* The firmware update.                                                    *)
(***************************************************************************)
\* ScopedNonPreemptibleActivity around a write, the finalisation and the
\* activation of the image.
EnterCritical ==
    /\ \/ at[Updater] = "Write" /\ Goes(Updater, "Writing")
       \/ at[Updater] = "Finalize" /\ Goes(Updater, "Finalizing")
       \/ at[Updater] = "Activate" /\ Goes(Updater, "Activating")
    /\ reserved' = TRUE
    /\ UNCHANGED <<wifiOn, http, pending, call, fresh, batch, pairing,
                   preempted>>

\* Its end; each of the three may have failed.
LeaveCritical ==
    /\ \/ at[Updater] = "Writing" /\ \E s \in {"Poll", "Release"} :
                                        Goes(Updater, s)
       \/ at[Updater] = "Finalizing" /\ \E s \in {"Activate", "Rest"} :
                                        Goes(Updater, s)
       \/ at[Updater] = "Activating" /\ \E s \in {"Restart", "Rest"} :
                                        Goes(Updater, s)
    /\ reserved' = FALSE
    /\ UNCHANGED <<wifiOn, http, pending, call, fresh, batch, pairing,
                   preempted>>

\* The device restarts with the new image, whatever else is going on.
Restart ==
    /\ at[Updater] = "Restart"
    /\ wifiOn' = TRUE
    /\ http' = NoClient
    /\ pending' = FALSE
    /\ call' = "Idle"
    /\ reserved' = FALSE
    /\ fresh' = {}
    /\ at' = [c \in Client |-> "Rest"]
    /\ batch' = "None"
    /\ pairing' = "Off"
    /\ preempted' = {}

-----------------------------------------------------------------------------
(***************************************************************************)
(* The route worker's foreground scope.                                    *)
(***************************************************************************)
\* begin_foreground_download looks at the call in a critical section of its
\* own; the batch goes on without the announcement when it is refused.
BeginForeground ==
    /\ at[Foreground] = "Rest"
    /\ batch = "None"
    /\ \/ call = "Idle" /\ Goes(Foreground, "SetPending") /\ UNCHANGED batch
       \/ batch' = "Refused" /\ UNCHANGED at
    /\ UNCHANGED <<wifiOn, http, pending, call, reserved, fresh, pairing,
                   preempted>>

\* Mutant: the announcement is made before the look at who has HTTP.
SetPendingFirst ==
    /\ at[Foreground] = "SetPending"
    /\ pending' = TRUE
    /\ batch' = IF http \in {Foreground, NoClient} THEN "Announced"
                                                  ELSE "Refused"
    /\ Goes(Foreground, "Rest")
    /\ UNCHANGED <<wifiOn, http, call, reserved, fresh, pairing, preempted>>

\* The announcement, unless another has HTTP.
SetPending ==
    /\ at[Foreground] = "SetPending"
    /\ pending' = (http \in {Foreground, NoClient} \/ pending)
    /\ batch' = IF http \in {Foreground, NoClient} THEN "Announced"
                                                  ELSE "Refused"
    /\ Goes(Foreground, "Rest")
    /\ UNCHANGED <<wifiOn, http, call, reserved, fresh, pairing, preempted>>

\* Mutant: the announcement outlives the batch.
EndBatchAnnounced ==
    /\ at[Foreground] = "Rest"
    /\ batch # "None"
    /\ batch' = "None"
    /\ UNCHANGED <<wifiOn, http, pending, call, reserved, fresh, at, pairing,
                   preempted>>

\* The batch is over: the scope's destructor, which acts only if it was begun.
\* It may never be: on low memory the worker waits, and tries the same image
\* again, without a bound and without asking for HTTP.
EndBatch ==
    /\ at[Foreground] = "Rest"
    /\ batch # "None"
    /\ batch' = "None"
    /\ pending' = (pending /\ batch # "Announced")
    /\ UNCHANGED <<wifiOn, http, call, reserved, fresh, at, pairing, preempted>>

-----------------------------------------------------------------------------
(***************************************************************************)
(* The call runtime's hooks.                                               *)
(***************************************************************************)
\* ++revoke_generation, which takes the lease of every transaction.
RevokeLeases ==
    /\ fresh' = {}
    /\ preempted' = preempted \cup Holders

EnterCallRinging ==
    /\ call' = "Soft"
    /\ pending' = FALSE
    /\ UNCHANGED <<wifiOn, http, reserved, fresh, at, batch, pairing,
                   preempted>>

\* Denied while somebody may not be interrupted.
EnterCallExclusive ==
    /\ ~reserved
    /\ call' = "Exclusive"
    /\ pending' = FALSE
    /\ RevokeLeases
    /\ UNCHANGED <<wifiOn, http, reserved, at, batch, pairing>>

EnterCallClosing(keep) ==
    /\ call' = IF keep THEN "Exclusive" ELSE "Soft"
    /\ IF keep THEN RevokeLeases ELSE UNCHANGED <<fresh, preempted>>
    /\ UNCHANGED <<wifiOn, http, pending, reserved, at, batch, pairing>>

\* exit_call of the call that holds the lease; another call's does nothing.
\* A lease granted during the call, by a look at it that came too early, goes
\* with it.
ExitCall ==
    /\ call' = "Idle"
    /\ IF call = "Exclusive" THEN RevokeLeases
                             ELSE UNCHANGED <<fresh, preempted>>
    /\ UNCHANGED <<wifiOn, http, pending, reserved, at, batch, pairing>>

-----------------------------------------------------------------------------
(***************************************************************************)
(* The user's switch and team pairing, both on the UI task.                *)
(***************************************************************************)
\* Mutant: turning Wi-Fi off leaves the leases as they are.
TransportOffUnrevoked ==
    /\ wifiOn' = FALSE
    /\ pending' = FALSE
    /\ preempted' = preempted \cup Holders
    /\ UNCHANGED fresh

\* set_transport_enabled(false).
TransportOff ==
    /\ wifiOn' = FALSE
    /\ pending' = FALSE
    /\ IF wifiOn THEN RevokeLeases ELSE UNCHANGED <<fresh, preempted>>

\* apply_enabled; it turns on only a radio that is not reserved, and leaves the
\* transport off when its users are not ready, without revoking anything.
TurnOff ==
    /\ pairing # "Starting"
    /\ TransportOff
    /\ UNCHANGED <<http, call, reserved, at, batch, pairing>>

TurnOn ==
    /\ pairing # "Starting"
    /\ ~reserved
    /\ wifiOn' \in BOOLEAN
    /\ UNCHANGED <<http, pending, call, reserved, fresh, at, batch, pairing,
                   preempted>>

\* begin of the ESP-NOW transport: Wi-Fi goes off first, if it is on ...
BeginPairing ==
    /\ pairing = "Off"
    /\ pairing' = "Starting"
    /\ \/ wifiOn /\ TransportOff
       \/ ~wifiOn /\ UNCHANGED <<wifiOn, pending, fresh, preempted>>
    /\ UNCHANGED <<http, call, reserved, at, batch>>

\* ... and the radio is reserved when it runs; it may not start.
ReserveRadio ==
    /\ pairing = "Starting"
    /\ \/ pairing' = "On" /\ reserved' = TRUE
       \/ pairing' = "Off" /\ UNCHANGED reserved
    /\ UNCHANGED <<wifiOn, http, pending, call, fresh, at, batch, preempted>>

EndPairing ==
    /\ pairing = "On"
    /\ pairing' = "Off"
    /\ reserved' = FALSE
    /\ UNCHANGED <<wifiOn, http, pending, call, fresh, at, batch, preempted>>

-----------------------------------------------------------------------------
\* A worker goes on with the transaction it has begun.
Transact(c) ==
    \/ AskCall(c) \/ AskHttp(c) \/ Connect(c) \/ ConnectCall(c)
    \/ Poll(c) \/ Read(c) \/ Release(c)

Update == EnterCritical \/ LeaveCritical \/ Restart

CallOperations ==
    \/ EnterCallRinging \/ EnterCallExclusive \/ ExitCall
    \/ \E keep \in BOOLEAN : EnterCallClosing(keep)

RadioOperations ==
    TurnOff \/ TurnOn \/ BeginPairing \/ ReserveRadio \/ EndPairing

WifiNext ==
    \/ \E c \in Client : Acquire(c) \/ Transact(c)
    \/ Update
    \/ BeginForeground \/ SetPending \/ EndBatch
    \/ CallOperations \/ RadioOperations

\* Workers are tasks of their own and every read has a time limit.  Nothing
\* makes a batch end: its wait for memory has no limit.
WifiFairness ==
    /\ \A c \in Client : WF_wifiVars(Transact(c))
    /\ WF_wifiVars(Update)
    /\ WF_wifiVars(SetPending)

WifiSpec == WifiInit /\ [][WifiNext]_wifiVars /\ WifiFairness

-----------------------------------------------------------------------------
(***************************************************************************)
(* Properties.                                                             *)
(***************************************************************************)
\* "Exactly one HTTP transaction owns the HTTP resource": whatever calls,
\* switches and pairing do, a worker between its grant and its release is the
\* registered owner, and nobody else is.
OneTransaction ==
    \A c \in Client : at[c] \in HoldingSteps <=> http = c

\* A transaction that a call or the user cut short stays cut: its lease is
\* revoked at every later poll, even if the call is over and Wi-Fi is back on
\* by then.
PreemptedIsRevoked == \A c \in preempted : Revoked(c)

\* Such a transaction lets HTTP go.
PreemptedLetsGo == \A c \in Client : (c \in preempted) ~> (c \notin preempted)

\* traffic_budget of the gateway that carries the call: none while the
\* firmware or a foreground download has HTTP, or one is announced.
GatewayHasBudget == wifiOn /\ http \notin {Updater, Foreground} /\ ~pending

\* Where no batch waits for memory for ever, a call that takes the hard lease
\* gets the gateway: downloads let go, and an announcement that slipped in
\* after the call began goes with its batch.  Nothing else withdraws it.
CallGetsGateway ==
    []<>(batch = "None") =>
        ((call = "Exclusive") ~> (GatewayHasBudget \/ call # "Exclusive" \/ ~wifiOn))

\* While the ESP-NOW transport runs, the radio is reserved, "so a later
\* Settings toggle cannot reconfigure the driver during Team pairing".
RadioReservedWhilePairing == pairing = "On" => reserved
=============================================================================
