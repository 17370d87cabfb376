------------------------------ MODULE LxstCall ------------------------------
(***************************************************************************)
(* LXST telephony between Trail Mate devices: the session state machine of *)
(* lxst_call_state_machine.cpp at both ends of a link, run by the mesh     *)
(* task (lxmf_adapter_call.cpp), over packets that are lost, delayed and   *)
(* reordered, with the link sessions' own timers, their eviction from a    *)
(* full table, and each device's call runtime reduced to the call that     *)
(* owns it.                                                                *)
(*                                                                         *)
(* A link is one call attempt: From[l] dials To[l], once.  A packet that   *)
(* is never received has been lost, so there is no action for a loss.      *)
(* Codec profile and duplex mode are left out: both ends run the embedded  *)
(* profile, and neither value changes a phase.                             *)
(***************************************************************************)
CONSTANTS
    Device,     \* the devices
    Link,       \* the link ids calls are dialled on
    From, To,   \* the device that dials a link, and the one it dials
    NoCall      \* the call runtime is Idle

ASSUME LinksAssumption ==
    /\ From \in [Link -> Device]
    /\ To \in [Link -> Device]
    /\ \A l \in Link : From[l] # To[l]
    /\ NoCall \notin Link

VARIABLES
    session,    \* state of each end's link session (LinkState)
    phase,      \* each end's Phase in the call state machine
    net,        \* packets on their way, each with the role it is addressed to
    current,    \* the link whose call owns the device's call runtime
    onAir,      \* the device's runtime is in ActiveCall: microphone and speaker run
    answered    \* history: the links whose callee pressed Answer

vars == <<session, phase, net, current, onAir, answered>>

Role == {"caller", "callee"}

Peer(r) == IF r = "caller" THEN "callee" ELSE "caller"

Owner(l, r) == IF r = "caller" THEN From[l] ELSE To[l]

SessionState == {"None", "Pending", "Handshake", "Active", "Stale",
                 "Closed", "Erased"}

Live(l, r) == session[l][r] \in {"Pending", "Handshake", "Active", "Stale"}

\* callerIsWaiting.
CallerWaiting == {"CallerAwaitingAvailability", "CallerAwaitingRinging",
                  "CallerNegotiating", "CallerConnecting"}

\* Mutant: a telephone that rings for ever.
TimedWithoutRinging == CallerWaiting \cup {"CalleeAwaitingIdentity"}

\* The phases phaseTimeoutMs gives a limit.  CalleeAwaitingAdmission and
\* CalleeConnecting have one too, but the step that enters them leaves them.
Timed == CallerWaiting \cup {"CalleeAwaitingIdentity", "CalleeRinging"}

PhaseOf == [caller |-> CallerWaiting
                         \cup {"Idle", "CallerAwaitingLink", "Active", "Closed"},
            callee |-> {"Idle", "CalleeAwaitingLink", "CalleeAwaitingIdentity",
                        "CalleeRinging", "Active", "Closed"}]

Packet == {<<"callee", k>> : k \in {"Request", "Rtt", "Identify", "LinkClose"}}
            \cup {<<"caller", k>> :
                    k \in {"Proof", "Available", "Ringing", "Connecting",
                           "Established", "Busy", "Rejected", "LinkClose"}}

TypeOK ==
    /\ session \in [Link -> [Role -> SessionState]]
    /\ phase \in [Link -> [Role -> UNION {PhaseOf[r] : r \in Role}]]
    /\ \A l \in Link : \A r \in Role : phase[l][r] \in PhaseOf[r]
    /\ net \in [Link -> SUBSET Packet]
    /\ current \in [Device -> Link \cup {NoCall}]
    /\ onAir \in [Device -> BOOLEAN]
    /\ answered \in SUBSET Link

Init ==
    /\ session = [l \in Link |-> [r \in Role |-> "None"]]
    /\ phase = [l \in Link |-> [r \in Role |-> "Idle"]]
    /\ net = [l \in Link |-> {}]
    /\ current = [d \in Device |-> NoCall]
    /\ onAir = [d \in Device |-> FALSE]
    /\ answered = {}

-----------------------------------------------------------------------------
(***************************************************************************)
(* Steps shared by the handlers.                                           *)
(***************************************************************************)
Arrived(l, r, k) == <<r, k>> \in net[l]

\* Packets r sends.  A session that is over has wiped its keys and drops
\* whatever still reaches it.
Sent(l, r, kinds) ==
    IF session[l][Peer(r)] \in {"Closed", "Erased"}
    THEN {}
    ELSE {<<Peer(r), k>> : k \in kinds}

\* End r takes packet k in, enters phase ph and sends `kinds'.
Advance(l, r, k, ph, kinds) ==
    /\ phase' = [phase EXCEPT ![l][r] = ph]
    /\ net' = [net EXCEPT ![l] = (@ \ {<<r, k>>}) \cup Sent(l, r, kinds)]

\* Mutant: the media are not stopped.
NotifyKeepsMedia(d, l) ==
    /\ current' = IF current[d] = l THEN [current EXCEPT ![d] = NoCall]
                                    ELSE current
    /\ UNCHANGED onAir

\* notify_link_closed: the runtime goes Idle if this link's call owns it.
NotifyLinkClosed(d, l) ==
    /\ current' = IF current[d] = l THEN [current EXCEPT ![d] = NoCall]
                                    ELSE current
    /\ onAir' = IF current[d] = l THEN [onAir EXCEPT ![d] = FALSE] ELSE onAir

\* closeLinkSession, after `kinds' were sent: session and call are over, the
\* runtime is told.
CloseSession(l, r, kinds) ==
    /\ session' = [session EXCEPT ![l][r] = "Closed"]
    /\ phase' = [phase EXCEPT ![l][r] = "Closed"]
    /\ net' = [net EXCEPT ![l] = {p \in @ : p[1] # r} \cup Sent(l, r, kinds)]
    /\ NotifyLinkClosed(Owner(l, r), l)

\* The CloseLink action of a transition, which OperationFailed leads to as well.
\* A Pending session has no link key yet: nobody can read what it sends.
CloseLink(l, r, kinds) ==
    /\ CloseSession(l, r, IF session[l][r] = "Pending"
                          THEN {} ELSE kinds \cup {"LinkClose"})
    /\ UNCHANGED answered

\* A close by the link layer, which tells the other end nothing.
CloseSilently(l, r) ==
    /\ CloseSession(l, r, {})
    /\ UNCHANGED answered

-----------------------------------------------------------------------------
(***************************************************************************)
(* Opening the link.                                                       *)
(***************************************************************************)
\* Mutant: the caller's session is made with makeCallee.
DialAsCallee(l) ==
    /\ session[l]["caller"] = "None"
    /\ current[From[l]] = NoCall
    /\ session' = [session EXCEPT ![l]["caller"] = "Pending"]
    /\ phase' = [phase EXCEPT ![l]["caller"] = "CalleeAwaitingLink"]
    /\ current' = [current EXCEPT ![From[l]] = l]
    /\ net' = [net EXCEPT ![l] = @ \cup Sent(l, "caller", {"Request"})]
    /\ UNCHANGED <<onAir, answered>>

\* startReticulumAudioCall and begin_outgoing.  An attempt whose request
\* cannot be sent is discarded with no trace and is no step here; one that
\* waits for a path is a request that travels for long.
Dial(l) ==
    /\ session[l]["caller"] = "None"
    /\ current[From[l]] = NoCall
    /\ session' = [session EXCEPT ![l]["caller"] = "Pending"]
    /\ phase' = [phase EXCEPT ![l]["caller"] = "CallerAwaitingLink"]
    /\ current' = [current EXCEPT ![From[l]] = l]
    /\ net' = [net EXCEPT ![l] = @ \cup Sent(l, "caller", {"Request"})]
    /\ UNCHANGED <<onAir, answered>>

\* Mutant: a call is admitted beside another.
AdmitAlways(l) ==
    /\ Arrived(l, "callee", "Request")
    /\ session' = [session EXCEPT ![l]["callee"] = "Handshake"]
    /\ Advance(l, "callee", "Request", "CalleeAwaitingLink", {"Proof"})
    /\ current' = [current EXCEPT ![To[l]] = l]
    /\ UNCHANGED <<onAir, answered>>

\* handleLinkRequestPacket, the device being free: begin_incoming_identifying.
AdmitRequest(l) ==
    /\ Arrived(l, "callee", "Request")
    /\ current[To[l]] = NoCall
    /\ session' = [session EXCEPT ![l]["callee"] = "Handshake"]
    /\ Advance(l, "callee", "Request", "CalleeAwaitingLink", {"Proof"})
    /\ current' = [current EXCEPT ![To[l]] = l]
    /\ UNCHANGED <<onAir, answered>>

\* handleLinkRequestPacket with reject_busy_call: the session lives only long
\* enough to send the proof, BUSY and the close.
RejectBusy(l) ==
    /\ Arrived(l, "callee", "Request")
    /\ current[To[l]] # NoCall
    /\ net' = [net EXCEPT ![l] = (@ \ {<<"callee", "Request">>})
                 \cup Sent(l, "callee", {"Proof", "Busy", "LinkClose"})]
    /\ UNCHANGED <<session, phase, current, onAir, answered>>

\* handleLinkProofPacket at the caller: LinkActive, and the RTT packet that
\* opens the callee's end.
LinkProof(l) ==
    /\ Arrived(l, "caller", "Proof")
    /\ session[l]["caller"] = "Pending"
    /\ session' = [session EXCEPT ![l]["caller"] = "Active"]
    /\ Advance(l, "caller", "Proof", "CallerAwaitingAvailability", {"Rtt"})
    /\ UNCHANGED <<current, onAir, answered>>

\* Mutant: the call rings as soon as the link is up.
RttRings(l) ==
    /\ Arrived(l, "callee", "Rtt")
    /\ session[l]["callee"] = "Handshake"
    /\ session' = [session EXCEPT ![l]["callee"] = "Active"]
    /\ Advance(l, "callee", "Rtt", "CalleeRinging", {"Available", "Ringing"})
    /\ UNCHANGED <<current, onAir, answered>>

\* handleLinkDataPacket, LrRtt: LinkActive at the callee.
LinkRtt(l) ==
    /\ Arrived(l, "callee", "Rtt")
    /\ session[l]["callee"] = "Handshake"
    /\ \/ /\ session' = [session EXCEPT ![l]["callee"] = "Active"]
          /\ Advance(l, "callee", "Rtt", "CalleeAwaitingIdentity", {"Available"})
          /\ UNCHANGED <<current, onAir, answered>>
       \/ CloseLink(l, "callee", {})

-----------------------------------------------------------------------------
(***************************************************************************)
(* Signalling.  A step that sends has two outcomes: a send that fails is   *)
(* an OperationFailed event, which closes the link in the same step.       *)
(***************************************************************************)
\* Signals are taken in only while the session is Active (context None).
Signalled(l, k) ==
    /\ Arrived(l, "caller", k)
    /\ session[l]["caller"] = "Active"

\* The caller's answer to signal k: on to phase ph, or the send or the media
\* failed.
CallerStep(l, k, ph, kinds) ==
    \/ /\ Advance(l, "caller", k, ph, kinds)
       /\ UNCHANGED <<session, current, onAir, answered>>
    \/ CloseLink(l, "caller", {})

\* The control retry of pumpReticulumAudioCall: AVAILABLE again.
RetryAvailable(l) ==
    /\ session[l]["callee"] = "Active"
    /\ phase[l]["callee"] = "CalleeAwaitingIdentity"
    /\ \/ /\ net' = [net EXCEPT ![l] = @ \cup Sent(l, "callee", {"Available"})]
          /\ UNCHANGED <<session, phase, current, onAir, answered>>
       \/ CloseLink(l, "callee", {})

\* handleCallerSignal, AVAILABLE: identify, once.  A repeated AVAILABLE is
\* accepted and does nothing.
Available(l) ==
    /\ Signalled(l, "Available")
    /\ \/ /\ phase[l]["caller"] = "CallerAwaitingAvailability"
          /\ CallerStep(l, "Available", "CallerAwaitingRinging", {"Identify"})
       \/ /\ phase[l]["caller"] = "CallerAwaitingRinging"
          /\ Advance(l, "caller", "Available", "CallerAwaitingRinging", {})
          /\ UNCHANGED <<session, current, onAir, answered>>

\* handleLinkDataPacket, LinkIdentify, which does not ask for an Active
\* session: RemoteIdentified, then the runtime's admission.  A call that is
\* not admitted is answered BUSY.
LinkIdentify(l) ==
    /\ Arrived(l, "callee", "Identify")
    /\ session[l]["callee"] \in {"Active", "Stale"}
    /\ phase[l]["callee"] = "CalleeAwaitingIdentity"
    /\ \/ /\ Advance(l, "callee", "Identify", "CalleeRinging", {"Ringing"})
          /\ UNCHANGED <<session, current, onAir, answered>>
       \/ CloseLink(l, "callee", {"Busy"})
       \/ CloseLink(l, "callee", {})

\* RINGING: the preferences it sends change no phase at the callee.
Ringing(l) ==
    /\ Signalled(l, "Ringing")
    /\ phase[l]["caller"] = "CallerAwaitingRinging"
    /\ CallerStep(l, "Ringing", "CallerNegotiating", {})

\* Mutant: a failure after ESTABLISHED was sent leaves the call ringing.
AcceptLeftRinging(l) ==
    /\ session[l]["callee"] = "Active"
    /\ phase[l]["callee"] = "CalleeRinging"
    /\ current[To[l]] = l
    /\ net' = [net EXCEPT ![l] = @ \cup
                  Sent(l, "callee", {"Connecting", "Established"})]
    /\ answered' = answered \cup {l}
    /\ UNCHANGED <<session, phase, current, onAir>>

\* The user answered and the pump dispatches LocalAccepted: CONNECTING, then
\* the media, then ESTABLISHED, then mark_call_active, any of which may fail.
Accept(l) ==
    /\ session[l]["callee"] = "Active"
    /\ phase[l]["callee"] = "CalleeRinging"
    /\ current[To[l]] = l
    /\ \/ /\ phase' = [phase EXCEPT ![l]["callee"] = "Active"]
          /\ net' = [net EXCEPT ![l] = @ \cup
                       Sent(l, "callee", {"Connecting", "Established"})]
          /\ onAir' = [onAir EXCEPT ![To[l]] = TRUE]
          /\ answered' = answered \cup {l}
          /\ UNCHANGED <<session, current>>
       \/ \E kinds \in {{}, {"Connecting"}, {"Connecting", "Established"}} :
            /\ CloseSession(l, "callee", kinds \cup {"LinkClose"})
            /\ answered' = answered \cup {l}

\* CONNECTING: prepare_media runs inside the transition, so a caller in
\* CallerConnecting has its media prepared.
Connecting(l) ==
    /\ Signalled(l, "Connecting")
    /\ phase[l]["caller"] = "CallerNegotiating"
    /\ CallerStep(l, "Connecting", "CallerConnecting", {})

\* ESTABLISHED, with or without the CONNECTING before it: the media, if they
\* are not prepared yet, and mark_call_active.
Established(l) ==
    /\ Signalled(l, "Established")
    /\ phase[l]["caller"] \in {"CallerNegotiating", "CallerConnecting"}
    /\ \/ /\ Advance(l, "caller", "Established", "Active", {})
          /\ onAir' = [onAir EXCEPT ![From[l]] = TRUE]
          /\ UNCHANGED <<session, current, answered>>
       \/ CloseLink(l, "caller", {})

\* BUSY or REJECTED.
Refused(l) ==
    /\ \E k \in {"Busy", "Rejected"} : Signalled(l, k)
    /\ phase[l]["caller"] \in CallerWaiting
    /\ CloseLink(l, "caller", {})

\* handleLinkDataPacket, LinkClose.
RemoteClose(l, r) ==
    /\ Arrived(l, r, "LinkClose")
    /\ session[l][r] \in {"Handshake", "Active", "Stale"}
    /\ CloseSilently(l, r)

\* A hang-up request consumed by pumpReticulumAudioCall: the user's, or the
\* one close_call leaves when the media fail.  A mode switch that cannot be
\* sent ends the call in the same way.  A call whose session was erased only
\* releases the runtime: the other end is told nothing.
Hangup(l, r) ==
    /\ current[Owner(l, r)] = l
    /\ \/ /\ Live(l, r)
          /\ CloseLink(l, r, IF phase[l][r] = "CalleeRinging"
                             THEN {"Rejected"} ELSE {})
       \/ /\ session[l][r] = "Erased"
          /\ NotifyLinkClosed(Owner(l, r), l)
          /\ UNCHANGED <<session, phase, net, answered>>

-----------------------------------------------------------------------------
(***************************************************************************)
(* Timers: cullLinkSessions, once per pass of the mesh task.               *)
(***************************************************************************)
\* phaseTimedOut, looked at only while the session is Active.
Timeout(l, r) ==
    /\ session[l][r] = "Active"
    /\ phase[l][r] \in Timed
    /\ CloseLink(l, r, {})

\* The link request or its proof was never answered.
HandshakeTimeout(l, r) ==
    /\ session[l][r] \in {"Pending", "Handshake"}
    /\ CloseSilently(l, r)

\* Nothing was heard for two keepalive intervals.
MarkStale(l, r) ==
    /\ session[l][r] = "Active"
    /\ session' = [session EXCEPT ![l][r] = "Stale"]
    /\ UNCHANGED <<phase, net, current, onAir, answered>>

\* Only a keepalive answer revives a session, and only the initiator asks.
Reactivate(l) ==
    /\ session[l]["caller"] = "Stale"
    /\ session' = [session EXCEPT ![l]["caller"] = "Active"]
    /\ UNCHANGED <<phase, net, current, onAir, answered>>

StaleTimeout(l, r) ==
    /\ session[l][r] = "Stale"
    /\ CloseSilently(l, r)

\* A session taken out of the table.  The call runtime is not told, and what
\* still arrives for the session is dropped.
Erase(l, r) ==
    /\ session' = [session EXCEPT ![l][r] = "Erased"]
    /\ phase' = [phase EXCEPT ![l][r] = "Closed"]
    /\ net' = [net EXCEPT ![l] = {p \in @ : p[1] # r}]
    /\ UNCHANGED <<current, onAir, answered>>

\* removeExpiredSessions: a session past its lifetime, or idle for too long.
\* It takes minutes, and every phase before Active has ended by then.
RemoveExpired(l, r) ==
    /\ session[l][r] \in {"Active", "Stale"}
    /\ phase[l][r] = "Active"
    /\ Erase(l, r)

\* LinkManager::ensureCapacity: a message, a page or a peer opens a link while
\* the table is full, and its first session goes, whatever it is for.  The
\* table's other sessions are not modelled, so this may happen at any moment.
Evict(l, r) ==
    /\ Live(l, r)
    /\ Erase(l, r)

Next ==
    \E l \in Link :
        \/ Dial(l) \/ AdmitRequest(l) \/ RejectBusy(l)
        \/ LinkProof(l) \/ LinkRtt(l)
        \/ RetryAvailable(l) \/ Available(l) \/ LinkIdentify(l) \/ Ringing(l)
        \/ Accept(l) \/ Connecting(l) \/ Established(l) \/ Refused(l)
        \/ Reactivate(l)
        \/ \E r \in Role :
             \/ RemoteClose(l, r) \/ Hangup(l, r)
             \/ Timeout(l, r) \/ HandshakeTimeout(l, r)
             \/ MarkStale(l, r) \/ StaleTimeout(l, r)
             \/ RemoveExpired(l, r) \/ Evict(l, r)

\* Every live session has a clock that cannot be put off: a phase limit, the
\* handshake limit, the lifetime of an established session, and, once the
\* other end has stopped sending, the last wait of a Stale one.
Expires(l, r) ==
    \/ Timeout(l, r)
    \/ HandshakeTimeout(l, r)
    \/ session[l][Peer(r)] # "Active" /\ StaleTimeout(l, r)
    \/ session[l][r] = "Active" /\ RemoveExpired(l, r)

Fairness == \A l \in Link : \A r \in Role : WF_vars(Expires(l, r))

Spec == Init /\ [][Next]_vars /\ Fairness

-----------------------------------------------------------------------------
(***************************************************************************)
(* Properties.                                                             *)
(***************************************************************************)
\* A session that is still running belongs to the call that owns its
\* device's runtime, so a device that is called while it dials, or is dialled
\* twice, never runs two calls (Dial and handleLinkRequestPacket look at the
\* realtime phase, notify_link_closed at the link id).
OneCallPerDevice ==
    \A l \in Link : \A r \in Role : Live(l, r) => current[Owner(l, r)] = l

\* Neither end opens microphone or speaker for a call its callee did not
\* answer, whatever order the signals arrive in; and what runs is a call the
\* device is in.
NoMediaBeforeAnswer ==
    \A d \in Device : onAir[d] => current[d] \in answered

\* A caller in Active is talking to a callee that is Active too, or whose
\* call is already over: never to a telephone that still rings.
NoOneSidedCall ==
    \A l \in Link :
        phase[l]["caller"] = "Active" => phase[l]["callee"] \in {"Active", "Closed"}

\* A callee rings, or talks, only after the caller has identified itself.
RingsForIdentified ==
    \A l \in Link :
        phase[l]["callee"] \in {"CalleeRinging", "Active"}
            => phase[l]["caller"] \notin {"Idle", "CallerAwaitingLink",
                                          "CallerAwaitingAvailability"}

\* No session stays for ever, whichever packets are lost: the phase limits,
\* the handshake limit and the link clocks leave no gap.
EveryCallEnds ==
    \A l \in Link : \A r \in Role : Live(l, r) ~> ~Live(l, r)

\* The runtime of every device keeps the promise of CallOwnership, whatever
\* the network does: one call at a time, media only for a call the device's
\* user dialled or answered (CallRuntime shows what it takes inside a device).
Consent(d) ==
    /\ current[d] # NoCall
    /\ From[current[d]] = d \/ current[d] \in answered

Ownership(d) == INSTANCE CallOwnership WITH
    owner <- current[d],
    consent <- Consent(d),
    talking <- onAir[d]

OwnershipStep(d) == Ownership(d)!Next \/ UNCHANGED Ownership(d)!ownership

OwnershipSpec ==
    /\ \A d \in Device : Ownership(d)!Init
    /\ [][\A d \in Device : OwnershipStep(d)]_vars

\* A device is in a call only while the call's link session exists: a link
\* that goes takes the call with it ("hangup/link close/media failure ->
\* Closing").
CallHasItsLink ==
    \A l \in Link : \A r \in Role :
        current[Owner(l, r)] = l => session[l][r] # "Erased"
=============================================================================
