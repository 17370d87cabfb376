--------------------------- MODULE LxstCall_proofs ---------------------------
(***************************************************************************)
(* For any set of devices and links: the safety properties of LxstCall     *)
(* hold in every reachable state.  None of them is inductive alone: what   *)
(* one end may do is fixed by the packets on their way to it and by how    *)
(* its session and its phase go together, which IInv adds.                 *)
(***************************************************************************)
EXTENDS LxstCall, TLAPS

\* What holds of one link: how the two ends and the packets between them fit.
\*  - a session that is missing or still opening is in the phase its call began
\*    in, and a link is requested once;
\*  - CONNECTING, ESTABLISHED and the phases they lead to are of answered calls;
\*  - ESTABLISHED comes from a callee in Active, or one that is over, and so
\*    does an Active caller (NoOneSidedCall);
\*  - LinkIdentify comes from a caller past its availability phase, and so does
\*    a telephone that rings (RingsForIdentified).
SessionFitsPhase(l) ==
    /\ \A r \in Role : session[l][r] = "None" => phase[l][r] = "Idle"
    /\ session[l]["caller"] = "Pending" => phase[l]["caller"] = "CallerAwaitingLink"
    /\ session[l]["callee"] = "Handshake" => phase[l]["callee"] = "CalleeAwaitingLink"
    /\ session[l]["caller"] = "None" => session[l]["callee"] = "None"
    /\ <<"callee", "Request">> \in net[l]
         => session[l]["caller"] # "None" /\ session[l]["callee"] = "None"

AnsweredBeforeMedia(l) ==
    /\ phase[l]["callee"] = "Active" => l \in answered
    /\ phase[l]["caller"] \in {"CallerConnecting", "Active"} => l \in answered
    /\ <<"caller", "Connecting">> \in net[l] => l \in answered
    /\ <<"caller", "Established">> \in net[l] => l \in answered

EstablishedByCallee(l) ==
    (phase[l]["caller"] = "Active" \/ <<"caller", "Established">> \in net[l])
    => phase[l]["callee"] \in {"Active", "Closed"}

Unidentified == {"Idle", "CallerAwaitingLink", "CallerAwaitingAvailability"}

IdentifiedByCaller(l) ==
    phase[l]["caller"] \in Unidentified
    => /\ phase[l]["callee"] \notin {"CalleeRinging", "Active"}
       /\ <<"callee", "Identify">> \notin net[l]

LinkInv(l) ==
    /\ SessionFitsPhase(l)
    /\ AnsweredBeforeMedia(l)
    /\ EstablishedByCallee(l)
    /\ IdentifiedByCaller(l)

\* The inductive invariant.
IInv ==
    /\ TypeOK
    /\ \A l \in Link : LinkInv(l)
    /\ OneCallPerDevice
    /\ NoMediaBeforeAnswer

-----------------------------------------------------------------------------
\* Nothing was dialled: there is no session, no packet and no call.
LEMMA InitIInv == Init => IInv
<1> SUFFICES ASSUME Init PROVE IInv
    OBVIOUS
<1>1. TypeOK
    BY LinksAssumption DEF Init, TypeOK, SessionState, PhaseOf, Role
<1>2. \A l \in Link : LinkInv(l)
    BY DEF Init, LinkInv, SessionFitsPhase, AnsweredBeforeMedia,
       EstablishedByCallee, IdentifiedByCaller, Role
<1>3. OneCallPerDevice /\ NoMediaBeforeAnswer
    BY DEF Init, OneCallPerDevice, NoMediaBeforeAnswer, Live
<1> QED BY <1>1, <1>2, <1>3 DEF IInv

\* A step on one link leaves what holds of every other.
LEMMA OtherLinks ==
    ASSUME NEW l \in Link, NEW k \in Link, k # l, LinkInv(k),
           session'[k] = session[k], phase'[k] = phase[k], net'[k] = net[k],
           answered \subseteq answered'
    PROVE  LinkInv(k)'
BY DEF LinkInv, SessionFitsPhase, AnsweredBeforeMedia, EstablishedByCallee,
   IdentifiedByCaller

\* What a step on one link owes the inductive invariant.
LEMMA OneLink ==
    ASSUME IInv, NEW l \in Link, TypeOK', LinkInv(l)',
           \A k \in Link \ {l} : /\ session'[k] = session[k]
                                 /\ phase'[k] = phase[k]
                                 /\ net'[k] = net[k],
           answered \subseteq answered',
           OneCallPerDevice', NoMediaBeforeAnswer'
    PROVE  IInv'
<1>1. \A k \in Link : LinkInv(k)'
    <2> SUFFICES ASSUME NEW k \in Link, k # l PROVE LinkInv(k)'
        OBVIOUS
    <2> QED BY OtherLinks DEF IInv
<1> QED BY <1>1 DEF IInv

\* The end of a call, on either side: the session closes, its packets are
\* dropped, the device's runtime is free.
LEMMA CloseSessionIInv ==
    ASSUME IInv, NEW l \in Link, NEW r \in Role, NEW kinds, Live(l, r),
           \A k \in kinds : /\ <<Peer(r), k>> \in Packet
                            /\ k \notin {"Request", "Identify"}
                            /\ k \in {"Connecting", "Established"} => l \in answered',
           CloseSession(l, r, kinds),
           answered' \in SUBSET Link, answered \subseteq answered'
    PROVE  IInv'
<1> USE LinksAssumption DEF Role
<1>1. /\ session'[l][r] = "Closed" /\ session'[l][Peer(r)] = session[l][Peer(r)]
      /\ phase'[l][r] = "Closed" /\ phase'[l][Peer(r)] = phase[l][Peer(r)]
      /\ net'[l] \subseteq {p \in net[l] : p[1] # r} \cup {<<Peer(r), k>> : k \in kinds}
      /\ \A k \in Link \ {l} : /\ session'[k] = session[k]
                               /\ phase'[k] = phase[k]
                               /\ net'[k] = net[k]
    BY DEF IInv, TypeOK, CloseSession, Sent, Peer
<1>2. TypeOK'
    <2>1. session' \in [Link -> [Role -> SessionState]]
        BY DEF IInv, TypeOK, CloseSession, SessionState
    <2>2. /\ phase' \in [Link -> [Role -> UNION {PhaseOf[q] : q \in Role}]]
          /\ \A k \in Link : \A q \in Role : phase'[k][q] \in PhaseOf[q]
        BY DEF IInv, TypeOK, CloseSession, PhaseOf
    <2>3. net' \in [Link -> SUBSET Packet]
        BY DEF IInv, TypeOK, CloseSession, Sent
    <2>4. /\ current' \in [Device -> Link \cup {NoCall}]
          /\ onAir' \in [Device -> BOOLEAN]
        BY DEF IInv, TypeOK, CloseSession, NotifyLinkClosed
    <2> QED BY <2>1, <2>2, <2>3, <2>4 DEF TypeOK
<1>3. LinkInv(l)'
    BY <1>1 DEF IInv, LinkInv, Live, Peer, SessionFitsPhase, AnsweredBeforeMedia,
       EstablishedByCallee, IdentifiedByCaller, Unidentified
<1>4. OneCallPerDevice'
    BY <1>1 DEF IInv, TypeOK, OneCallPerDevice, Live, CloseSession,
       NotifyLinkClosed, Owner, Peer
<1>5. NoMediaBeforeAnswer'
    BY DEF IInv, TypeOK, NoMediaBeforeAnswer, CloseSession, NotifyLinkClosed
<1> QED BY <1>1, <1>2, <1>3, <1>4, <1>5, OneLink

\* A transition that closes the link: what is sent with the close is known.
LEMMA CloseLinkIInv ==
    ASSUME IInv, NEW l \in Link, NEW r \in Role, NEW kinds, Live(l, r),
           kinds = {} \/ (r = "callee" /\ kinds \in {{"Busy"}, {"Rejected"}}),
           CloseLink(l, r, kinds)
    PROVE  IInv'
<1> DEFINE sent == IF session[l][r] = "Pending" THEN {} ELSE kinds \cup {"LinkClose"}
<1>1. \A k \in sent : /\ <<Peer(r), k>> \in Packet
                      /\ k \in {"Busy", "Rejected", "LinkClose"}
    BY DEF Role, Peer, Packet
<1>2. CloseSession(l, r, sent) /\ answered' = answered
    BY DEF CloseLink
<1>3. answered' \in SUBSET Link /\ answered \subseteq answered'
    BY <1>2 DEF IInv, TypeOK
<1> HIDE DEF sent
<1>4. \A k \in sent : /\ <<Peer(r), k>> \in Packet
                      /\ k \notin {"Request", "Identify"}
                      /\ k \in {"Connecting", "Established"} => l \in answered'
    BY <1>1
<1> QED BY <1>2, <1>3, <1>4, CloseSessionIInv

LEMMA CloseSilentlyIInv ==
    ASSUME IInv, NEW l \in Link, NEW r \in Role, Live(l, r), CloseSilently(l, r)
    PROVE  IInv'
<1>1. CloseSession(l, r, {}) /\ answered' = answered
    BY DEF CloseSilently
<1>2. answered' \in SUBSET Link /\ answered \subseteq answered'
    BY <1>1 DEF IInv, TypeOK
<1> QED BY <1>1, <1>2, CloseSessionIInv

\* A step that leaves the two runtimes alone and opens no session.
LEMMA QuietStep ==
    ASSUME IInv, NEW l \in Link,
           session' \in [Link -> [Role -> SessionState]],
           phase' \in [Link -> [Role -> UNION {PhaseOf[r] : r \in Role}]],
           \A k \in Link : \A r \in Role : phase'[k][r] \in PhaseOf[r],
           net' \in [Link -> SUBSET Packet],
           \A k \in Link \ {l} : /\ session'[k] = session[k]
                                 /\ phase'[k] = phase[k]
                                 /\ net'[k] = net[k],
           \A r \in Role : Live(l, r)' => Live(l, r),
           UNCHANGED <<current, onAir, answered>>,
           LinkInv(l)'
    PROVE  IInv'
<1>1. TypeOK'
    BY DEF IInv, TypeOK
<1>2. OneCallPerDevice'
    BY DEF IInv, OneCallPerDevice, Live, Owner
<1>3. NoMediaBeforeAnswer'
    BY DEF IInv, NoMediaBeforeAnswer
<1> QED BY <1>1, <1>2, <1>3, OneLink

\* What Advance(l, r, k, ph, kinds) makes of the phases and the packets.
Advanced(l, r, k, ph, kinds) ==
    /\ phase' \in [Link -> [Role -> UNION {PhaseOf[q] : q \in Role}]]
    /\ \A m \in Link : \A q \in Role : phase'[m][q] \in PhaseOf[q]
    /\ net' \in [Link -> SUBSET Packet]
    /\ phase'[l][r] = ph /\ phase'[l][Peer(r)] = phase[l][Peer(r)]
    /\ net'[l] \subseteq (net[l] \ {<<r, k>>}) \cup {<<Peer(r), j>> : j \in kinds}
    /\ \A m \in Link \ {l} : phase'[m] = phase[m] /\ net'[m] = net[m]

LEMMA AdvanceFacts ==
    ASSUME TypeOK, NEW l \in Link, NEW r \in Role, NEW k, NEW ph \in PhaseOf[r],
           NEW kinds, \A j \in kinds : <<Peer(r), j>> \in Packet,
           Advance(l, r, k, ph, kinds)
    PROVE  Advanced(l, r, k, ph, kinds)
<1> USE DEF Role
<1>1. Sent(l, r, kinds) \subseteq {<<Peer(r), j>> : j \in kinds}
    BY DEF Sent
<1>2. /\ phase' \in [Link -> [Role -> UNION {PhaseOf[q] : q \in Role}]]
      /\ \A m \in Link : \A q \in Role : phase'[m][q] \in PhaseOf[q]
    BY DEF TypeOK, Advance
<1>3. net' \in [Link -> SUBSET Packet]
    BY <1>1 DEF TypeOK, Advance
<1> QED BY <1>1, <1>2, <1>3 DEF TypeOK, Advance, Advanced, Peer

-----------------------------------------------------------------------------
(***************************************************************************)
(* One lemma per action.                                                   *)
(***************************************************************************)
LEMMA DialIInv ==
    ASSUME IInv, NEW l \in Link, Dial(l) PROVE IInv'
<1> USE LinksAssumption DEF Role
<1>1. TypeOK'
    <2>1. Sent(l, "caller", {"Request"}) \subseteq Packet
        BY DEF Sent, Packet, Peer
    <2>2. net' \in [Link -> SUBSET Packet]
        BY <2>1 DEF IInv, TypeOK, Dial
    <2>3. session' \in [Link -> [Role -> SessionState]]
        BY DEF IInv, TypeOK, Dial, SessionState
    <2>4. /\ phase' \in [Link -> [Role -> UNION {PhaseOf[r] : r \in Role}]]
          /\ \A k \in Link : \A r \in Role : phase'[k][r] \in PhaseOf[r]
        BY DEF IInv, TypeOK, Dial, PhaseOf
    <2> QED BY <2>2, <2>3, <2>4 DEF IInv, TypeOK, Dial
<1>2. LinkInv(l)'
    BY DEF IInv, TypeOK, Dial, Sent, Peer, LinkInv, SessionFitsPhase,
       AnsweredBeforeMedia, EstablishedByCallee, IdentifiedByCaller, Unidentified
<1>3. OneCallPerDevice'
    BY DEF IInv, TypeOK, Dial, OneCallPerDevice, Live, Owner
<1>4. NoMediaBeforeAnswer'
    BY DEF IInv, TypeOK, Dial, NoMediaBeforeAnswer
<1> QED BY <1>1, <1>2, <1>3, <1>4, OneLink DEF IInv, TypeOK, Dial

LEMMA AdmitRequestIInv ==
    ASSUME IInv, NEW l \in Link, AdmitRequest(l) PROVE IInv'
<1> USE LinksAssumption DEF Role
<1>1. Advanced(l, "callee", "Request", "CalleeAwaitingLink", {"Proof"})
    BY AdvanceFacts DEF IInv, AdmitRequest, PhaseOf, Peer, Packet
<1>2. /\ session' \in [Link -> [Role -> SessionState]]
      /\ session'[l]["callee"] = "Handshake"
      /\ session'[l]["caller"] = session[l]["caller"]
      /\ \A k \in Link \ {l} : session'[k] = session[k]
    BY DEF IInv, TypeOK, AdmitRequest, SessionState
<1>3. TypeOK'
    BY <1>1, <1>2 DEF IInv, TypeOK, AdmitRequest, Advanced
<1>4. LinkInv(l)'
    BY <1>1, <1>2 DEF IInv, AdmitRequest, Arrived, Advanced, Peer, LinkInv,
       SessionFitsPhase, AnsweredBeforeMedia, EstablishedByCallee,
       IdentifiedByCaller, Unidentified
<1>5. OneCallPerDevice'
    BY <1>1, <1>2 DEF IInv, TypeOK, AdmitRequest, OneCallPerDevice, Live, Owner
<1>6. NoMediaBeforeAnswer'
    BY DEF IInv, TypeOK, AdmitRequest, NoMediaBeforeAnswer
<1> QED BY <1>1, <1>2, <1>3, <1>4, <1>5, <1>6, OneLink
        DEF AdmitRequest, Advanced

LEMMA RejectBusyIInv ==
    ASSUME IInv, NEW l \in Link, RejectBusy(l) PROVE IInv'
<1> USE DEF Role
<1>1. net' \in [Link -> SUBSET Packet]
    BY DEF IInv, TypeOK, RejectBusy, Sent, Packet, Peer
<1>2. LinkInv(l)'
    BY DEF IInv, TypeOK, RejectBusy, Arrived, Sent, Peer, LinkInv, SessionFitsPhase,
       AnsweredBeforeMedia, EstablishedByCallee, IdentifiedByCaller, Unidentified
<1> QED BY <1>1, <1>2, QuietStep DEF IInv, TypeOK, RejectBusy, Live

LEMMA LinkProofIInv ==
    ASSUME IInv, NEW l \in Link, LinkProof(l) PROVE IInv'
<1> USE DEF Role
<1>1. Advanced(l, "caller", "Proof", "CallerAwaitingAvailability", {"Rtt"})
    BY AdvanceFacts DEF IInv, LinkProof, PhaseOf, CallerWaiting, Peer, Packet
<1>2. /\ session' \in [Link -> [Role -> SessionState]]
      /\ session'[l]["caller"] = "Active"
      /\ session'[l]["callee"] = session[l]["callee"]
      /\ \A k \in Link \ {l} : session'[k] = session[k]
    BY DEF IInv, TypeOK, LinkProof, SessionState
<1>3. LinkInv(l)'
    BY <1>1, <1>2 DEF IInv, LinkProof, Advanced, Peer, LinkInv, SessionFitsPhase,
       AnsweredBeforeMedia, EstablishedByCallee, IdentifiedByCaller, Unidentified
<1> QED BY <1>1, <1>2, <1>3, QuietStep DEF LinkProof, Advanced, Live

LEMMA LinkRttIInv ==
    ASSUME IInv, NEW l \in Link, LinkRtt(l) PROVE IInv'
<1> USE DEF Role
<1>1. CASE CloseLink(l, "callee", {})
    BY <1>1, CloseLinkIInv DEF LinkRtt, Live
<1>2. CASE /\ session' = [session EXCEPT ![l]["callee"] = "Active"]
           /\ Advance(l, "callee", "Rtt", "CalleeAwaitingIdentity", {"Available"})
           /\ UNCHANGED <<current, onAir, answered>>
    <2>1. Advanced(l, "callee", "Rtt", "CalleeAwaitingIdentity", {"Available"})
        BY <1>2, AdvanceFacts DEF IInv, PhaseOf, Peer, Packet
    <2>2. /\ session' \in [Link -> [Role -> SessionState]]
          /\ session'[l]["callee"] = "Active"
          /\ session'[l]["caller"] = session[l]["caller"]
          /\ \A k \in Link \ {l} : session'[k] = session[k]
        BY <1>2 DEF IInv, TypeOK, SessionState
    <2>3. LinkInv(l)'
        BY <1>2, <2>1, <2>2 DEF IInv, LinkRtt, Advanced, Peer, LinkInv,
           SessionFitsPhase, AnsweredBeforeMedia, EstablishedByCallee,
           IdentifiedByCaller, Unidentified
    <2> QED BY <1>2, <2>1, <2>2, <2>3, QuietStep DEF LinkRtt, Advanced, Live
<1> QED BY <1>1, <1>2 DEF LinkRtt

LEMMA RetryAvailableIInv ==
    ASSUME IInv, NEW l \in Link, RetryAvailable(l) PROVE IInv'
<1> USE DEF Role
<1>1. CASE CloseLink(l, "callee", {})
    BY <1>1, CloseLinkIInv DEF RetryAvailable, Live
<1>2. CASE /\ net' = [net EXCEPT ![l] = @ \cup Sent(l, "callee", {"Available"})]
           /\ UNCHANGED <<session, phase, current, onAir, answered>>
    <2>1. /\ net' \in [Link -> SUBSET Packet]
          /\ net'[l] \subseteq net[l] \cup {<<"caller", "Available">>}
          /\ \A k \in Link \ {l} : net'[k] = net[k]
        BY <1>2 DEF IInv, TypeOK, Sent, Packet, Peer
    <2>2. LinkInv(l)'
        BY <1>2, <2>1 DEF IInv, LinkInv, SessionFitsPhase, AnsweredBeforeMedia,
           EstablishedByCallee, IdentifiedByCaller, Unidentified
    <2> QED BY <1>2, <2>1, <2>2, QuietStep DEF IInv, TypeOK, Live
<1> QED BY <1>1, <1>2 DEF RetryAvailable

\* The caller moves to a waiting phase past its availability phase, or closes.
LEMMA CallerStepIInv ==
    ASSUME IInv, NEW l \in Link, NEW k,
           NEW ph \in CallerWaiting \ {"CallerAwaitingAvailability"},
           NEW kinds \in SUBSET {"Identify"},
           session[l]["caller"] = "Active",
           ph = "CallerConnecting" => l \in answered,
           CallerStep(l, k, ph, kinds)
    PROVE  IInv'
<1> USE DEF Role
<1>1. CASE CloseLink(l, "caller", {})
    BY <1>1, CloseLinkIInv DEF Live
<1>2. CASE /\ Advance(l, "caller", k, ph, kinds)
           /\ UNCHANGED <<session, current, onAir, answered>>
    <2>1. Advanced(l, "caller", k, ph, kinds)
        BY <1>2, AdvanceFacts DEF IInv, PhaseOf, Peer, Packet
    <2>2. LinkInv(l)'
        BY <1>2, <2>1 DEF IInv, Advanced, Peer, LinkInv, SessionFitsPhase,
           AnsweredBeforeMedia, EstablishedByCallee, IdentifiedByCaller,
           Unidentified, CallerWaiting
    <2> QED BY <1>2, <2>1, <2>2, QuietStep DEF IInv, TypeOK, Advanced, Live
<1> QED BY <1>1, <1>2 DEF CallerStep

LEMMA AvailableIInv ==
    ASSUME IInv, NEW l \in Link, Available(l) PROVE IInv'
<1> USE DEF CallerWaiting
<1>1. CASE CallerStep(l, "Available", "CallerAwaitingRinging", {"Identify"})
    BY <1>1, CallerStepIInv DEF Available, Signalled
<1>2. CASE /\ Advance(l, "caller", "Available", "CallerAwaitingRinging", {})
           /\ UNCHANGED <<session, current, onAir, answered>>
    BY <1>2, CallerStepIInv DEF Available, Signalled, CallerStep
<1> QED BY <1>1, <1>2 DEF Available

LEMMA RingingIInv ==
    ASSUME IInv, NEW l \in Link, Ringing(l) PROVE IInv'
BY CallerStepIInv DEF Ringing, Signalled, CallerWaiting

\* CONNECTING on its way says that the call was answered.
LEMMA ConnectingIInv ==
    ASSUME IInv, NEW l \in Link, Connecting(l) PROVE IInv'
<1>1. l \in answered
    BY DEF Connecting, Signalled, Arrived, IInv, LinkInv, AnsweredBeforeMedia
<1> QED BY <1>1, CallerStepIInv DEF Connecting, Signalled, CallerWaiting

\* The caller that identified itself is past its availability phase.
LEMMA LinkIdentifyIInv ==
    ASSUME IInv, NEW l \in Link, LinkIdentify(l) PROVE IInv'
<1> USE DEF Role
<1>1. CASE CloseLink(l, "callee", {"Busy"}) \/ CloseLink(l, "callee", {})
    BY <1>1, CloseLinkIInv DEF LinkIdentify, Live
<1>2. CASE /\ Advance(l, "callee", "Identify", "CalleeRinging", {"Ringing"})
           /\ UNCHANGED <<session, current, onAir, answered>>
    <2>1. Advanced(l, "callee", "Identify", "CalleeRinging", {"Ringing"})
        BY <1>2, AdvanceFacts DEF IInv, PhaseOf, Peer, Packet
    <2>2. LinkInv(l)'
        BY <1>2, <2>1 DEF IInv, LinkIdentify, Arrived, Advanced, Peer, LinkInv,
           SessionFitsPhase, AnsweredBeforeMedia, EstablishedByCallee,
           IdentifiedByCaller, Unidentified
    <2> QED BY <1>2, <2>1, <2>2, QuietStep DEF IInv, TypeOK, Advanced, Live
<1> QED BY <1>1, <1>2 DEF LinkIdentify

\* An answer that fails part way has sent CONNECTING or ESTABLISHED, and
\* closes: a callee that is over may be what they come from.
LEMMA AcceptIInv ==
    ASSUME IInv, NEW l \in Link, Accept(l) PROVE IInv'
<1> USE LinksAssumption DEF Role
<1>1. ASSUME NEW kinds \in {{}, {"Connecting"}, {"Connecting", "Established"}},
             CloseSession(l, "callee", kinds \cup {"LinkClose"}),
             answered' = answered \cup {l}
      PROVE  IInv'
    <2>1. \A k \in kinds \cup {"LinkClose"} :
              /\ <<Peer("callee"), k>> \in Packet
              /\ k \notin {"Request", "Identify"}
              /\ k \in {"Connecting", "Established"} => l \in answered'
        BY <1>1 DEF Peer, Packet
    <2>2. answered' \in SUBSET Link /\ answered \subseteq answered'
        BY <1>1 DEF IInv, TypeOK
    <2> QED BY <1>1, <2>1, <2>2, CloseSessionIInv DEF Accept, Live
<1>2. CASE /\ phase' = [phase EXCEPT ![l]["callee"] = "Active"]
           /\ net' = [net EXCEPT ![l] = @ \cup
                        Sent(l, "callee", {"Connecting", "Established"})]
           /\ onAir' = [onAir EXCEPT ![To[l]] = TRUE]
           /\ answered' = answered \cup {l}
           /\ UNCHANGED <<session, current>>
    <2>1. /\ phase' \in [Link -> [Role -> UNION {PhaseOf[r] : r \in Role}]]
          /\ \A k \in Link : \A r \in Role : phase'[k][r] \in PhaseOf[r]
          /\ phase'[l]["callee"] = "Active"
          /\ phase'[l]["caller"] = phase[l]["caller"]
          /\ \A k \in Link \ {l} : phase'[k] = phase[k]
        BY <1>2 DEF IInv, TypeOK, PhaseOf
    <2>2. /\ net' \in [Link -> SUBSET Packet]
          /\ net'[l] \subseteq net[l] \cup {<<"caller", "Connecting">>,
                                            <<"caller", "Established">>}
          /\ \A k \in Link \ {l} : net'[k] = net[k]
        BY <1>2 DEF IInv, TypeOK, Sent, Packet, Peer
    <2>3. TypeOK'
        BY <1>2, <2>1, <2>2 DEF IInv, TypeOK
    <2>4. LinkInv(l)'
        BY <1>2, <2>1, <2>2 DEF IInv, Accept, LinkInv, SessionFitsPhase,
           AnsweredBeforeMedia, EstablishedByCallee, IdentifiedByCaller, Unidentified
    <2>5. OneCallPerDevice'
        BY <1>2 DEF IInv, OneCallPerDevice, Live, Owner
    <2>6. NoMediaBeforeAnswer'
        BY <1>2 DEF IInv, TypeOK, Accept, NoMediaBeforeAnswer
    <2> QED BY <1>2, <2>1, <2>2, <2>3, <2>4, <2>5, <2>6, OneLink
<1> QED BY <1>1, <1>2 DEF Accept

LEMMA EstablishedIInv ==
    ASSUME IInv, NEW l \in Link, Established(l) PROVE IInv'
<1> USE LinksAssumption DEF Role
<1>1. CASE CloseLink(l, "caller", {})
    BY <1>1, CloseLinkIInv DEF Established, Signalled, Live
<1>2. CASE /\ Advance(l, "caller", "Established", "Active", {})
           /\ onAir' = [onAir EXCEPT ![From[l]] = TRUE]
           /\ UNCHANGED <<session, current, answered>>
    <2>1. Advanced(l, "caller", "Established", "Active", {})
        BY <1>2, AdvanceFacts DEF IInv, PhaseOf, Peer, Packet
    <2>2. l \in answered /\ current[From[l]] = l
        BY DEF IInv, Established, Signalled, Arrived, LinkInv, AnsweredBeforeMedia,
           OneCallPerDevice, Live, Owner
    <2>3. TypeOK'
        BY <1>2, <2>1 DEF IInv, TypeOK, Advanced
    <2>4. LinkInv(l)'
        BY <1>2, <2>1, <2>2 DEF IInv, Established, Signalled, Arrived, Advanced,
           Peer, LinkInv, SessionFitsPhase, AnsweredBeforeMedia,
           EstablishedByCallee, IdentifiedByCaller, Unidentified
    <2>5. OneCallPerDevice'
        BY <1>2 DEF IInv, OneCallPerDevice, Live, Owner
    <2>6. NoMediaBeforeAnswer'
        BY <1>2, <2>2 DEF IInv, TypeOK, NoMediaBeforeAnswer
    <2> QED BY <1>2, <2>1, <2>3, <2>4, <2>5, <2>6, OneLink DEF Advanced
<1> QED BY <1>1, <1>2 DEF Established

LEMMA RefusedIInv ==
    ASSUME IInv, NEW l \in Link, Refused(l) PROVE IInv'
BY CloseLinkIInv DEF Refused, Signalled, Live, Role

LEMMA RemoteCloseIInv ==
    ASSUME IInv, NEW l \in Link, NEW r \in Role, RemoteClose(l, r) PROVE IInv'
BY CloseSilentlyIInv DEF RemoteClose, Live

LEMMA HangupIInv ==
    ASSUME IInv, NEW l \in Link, NEW r \in Role, Hangup(l, r) PROVE IInv'
<1>1. CASE /\ Live(l, r)
           /\ CloseLink(l, r, IF phase[l][r] = "CalleeRinging"
                              THEN {"Rejected"} ELSE {})
    <2>1. phase[l][r] = "CalleeRinging" => r = "callee"
        BY DEF IInv, TypeOK, PhaseOf, CallerWaiting, Role
    <2> QED BY <1>1, <2>1, CloseLinkIInv
<1>2. CASE /\ session[l][r] = "Erased"
           /\ NotifyLinkClosed(Owner(l, r), l)
           /\ UNCHANGED <<session, phase, net, answered>>
    <2>1. TypeOK'
        BY <1>2 DEF IInv, TypeOK, NotifyLinkClosed
    <2>2. LinkInv(l)'
        BY <1>2 DEF IInv, LinkInv, SessionFitsPhase, AnsweredBeforeMedia,
           EstablishedByCallee, IdentifiedByCaller
    <2>3. OneCallPerDevice'
        BY <1>2, LinksAssumption DEF IInv, TypeOK, OneCallPerDevice, Live, Owner,
           Role, NotifyLinkClosed
    <2>4. NoMediaBeforeAnswer'
        BY <1>2 DEF IInv, TypeOK, NoMediaBeforeAnswer, NotifyLinkClosed
    <2> QED BY <1>2, <2>1, <2>2, <2>3, <2>4, OneLink
<1> QED BY <1>1, <1>2 DEF Hangup

LEMMA TimersIInv ==
    ASSUME IInv, NEW l \in Link, NEW r \in Role,
           \/ Timeout(l, r) \/ HandshakeTimeout(l, r) \/ StaleTimeout(l, r)
    PROVE  IInv'
BY CloseLinkIInv, CloseSilentlyIInv DEF Timeout, HandshakeTimeout, StaleTimeout, Live

\* Going Stale and coming back leave phases, packets and runtimes alone.
LEMMA StaleIInv ==
    ASSUME IInv, NEW l \in Link, NEW r \in Role,
           MarkStale(l, r) \/ (r = "caller" /\ Reactivate(l))
    PROVE  IInv'
<1> USE DEF Role
<1>1. /\ session[l][r] \in {"Active", "Stale"}
      /\ session' \in [Link -> [Role -> SessionState]]
      /\ session'[l][r] \in {"Active", "Stale"}
      /\ session'[l][Peer(r)] = session[l][Peer(r)]
      /\ \A k \in Link \ {l} : session'[k] = session[k]
      /\ UNCHANGED <<phase, net, current, onAir, answered>>
    BY DEF IInv, TypeOK, MarkStale, Reactivate, SessionState, Peer
<1>2. LinkInv(l)'
    BY <1>1 DEF IInv, LinkInv, Peer, SessionFitsPhase, AnsweredBeforeMedia,
       EstablishedByCallee, IdentifiedByCaller
<1> QED BY <1>1, <1>2, QuietStep DEF IInv, TypeOK, Live, Peer

\* A session that is taken out of the table, at its age limit or for another.
LEMMA EraseIInv ==
    ASSUME IInv, NEW l \in Link, NEW r \in Role,
           RemoveExpired(l, r) \/ Evict(l, r)
    PROVE  IInv'
<1> USE DEF Role
<1>0. Live(l, r) /\ Erase(l, r)
    BY DEF RemoveExpired, Evict, Live
<1>1. /\ session' \in [Link -> [Role -> SessionState]]
      /\ phase' \in [Link -> [Role -> UNION {PhaseOf[q] : q \in Role}]]
      /\ \A k \in Link : \A q \in Role : phase'[k][q] \in PhaseOf[q]
      /\ net' \in [Link -> SUBSET Packet]
      /\ \A k \in Link \ {l} : /\ session'[k] = session[k]
                               /\ phase'[k] = phase[k]
                               /\ net'[k] = net[k]
      /\ session'[l][r] = "Erased" /\ session'[l][Peer(r)] = session[l][Peer(r)]
      /\ phase'[l][r] = "Closed" /\ phase'[l][Peer(r)] = phase[l][Peer(r)]
      /\ net'[l] = {p \in net[l] : p[1] # r}
    BY <1>0 DEF IInv, TypeOK, Erase, SessionState, PhaseOf, Peer
<1>2. LinkInv(l)'
    BY <1>0, <1>1 DEF IInv, Erase, Live, Peer, LinkInv, SessionFitsPhase,
       AnsweredBeforeMedia, EstablishedByCallee, IdentifiedByCaller, Unidentified
<1> QED BY <1>0, <1>1, <1>2, QuietStep DEF Erase, Live, Peer

-----------------------------------------------------------------------------
LEMMA NextIInv == IInv /\ [Next]_vars => IInv'
<1> SUFFICES ASSUME IInv, [Next]_vars PROVE IInv'
    OBVIOUS
<1>1. CASE Next
    BY <1>1, DialIInv, AdmitRequestIInv, RejectBusyIInv, LinkProofIInv,
       LinkRttIInv, RetryAvailableIInv, AvailableIInv, LinkIdentifyIInv,
       RingingIInv, AcceptIInv, ConnectingIInv, EstablishedIInv, RefusedIInv,
       StaleIInv, RemoteCloseIInv, HangupIInv, TimersIInv, EraseIInv
       DEF Next, Role
<1>2. CASE UNCHANGED vars
    BY <1>2 DEF vars, IInv, TypeOK, LinkInv, SessionFitsPhase,
       AnsweredBeforeMedia, EstablishedByCallee, IdentifiedByCaller,
       OneCallPerDevice, NoMediaBeforeAnswer, Live
<1> QED BY <1>1, <1>2

LEMMA SpecIInv == Spec => []IInv
BY InitIInv, NextIInv, PTL DEF Spec

\* The state is what the variables' comments say, at both ends of every link.
THEOREM TypeCorrect == Spec => []TypeOK
<1>1. IInv => TypeOK
    BY DEF IInv
<1> QED BY <1>1, SpecIInv, PTL

\* No device ever runs two calls: a live session's call owns the runtime of
\* its device.
THEOREM RuntimeExclusion == Spec => []OneCallPerDevice
<1>1. IInv => OneCallPerDevice
    BY DEF IInv
<1> QED BY <1>1, SpecIInv, PTL

\* Microphone and speaker run only for a call that its callee answered.
THEOREM MediaAfterAnswer == Spec => []NoMediaBeforeAnswer
<1>1. IInv => NoMediaBeforeAnswer
    BY DEF IInv
<1> QED BY <1>1, SpecIInv, PTL

\* An Active caller never faces a telephone that still rings.
THEOREM TwoSidedCalls == Spec => []NoOneSidedCall
<1>1. IInv => NoOneSidedCall
    BY DEF IInv, LinkInv, EstablishedByCallee, NoOneSidedCall
<1> QED BY <1>1, SpecIInv, PTL

\* A telephone rings only for a caller that has identified itself.
THEOREM IdentityBeforeRinging == Spec => []RingsForIdentified
<1>1. IInv => RingsForIdentified
    BY DEF IInv, LinkInv, IdentifiedByCaller, Unidentified, RingsForIdentified
<1> QED BY <1>1, SpecIInv, PTL

-----------------------------------------------------------------------------
(***************************************************************************)
(* The refinement: to each device, a step of the network is a step of      *)
(* CallOwnership or none at all.                                           *)
(***************************************************************************)
AllOwn == \A d \in Device : OwnershipStep(d)

LEMMA InitOwnership == Init => \A d \in Device : Ownership(d)!Init
BY DEF Init, Ownership!Init, Consent

\* A device whose runtime stays with its call, silent or not as before, can at
\* most see that call answered.
LEMMA SameCall ==
    ASSUME NEW d \in Device, current'[d] = current[d], onAir'[d] = onAir[d],
           onAir'[d] \in BOOLEAN, answered \subseteq answered'
    PROVE  OwnershipStep(d)
<1>1. Consent(d) => Consent(d)'
    BY DEF Consent
<1>2. CASE Consent(d)' = Consent(d)
    BY <1>2 DEF OwnershipStep, Ownership!ownership
<1>3. CASE ~Consent(d) /\ Consent(d)'
    <2>1. current[d] # NoCall
        BY <1>3 DEF Consent
    <2> QED BY <1>3, <2>1 DEF OwnershipStep, Ownership!Next, Ownership!Answer
<1> QED BY <1>1, <1>2, <1>3 DEF Consent

LEMMA QuietOwnership ==
    ASSUME TypeOK, UNCHANGED <<current, onAir>>, answered \subseteq answered'
    PROVE  AllOwn
BY SameCall DEF AllOwn, TypeOK

\* A link that closes ends the call, if it owns the runtime.
LEMMA ClosedOwnership ==
    ASSUME TypeOK, NEW e \in Device, NEW l \in Link, NotifyLinkClosed(e, l),
           answered \subseteq answered'
    PROVE  AllOwn
<1> SUFFICES ASSUME NEW d \in Device PROVE OwnershipStep(d)
    BY DEF AllOwn
<1>1. CASE d = e /\ current[e] = l
    <2>1. current'[d] = NoCall /\ onAir'[d] = FALSE
        BY <1>1 DEF NotifyLinkClosed, TypeOK
    <2>2. Consent(d)' = FALSE
        BY <2>1 DEF Consent
    <2> QED BY <2>1, <2>2 DEF OwnershipStep, Ownership!Next, Ownership!End
<1>2. CASE ~(d = e /\ current[e] = l)
    <2>1. current'[d] = current[d] /\ onAir'[d] = onAir[d] /\ onAir[d] \in BOOLEAN
        BY <1>2 DEF NotifyLinkClosed, TypeOK
    <2> QED BY <2>1, SameCall
<1> QED BY <1>1, <1>2

LEMMA CloseLinkOwnership ==
    ASSUME TypeOK, NEW l \in Link, NEW r \in Role, NEW kinds,
           CloseLink(l, r, kinds) \/ CloseSilently(l, r)
    PROVE  AllOwn
<1>1. Owner(l, r) \in Device
    BY LinksAssumption DEF Owner
<1> QED BY <1>1, ClosedOwnership DEF CloseLink, CloseSilently, CloseSession

\* A call begins on a free device.
LEMMA BeginOwnership ==
    ASSUME TypeOK, NEW l \in Link, Dial(l) \/ AdmitRequest(l)
    PROVE  AllOwn
<1> DEFINE e == IF Dial(l) THEN From[l] ELSE To[l]
<1>1. /\ e \in Device /\ current[e] = NoCall
      /\ current' = [current EXCEPT ![e] = l]
      /\ UNCHANGED onAir /\ UNCHANGED answered
    BY LinksAssumption DEF Dial, AdmitRequest
<1> HIDE DEF e
<1> SUFFICES ASSUME NEW d \in Device PROVE OwnershipStep(d)
    BY DEF AllOwn
<1>2. CASE d = e
    <2>1. current[d] = NoCall /\ current'[d] = l /\ onAir'[d] = onAir[d]
        BY <1>1, <1>2 DEF TypeOK
    <2>2. Consent(d) = FALSE /\ Consent(d)' \in BOOLEAN
        BY <2>1 DEF Consent
    <2>3. Ownership(d)!Ring(l) \/ Ownership(d)!Dial(l)
        BY <2>1, <2>2 DEF Ownership!Ring, Ownership!Dial
    <2> QED BY <2>3 DEF OwnershipStep, Ownership!Next
<1>3. CASE d # e
    <2>1. current'[d] = current[d] /\ onAir'[d] = onAir[d] /\ onAir[d] \in BOOLEAN
        BY <1>1, <1>3 DEF TypeOK
    <2> QED BY <1>1, <2>1, SameCall
<1> QED BY <1>2, <1>3

\* The media of device e start, for a call its user dialled or answers now.
LEMMA TalkOwnership ==
    ASSUME TypeOK, NEW e \in Device, current[e] \in Link,
           onAir' = [onAir EXCEPT ![e] = TRUE], UNCHANGED current,
           answered \subseteq answered',
           From[current[e]] = e \/ current[e] \in answered'
    PROVE  AllOwn
<1> SUFFICES ASSUME NEW d \in Device PROVE OwnershipStep(d)
    BY DEF AllOwn
<1>1. CASE d = e
    <2>1. /\ current[d] # NoCall /\ current'[d] = current[d]
          /\ onAir'[d] = TRUE
        BY <1>1, LinksAssumption DEF TypeOK
    <2>2. Consent(d)' = TRUE
        BY <1>1, <2>1 DEF Consent
    <2>3. CASE Consent(d)
        BY <2>1, <2>2, <2>3
        DEF OwnershipStep, Ownership!Next, Ownership!Talk, Consent
    <2>4. CASE ~Consent(d)
        BY <2>1, <2>2, <2>4 DEF OwnershipStep, Ownership!Next, Ownership!Answer
    <2> QED BY <2>3, <2>4
<1>2. CASE d # e
    <2>1. current'[d] = current[d] /\ onAir'[d] = onAir[d] /\ onAir[d] \in BOOLEAN
        BY <1>2 DEF TypeOK
    <2> QED BY <2>1, SameCall
<1> QED BY <1>1, <1>2

LEMMA AcceptOwnership ==
    ASSUME TypeOK, NEW l \in Link, Accept(l) PROVE AllOwn
<1>1. To[l] \in Device /\ current[To[l]] = l
    BY LinksAssumption DEF Accept
<1>2. ASSUME NEW kinds, CloseSession(l, "callee", kinds), answered' = answered \cup {l}
      PROVE  AllOwn
    BY <1>1, <1>2, ClosedOwnership DEF CloseSession, Owner
<1>3. CASE /\ onAir' = [onAir EXCEPT ![To[l]] = TRUE]
           /\ answered' = answered \cup {l}
           /\ UNCHANGED current
    BY <1>1, <1>3, TalkOwnership
<1> QED BY <1>2, <1>3 DEF Accept

LEMMA EstablishedOwnership ==
    ASSUME IInv, NEW l \in Link, Established(l) PROVE AllOwn
<1>1. From[l] \in Device /\ current[From[l]] = l
    BY LinksAssumption
    DEF IInv, Established, Signalled, OneCallPerDevice, Live, Owner, Role
<1>2. TypeOK
    BY DEF IInv
<1>3. CASE CloseLink(l, "caller", {})
    BY <1>2, <1>3, CloseLinkOwnership DEF Role
<1>4. CASE onAir' = [onAir EXCEPT ![From[l]] = TRUE] /\ UNCHANGED <<current, answered>>
    BY <1>1, <1>2, <1>4, TalkOwnership
<1> QED BY <1>3, <1>4 DEF Established

\* Every other step leaves the runtimes alone, or closes a link.
LEMMA NextOwnership == IInv /\ [Next]_vars => AllOwn
<1> SUFFICES ASSUME IInv, [Next]_vars PROVE AllOwn
    OBVIOUS
<1>1. TypeOK
    BY DEF IInv
<1>2. CASE UNCHANGED <<current, onAir, answered>>
    BY <1>1, <1>2, QuietOwnership
<1>3. ASSUME NEW l \in Link, Dial(l) \/ AdmitRequest(l) \/ Accept(l) \/ Established(l)
      PROVE  AllOwn
    BY <1>1, <1>3, BeginOwnership, AcceptOwnership, EstablishedOwnership
<1>4. ASSUME NEW l \in Link,
             \/ LinkRtt(l) \/ RetryAvailable(l) \/ Available(l) \/ LinkIdentify(l)
             \/ Ringing(l) \/ Connecting(l) \/ Refused(l)
             \/ RejectBusy(l) \/ LinkProof(l) \/ Reactivate(l)
      PROVE  AllOwn
    BY <1>1, <1>2, <1>4, CloseLinkOwnership
    DEF LinkRtt, RetryAvailable, Available, LinkIdentify, Ringing, Connecting,
        Refused, RejectBusy, LinkProof, Reactivate, CallerStep, Role
<1>5. ASSUME NEW l \in Link, NEW r \in Role,
             \/ RemoteClose(l, r) \/ Hangup(l, r) \/ Timeout(l, r)
             \/ HandshakeTimeout(l, r) \/ StaleTimeout(l, r)
             \/ MarkStale(l, r) \/ RemoveExpired(l, r) \/ Evict(l, r)
      PROVE  AllOwn
    <2>1. CASE Hangup(l, r)
        <3>1. Owner(l, r) \in Device
            BY LinksAssumption DEF Owner
        <3> QED BY <1>1, <2>1, <3>1, CloseLinkOwnership, ClosedOwnership DEF Hangup
    <2>2. CASE ~Hangup(l, r)
        BY <1>1, <1>2, <1>5, <2>2, CloseLinkOwnership
        DEF RemoteClose, Timeout, HandshakeTimeout, StaleTimeout, MarkStale,
            RemoveExpired, Evict, Erase
    <2> QED BY <2>1, <2>2
<1> QED BY <1>2, <1>3, <1>4, <1>5 DEF Next, vars

\* At every device of the network, telephony implements CallOwnership
\* (beginIncomingCallRuntime, begin_outgoing, notify_link_closed).
THEOREM CallOwnershipKept == Spec => OwnershipSpec
<1>1. Init => \A d \in Device : Ownership(d)!Init
    BY InitOwnership
<1>2. IInv /\ [Next]_vars => [\A d \in Device : OwnershipStep(d)]_vars
    BY NextOwnership DEF AllOwn
<1> QED BY <1>1, <1>2, SpecIInv, PTL DEF Spec, OwnershipSpec

-----------------------------------------------------------------------------
(***************************************************************************)
(* What EveryCallEnds rests on: phases only advance, and a live session    *)
(* always has a clock that ends it.  That the clocks are looked at is      *)
(* fairness, and left to the model checker.                                *)
(***************************************************************************)
\* From which phase a call goes on to which.  There is no way back, whatever
\* signal arrives late or twice.
PhaseGraph ==
    {<<"Idle", "CallerAwaitingLink">>,
     <<"CallerAwaitingLink", "CallerAwaitingAvailability">>,
     <<"CallerAwaitingAvailability", "CallerAwaitingRinging">>,
     <<"CallerAwaitingRinging", "CallerNegotiating">>,
     <<"CallerNegotiating", "CallerConnecting">>,
     <<"CallerNegotiating", "Active">>,
     <<"CallerConnecting", "Active">>,
     <<"Idle", "CalleeAwaitingLink">>,
     <<"CalleeAwaitingLink", "CalleeAwaitingIdentity">>,
     <<"CalleeAwaitingIdentity", "CalleeRinging">>,
     <<"CalleeRinging", "Active">>}

MayFollow(p, q) ==
    \/ p = q
    \/ <<p, q>> \in PhaseGraph
    \/ p \notin {"Idle", "Closed"} /\ q = "Closed"

\* No end of a call ever returns to an earlier phase, nor leaves Closed.
PhasesAdvance ==
    \A l \in Link : \A r \in Role : MayFollow(phase[l][r], phase'[l][r])

\* Some clock applies to every live session: the limit of an unanswered link
\* request, that of its phase, the lifetime of an established session in a
\* running call, or the last wait of a stale one.
EveryCallHasAClock ==
    \A l \in Link : \A r \in Role : Live(l, r) =>
        \/ session[l][r] \in {"Pending", "Handshake"}
        \/ session[l][r] = "Active" /\ phase[l][r] \in Timed
        \/ session[l][r] = "Active" /\ phase[l][r] = "Active"
        \/ session[l][r] = "Stale"

\* Inductive: the phase a session of each state may be in.
Fits(s, p) ==
    /\ s \in {"Pending", "Handshake"} => p \in {"CallerAwaitingLink", "CalleeAwaitingLink"}
    /\ s \in {"Active", "Stale"} => p \in Timed \cup {"Active"}

EndsFit == \A l \in Link : \A r \in Role : Fits(session[l][r], phase[l][r])

\* A step moves one end of one link.
LEMMA OneEnd ==
    ASSUME TypeOK, EndsFit, NEW l \in Link, NEW r \in Role, NEW s, NEW p,
           \/ session' = [session EXCEPT ![l][r] = s]
           \/ session' = session /\ s = session[l][r],
           \/ phase' = [phase EXCEPT ![l][r] = p]
           \/ phase' = phase /\ p = phase[l][r],
           MayFollow(phase[l][r], p), Fits(s, p)
    PROVE  EndsFit' /\ PhasesAdvance
<1>1. session'[l][r] = s /\ phase'[l][r] = p
    BY DEF TypeOK
<1>2. ASSUME NEW k \in Link, NEW q \in Role, k # l \/ q # r
      PROVE  session'[k][q] = session[k][q] /\ phase'[k][q] = phase[k][q]
    BY <1>2 DEF TypeOK
<1>3. ASSUME NEW k \in Link, NEW q \in Role
      PROVE  Fits(session'[k][q], phase'[k][q]) /\ MayFollow(phase[k][q], phase'[k][q])
    <2>1. CASE k = l /\ q = r
        BY <1>1, <2>1
    <2>2. CASE k # l \/ q # r
        <3>1. MayFollow(phase[k][q], phase[k][q])
            BY DEF MayFollow
        <3> QED BY <1>2, <2>2, <3>1 DEF EndsFit
    <2> QED BY <2>1, <2>2
<1> QED BY <1>3 DEF EndsFit, PhasesAdvance

\* A call that is closed had begun.
LEMMA ClosedEnd ==
    ASSUME TypeOK, EndsFit, NEW l \in Link, NEW r \in Role, NEW kinds, Live(l, r),
           CloseSession(l, r, kinds)
    PROVE  EndsFit' /\ PhasesAdvance
<1>1. MayFollow(phase[l][r], "Closed") /\ Fits("Closed", "Closed")
    BY DEF EndsFit, Fits, Live, MayFollow, Timed, CallerWaiting
<1> QED BY <1>1, OneEnd DEF CloseSession

LEMMA CloseLinkEnd ==
    ASSUME TypeOK, EndsFit, NEW l \in Link, NEW r \in Role, NEW kinds, Live(l, r),
           CloseLink(l, r, kinds) \/ CloseSilently(l, r)
    PROVE  EndsFit' /\ PhasesAdvance
BY ClosedEnd DEF CloseLink, CloseSilently

\* What arrives at an end moves it along the graph.
LEMMA AdvancedEnd ==
    ASSUME TypeOK, EndsFit, NEW l \in Link, NEW r \in Role, NEW k, NEW p, NEW kinds, NEW s,
           \/ session' = [session EXCEPT ![l][r] = s]
           \/ session' = session /\ s = session[l][r],
           Advance(l, r, k, p, kinds),
           MayFollow(phase[l][r], p), Fits(s, p)
    PROVE  EndsFit' /\ PhasesAdvance
BY OneEnd DEF Advance

LEMMA SignalEnd ==
    ASSUME TypeOK, EndsFit, NEW l \in Link,
           Available(l) \/ Ringing(l) \/ Connecting(l) \/ Established(l) \/ Refused(l)
    PROVE  EndsFit' /\ PhasesAdvance
<1>1. session[l]["caller"] = "Active" /\ Live(l, "caller") /\ "caller" \in Role
    BY DEF Available, Ringing, Connecting, Established, Refused, Signalled, Live, Role
<1>2. CASE CloseLink(l, "caller", {})
    BY <1>1, <1>2, CloseLinkEnd
<1>3. CASE \E k, p, kinds :
             /\ Advance(l, "caller", k, p, kinds) /\ UNCHANGED session
             /\ MayFollow(phase[l]["caller"], p) /\ p \in CallerWaiting \cup {"Active"}
    <2>1. PICK k, p, kinds :
             /\ Advance(l, "caller", k, p, kinds) /\ UNCHANGED session
             /\ MayFollow(phase[l]["caller"], p) /\ p \in CallerWaiting \cup {"Active"}
        BY <1>3
    <2>2. Fits("Active", p)
        BY <2>1 DEF Fits, Timed
    <2> QED BY <1>1, <2>1, <2>2, AdvancedEnd
<1>4. CASE Available(l)
    BY <1>2, <1>3, <1>4 DEF Available, CallerStep, MayFollow, PhaseGraph, CallerWaiting
<1>5. CASE Ringing(l)
    BY <1>2, <1>3, <1>5 DEF Ringing, CallerStep, MayFollow, PhaseGraph, CallerWaiting
<1>6. CASE Connecting(l)
    BY <1>2, <1>3, <1>6 DEF Connecting, CallerStep, MayFollow, PhaseGraph, CallerWaiting
<1>7. CASE Established(l)
    BY <1>2, <1>3, <1>7 DEF Established, MayFollow, PhaseGraph
<1>8. CASE Refused(l)
    BY <1>2, <1>8 DEF Refused
<1> QED BY <1>4, <1>5, <1>6, <1>7, <1>8

\* The callee's end: the link comes up, the caller identifies itself, the user
\* answers.
LEMMA CalleeEnd ==
    ASSUME TypeOK, EndsFit, NEW l \in Link,
           LinkRtt(l) \/ RetryAvailable(l) \/ LinkIdentify(l) \/ Accept(l)
    PROVE  EndsFit' /\ PhasesAdvance
<1>1. /\ session[l]["callee"] \in {"Handshake", "Active", "Stale"}
      /\ Live(l, "callee") /\ "callee" \in Role
    BY DEF LinkRtt, RetryAvailable, LinkIdentify, Accept, Live, Role
<1>2. ASSUME NEW kinds, CloseLink(l, "callee", kinds) PROVE EndsFit' /\ PhasesAdvance
    BY <1>1, <1>2, CloseLinkEnd
<1>3. CASE LinkRtt(l)
    <2>1. CASE /\ session[l]["callee"] = "Handshake"
               /\ session' = [session EXCEPT ![l]["callee"] = "Active"]
               /\ Advance(l, "callee", "Rtt", "CalleeAwaitingIdentity", {"Available"})
        <3>1. phase[l]["callee"] \in {"CallerAwaitingLink", "CalleeAwaitingLink"}
            BY <1>1, <2>1 DEF EndsFit, Fits
        <3>2. phase[l]["callee"] = "CalleeAwaitingLink"
            BY <1>1, <3>1 DEF TypeOK, PhaseOf
        <3>3. /\ MayFollow(phase[l]["callee"], "CalleeAwaitingIdentity")
              /\ Fits("Active", "CalleeAwaitingIdentity")
            BY <3>2 DEF MayFollow, PhaseGraph, Fits, Timed
        <3> QED BY <1>1, <2>1, <3>3, AdvancedEnd
    <2> QED BY <1>2, <1>3, <2>1 DEF LinkRtt
<1>4. CASE RetryAvailable(l)
    <2>1. CASE UNCHANGED <<session, phase>>
        <3>1. MayFollow(phase[l]["callee"], phase[l]["callee"])
            BY DEF MayFollow
        <3>2. Fits(session[l]["callee"], phase[l]["callee"])
            BY <1>1 DEF EndsFit
        <3> QED BY <1>1, <2>1, <3>1, <3>2, OneEnd
    <2> QED BY <1>2, <1>4, <2>1 DEF RetryAvailable
<1>5. CASE LinkIdentify(l)
    <2>1. CASE /\ phase[l]["callee"] = "CalleeAwaitingIdentity"
               /\ Advance(l, "callee", "Identify", "CalleeRinging", {"Ringing"})
               /\ UNCHANGED session
        <3>1. /\ MayFollow(phase[l]["callee"], "CalleeRinging")
              /\ \A s \in {"Active", "Stale"} : Fits(s, "CalleeRinging")
            BY <2>1 DEF MayFollow, PhaseGraph, Fits, Timed
        <3>2. session[l]["callee"] \in {"Active", "Stale"}
            BY <1>5 DEF LinkIdentify
        <3> QED BY <1>1, <2>1, <3>1, <3>2, AdvancedEnd
    <2> QED BY <1>2, <1>5, <2>1 DEF LinkIdentify
<1>6. CASE Accept(l)
    <2>1. CASE phase' = [phase EXCEPT ![l]["callee"] = "Active"] /\ UNCHANGED session
        <3>1. MayFollow(phase[l]["callee"], "Active") /\ Fits("Active", "Active")
            BY <1>6 DEF Accept, MayFollow, PhaseGraph, Fits
        <3>2. session[l]["callee"] = "Active"
            BY <1>6 DEF Accept
        <3> QED BY <1>1, <2>1, <3>1, <3>2, OneEnd
    <2>2. ASSUME NEW kinds, CloseSession(l, "callee", kinds)
          PROVE  EndsFit' /\ PhasesAdvance
        BY <1>1, <2>2, ClosedEnd
    <2> QED BY <1>6, <2>1, <2>2 DEF Accept
<1> QED BY <1>3, <1>4, <1>5, <1>6

\* A call begins, and its link comes up at the caller.
LEMMA BeginningEnd ==
    ASSUME IInv, EndsFit, NEW l \in Link,
           Dial(l) \/ AdmitRequest(l) \/ RejectBusy(l) \/ LinkProof(l)
    PROVE  EndsFit' /\ PhasesAdvance
<1>1. TypeOK /\ {"caller", "callee"} = Role
    BY DEF IInv, Role
<1>2. CASE Dial(l)
    <2>1. phase[l]["caller"] = "Idle"
        BY <1>1, <1>2 DEF IInv, LinkInv, SessionFitsPhase, Dial
    <2>2. MayFollow("Idle", "CallerAwaitingLink") /\ Fits("Pending", "CallerAwaitingLink")
        BY DEF MayFollow, PhaseGraph, Fits
    <2> QED BY <1>1, <1>2, <2>1, <2>2, OneEnd DEF Dial
<1>3. CASE AdmitRequest(l)
    <2>1. phase[l]["callee"] = "Idle"
        BY <1>1, <1>3 DEF IInv, LinkInv, SessionFitsPhase, AdmitRequest, Arrived
    <2>2. MayFollow("Idle", "CalleeAwaitingLink") /\ Fits("Handshake", "CalleeAwaitingLink")
        BY DEF MayFollow, PhaseGraph, Fits
    <2> QED BY <1>1, <1>3, <2>1, <2>2, AdvancedEnd DEF AdmitRequest
<1>4. CASE RejectBusy(l)
    BY <1>4 DEF RejectBusy, EndsFit, PhasesAdvance, MayFollow
<1>5. CASE LinkProof(l)
    <2>1. phase[l]["caller"] = "CallerAwaitingLink"
        BY <1>1, <1>5 DEF IInv, LinkInv, SessionFitsPhase, LinkProof
    <2>2. /\ MayFollow("CallerAwaitingLink", "CallerAwaitingAvailability")
          /\ Fits("Active", "CallerAwaitingAvailability")
        BY DEF MayFollow, PhaseGraph, Fits, Timed, CallerWaiting
    <2> QED BY <1>1, <1>5, <2>1, <2>2, AdvancedEnd DEF LinkProof
<1> QED BY <1>2, <1>3, <1>4, <1>5

\* The clocks, the user's hang-up and the other end's close.
LEMMA EndingEnd ==
    ASSUME TypeOK, EndsFit, NEW l \in Link, NEW r \in Role,
           \/ RemoteClose(l, r) \/ Hangup(l, r) \/ Timeout(l, r)
           \/ HandshakeTimeout(l, r) \/ StaleTimeout(l, r)
           \/ MarkStale(l, r) \/ RemoveExpired(l, r) \/ Evict(l, r)
           \/ r = "caller" /\ Reactivate(l)
    PROVE  EndsFit' /\ PhasesAdvance
<1>1. Fits(session[l][r], phase[l][r]) /\ MayFollow(phase[l][r], phase[l][r])
    BY DEF EndsFit, MayFollow
<1>2. CASE RemoteClose(l, r) \/ Timeout(l, r) \/ HandshakeTimeout(l, r) \/ StaleTimeout(l, r)
    BY <1>2, CloseLinkEnd DEF RemoteClose, Timeout, HandshakeTimeout, StaleTimeout, Live
<1>3. CASE Hangup(l, r)
    <2>1. CASE UNCHANGED <<session, phase>>
        BY <1>1, <2>1, OneEnd
    <2> QED BY <1>3, <2>1, CloseLinkEnd DEF Hangup
<1>4. CASE MarkStale(l, r)
    <2>1. Fits("Stale", phase[l][r])
        BY <1>1, <1>4 DEF MarkStale, Fits
    <2> QED BY <1>1, <1>4, <2>1, OneEnd DEF MarkStale
<1>5. CASE r = "caller" /\ Reactivate(l)
    <2>1. Fits("Active", phase[l][r])
        BY <1>1, <1>5 DEF Reactivate, Fits
    <2> QED BY <1>1, <1>5, <2>1, OneEnd DEF Reactivate
<1>6. CASE RemoveExpired(l, r) \/ Evict(l, r)
    <2>1. Live(l, r) /\ Erase(l, r)
        BY <1>6 DEF RemoveExpired, Evict, Live
    <2>2. MayFollow(phase[l][r], "Closed") /\ Fits("Erased", "Closed")
        BY <1>1, <2>1 DEF Live, MayFollow, Fits, Timed, CallerWaiting
    <2> QED BY <2>1, <2>2, OneEnd DEF Erase
<1> QED BY <1>2, <1>3, <1>4, <1>5, <1>6

LEMMA NextEnds == IInv /\ EndsFit /\ [Next]_vars => EndsFit' /\ PhasesAdvance
<1> SUFFICES ASSUME IInv, EndsFit, [Next]_vars PROVE EndsFit' /\ PhasesAdvance
    OBVIOUS
<1>1. TypeOK /\ "caller" \in Role
    BY DEF IInv, Role
<1>2. CASE UNCHANGED vars
    BY <1>2 DEF vars, EndsFit, PhasesAdvance, MayFollow
<1>3. CASE Next
    BY <1>1, <1>3, BeginningEnd, SignalEnd, CalleeEnd, EndingEnd DEF Next
<1> QED BY <1>2, <1>3

LEMMA SpecEnds == Spec => []EndsFit
<1>1. Init => EndsFit
    BY DEF Init, EndsFit, Fits
<1> QED BY <1>1, NextEnds, SpecIInv, PTL DEF Spec

\* Signals that arrive late, twice or in another order never take an end of a
\* call back to a phase it has left (handleCallerSignal, handleCalleeSignal).
THEOREM CallsOnlyAdvance == Spec => [][PhasesAdvance]_vars
<1>1. IInv /\ EndsFit /\ [Next]_vars => [PhasesAdvance]_vars
    BY NextEnds
<1> QED BY <1>1, SpecIInv, SpecEnds, PTL DEF Spec

\* phaseTimeoutMs, the handshake limit and the link clocks leave no gap: no
\* session stays behind that nothing would ever end.
THEOREM NoCallWithoutClock == Spec => []EveryCallHasAClock
<1>1. EndsFit => EveryCallHasAClock
    BY DEF EndsFit, Fits, EveryCallHasAClock, Live
<1> QED BY <1>1, SpecEnds, PTL

-----------------------------------------------------------------------------
\* A device that is in a call without a link session got there in one of two
\* ways: the session of its call was past its age limit, or had to make room
\* in a full table.  A close, whoever asked for it, whatever was lost, always
\* tells the runtime.
LinkLostByErasure ==
    CallHasItsLink /\ ~CallHasItsLink' =>
        \E l \in Link : \E r \in Role :
            current[Owner(l, r)] = l /\ (RemoveExpired(l, r) \/ Evict(l, r))

\* removeExpiredLinkSessions and LinkManager::ensureCapacity are the only causes
\* of the disagreement with "hangup/link close/media failure -> Closing"
\* (reticulum_client_architecture.md:142).
THEOREM OnlyErasureLosesLink == Spec => [][LinkLostByErasure]_vars
<1>1. IInv /\ [Next]_vars => [LinkLostByErasure]_vars
    <2> SUFFICES ASSUME IInv, Next, NEW l \in Link, NEW r \in Role, CallHasItsLink,
                        current'[Owner(l, r)] = l, session'[l][r] = "Erased"
                 PROVE  current[Owner(l, r)] = l /\ (RemoveExpired(l, r) \/ Evict(l, r))
        BY DEF LinkLostByErasure, CallHasItsLink
    <2>1. Owner(l, r) \in Device
        BY LinksAssumption DEF Owner
    <2>2. ASSUME NEW k \in Link, Dial(k) PROVE FALSE
        <3>1. /\ session'[k]["caller"] = "Pending" /\ session'[k]["callee"] = session[k]["callee"]
              /\ \A j \in Link \ {k} : session'[j] = session[j]
              /\ current'[From[k]] = k
              /\ \A d \in Device \ {From[k]} : current'[d] = current[d]
            <4>1. /\ From[k] \in Device /\ session \in [Link -> [Role -> SessionState]]
                  /\ current \in [Device -> Link \cup {NoCall}]
                  /\ session' = [session EXCEPT ![k]["caller"] = "Pending"]
                  /\ current' = [current EXCEPT ![From[k]] = k]
                BY <2>2, LinksAssumption DEF IInv, TypeOK, Dial
            <4>2. /\ current'[From[k]] = k
                  /\ \A d \in Device \ {From[k]} : current'[d] = current[d]
                BY <4>1
            <4> QED BY <4>1, <4>2 DEF Role
        <3>2. current[Owner(l, r)] = l => session[l][r] # "Erased"
            BY DEF CallHasItsLink
        <3> QED BY <2>1, <3>1, <3>2, LinksAssumption DEF Owner, Role
    <2>3. ASSUME NEW k \in Link, AdmitRequest(k) PROVE FALSE
        <3>1. /\ session'[k]["callee"] = "Handshake" /\ session'[k]["caller"] = session[k]["caller"]
              /\ \A j \in Link \ {k} : session'[j] = session[j]
              /\ current'[To[k]] = k
              /\ \A d \in Device \ {To[k]} : current'[d] = current[d]
            <4>1. /\ To[k] \in Device /\ session \in [Link -> [Role -> SessionState]]
                  /\ current \in [Device -> Link \cup {NoCall}]
                  /\ session' = [session EXCEPT ![k]["callee"] = "Handshake"]
                  /\ current' = [current EXCEPT ![To[k]] = k]
                BY <2>3, LinksAssumption DEF IInv, TypeOK, AdmitRequest
            <4>2. /\ current'[To[k]] = k
                  /\ \A d \in Device \ {To[k]} : current'[d] = current[d]
                BY <4>1
            <4> QED BY <4>1, <4>2 DEF Role
        <3>2. current[Owner(l, r)] = l => session[l][r] # "Erased"
            BY DEF CallHasItsLink
        <3> QED BY <2>1, <3>1, <3>2, LinksAssumption DEF Owner, Role
    <2>4. ASSUME NEW k \in Link, NEW q \in Role, NEW kinds, CloseSession(k, q, kinds)
          PROVE  FALSE
        <3>1. /\ session'[l][r] \in {session[l][r], "Closed"}
              /\ current'[Owner(l, r)] \in {current[Owner(l, r)], NoCall}
            BY <2>1, <2>4, LinksAssumption
            DEF IInv, TypeOK, CloseSession, NotifyLinkClosed, Owner, Role
        <3> QED BY <3>1, LinksAssumption DEF CallHasItsLink
    <2>5. ASSUME UNCHANGED current,
                 session'[l][r] \in {session[l][r], "Active", "Stale"}
          PROVE  FALSE
        BY <2>5 DEF CallHasItsLink
    <2>6. ASSUME NEW k \in Link, NEW q \in Role,
                 RemoveExpired(k, q) \/ Evict(k, q)
          PROVE  current[Owner(l, r)] = l /\ (RemoveExpired(l, r) \/ Evict(l, r))
        <3>1. /\ UNCHANGED current
              /\ \A j \in Link : \A t \in Role :
                   j # k \/ t # q => session'[j][t] = session[j][t]
            <4>1. Erase(k, q)
                BY <2>6 DEF RemoveExpired, Evict
            <4> QED BY <4>1 DEF IInv, TypeOK, Erase
        <3>2. session[l][r] # "Erased"
            BY <3>1 DEF CallHasItsLink
        <3> QED BY <2>6, <3>1, <3>2
    <2>7. ASSUME NEW k \in Link, NEW q \in Role, Hangup(k, q) PROVE FALSE
        <3>1. CASE NotifyLinkClosed(Owner(k, q), k) /\ UNCHANGED session
            <4>1. current'[Owner(l, r)] \in {current[Owner(l, r)], NoCall}
                BY <2>1, <3>1 DEF IInv, TypeOK, NotifyLinkClosed
            <4> QED BY <3>1, <4>1, LinksAssumption DEF CallHasItsLink
        <3> QED BY <2>4, <2>7, <3>1 DEF Hangup, CloseLink
    <2>8. ASSUME NEW k \in Link, NEW q \in Role,
                 \/ RemoteClose(k, q) \/ Timeout(k, q) \/ HandshakeTimeout(k, q)
                 \/ StaleTimeout(k, q) \/ MarkStale(k, q)
          PROVE  FALSE
        <3>1. CASE MarkStale(k, q)
            <4>1. session'[l][r] \in {session[l][r], "Stale"} /\ UNCHANGED current
                BY <3>1 DEF IInv, TypeOK, MarkStale
            <4> QED BY <2>5, <4>1
        <3> QED BY <2>4, <2>8, <3>1
            DEF RemoteClose, Timeout, HandshakeTimeout, StaleTimeout, CloseLink, CloseSilently
    <2>9. ASSUME NEW k \in Link,
                 \/ RejectBusy(k) \/ LinkProof(k) \/ LinkRtt(k) \/ RetryAvailable(k)
                 \/ Available(k) \/ LinkIdentify(k) \/ Ringing(k) \/ Accept(k)
                 \/ Connecting(k) \/ Established(k) \/ Refused(k) \/ Reactivate(k)
          PROVE  FALSE
        <3>1. CASE LinkProof(k) \/ LinkRtt(k) \/ Reactivate(k)
            <4>1. CASE UNCHANGED current
                <5>1. ASSUME NEW q \in Role, session' = [session EXCEPT ![k][q] = "Active"]
                      PROVE  FALSE
                    <6>1. session'[l][r] \in {session[l][r], "Active"}
                        BY <5>1 DEF IInv, TypeOK
                    <6> QED BY <2>5, <4>1, <6>1
                <5> QED BY <2>4, <3>1, <4>1, <5>1
                    DEF LinkProof, LinkRtt, Reactivate, CloseLink, Role
            <4> QED BY <2>4, <3>1, <4>1 DEF LinkProof, LinkRtt, Reactivate, CloseLink, Role
        <3>2. CASE UNCHANGED <<session, current>>
            BY <2>5, <3>2
        <3> QED BY <2>4, <2>9, <3>1, <3>2
            DEF RejectBusy, RetryAvailable, Available, LinkIdentify, Ringing, Accept,
                Connecting, Established, Refused, CallerStep, CloseLink, Role
    <2> QED BY <2>2, <2>3, <2>6, <2>7, <2>8, <2>9 DEF Next
<1> QED BY <1>1, SpecIInv, PTL DEF Spec

\* What such a device keeps of the call it keeps until its user hangs up: no
\* packet, no timer and no other call takes the runtime from it.
LostCallIsHeld ==
    \A l \in Link : \A r \in Role :
        /\ current[Owner(l, r)] = l
        /\ session[l][r] = "Erased"
        /\ current'[Owner(l, r)] # l
        => Hangup(l, r)

\* A call whose session was erased holds the device: every other call finds it
\* busy (handleLinkRequestPacket, startReticulumAudioCall) until
\* pumpReticulumAudioCall consumes a hang-up.
THEOREM LostCallHeldUntilHangup == Spec => [][LostCallIsHeld]_vars
<1>1. IInv /\ [Next]_vars => [LostCallIsHeld]_vars
    <2> SUFFICES ASSUME IInv, Next, NEW l \in Link, NEW r \in Role,
                        current[Owner(l, r)] = l, session[l][r] = "Erased",
                        current'[Owner(l, r)] # l
                 PROVE  Hangup(l, r)
        BY DEF LostCallIsHeld
    <2>1. /\ Owner(l, r) \in Device /\ l # NoCall /\ ~Live(l, r)
          /\ current \in [Device -> Link \cup {NoCall}]
        BY LinksAssumption DEF Owner, IInv, TypeOK, Live
    <2>2. ASSUME NEW k \in Link, NEW q \in Role, NotifyLinkClosed(Owner(k, q), k)
          PROVE  k = l /\ q = r
        <3>1. Owner(k, q) = Owner(l, r) /\ k = l
            BY <2>1, <2>2, LinksAssumption DEF NotifyLinkClosed
        <3> QED BY <3>1, LinksAssumption DEF Owner, Role
    <2>3. ASSUME NEW k \in Link, NEW q \in Role, NEW kinds,
                 CloseSession(k, q, kinds), Live(k, q)
          PROVE  FALSE
        BY <2>1, <2>2, <2>3 DEF CloseSession
    <2>4. ASSUME NEW k \in Link, Dial(k) \/ AdmitRequest(k)
          PROVE  FALSE
        <3>1. \E d \in Device : current[d] = NoCall /\ current' = [current EXCEPT ![d] = k]
            BY <2>4, LinksAssumption DEF Dial, AdmitRequest
        <3> QED BY <2>1, <3>1
    <2>5. ASSUME NEW k \in Link, NEW q \in Role, Hangup(k, q)
          PROVE  Hangup(l, r)
        <3>1. CASE NotifyLinkClosed(Owner(k, q), k)
            BY <2>2, <2>5, <3>1
        <3> QED BY <2>3, <2>5, <3>1 DEF Hangup, CloseLink
    <2>6. ASSUME NEW k \in Link, NEW q \in Role,
                 \/ RemoteClose(k, q) \/ Timeout(k, q) \/ HandshakeTimeout(k, q)
                 \/ StaleTimeout(k, q) \/ MarkStale(k, q)
                 \/ RemoveExpired(k, q) \/ Evict(k, q)
          PROVE  FALSE
        <3>1. CASE UNCHANGED current
            BY <3>1
        <3> QED BY <2>3, <2>6, <3>1
            DEF RemoteClose, Timeout, HandshakeTimeout, StaleTimeout, MarkStale,
                RemoveExpired, Evict, Erase, CloseLink, CloseSilently, Live
    <2>7. ASSUME NEW k \in Link,
                 \/ RejectBusy(k) \/ LinkProof(k) \/ LinkRtt(k) \/ RetryAvailable(k)
                 \/ Available(k) \/ LinkIdentify(k) \/ Ringing(k) \/ Accept(k)
                 \/ Connecting(k) \/ Established(k) \/ Refused(k) \/ Reactivate(k)
          PROVE  FALSE
        <3>1. CASE UNCHANGED current
            BY <3>1
        <3> QED BY <2>3, <2>7, <3>1
            DEF RejectBusy, LinkProof, LinkRtt, RetryAvailable, Available, LinkIdentify,
                Ringing, Accept, Connecting, Established, Refused, Reactivate,
                Signalled, CallerStep, CloseLink, Live, Role
    <2> QED BY <2>4, <2>5, <2>6, <2>7 DEF Next
<1> QED BY <1>1, SpecIInv, PTL DEF Spec

=============================================================================
