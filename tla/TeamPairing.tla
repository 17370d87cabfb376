---------------------------- MODULE TeamPairing ----------------------------
(***************************************************************************)
(* TeamPairingCoordinator: a leader offers the key of a team over ESP-NOW, *)
(* a member answers a beacon with a join, the leader answers the join with *)
(* the key.  Every device may lead or join, one session at a time.         *)
(*                                                                         *)
(* Packets are lost, repeated and reordered: air holds every packet ever   *)
(* sent, and any of them may reach its destination at any time, or never.  *)
(* The nonces of the code are 32 random bits: here no two draws are alike. *)
(* Timers (hold, retry, deadline) may fire whenever they are armed.        *)
(* role_ is left out: it follows from the state.  Completed and Failed are *)
(* published and left at once for Idle, in the same handler.               *)
(***************************************************************************)
EXTENDS Naturals

CONSTANTS
  Nodes,          \* devices: MAC address and node id
  Offers,         \* what a leader gives away: team id, key id and PSK
  TeamOf,         \* the team id of an offer
  JoinRetryMax,   \* kJoinRetryMax
  MaxSessions,    \* bound: sessions started, by all devices
  MaxNonce        \* bound: nonces drawn

ASSUME OffersAssumption == "none" \notin Nodes \cup Offers
ASSUME BoundsAssumption == /\ JoinRetryMax \in Nat \ {0}
                           /\ MaxSessions \in Nat
                           /\ MaxNonce \in Nat

VARIABLES
  state,      \* state_
  offer,      \* the offer a leader gives, the one a member heard of last
  leader,     \* leader_mac_ and leader_id_ of a member
  nonce,      \* join_nonce_
  attempts,   \* join_attempts_
  run,        \* the session of a device, numbered from 1
  started,    \* sessions started so far
  drawn,      \* nonces drawn so far
  air,        \* packets sent
  joined,     \* joined[l]: what l published it gave, as <<member, run, offer>>
  keyDist     \* the last onTeamPairingKeyDist event, or NoEvent

session == <<offer, leader, nonce, attempts>>
vars == <<state, session, run, started, drawn, air, joined, keyDist>>

NoNode == "none"
NoOffer == "none"
NoEvent == [run |-> 0]

Scanning == {"MemberScanning", "JoinSent", "WaitingKey"}
Asking == {"JoinSent", "WaitingKey"}
Active == Scanning \cup {"LeaderBeacon"}

\* The run of a join is not on the wire: it tells which session of the member
\* a key answers.
Beacons == [type : {"beacon"}, from : Nodes, offer : Offers]
Joins == [type : {"join"}, from : Nodes, to : Nodes, team : {TeamOf[o] : o \in Offers},
          nonce : Nat, run : Nat]
KeyPackets == [type : {"key"}, from : Nodes, to : Nodes, offer : Offers, nonce : Nat,
               run : Nat]

Init ==
  /\ state = [n \in Nodes |-> "Idle"]
  /\ offer = [n \in Nodes |-> NoOffer]
  /\ leader = [n \in Nodes |-> NoNode]
  /\ nonce = [n \in Nodes |-> 0]
  /\ attempts = [n \in Nodes |-> 0]
  /\ run = [n \in Nodes |-> 0]
  /\ started = 0
  /\ drawn = 0
  /\ air = {}
  /\ joined = [n \in Nodes |-> {}]
  /\ keyDist = [n \in Nodes |-> NoEvent]

-----------------------------------------------------------------------------

\* startLeader, from any state: a session under way is given up silently.
StartLeader(n, o) ==
  /\ started < MaxSessions
  /\ started' = started + 1
  /\ run' = [run EXCEPT ![n] = started + 1]
  /\ state' = [state EXCEPT ![n] = "LeaderBeacon"]
  /\ offer' = [offer EXCEPT ![n] = o]
  /\ attempts' = [attempts EXCEPT ![n] = 0]
  /\ UNCHANGED <<leader, nonce, drawn, air, joined, keyDist>>

\* startMember, from any state.
StartMember(n) ==
  /\ started < MaxSessions /\ drawn < MaxNonce
  /\ started' = started + 1
  /\ run' = [run EXCEPT ![n] = started + 1]
  /\ state' = [state EXCEPT ![n] = "MemberScanning"]
  /\ offer' = [offer EXCEPT ![n] = NoOffer]
  /\ leader' = [leader EXCEPT ![n] = NoNode]
  /\ nonce' = [nonce EXCEPT ![n] = drawn + 1]
  /\ drawn' = drawn + 1
  /\ attempts' = [attempts EXCEPT ![n] = 0]
  /\ UNCHANGED <<air, joined, keyDist>>

\* stop, by the user.
Stop(n) ==
  /\ state[n] # "Idle"
  /\ state' = [state EXCEPT ![n] = "Idle"]
  /\ UNCHANGED <<session, run, started, drawn, air, joined, keyDist>>

\* update, a leader: the next beacon.
SendBeacon(n) ==
  /\ state[n] = "LeaderBeacon"
  /\ air' = air \cup {[type |-> "beacon", from |-> n, offer |-> offer[n]]}
  /\ UNCHANGED <<state, session, run, started, drawn, joined, keyDist>>

Join(n, l, o, x) ==
  [type |-> "join", from |-> n, to |-> l, team |-> TeamOf[o], nonce |-> x, run |-> run[n]]

\* Mutant: the nonce drawn when scanning began serves every leader.
ReceiveBeaconSameNonce(n, p) ==
  /\ p \in air /\ p.type = "beacon" /\ p.from # n
  /\ state[n] \in Scanning
  /\ state' = [state EXCEPT ![n] = "JoinSent"]
  /\ offer' = [offer EXCEPT ![n] = p.offer]
  /\ leader' = [leader EXCEPT ![n] = p.from]
  /\ attempts' = [attempts EXCEPT ![n] = 1]
  /\ air' = air \cup {Join(n, p.from, p.offer, nonce[n])}
  /\ UNCHANGED <<nonce, run, started, drawn, joined, keyDist>>

\* handleBeacon: any beacon, of any leader and team, begins the exchange anew;
\* the join may fail to be sent.
ReceiveBeacon(n, p) ==
  /\ p \in air /\ p.type = "beacon" /\ p.from # n
  /\ state[n] \in Scanning /\ drawn < MaxNonce
  /\ state' = [state EXCEPT ![n] = "JoinSent"]
  /\ offer' = [offer EXCEPT ![n] = p.offer]
  /\ leader' = [leader EXCEPT ![n] = p.from]
  /\ nonce' = [nonce EXCEPT ![n] = drawn + 1]
  /\ drawn' = drawn + 1
  /\ \/ /\ attempts' = [attempts EXCEPT ![n] = 1]
        /\ air' = air \cup {Join(n, p.from, p.offer, drawn + 1)}
     \/ /\ attempts' = [attempts EXCEPT ![n] = 0]
        /\ UNCHANGED air
  /\ UNCHANGED <<run, started, joined, keyDist>>

\* handleJoin: a join of the leader's team is answered with the key (unless it
\* cannot be sent), and the member is published.  The leader goes on leading.
ReceiveJoin(n, p) ==
  /\ p \in air /\ p.type = "join" /\ p.to = n
  /\ state[n] = "LeaderBeacon"
  /\ p.team = TeamOf[offer[n]]
  /\ air' = air \cup {[type |-> "key", from |-> n, to |-> p.from, offer |-> offer[n],
                       nonce |-> p.nonce, run |-> p.run]}
  /\ joined' = [joined EXCEPT ![n] = @ \cup {<<p.from, p.run, offer[n]>>}]
  /\ UNCHANGED <<state, session, run, started, drawn, keyDist>>

\* handleKey: the sender's address is not looked at, its team and nonce are.
\* The event credits the leader whose beacon was heard last.
ReceiveKey(n, p) ==
  /\ p \in air /\ p.type = "key" /\ p.to = n
  /\ state[n] \in Asking
  /\ TeamOf[p.offer] = TeamOf[offer[n]]
  /\ p.nonce = nonce[n]
  /\ keyDist' = [keyDist EXCEPT ![n] =
                   [run |-> run[n], from |-> leader[n], offer |-> p.offer]]
  /\ offer' = [offer EXCEPT ![n] = p.offer]
  /\ state' = [state EXCEPT ![n] = "Idle"]
  /\ UNCHANGED <<leader, nonce, attempts, run, started, drawn, air, joined>>

\* update, JoinSent: the hold time is over.
HoldElapses(n) ==
  /\ state[n] = "JoinSent"
  /\ state' = [state EXCEPT ![n] = "WaitingKey"]
  /\ UNCHANGED <<session, run, started, drawn, air, joined, keyDist>>

\* Mutant: one attempt too many.
RetryJoinOnceMore(n) ==
  /\ state[n] = "WaitingKey" /\ attempts[n] <= JoinRetryMax
  /\ attempts' = [attempts EXCEPT ![n] = @ + 1]
  /\ air' = air \cup {Join(n, leader[n], offer[n], nonce[n])}
  /\ UNCHANGED <<state, offer, leader, nonce, run, started, drawn, joined, keyDist>>

\* update, WaitingKey: the same join again.
RetryJoin(n) ==
  /\ state[n] = "WaitingKey" /\ attempts[n] < JoinRetryMax
  /\ attempts' = [attempts EXCEPT ![n] = @ + 1]
  /\ air' = air \cup {Join(n, leader[n], offer[n], nonce[n])}
  /\ UNCHANGED <<state, offer, leader, nonce, run, started, drawn, joined, keyDist>>

\* Mutant: update does not look at the deadline while the join is held.
DeadlineUnlessJoinSent(n) ==
  /\ state[n] \in Active \ {"JoinSent"}
  /\ state' = [state EXCEPT ![n] = "Idle"]
  /\ UNCHANGED <<session, run, started, drawn, air, joined, keyDist>>

\* update: active_until_ms_ is over, in whatever state.  Only startLeader and
\* startMember set it: no packet puts it off.
Deadline(n) ==
  /\ state[n] \in Active
  /\ state' = [state EXCEPT ![n] = "Idle"]
  /\ UNCHANGED <<session, run, started, drawn, air, joined, keyDist>>

Next ==
  \E n \in Nodes :
    \/ \E o \in Offers : StartLeader(n, o)
    \/ StartMember(n)
    \/ Stop(n)
    \/ SendBeacon(n)
    \/ \E p \in air : ReceiveBeacon(n, p) \/ ReceiveJoin(n, p) \/ ReceiveKey(n, p)
    \/ HoldElapses(n)
    \/ RetryJoin(n)
    \/ Deadline(n)

Spec == Init /\ [][Next]_vars

\* The clock advances and the application loop calls update.
FairSpec == Spec /\ \A n \in Nodes : WF_vars(Deadline(n))

-----------------------------------------------------------------------------
(* Properties *)

TypeOK ==
  /\ state \in [Nodes -> Active \cup {"Idle"}]
  /\ offer \in [Nodes -> Offers \cup {NoOffer}]
  /\ leader \in [Nodes -> Nodes \cup {NoNode}]
  /\ nonce \in [Nodes -> Nat]
  /\ attempts \in [Nodes -> 0..JoinRetryMax]
  /\ run \in [Nodes -> Nat]
  /\ started \in Nat
  /\ drawn \in Nat
  /\ air \subseteq Beacons \cup Joins \cup KeyPackets
  /\ joined \in [Nodes -> SUBSET (Nodes \X Nat \X Offers)]
  /\ keyDist \in [Nodes -> {NoEvent} \cup [run : Nat, from : Nodes, offer : Offers]]

\* Agreement: the key a member takes is one that the leader it credits sent it,
\* in answer to a join of the member's present session, and that leader has
\* published the member.  Old beacons, joins and keys, two leaders of one
\* team, retries and restarts of either side do not mix sessions up.
KeyAgreement ==
  \A n \in Nodes : keyDist[n] # NoEvent =>
    <<n, keyDist[n].run, keyDist[n].offer>> \in joined[keyDist[n].from]

\* Beacons do not keep a session alive: every session ends by itself.
SessionsEnd == \A n \in Nodes : state[n] # "Idle" ~> state[n] = "Idle"

=============================================================================
