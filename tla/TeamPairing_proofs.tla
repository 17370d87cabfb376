------------------------- MODULE TeamPairing_proofs -------------------------
(***************************************************************************)
(* Pairing keeps its types and its agreement for any number of devices,    *)
(* offers, sessions and nonces.                                            *)
(***************************************************************************)
EXTENDS TeamPairing, TLAPS

\* No nonce was drawn twice: the device that asks is the only one to hold it.
NoncesAreOwn ==
  /\ \A n \in Nodes : nonce[n] <= drawn
  /\ \A n \in Nodes : state[n] \in Scanning => nonce[n] # 0
  /\ \A m, n \in Nodes : m # n /\ nonce[m] = nonce[n] => nonce[m] = 0

\* A device that asks, or leads, has an offer; one that asks knows its leader.
OfferIsKnown ==
  \A n \in Nodes : /\ state[n] \in Asking \cup {"LeaderBeacon"} => offer[n] \in Offers
                   /\ state[n] \in Asking => leader[n] \in Nodes

\* Every join with the nonce of a device that asks is its own, of this
\* session, to the leader it heard last.
JoinsAreOwn ==
  \A p \in air : p.type = "join" =>
    /\ p.nonce <= drawn
    /\ \A n \in Nodes : state[n] \in Asking /\ p.nonce = nonce[n] =>
         p.from = n /\ p.to = leader[n] /\ p.run = run[n]

\* A key answers a join, and its sender has published the member.
KeysAnswerJoins ==
  \A p \in air : p.type = "key" =>
    /\ <<p.to, p.run, p.offer>> \in joined[p.from]
    /\ \E j \in air : /\ j.type = "join" /\ j.nonce = p.nonce
                      /\ j.from = p.to /\ j.to = p.from /\ j.run = p.run

\* The inductive invariant.
IInv ==
  /\ TypeOK
  /\ NoncesAreOwn
  /\ OfferIsKnown
  /\ JoinsAreOwn
  /\ KeysAnswerJoins
  /\ KeyAgreement

-----------------------------------------------------------------------------

\* A packet has the fields of its type.
LEMMA PacketTypes ==
  ASSUME TypeOK, NEW p \in air
  PROVE  /\ p.type = "beacon" => p \in Beacons
         /\ p.type = "join" => p \in Joins
         /\ p.type = "key" => p \in KeyPackets
BY DEF TypeOK, Beacons, Joins, KeyPackets

\* No session has begun: nothing was sent.
LEMMA InitIInv == Init => IInv
BY BoundsAssumption DEF Init, IInv, TypeOK, NoncesAreOwn, OfferIsKnown, JoinsAreOwn,
   KeysAnswerJoins, KeyAgreement, NoEvent, NoOffer, NoNode, Active, Scanning, Asking

\* No step of a device leaves the types.
LEMMA NextKeepsType ==
  ASSUME TypeOK, OfferIsKnown, Next
  PROVE  TypeOK'
<1> USE BoundsAssumption DEF TypeOK, Active, Scanning
<1>1. PICK n \in Nodes :
        \/ \E o \in Offers : StartLeader(n, o)
        \/ StartMember(n)
        \/ Stop(n)
        \/ SendBeacon(n)
        \/ \E p \in air : ReceiveBeacon(n, p) \/ ReceiveJoin(n, p) \/ ReceiveKey(n, p)
        \/ HoldElapses(n)
        \/ RetryJoin(n)
        \/ Deadline(n)
  BY DEF Next
<1>2. CASE \E o \in Offers : StartLeader(n, o)
  BY <1>2 DEF StartLeader
<1>3. CASE StartMember(n)
  BY <1>3 DEF StartMember, NoNode, NoOffer
<1>4. CASE Stop(n) \/ HoldElapses(n) \/ Deadline(n)
  BY <1>4 DEF Stop, HoldElapses, Deadline, session
<1>5. CASE SendBeacon(n)
  <2>1. [type |-> "beacon", from |-> n, offer |-> offer[n]] \in Beacons
    BY <1>5 DEF SendBeacon, OfferIsKnown, Beacons
  <2> QED
    BY <1>5, <2>1 DEF SendBeacon, session
<1>6. ASSUME NEW p \in air, ReceiveBeacon(n, p)
      PROVE  TypeOK'
  <2>1. p \in Beacons
    BY <1>6, PacketTypes DEF ReceiveBeacon
  <2>2. Join(n, p.from, p.offer, drawn + 1) \in Joins
    BY <2>1 DEF Join, Joins, Beacons
  <2> QED
    BY <1>6, <2>1, <2>2 DEF ReceiveBeacon, Beacons
<1>7. ASSUME NEW p \in air, ReceiveJoin(n, p)
      PROVE  TypeOK'
  <2>1. p \in Joins /\ offer[n] \in Offers
    BY <1>7, PacketTypes DEF ReceiveJoin, OfferIsKnown
  <2>2. [type |-> "key", from |-> n, to |-> p.from, offer |-> offer[n],
         nonce |-> p.nonce, run |-> p.run] \in KeyPackets
    BY <2>1 DEF KeyPackets, Joins
  <2>3. <<p.from, p.run, offer[n]>> \in Nodes \X Nat \X Offers
    BY <2>1 DEF Joins
  <2> QED
    BY <1>7, <2>2, <2>3 DEF ReceiveJoin, session
<1>8. ASSUME NEW p \in air, ReceiveKey(n, p)
      PROVE  TypeOK'
  <2>1. p \in KeyPackets /\ leader[n] \in Nodes
    BY <1>8, PacketTypes DEF ReceiveKey, OfferIsKnown
  <2> QED
    BY <1>8, <2>1 DEF ReceiveKey, KeyPackets
<1>9. CASE RetryJoin(n)
  <2>1. Join(n, leader[n], offer[n], nonce[n]) \in Joins
    BY <1>9 DEF RetryJoin, Join, Joins, OfferIsKnown, Asking
  <2> QED
    BY <1>9, <2>1 DEF RetryJoin
<1> QED
  BY <1>1, <1>2, <1>3, <1>4, <1>5, <1>6, <1>7, <1>8, <1>9

\* Old packets and a fresh nonce: what a device asked for before is not taken
\* for what it asks now.
LEMMA NextKeepsIInv ==
  ASSUME IInv, [Next]_vars
  PROVE  IInv'
<1> USE DEF IInv, Scanning, Asking
<1>1. CASE UNCHANGED vars
  BY <1>1 DEF vars, session, TypeOK, Active, NoncesAreOwn, OfferIsKnown, JoinsAreOwn,
     KeysAnswerJoins, KeyAgreement
<1>2. ASSUME Next PROVE TypeOK'
  BY <1>2, NextKeepsType
<1>3. ASSUME NEW n \in Nodes, NEW o \in Offers, StartLeader(n, o)
      PROVE  IInv'
  <2>1. TypeOK'
    BY <1>2, <1>3 DEF Next
  <2>2. JoinsAreOwn'
    BY <1>3 DEF StartLeader, TypeOK, JoinsAreOwn
  <2>3. KeysAnswerJoins' /\ KeyAgreement'
    BY <1>3 DEF StartLeader, KeysAnswerJoins, KeyAgreement
  <2> QED
    BY <1>3, <2>1, <2>2, <2>3 DEF StartLeader, TypeOK, NoncesAreOwn, OfferIsKnown
<1>4. ASSUME NEW n \in Nodes, StartMember(n)
      PROVE  IInv'
  <2>1. TypeOK'
    BY <1>2, <1>4 DEF Next
  <2>2. NoncesAreOwn'
    BY <1>4 DEF StartMember, TypeOK, NoncesAreOwn
  <2>3. JoinsAreOwn'
    BY <1>4, PacketTypes DEF StartMember, TypeOK, JoinsAreOwn, Joins
  <2> QED
    BY <1>4, <2>1, <2>2, <2>3 DEF StartMember, TypeOK, OfferIsKnown, KeysAnswerJoins,
       KeyAgreement
<1>5. ASSUME NEW n \in Nodes, Stop(n) \/ HoldElapses(n) \/ Deadline(n)
      PROVE  IInv'
  <2>1. TypeOK'
    BY <1>2, <1>5 DEF Next
  <2>2. /\ state' \in {[state EXCEPT ![n] = "Idle"], [state EXCEPT ![n] = "WaitingKey"]}
        /\ state'[n] = "WaitingKey" => state[n] = "JoinSent"
        /\ UNCHANGED <<offer, leader, nonce, run, drawn, air, joined, keyDist>>
    BY <1>5 DEF Stop, HoldElapses, Deadline, session, TypeOK
  <2>3. \A m \in Nodes : /\ state'[m] \in Asking => state[m] \in Asking
                         /\ state'[m] = "LeaderBeacon" => state[m] = "LeaderBeacon"
                         /\ state'[m] \in Scanning => state[m] \in Scanning
    BY <2>2 DEF TypeOK
  <2>4. JoinsAreOwn'
    BY <2>2, <2>3 DEF JoinsAreOwn
  <2>5. NoncesAreOwn' /\ OfferIsKnown'
    BY <2>2, <2>3 DEF NoncesAreOwn, OfferIsKnown
  <2>6. KeysAnswerJoins' /\ KeyAgreement'
    BY <2>2 DEF KeysAnswerJoins, KeyAgreement
  <2> QED
    BY <2>1, <2>4, <2>5, <2>6
<1>6. ASSUME NEW n \in Nodes, SendBeacon(n)
      PROVE  IInv'
  <2>1. TypeOK'
    BY <1>2, <1>6 DEF Next
  <2>2. \A p \in air' : p \in air \/ p.type = "beacon"
    BY <1>6 DEF SendBeacon
  <2>3. JoinsAreOwn'
    BY <1>6, <2>2 DEF SendBeacon, session, JoinsAreOwn
  <2>4. KeysAnswerJoins'
    BY <1>6, <2>2 DEF SendBeacon, KeysAnswerJoins
  <2> QED
    BY <1>6, <2>1, <2>3, <2>4 DEF SendBeacon, session, NoncesAreOwn, OfferIsKnown, KeyAgreement
<1>7. ASSUME NEW n \in Nodes, NEW p \in air, ReceiveBeacon(n, p)
      PROVE  IInv'
  <2> DEFINE join == Join(n, p.from, p.offer, drawn + 1)
  <2>1. TypeOK'
    BY <1>2, <1>7 DEF Next
  <2>2. p \in Beacons
    BY <1>7, PacketTypes DEF ReceiveBeacon
  <2>3. /\ join.type = "join" /\ join.nonce = drawn + 1
        /\ join.from = n /\ join.to = p.from /\ join.run = run[n]
    BY DEF Join
  <2>4. air' \in {air, air \cup {join}}
    BY <1>7 DEF ReceiveBeacon
  <2>5. NoncesAreOwn'
    BY <1>7 DEF ReceiveBeacon, TypeOK, NoncesAreOwn
  <2>6. OfferIsKnown'
    BY <1>7, <2>2 DEF ReceiveBeacon, TypeOK, OfferIsKnown, Beacons
  <2>7. JoinsAreOwn'
    <3> SUFFICES ASSUME NEW q \in air', q.type = "join",
                        NEW m \in Nodes
                 PROVE  /\ q.nonce <= drawn'
                        /\ state'[m] \in Asking /\ q.nonce = nonce'[m] =>
                             q.from = m /\ q.to = leader'[m] /\ q.run = run'[m]
      BY DEF JoinsAreOwn
    <3>1. CASE q \in air
      BY <1>7, <3>1, PacketTypes DEF ReceiveBeacon, TypeOK, JoinsAreOwn, Joins
    <3>2. CASE q = join
      BY <1>7, <2>3, <3>2 DEF ReceiveBeacon, TypeOK, NoncesAreOwn
    <3> QED
      BY <2>4, <3>1, <3>2
  <2>8. KeysAnswerJoins'
    BY <1>7, <2>3, <2>4 DEF ReceiveBeacon, KeysAnswerJoins
  <2>9. KeyAgreement'
    BY <1>7 DEF ReceiveBeacon, KeyAgreement
  <2> QED
    BY <2>1, <2>5, <2>6, <2>7, <2>8, <2>9
<1>8. ASSUME NEW n \in Nodes, NEW p \in air, ReceiveJoin(n, p)
      PROVE  IInv'
  <2> DEFINE key == [type |-> "key", from |-> n, to |-> p.from, offer |-> offer[n],
                     nonce |-> p.nonce, run |-> p.run]
  <2>1. TypeOK'
    BY <1>2, <1>8 DEF Next
  <2>2. p \in Joins /\ p.type = "join" /\ p.to = n
    BY <1>8, PacketTypes DEF ReceiveJoin
  <2>3. air' = air \cup {key}
    BY <1>8 DEF ReceiveJoin
  <2>4. \A m \in Nodes : joined[m] \subseteq joined'[m]
    BY <1>8 DEF ReceiveJoin, TypeOK
  <2>5. <<key.to, key.run, key.offer>> \in joined'[key.from]
    BY <1>8 DEF ReceiveJoin, TypeOK
  <2>6. KeysAnswerJoins'
    <3> SUFFICES ASSUME NEW q \in air', q.type = "key"
                 PROVE  /\ <<q.to, q.run, q.offer>> \in joined'[q.from]
                        /\ \E j \in air' : /\ j.type = "join" /\ j.nonce = q.nonce
                                           /\ j.from = q.to /\ j.to = q.from /\ j.run = q.run
      BY DEF KeysAnswerJoins
    <3>1. CASE q \in air
      <4>1. q.from \in Nodes
        BY <3>1, PacketTypes DEF KeyPackets
      <4> QED
        BY <2>3, <2>4, <3>1, <4>1 DEF KeysAnswerJoins
    <3>2. CASE q = key
      BY <2>2, <2>3, <2>5, <3>2
    <3> QED
      BY <2>3, <3>1, <3>2
  <2>7. JoinsAreOwn'
    BY <1>8, <2>3 DEF ReceiveJoin, session, JoinsAreOwn
  <2>8. KeyAgreement'
    BY <1>8, <2>4 DEF ReceiveJoin, KeyAgreement, TypeOK, NoEvent
  <2> QED
    BY <1>8, <2>1, <2>6, <2>7, <2>8 DEF ReceiveJoin, session, NoncesAreOwn, OfferIsKnown
<1>9. ASSUME NEW n \in Nodes, NEW p \in air, ReceiveKey(n, p)
      PROVE  IInv'
  <2>1. TypeOK'
    BY <1>2, <1>9 DEF Next
  <2>2. p \in KeyPackets /\ p.type = "key" /\ p.to = n
    BY <1>9, PacketTypes DEF ReceiveKey
  <2>3. p.from = leader[n] /\ p.run = run[n]
    <3>1. PICK j \in air : /\ j.type = "join" /\ j.nonce = p.nonce
                           /\ j.from = p.to /\ j.to = p.from /\ j.run = p.run
      BY <2>2 DEF KeysAnswerJoins
    <3>2. j.from = n /\ j.to = leader[n] /\ j.run = run[n]
      BY <1>9, <3>1 DEF ReceiveKey, JoinsAreOwn
    <3> QED
      BY <3>1, <3>2
  <2>4. <<n, run[n], p.offer>> \in joined[leader[n]]
    BY <2>2, <2>3 DEF KeysAnswerJoins
  <2>5. KeyAgreement'
    BY <1>9, <2>4 DEF ReceiveKey, KeyAgreement, TypeOK
  <2>6. JoinsAreOwn'
    BY <1>9 DEF ReceiveKey, TypeOK, JoinsAreOwn
  <2>7. NoncesAreOwn' /\ OfferIsKnown'
    BY <1>9, <2>2 DEF ReceiveKey, TypeOK, NoncesAreOwn, OfferIsKnown, KeyPackets
  <2>8. KeysAnswerJoins'
    BY <1>9 DEF ReceiveKey, KeysAnswerJoins
  <2> QED
    BY <2>1, <2>5, <2>6, <2>7, <2>8
<1>10. ASSUME NEW n \in Nodes, RetryJoin(n)
       PROVE  IInv'
  <2> DEFINE join == Join(n, leader[n], offer[n], nonce[n])
  <2>1. TypeOK'
    BY <1>2, <1>10 DEF Next
  <2>2. /\ join.type = "join" /\ join.nonce = nonce[n]
        /\ join.from = n /\ join.to = leader[n] /\ join.run = run[n]
    BY DEF Join
  <2>3. air' = air \cup {join}
    BY <1>10 DEF RetryJoin
  <2>4. JoinsAreOwn'
    BY <1>10, <2>2, <2>3 DEF RetryJoin, JoinsAreOwn, NoncesAreOwn
  <2>5. KeysAnswerJoins'
    BY <1>10, <2>2, <2>3 DEF RetryJoin, KeysAnswerJoins
  <2> QED
    BY <1>10, <2>1, <2>4, <2>5 DEF RetryJoin, NoncesAreOwn, OfferIsKnown, KeyAgreement
<1> QED
  BY <1>1, <1>3, <1>4, <1>5, <1>6, <1>7, <1>8, <1>9, <1>10 DEF Next

\* Sessions are never mixed up, whatever is lost, repeated or late.
THEOREM PairingInvariant == Spec => []IInv
<1> QED
  BY InitIInv, NextKeepsIInv, PTL DEF Spec

\* The devices, the packets and the events keep their types.
THEOREM TypeCorrect == Spec => []TypeOK
<1>1. IInv => TypeOK
  BY DEF IInv
<1> QED
  BY <1>1, PairingInvariant, PTL

\* The key a member takes was sent to it, in its present session, by the very
\* leader it credits, and that leader has published the member.
THEOREM KeyAgreementHolds == Spec => []KeyAgreement
<1>1. IInv => KeyAgreement
  BY DEF IInv
<1> QED
  BY <1>1, PairingInvariant, PTL

-----------------------------------------------------------------------------
(***************************************************************************)
(* Keys come more than once: the leader answers every repeated join, and   *)
(* the network repeats its answers.  A session takes one of them.          *)
(***************************************************************************)
\* A session that still scans or asks has not been given a key, and session
\* numbers are not used again.
RunsAreOwn ==
  /\ \A n \in Nodes : keyDist[n].run <= run[n] /\ run[n] <= started
  /\ \A n \in Nodes : state[n] \in Scanning => keyDist[n].run < run[n]

\* The key event of a session is its first, and its last.
KeyComesOnce ==
  \A n \in Nodes : \A p \in air : ReceiveKey(n, p) => keyDist[n].run < run[n]

LEMMA KeyDistRun ==
  ASSUME TypeOK, NEW n \in Nodes
  PROVE  keyDist[n].run \in Nat /\ run[n] \in Nat /\ started \in Nat
<1>1. keyDist[n] \in {NoEvent} \cup [run : Nat, from : Nodes, offer : Offers]
  BY DEF TypeOK
<1>2. NoEvent.run = 0
  BY DEF NoEvent
<1> QED
  BY <1>1, <1>2, SMT DEF TypeOK

LEMMA NextKeepsRuns ==
  ASSUME IInv, RunsAreOwn, [Next]_vars
  PROVE  RunsAreOwn'
<1> SUFFICES ASSUME NEW n \in Nodes
             PROVE  /\ keyDist'[n].run <= run'[n] /\ run'[n] <= started'
                    /\ state'[n] \in Scanning => keyDist'[n].run < run'[n]
  BY DEF RunsAreOwn
<1> USE DEF IInv, TypeOK, RunsAreOwn, Scanning
<1>1. keyDist[n].run \in Nat /\ run[n] \in Nat /\ started \in Nat
  BY KeyDistRun
<1>2. CASE UNCHANGED vars
  BY <1>2 DEF vars
<1>3. ASSUME NEW m \in Nodes, StartMember(m) \/ \E o \in Offers : StartLeader(m, o)
      PROVE  /\ keyDist'[n].run <= run'[n] /\ run'[n] <= started'
             /\ state'[n] \in Scanning => keyDist'[n].run < run'[n]
  BY <1>1, <1>3, SMT DEF StartMember, StartLeader
<1>4. ASSUME NEW m \in Nodes, Stop(m) \/ SendBeacon(m) \/ HoldElapses(m)
                              \/ RetryJoin(m) \/ Deadline(m)
      PROVE  /\ UNCHANGED <<keyDist, run, started>>
             /\ state'[n] \in Scanning => state[n] \in Scanning
  BY <1>4 DEF Stop, SendBeacon, HoldElapses, RetryJoin, Deadline
<1>5. ASSUME NEW m \in Nodes, NEW p \in air, ReceiveBeacon(m, p) \/ ReceiveJoin(m, p)
      PROVE  /\ UNCHANGED <<keyDist, run, started>>
             /\ state'[n] \in Scanning => state[n] \in Scanning
  BY <1>5 DEF ReceiveBeacon, ReceiveJoin
<1>6. ASSUME NEW m \in Nodes, NEW p \in air, ReceiveKey(m, p)
      PROVE  /\ keyDist'[n].run <= run'[n] /\ run'[n] <= started'
             /\ state'[n] \in Scanning => keyDist'[n].run < run'[n]
  <2>1. UNCHANGED <<run, started>>
    BY <1>6 DEF ReceiveKey
  <2>2. CASE n = m
    <3>1. keyDist'[n].run = run[n] /\ state'[n] = "Idle"
      BY <1>6, <2>2 DEF ReceiveKey
    <3> QED
      BY <1>1, <2>1, <3>1
  <2>3. CASE n # m
    BY <1>6, <2>1, <2>3 DEF ReceiveKey
  <2> QED
    BY <2>2, <2>3
<1> QED
  BY <1>2, <1>3, <1>4, <1>5, <1>6 DEF Next

\* However often a key is sent again, a member's session takes it once: the
\* handler leaves the states that take one, and only a new session enters them
\* (handleKey, startMember).
THEOREM KeyComesOnceHolds == Spec => [][KeyComesOnce]_vars
<1>1. Init => RunsAreOwn
  BY BoundsAssumption DEF Init, RunsAreOwn, NoEvent, Scanning
<1>2. IInv /\ RunsAreOwn /\ [Next]_vars => RunsAreOwn'
  BY NextKeepsRuns
<1>3. RunsAreOwn => KeyComesOnce
  BY DEF RunsAreOwn, KeyComesOnce, ReceiveKey, Asking, Scanning
<1> QED
  BY <1>1, <1>2, <1>3, PairingInvariant, PTL DEF Spec

=============================================================================
