--------------------------- MODULE Promises_proofs ---------------------------
(***************************************************************************)
(* What follows from the abstract specifications alone. A component that   *)
(* is shown to implement one of them has these properties as well, so they *)
(* say what TextStore, OutboxStatus and CallOwnership are worth to the     *)
(* code that relies on them.                                               *)
(***************************************************************************)
EXTENDS TLAPS

CONSTANTS
    Texts, Hashed,      \* of TextStore
    Messages,           \* of OutboxStatus
    Link, NoCall        \* of CallOwnership

VARIABLES
    rows, hashes, acked, lost,
    status,
    owner, consent, talking

Store == INSTANCE TextStore
Outbox == INSTANCE OutboxStatus
Call == INSTANCE CallOwnership

-----------------------------------------------------------------------------
(* The store of received texts. *)

\* A text the network was told about keeps its row and its hash through any
\* offers, clears and rebuilds, unless it is one the store gave up
\* (IChatStore::appendIncomingDurably, sd_store.cpp).
THEOREM StoreKeepsAcked == Store!Spec => []Store!AckedIsDurable
<1>1. Store!Init => Store!AckedIsDurable
  BY DEF Store!Init, Store!AckedIsDurable
<1>2. Store!AckedIsDurable /\ [Store!Next]_Store!textStore
        => Store!AckedIsDurable'
  <2> SUFFICES ASSUME Store!AckedIsDurable, [Store!Next]_Store!textStore,
                      NEW m \in acked' \ lost'
               PROVE  Store!Durable(m)'
    BY DEF Store!AckedIsDurable
  <2> USE DEF Store!AckedIsDurable, Store!Durable
  <2>1. ASSUME NEW o \in Texts, Store!Offer(o) PROVE Store!Durable(m)'
    <3>1. CASE m = o
      BY <2>1, <3>1 DEF Store!Offer
    <3>2. CASE m # o
      <4>1. m \in acked /\ m \notin lost
        BY <2>1, <3>2 DEF Store!Offer
      <4> QED BY <2>1, <4>1 DEF Store!Offer
    <3> QED BY <3>1, <3>2
  <2>2. ASSUME NEW M \in SUBSET Texts, Store!Clear(M) PROVE Store!Durable(m)'
    <3>1. m \in acked /\ m \notin M /\ m \notin lost
      BY <2>2 DEF Store!Clear
    <3> QED BY <2>2, <3>1 DEF Store!Clear
  <2>3. CASE Store!Rebuild
    BY <2>3 DEF Store!Rebuild
  <2>4. CASE UNCHANGED Store!textStore
    BY <2>4 DEF Store!textStore
  <2> QED BY <2>1, <2>2, <2>3, <2>4 DEF Store!Next
<1> QED BY <1>1, <1>2, PTL DEF Store!Spec

-----------------------------------------------------------------------------
(* The status of outgoing messages. *)

OutboxTypeOK == status \in [Messages -> Outbox!Statuses \cup {Outbox!NoStatus}]

LEMMA OutboxType == Outbox!Spec => []OutboxTypeOK
<1>1. Outbox!Init => OutboxTypeOK
  BY DEF Outbox!Init, OutboxTypeOK
<1>2. OutboxTypeOK /\ [Outbox!Next]_status => OutboxTypeOK'
  <2> SUFFICES ASSUME OutboxTypeOK, [Outbox!Next]_status PROVE OutboxTypeOK'
    OBVIOUS
  <2> USE DEF OutboxTypeOK, Outbox!Statuses
  <2>1. ASSUME NEW m \in Messages, NEW s \in Outbox!Statuses,
               Outbox!Announce(m, s) \/ Outbox!Report(m, s)
        PROVE  OutboxTypeOK'
    BY <2>1 DEF Outbox!Announce, Outbox!Report
  <2>2. ASSUME NEW m \in Messages, Outbox!Retry(m) PROVE OutboxTypeOK'
    BY <2>2 DEF Outbox!Retry
  <2>3. ASSUME NEW M \in SUBSET Messages, Outbox!Forget(M) PROVE OutboxTypeOK'
    BY <2>3 DEF Outbox!Forget
  <2>4. CASE UNCHANGED status
    BY <2>4
  <2> QED BY <2>1, <2>2, <2>3, <2>4 DEF Outbox!Next
<1> QED BY <1>1, <1>2, PTL DEF Outbox!Spec

\* A delivered message stays delivered until it is forgotten.
DeliveredIsFinal ==
    \A m \in Messages :
        status[m] = "Delivered" => status'[m] \in {"Delivered", Outbox!NoStatus}

\* A message that was sent is never queued or failed again: only a receipt or
\* forgetting it takes it further.
SentOnlyArrives ==
    \A m \in Messages :
        status[m] = "Sent" =>
            status'[m] \in {"Sent", "Delivered", Outbox!NoStatus}

\* A failed message that is queued again was resent by the user: nothing that
\* is reported about it can do that. A step changes no other message then.
RequeuedIsResent ==
    \A m \in Messages :
        status[m] = "Failed" /\ status'[m] = "Queued" => Outbox!Retry(m)

\* Whatever is announced, reported late or twice, resent or forgotten, a
\* receipt is final and a sent message is not taken back
\* (ChatOutboxService::shouldApplyStatus, retry).
THEOREM OutboxProgress ==
    Outbox!Spec => [][DeliveredIsFinal /\ SentOnlyArrives /\ RequeuedIsResent]_status
<1>1. OutboxTypeOK /\ [Outbox!Next]_status
        => [DeliveredIsFinal /\ SentOnlyArrives /\ RequeuedIsResent]_status
  <2> SUFFICES ASSUME OutboxTypeOK, Outbox!Next, NEW m \in Messages
               PROVE  /\ status[m] = "Delivered" =>
                            status'[m] \in {"Delivered", Outbox!NoStatus}
                      /\ status[m] = "Sent" =>
                            status'[m] \in {"Sent", "Delivered", Outbox!NoStatus}
                      /\ status[m] = "Failed" /\ status'[m] = "Queued" =>
                            Outbox!Retry(m)
    BY DEF DeliveredIsFinal, SentOnlyArrives, RequeuedIsResent
  <2> USE DEF OutboxTypeOK, Outbox!Statuses, Outbox!NoStatus
  <2>1. ASSUME NEW o \in Messages, NEW s \in Outbox!Statuses, Outbox!Announce(o, s)
        PROVE  /\ status[m] \in Outbox!Statuses
               => status'[m] = status[m]
    BY <2>1 DEF Outbox!Announce
  <2>2. ASSUME NEW o \in Messages, NEW s \in Outbox!Statuses, Outbox!Report(o, s)
        PROVE  \/ status'[m] = status[m]
               \/ status'[m] = s /\ Outbox!ShouldApplyStatus(status[m], s)
    BY <2>2 DEF Outbox!Report
  <2>3. ASSUME NEW o \in Messages, Outbox!Retry(o)
        PROVE  \/ status'[m] = status[m]
               \/ status[m] = "Failed" /\ Outbox!Retry(m)
    BY <2>3 DEF Outbox!Retry
  <2>4. ASSUME NEW M \in SUBSET Messages, Outbox!Forget(M)
        PROVE  status'[m] \in {status[m], Outbox!NoStatus}
    BY <2>4 DEF Outbox!Forget
  <2> QED BY <2>1, <2>2, <2>3, <2>4 DEF Outbox!Next, Outbox!ShouldApplyStatus
<1> QED BY <1>1, OutboxType, PTL DEF Outbox!Spec

-----------------------------------------------------------------------------
(* The call in hand. *)

\* Microphone and speaker belong to a call the user dialled or answered.
MediaNeedConsent ==
    /\ consent \in BOOLEAN /\ talking \in BOOLEAN
    /\ owner \in Link \cup {NoCall}
    /\ talking => consent
    /\ consent => owner # NoCall

\* A call is never taken over by another, consent once given is withdrawn only
\* with the call, and the media of one call are not those of the next.
CallIsKept ==
    /\ owner # NoCall => owner' \in {owner, NoCall}
    /\ consent /\ ~consent' => owner' = NoCall
    /\ owner # owner' => ~talking'

\* The runtime's user is never heard in a call that user did not take, and a
\* second call can neither replace the first nor inherit its microphone
\* (reticulum_call_runtime.cpp).
THEOREM CallsAreOwned ==
    ASSUME NoCall \notin Link
    PROVE  Call!Spec => []MediaNeedConsent /\ [][CallIsKept]_Call!ownership
<1> USE DEF MediaNeedConsent
<1>1. Call!Init => MediaNeedConsent
  BY DEF Call!Init
<1>2. MediaNeedConsent /\ [Call!Next]_Call!ownership
        => MediaNeedConsent' /\ [CallIsKept]_Call!ownership
  <2> SUFFICES ASSUME MediaNeedConsent, [Call!Next]_Call!ownership
               PROVE  MediaNeedConsent' /\ [CallIsKept]_Call!ownership
    OBVIOUS
  <2> USE DEF CallIsKept
  <2>1. ASSUME NEW l \in Link, Call!Ring(l) PROVE MediaNeedConsent' /\ CallIsKept
    BY <2>1 DEF Call!Ring
  <2>2. ASSUME NEW l \in Link, Call!Dial(l) PROVE MediaNeedConsent' /\ CallIsKept
    BY <2>2 DEF Call!Dial
  <2>3. CASE Call!Answer
    BY <2>3 DEF Call!Answer
  <2>4. CASE Call!Talk
    BY <2>4 DEF Call!Talk
  <2>5. CASE Call!End
    BY <2>5 DEF Call!End
  <2>6. CASE UNCHANGED Call!ownership
    BY <2>6 DEF Call!ownership
  <2> QED BY <2>1, <2>2, <2>3, <2>4, <2>5, <2>6 DEF Call!Next
<1> QED BY <1>1, <1>2, PTL DEF Call!Spec

=============================================================================
