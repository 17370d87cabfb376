----------------------- MODULE ChatMessageLedger_proofs -----------------------
(***************************************************************************)
(* What ChatMessageLedger guarantees for any number of messages,           *)
(* conversations and slots, and for stores of either kind.                 *)
(***************************************************************************)
EXTENDS ChatMessageLedger, TLAPS

\* A message that was never sent has no entry anywhere.
Fresh ==
  \A k \in Keys : persistence[k] = "none" =>
    /\ store[k] = NoStatus
    /\ pendingStatus[k] = NoStatus
    /\ announced[k] = NoStatus

\* Only messages whose first append was refused wait to be appended, or were
\* passed by a status while they did.
PendingWasDeferred ==
  \A k \in Held(pendingOutbound) \cup overtaken : persistence[k] = "Deferred"

\* The model is empty when it is disabled, and never stale.
ModelIsCurrent ==
  \A k \in Held(model) : modelEnabled /\ model[k] = announced[k]

\* A tracked message has been announced, and its status is the last one.
TrackedWasAnnounced ==
  \A k \in Held(tracked) : announced[k] # NoStatus

\* The inductive invariant.
IInv ==
  /\ TypeOK
  /\ Fresh
  /\ PendingWasDeferred
  /\ SecondRowNeedsRefusal
  /\ PublishedStatusIsKept
  /\ ModelIsCurrent
  /\ TrackedWasAnnounced
  /\ TrackedIsCurrent

-----------------------------------------------------------------------------

\* The tables of a step are tables again.
LEMMA TableTypes ==
  ASSUME NEW T \in Tables, NEW K, NEW k \in Keys, NEW s \in Statuses
  PROVE  /\ Drop(T, K) \in Tables
         /\ [T EXCEPT ![k] = s] \in Tables
         /\ Refresh(T, k, s) \in Tables
BY DEF Tables, Drop, Refresh, Statuses, NoStatus, Outbox!Statuses, Outbox!NoStatus

\* The statuses are four, and none of them is the mark of an empty entry.
LEMMA StatusValues ==
  /\ Statuses = {"Queued", "Sent", "Delivered", "Failed"}
  /\ NoStatus = "none"
BY DEF Statuses, NoStatus, Outbox!Statuses, Outbox!NoStatus

\* Before the first message every table is empty.
LEMMA InitIInv == Init => IInv
<1> SUFFICES ASSUME Init PROVE IInv
  OBVIOUS
<1>1. TypeOK
  BY DEF Init, TypeOK, Tables, NoStatus, Outbox!NoStatus
<1>2. /\ Held(pendingOutbound) = {} /\ overtaken = {}
      /\ Held(announced) = {} /\ Held(model) = {} /\ Held(tracked) = {}
  BY StatusValues DEF Init, Held
<1>3. Fresh
  BY StatusValues DEF Init, Fresh
<1> QED
  BY <1>1, <1>2, <1>3 DEF IInv, PendingWasDeferred, SecondRowNeedsRefusal,
     PublishedStatusIsKept, ModelIsCurrent, TrackedWasAnnounced, TrackedIsCurrent

-----------------------------------------------------------------------------
(* One lemma per operation: it preserves the inductive invariant. *)

\* A status that is written and published reaches every entry of its message,
\* whichever of the four branches of writeStatusForProtocol takes it.
LEMMA WriteKeepsIInv ==
  ASSUME IInv, NEW k \in Keys, NEW s \in Statuses, WriteAndPublish(k, s),
         persistence[k] # "none"
  PROVE  IInv'
<1> USE StatusValues
<1>1. UNCHANGED persistence
  BY DEF WriteAndPublish
<1>2. TypeOK'
  <2>1. model' \in Tables /\ announced' \in Tables
    <3>1. /\ model \in Tables /\ announced \in Tables
          /\ model' = (IF modelEnabled THEN Refresh(model, k, s) ELSE model)
          /\ announced' = [announced EXCEPT ![k] = s]
      BY DEF IInv, TypeOK, WriteAndPublish, WriteStatus
    <3> QED
      BY <3>1, TableTypes
  <2>2. store' \in Tables /\ tracked' \in Tables /\ pendingStatus' \in Tables
    <3>1. /\ store' = store \/ store' = Refresh(store, k, s)
          /\ tracked' = tracked \/ tracked' = Refresh(tracked, k, s)
          /\ \/ pendingStatus' = pendingStatus
             \/ pendingStatus' = Drop(pendingStatus, {k})
             \/ pendingStatus' = [pendingStatus EXCEPT ![k] = s]
      BY DEF WriteAndPublish, WriteStatus, WriteToPendingOutbound, WriteToStore,
         DeferStatus, WriteToModelOnly, RefreshTracked, RemovePendingStatus
    <3>2. store \in Tables /\ tracked \in Tables /\ pendingStatus \in Tables
      BY DEF IInv, TypeOK
    <3>3. /\ Refresh(store, k, s) \in Tables /\ Refresh(tracked, k, s) \in Tables
          /\ Drop(pendingStatus, {k}) \in Tables
      BY <3>2, TableTypes
    <3>4. [pendingStatus EXCEPT ![k] = s] \in Tables
      BY <3>2 DEF Tables
    <3> QED
      BY <3>1, <3>2, <3>3, <3>4
  <2>3. pendingOutbound' \in Tables
    <3>1. \/ pendingOutbound' = pendingOutbound
          \/ pendingOutbound' = [pendingOutbound EXCEPT ![k] = s]
      BY DEF WriteAndPublish, WriteStatus, WriteToPendingOutbound, WriteToStore,
         DeferStatus, WriteToModelOnly
    <3> QED
      BY <3>1 DEF IInv, TypeOK, Tables
  <2>4. /\ deferredBefore' \subseteq Keys \X Keys /\ modelOnly' \subseteq Keys
        /\ overtaken' \subseteq Keys
    BY DEF IInv, TypeOK, WriteAndPublish, WriteStatus, WriteToPendingOutbound,
       WriteToStore, DeferStatus, WriteToModelOnly, Without, Held
  <2> QED
    BY <2>1, <2>2, <2>3, <2>4 DEF IInv, TypeOK, WriteAndPublish
<1>3. /\ \A j \in Keys \ {k} :
           /\ store'[j] = store[j] /\ tracked'[j] = tracked[j] /\ model'[j] = model[j]
           /\ pendingStatus'[j] = pendingStatus[j]
           /\ pendingOutbound'[j] = pendingOutbound[j]
           /\ announced'[j] = announced[j]
           /\ j \in modelOnly' <=> j \in modelOnly
           /\ j \in overtaken' <=> j \in overtaken
      /\ announced'[k] = s
      /\ halfStored' = halfStored
      /\ model'[k] \in {NoStatus, s}
      /\ model'[k] # NoStatus => model[k] # NoStatus
      /\ tracked'[k] # NoStatus => tracked[k] # NoStatus
      /\ pendingOutbound'[k] # NoStatus => pendingOutbound[k] # NoStatus
  BY DEF IInv, TypeOK, Tables, WriteAndPublish, WriteStatus, WriteToPendingOutbound,
     WriteToStore, DeferStatus, WriteToModelOnly, Refresh, RefreshTracked,
     RemovePendingStatus, Drop, ModelIsCurrent, Held
<1>4. /\ pendingOutbound'[k] # NoStatus =>
           /\ store'[k] # NoStatus => k \in halfStored
           /\ pendingStatus'[k] = NoStatus
      /\ k \in overtaken' => persistence[k] = "Deferred"
      /\ k \notin modelOnly' =>
           /\ pendingOutbound'[k] \in {NoStatus, s}
           /\ pendingStatus'[k] \in {NoStatus, s}
           /\ pendingStatus'[k] = NoStatus /\ k \notin overtaken'
                => store'[k] \in {NoStatus, s}
           /\ tracked'[k] # NoStatus /\ persistence[k] # "Deferred" => tracked'[k] = s
  <2>1. CASE WriteToPendingOutbound(k, s)
    BY <2>1 DEF IInv, TypeOK, Tables, WriteToPendingOutbound, SecondRowNeedsRefusal,
       PendingWasDeferred, Held
  <2>2. CASE WriteToStore(k, s)
    BY <2>2 DEF IInv, TypeOK, Tables, WriteToStore, Refresh, RefreshTracked,
       RemovePendingStatus, Drop, PendingWasDeferred
  <2>3. CASE DeferStatus(k, s)
    BY <2>3 DEF IInv, TypeOK, Tables, DeferStatus, Refresh, RefreshTracked,
       PendingWasDeferred
  <2>4. CASE WriteToModelOnly(k, s)
    BY <2>4 DEF IInv, TypeOK, Tables, WriteToModelOnly, PendingWasDeferred
  <2> QED
    BY <2>1, <2>2, <2>3, <2>4 DEF WriteAndPublish, WriteStatus
<1>5. Fresh' /\ PendingWasDeferred'
  <2>1. Fresh'
    BY <1>1, <1>3 DEF IInv, Fresh
  <2>2. overtaken' \subseteq Keys
    BY <1>2 DEF TypeOK
  <2>3. ASSUME NEW j \in Keys \ {k}, pendingOutbound'[j] # NoStatus \/ j \in overtaken'
        PROVE  persistence'[j] = "Deferred"
    BY <1>1, <1>3, <2>3 DEF IInv, PendingWasDeferred, Held
  <2>4. pendingOutbound'[k] # NoStatus \/ k \in overtaken' => persistence'[k] = "Deferred"
    BY <1>1, <1>3, <1>4 DEF IInv, PendingWasDeferred, Held
  <2> QED
    BY <2>1, <2>2, <2>3, <2>4 DEF PendingWasDeferred, Held
<1>6. SecondRowNeedsRefusal' /\ PublishedStatusIsKept'
  BY <1>3, <1>4 DEF IInv, SecondRowNeedsRefusal, PublishedStatusIsKept, Held
<1>7. ModelIsCurrent' /\ TrackedWasAnnounced' /\ TrackedIsCurrent'
  BY <1>1, <1>3, <1>4 DEF IInv, ModelIsCurrent, TrackedWasAnnounced, TrackedIsCurrent, Held,
     WriteAndPublish
<1> QED
  BY <1>2, <1>5, <1>6, <1>7 DEF IInv

\* What a reader finds was sent, and is the last status published.
LEMMA LookupIsCurrent ==
  ASSUME IInv, NEW k \in Keys
  PROVE  /\ LookupMessage(k) # NoStatus => persistence[k] # "none"
         /\ announced[k] # NoStatus /\ k \notin modelOnly \cup LeftBehind =>
              LookupMessage(k) \in {NoStatus, announced[k]}
<1> USE StatusValues
<1>1. LookupEntry(k) # NoStatus => persistence[k] # "none"
  BY DEF IInv, LookupEntry, Stored, Fresh, PendingWasDeferred, ModelIsCurrent, Held
<1>2. /\ announced[k] # NoStatus /\ k \notin modelOnly \cup LeftBehind
      /\ pendingStatus[k] = NoStatus
      => LookupEntry(k) \in {NoStatus, announced[k]}
  BY DEF IInv, LookupEntry, Stored, PublishedStatusIsKept, ModelIsCurrent, Held, LeftBehind
<1>3. announced[k] # NoStatus /\ k \notin modelOnly
      => pendingStatus[k] \in {NoStatus, announced[k]}
  BY DEF IInv, PublishedStatusIsKept, Held
<1> QED
  BY <1>1, <1>2, <1>3 DEF LookupMessage

\* What the search by id alone returns can be looked up.
LEMMA FoundByIdHasEntry ==
  ASSUME NEW id, NEW k \in FoundById(id)
  PROVE  k \in Keys /\ LookupMessage(k) # NoStatus
<1> USE StatusValues
<1>1. k \in Keys /\ (k \in Held(pendingOutbound) \/ k \in Held(model) \/ Stored(k))
  BY DEF FoundById, Held
<1>2. LookupEntry(k) # NoStatus
  BY <1>1 DEF LookupEntry, Stored, Held
<1> QED
  BY <1>1, <1>2 DEF LookupMessage

\* Is a result for k judged against the last status published?  The tracked
\* status decides if there is one, and a reader finds what is neither in the
\* model alone nor left behind by the flush.
JudgedByLast(k) ==
  k \notin modelOnly \cup LeftBehind /\ tracked[k] \in {NoStatus, announced[k]}

\* The three operations that report a status write it for a message that was
\* sent, and along a transition OutboxStatus admits.
Reported(k, s) ==
  announced[k] # NoStatus /\ JudgedByLast(k) =>
    \/ ShouldApplyStatus(announced[k], s)
    \/ announced[k] = "Failed" /\ s = "Queued"

\* Of a message the refinement speaks of, the last status decides.
LEMMA SettledIsJudged ==
  ASSUME IInv, NEW k \in Keys, settled[k] # NoStatus
  PROVE  JudgedByLast(k) /\ settled[k] = announced[k]
BY StatusValues DEF IInv, TrackedIsCurrent, PendingWasDeferred, LeftBehind, Held, settled,
   JudgedByLast

\* A result is judged against the last status published, whichever way the
\* ledger finds the message: what it publishes is admissible.
LEMMA ReportedStatus ==
  ASSUME IInv, NEW k \in Keys, NEW s \in Statuses,
         \/ ApplyStatusForProtocol(k, s)
         \/ ApplyStatus(k[1], s)
         \/ ResendFailed(k) /\ s = "Queued"
  PROVE  \E j \in Keys : WriteAndPublish(j, s) /\ persistence[j] # "none" /\ Reported(j, s)
<1> USE StatusValues
<1>1. ASSUME NEW j \in Keys, tracked[j] # NoStatus
      PROVE  /\ persistence[j] # "none"
             /\ JudgedByLast(j) => tracked[j] = announced[j]
  BY <1>1 DEF IInv, Fresh, TrackedWasAnnounced, Held, JudgedByLast
<1>2. ASSUME NEW j \in Keys, LookupMessage(j) # NoStatus
      PROVE  /\ persistence[j] # "none"
             /\ announced[j] # NoStatus /\ JudgedByLast(j)
                  => LookupMessage(j) = announced[j]
  BY <1>2, LookupIsCurrent DEF JudgedByLast
<1>3. CASE ApplyStatusForProtocol(k, s)
  BY <1>1, <1>2, <1>3 DEF ApplyStatusForProtocol, Reported
<1>4. CASE ApplyStatus(k[1], s)
  <2>1. CASE \E j \in Held(tracked) : /\ ShouldApplyStatus(tracked[j], s)
                                      /\ WriteAndPublish(j, s)
    BY <1>1, <2>1 DEF Held, Reported
  <2>2. CASE \E j \in FoundById(k[1]) : /\ ShouldApplyStatus(LookupMessage(j), s)
                                        /\ WriteAndPublish(j, s)
    BY <1>2, <2>2, FoundByIdHasEntry DEF Reported
  <2> QED
    BY <1>4, <2>1, <2>2 DEF ApplyStatus
<1>5. CASE ResendFailed(k) /\ s = "Queued"
  BY <1>2, <1>5 DEF ResendFailed, Reported
<1> QED
  BY <1>3, <1>4, <1>5

\* What an append does to the rows, told to be done or not: the row of k has
\* the status appended, or is left as it was; of the others one may be lost.
LEMMA AppendKeepsRows ==
  ASSUME IInv, NEW k \in Keys, NEW s \in Statuses,
         AppendSucceeds(k, s) \/ AppendFails(k, s)
  PROVE  /\ store' \in Tables
         /\ \/ store'[k] = s /\ overtaken' = overtaken \ {k}
            \/ store'[k] = store[k] /\ overtaken' = overtaken
         /\ \A j \in Keys \ {k} : store'[j] \in {NoStatus, store[j]}
         /\ torn' \subseteq Conversations
         /\ \/ AppendSucceeds(k, s) /\ halfStored' = halfStored \ {k}
            \/ /\ AppendFails(k, s)
               /\ \/ halfStored' = halfStored /\ store' = store
                  \/ halfStored' = halfStored \cup {k}
<1> USE StatusValues
<1>1. ASSUME WriteRow(k, s)
      PROVE  /\ store' \in Tables
             /\ store'[k] = s /\ overtaken' = overtaken \ {k}
             /\ \A j \in Keys \ {k} : store'[j] \in {NoStatus, store[j]}
             /\ torn' \subseteq Conversations
  BY <1>1 DEF IInv, TypeOK, Tables, WriteRow, Drop
<1>2. ASSUME UNCHANGED store
      PROVE  store' \in Tables /\ \A j \in Keys : store'[j] = store[j]
  BY <1>2 DEF IInv, TypeOK
<1>3. CASE AppendSucceeds(k, s)
  BY <1>1, <1>2, <1>3 DEF AppendSucceeds, FindRow, IInv, TypeOK
<1>4. CASE AppendFails(k, s)
  <2>1. ConversationOf[k] \in Conversations
    BY KeysAssumption
  <2> QED
    BY <1>1, <1>2, <1>4, <2>1 DEF AppendFails, IInv, TypeOK, halves
<1> QED
  BY <1>3, <1>4

\* A new message: the slot it takes may cost an older message its tracking,
\* its place in the model or its row, never its last status.
LEMMA RecordKeepsIInv ==
  ASSUME IInv, NEW k \in Keys, NEW s \in {"Queued", "Failed"}, RecordOutbound(k, s)
  PROVE  IInv'
<1> USE StatusValues
<1>1. /\ persistence[k] = "none" /\ store[k] = NoStatus /\ pendingStatus[k] = NoStatus
      /\ persistence'[k] # "none"
      /\ \A j \in Keys \ {k} : persistence'[j] = persistence[j]
      /\ announced' = [announced EXCEPT ![k] = s]
      /\ UNCHANGED <<pendingStatus, deferredBefore, modelEnabled, storeReady, modelOnly>>
  BY DEF IInv, TypeOK, RecordOutbound, Fresh
<1>2. /\ tracked' \in Tables /\ tracked'[k] = s
      /\ \A j \in Keys \ {k} : tracked'[j] \in {NoStatus, tracked[j]}
  BY DEF IInv, TypeOK, Tables, RecordOutbound, TrackOutbound, Drop
<1>3. /\ model' \in Tables
      /\ model'[k] # NoStatus => modelEnabled /\ model'[k] = s
      /\ \A j \in Keys \ {k} : model'[j] \in {NoStatus, model[j]}
  <2>1. CASE modelEnabled
    <3>1. PICK evicted \in ModelEvictions : model' = [Drop(model, evicted) EXCEPT ![k] = s]
      BY <2>1 DEF RecordOutbound
    <3> QED
      BY <2>1, <3>1 DEF IInv, TypeOK, Tables, Drop
  <2>2. CASE ~modelEnabled
    BY <2>2 DEF IInv, TypeOK, Tables, RecordOutbound, ModelIsCurrent, Held
  <2> QED
    BY <2>1, <2>2
<1>4. /\ store' \in Tables
      /\ store'[k] \in {NoStatus, s}
      /\ \A j \in Keys \ {k} : /\ store'[j] \in {NoStatus, store[j]}
                               /\ j \in halfStored' <=> j \in halfStored
      /\ halfStored' \subseteq Keys /\ torn' \subseteq Conversations
      /\ overtaken' \subseteq overtaken
  <2>1. s \in Statuses /\ halfStored \subseteq Keys
    BY DEF IInv, TypeOK
  <2>2. AppendSucceeds(k, s) \/ AppendFails(k, s)
    BY DEF RecordOutbound
  <2>3. /\ store' \in Tables
        /\ \/ store'[k] = s /\ overtaken' = overtaken \ {k}
           \/ store'[k] = store[k] /\ overtaken' = overtaken
        /\ \A j \in Keys \ {k} : store'[j] \in {NoStatus, store[j]}
        /\ torn' \subseteq Conversations
        /\ halfStored' \in {halfStored, halfStored \ {k}, halfStored \cup {k}}
    BY <2>1, <2>2, AppendKeepsRows
  <2> QED
    BY <1>1, <2>1, <2>3
<1>12. /\ pendingOutbound' \in Tables
       /\ pendingOutbound'[k] \in {NoStatus, s}
       /\ pendingOutbound'[k] # NoStatus =>
            /\ persistence'[k] = "Deferred"
            /\ store'[k] # NoStatus => k \in halfStored'
       /\ \A j \in Keys \ {k} : pendingOutbound'[j] = pendingOutbound[j]
       /\ persistence' \in [Keys -> {"none", "Durable", "Deferred", "Rejected"}]
  <2>1. pendingOutbound[k] = NoStatus
    BY <1>1 DEF IInv, PendingWasDeferred, Held
  <2>2. CASE /\ AppendSucceeds(k, s)
             /\ persistence' = [persistence EXCEPT ![k] = "Durable"]
             /\ UNCHANGED pendingOutbound
    BY <1>1, <2>1, <2>2 DEF IInv, TypeOK, Tables
  <2>3. CASE /\ AppendFails(k, s)
             /\ pendingOutbound' = [pendingOutbound EXCEPT ![k] = s]
             /\ persistence' = [persistence EXCEPT ![k] = "Deferred"]
    <3>1. CASE UNCHANGED store
      BY <1>1, <2>1, <2>3, <3>1 DEF IInv, TypeOK, Tables
    <3>2. CASE halfStored' = halfStored \cup {k}
      BY <1>1, <2>1, <2>3, <3>2 DEF IInv, TypeOK, Tables
    <3> QED
      BY <2>3, <3>1, <3>2 DEF AppendFails
  <2>4. CASE /\ AppendFails(k, s)
             /\ persistence' = [persistence EXCEPT ![k] = "Rejected"]
             /\ UNCHANGED pendingOutbound
    BY <1>1, <2>1, <2>4 DEF IInv, TypeOK, Tables
  <2> QED
    BY <2>2, <2>3, <2>4 DEF RecordOutbound
<1>5. TypeOK'
  <2>1. sentBefore' \subseteq Keys \X Keys
    BY DEF IInv, TypeOK, RecordOutbound
  <2>2. announced' \in Tables
    BY <1>1 DEF IInv, TypeOK, Tables
  <2>3. /\ pendingStatus' \in Tables /\ deferredBefore' \subseteq Keys \X Keys
        /\ modelEnabled' \in BOOLEAN /\ storeReady' \in BOOLEAN /\ modelOnly' \subseteq Keys
        /\ overtaken' \subseteq Keys
    BY <1>1, <1>4 DEF IInv, TypeOK
  <2> QED
    BY <1>2, <1>3, <1>4, <1>12, <2>1, <2>2, <2>3 DEF TypeOK
<1>6. \A j \in Keys \ {k} : announced'[j] = announced[j]
  BY <1>1 DEF IInv, TypeOK, Tables
<1>7. announced'[k] = s
  BY <1>1 DEF IInv, TypeOK, Tables
<1>8. Fresh' /\ PendingWasDeferred' /\ SecondRowNeedsRefusal'
  <2>1. Fresh'
    BY <1>1, <1>4, <1>6 DEF IInv, Fresh
  <2>2. overtaken \subseteq Keys /\ k \notin overtaken
    BY <1>1 DEF IInv, TypeOK, PendingWasDeferred
  <2>3. PendingWasDeferred'
    BY <1>1, <1>4, <1>12, <2>2 DEF IInv, PendingWasDeferred, Held
  <2>4. SecondRowNeedsRefusal'
    BY <1>1, <1>4, <1>12 DEF IInv, SecondRowNeedsRefusal, Held
  <2> QED
    BY <2>1, <2>3, <2>4
<1>9. PublishedStatusIsKept'
  <2>1. /\ pendingOutbound'[k] \in {NoStatus, announced'[k]}
        /\ pendingStatus'[k] = NoStatus
        /\ store'[k] \in {NoStatus, announced'[k]}
    BY <1>1, <1>4, <1>7, <1>12
  <2>2. ASSUME NEW j \in Keys \ {k}, announced'[j] # NoStatus, j \notin modelOnly'
        PROVE  /\ pendingOutbound'[j] \in {NoStatus, announced'[j]}
               /\ pendingStatus'[j] \in {NoStatus, announced'[j]}
               /\ pendingStatus'[j] = NoStatus /\ j \notin overtaken'
                    => store'[j] \in {NoStatus, announced'[j]}
    <3>1. j \in overtaken' <=> j \in overtaken
      BY AppendKeepsRows DEF RecordOutbound
    <3> QED
      BY <1>1, <1>4, <1>6, <1>12, <2>2, <3>1 DEF IInv, PublishedStatusIsKept, Held
  <2> QED
    BY <2>1, <2>2 DEF PublishedStatusIsKept, Held
<1>10. ModelIsCurrent'
  BY <1>1, <1>3, <1>6, <1>7 DEF IInv, ModelIsCurrent, Held
<1>11. TrackedWasAnnounced' /\ TrackedIsCurrent'
  BY <1>1, <1>2, <1>6, <1>7 DEF IInv, TrackedWasAnnounced, TrackedIsCurrent, Held
<1> QED
  BY <1>5, <1>8, <1>9, <1>10, <1>11 DEF IInv

\* Flushing moves the last status of a message into the store.
LEMMA FlushKeepsIInv ==
  ASSUME IInv, FlushPendingWrites
  PROVE  IInv'
<1> USE StatusValues
<1>1. CASE FlushPendingOutbound
  <2>1. PICK k \in Oldest(pendingOutbound, sentBefore) :
          /\ AppendSucceeds(k, pendingOutbound[k])
          /\ pendingOutbound' = ReleaseOutbound(k)
          /\ pendingStatus' = RemovePendingStatus(k)
          /\ deferredBefore' = Without(deferredBefore, {k})
    BY <1>1 DEF FlushPendingOutbound
  <2>2. k \in Keys /\ pendingOutbound[k] \in Statuses
    BY DEF IInv, TypeOK, Tables, Oldest, Held
  <2>3. /\ store' \in Tables /\ torn' \subseteq Conversations
        /\ \/ store'[k] = pendingOutbound[k] /\ overtaken' = overtaken \ {k}
           \/ store'[k] = store[k] /\ overtaken' = overtaken
        /\ \A j \in Keys \ {k} : store'[j] \in {NoStatus, store[j]}
        /\ halfStored' = halfStored \ {k}
    <3>1. halfStored' = halfStored \ {k}
      BY <2>1 DEF AppendSucceeds
    <3> QED
      BY <2>1, <2>2, <3>1, AppendKeepsRows
  <2>4. TypeOK'
    BY <1>1, <2>1, <2>2, <2>3 DEF IInv, TypeOK, Tables, FlushPendingOutbound, Drop,
       ReleaseOutbound, RemovePendingStatus, Without
  <2>5. /\ pendingOutbound'[k] = NoStatus /\ pendingStatus'[k] = NoStatus
        /\ \A j \in Keys \ {k} : /\ pendingOutbound'[j] = pendingOutbound[j]
                                 /\ pendingStatus'[j] = pendingStatus[j]
    BY <2>1, <2>2 DEF ReleaseOutbound, RemovePendingStatus, Drop
  <2>6. UNCHANGED <<model, tracked, modelEnabled, announced, persistence, modelOnly>>
    BY <1>1 DEF FlushPendingOutbound
  <2>7. Fresh' /\ PendingWasDeferred' /\ SecondRowNeedsRefusal'
    BY <2>2, <2>3, <2>5, <2>6
       DEF IInv, Fresh, PendingWasDeferred, SecondRowNeedsRefusal, Held
  <2>8. PublishedStatusIsKept'
    <3>1. pendingStatus[k] = NoStatus
      BY <2>2 DEF IInv, SecondRowNeedsRefusal, Held
    <3> QED
      BY <2>2, <2>3, <2>5, <2>6, <3>1 DEF IInv, PublishedStatusIsKept, Held
  <2>9. ModelIsCurrent' /\ TrackedWasAnnounced' /\ TrackedIsCurrent'
    BY <2>6 DEF IInv, ModelIsCurrent, TrackedWasAnnounced, TrackedIsCurrent, Held
  <2> QED
    BY <2>4, <2>7, <2>8, <2>9 DEF IInv
<1>2. CASE FlushPendingStatus
  <2>1. PICK k \in Oldest(pendingStatus, deferredBefore) :
          /\ store' = Refresh(store, k, pendingStatus[k])
          /\ overtaken' = overtaken \ {k}
          /\ pendingStatus' = RemovePendingStatus(k)
          /\ deferredBefore' = Without(deferredBefore, {k})
    BY <1>2 DEF FlushPendingStatus
  <2>2. k \in Keys /\ pendingStatus[k] # NoStatus
    BY DEF Oldest, Held
  <2>3. TypeOK'
    BY <1>2, <2>1, <2>2 DEF IInv, TypeOK, Tables, FlushPendingStatus, Refresh,
       RemovePendingStatus, Drop, Without
  <2>4. /\ store'[k] \in {NoStatus, pendingStatus[k]} /\ pendingStatus'[k] = NoStatus
        /\ store'[k] = NoStatus <=> store[k] = NoStatus
        /\ \A j \in Keys \ {k} : store'[j] = store[j] /\ pendingStatus'[j] = pendingStatus[j]
    BY <2>1, <2>2 DEF IInv, TypeOK, Tables, Refresh, RemovePendingStatus, Drop
  <2>5. UNCHANGED <<model, tracked, modelEnabled, announced, persistence, modelOnly,
                    pendingOutbound, halfStored>>
    BY <1>2 DEF FlushPendingStatus
  <2>6. Fresh' /\ PendingWasDeferred' /\ SecondRowNeedsRefusal'
    BY <2>1, <2>2, <2>4, <2>5
       DEF IInv, Fresh, PendingWasDeferred, SecondRowNeedsRefusal, Held
  <2>7. PublishedStatusIsKept'
    BY <2>1, <2>2, <2>4, <2>5 DEF IInv, PublishedStatusIsKept, Held
  <2>8. ModelIsCurrent' /\ TrackedWasAnnounced' /\ TrackedIsCurrent'
    BY <2>5 DEF IInv, ModelIsCurrent, TrackedWasAnnounced, TrackedIsCurrent, Held
  <2> QED
    BY <2>3, <2>6, <2>7, <2>8 DEF IInv
<1> QED
  BY <1>1, <1>2 DEF FlushPendingWrites

\* A refused append leaves the message waiting, with a row or without.
LEMMA RefusalKeepsIInv ==
  ASSUME IInv, FlushRefused
  PROVE  IInv'
<1> USE StatusValues
<1>1. PICK k \in Oldest(pendingOutbound, sentBefore) : AppendFails(k, pendingOutbound[k])
  BY DEF FlushRefused
<1>2. k \in Keys /\ pendingOutbound[k] \in Statuses
  BY DEF IInv, TypeOK, Tables, Oldest, Held
<1>3. UNCHANGED <<model, pendingOutbound, pendingStatus, tracked, orders, modelEnabled,
                  storeReady, announced, persistence, modelOnly>>
  BY DEF FlushRefused
<1>4. /\ store' \in Tables /\ torn' \subseteq Conversations
      /\ \/ store'[k] = pendingOutbound[k] /\ overtaken' = overtaken \ {k}
         \/ store'[k] = store[k] /\ overtaken' = overtaken
      /\ \A j \in Keys \ {k} : store'[j] \in {NoStatus, store[j]}
  BY <1>1, <1>2, AppendKeepsRows
<1>5. \/ halfStored' = halfStored /\ store' = store
      \/ halfStored' = halfStored \cup {k}
  BY <1>1, <1>2, AppendKeepsRows DEF AppendFails, halves
<1>6. TypeOK'
  BY <1>2, <1>3, <1>4, <1>5 DEF IInv, TypeOK, orders
<1>7. Fresh' /\ PendingWasDeferred' /\ SecondRowNeedsRefusal'
  <2>1. persistence[k] = "Deferred" /\ overtaken' \subseteq overtaken
    BY <1>1, <1>2, <1>4 DEF IInv, PendingWasDeferred, Oldest
  <2>2. Fresh' /\ PendingWasDeferred'
    BY <1>2, <1>3, <1>4, <2>1 DEF IInv, Fresh, PendingWasDeferred, Held
  <2>3. SecondRowNeedsRefusal'
    BY <1>2, <1>3, <1>4, <1>5 DEF IInv, SecondRowNeedsRefusal, Held
  <2> QED
    BY <2>2, <2>3
<1>8. PublishedStatusIsKept'
  <2>1. \A j \in Keys \ {k} : j \in overtaken' <=> j \in overtaken
    BY <1>4
  <2>2. pendingOutbound[k] # NoStatus
    BY DEF Oldest, Held
  <2> QED
    BY <1>2, <1>3, <1>4, <2>1, <2>2 DEF IInv, PublishedStatusIsKept, Held
<1>9. ModelIsCurrent' /\ TrackedWasAnnounced' /\ TrackedIsCurrent'
  BY <1>3 DEF IInv, ModelIsCurrent, TrackedWasAnnounced, TrackedIsCurrent, Held
<1> QED
  BY <1>6, <1>7, <1>8, <1>9 DEF IInv

\* Clearing messages and rebooting forget whole messages: of a message they
\* touch no table but the store keeps an entry, and nothing stays published.
Forgets(K) ==
  /\ \A k \in K : announced'[k] = NoStatus
  /\ \A k \in Keys \ K : /\ announced'[k] = announced[k]
                         /\ persistence'[k] = persistence[k]
  /\ modelOnly' = modelOnly \ K

\* Forgetting whole messages keeps the invariant.
LEMMA ForgetKeepsIInv ==
  ASSUME IInv,
         \/ \E c \in Conversations : ClearConversation(c)
         \/ ClearAllMessages
         \/ Reboot
  PROVE  IInv' /\ \E K \in SUBSET Keys : Forgets(K)
<1> USE StatusValues
<1>1. PICK K \in SUBSET Keys, P \in SUBSET Keys, R \in SUBSET Keys :
        /\ P \subseteq K
        /\ pendingOutbound' = Drop(pendingOutbound, K)
        /\ pendingStatus' = Drop(pendingStatus, P)
        /\ tracked' = Drop(tracked, K)
        /\ model' = Drop(model, K)
        /\ store' = Drop(store, R)
        /\ announced' = Drop(announced, K)
        /\ modelOnly' = modelOnly \ K
        /\ halfStored' = halfStored \ K /\ overtaken' = overtaken \ K
        /\ torn' \subseteq torn
        /\ deferredBefore' \subseteq deferredBefore
        /\ UNCHANGED sentBefore
        /\ persistence' = Forgotten(K)
        /\ modelEnabled' \in BOOLEAN /\ storeReady' \in BOOLEAN
        /\ modelEnabled' = modelEnabled \/ modelEnabled'
  <2>0. store = Drop(store, {})
    BY DEF IInv, TypeOK, Tables, Drop
  <2>1. CASE \E c \in Conversations : ClearConversation(c)
    <3>1. PICK c \in Conversations : ClearConversation(c)
      BY <2>1
    <3> DEFINE cleared == {k \in Keys : ConversationOf[k] = c}
               found == {k \in cleared : \/ pendingOutbound[k] # NoStatus
                                         \/ model[k] # NoStatus
                                         \/ Stored(k)}
               gone == IF storeReady THEN cleared ELSE {}
    <3>2. cleared \in SUBSET Keys /\ found \subseteq cleared /\ gone \in SUBSET Keys
      OBVIOUS
    <3>3. /\ pendingOutbound' = Drop(pendingOutbound, cleared)
          /\ pendingStatus' = Drop(pendingStatus, found)
          /\ tracked' = Drop(tracked, cleared)
          /\ model' = Drop(model, cleared)
          /\ announced' = Drop(announced, cleared)
          /\ modelOnly' = modelOnly \ cleared
          /\ halfStored' = halfStored \ cleared /\ overtaken' = overtaken \ cleared
          /\ torn' \subseteq torn
          /\ deferredBefore' = Without(deferredBefore, found)
          /\ persistence' = Forgotten(cleared)
          /\ UNCHANGED <<sentBefore, modelEnabled, storeReady>>
      BY <3>1 DEF ClearConversation
    <3>4. store' = Drop(store, gone)
      BY <2>0, <3>1 DEF ClearConversation
    <3>5. deferredBefore' \subseteq deferredBefore
      BY <3>3 DEF Without
    <3>6. modelEnabled' \in BOOLEAN /\ storeReady' \in BOOLEAN
      BY <3>3 DEF IInv, TypeOK
    <3> HIDE DEF cleared, found, gone
    <3> QED
      BY <3>2, <3>3, <3>4, <3>5, <3>6
  <2>2. CASE ClearAllMessages
    <3> DEFINE gone == IF storeReady THEN Keys ELSE {}
    <3>1. store' = Drop(store, gone)
      BY <2>0, <2>2 DEF ClearAllMessages
    <3>2. gone \in SUBSET Keys
      OBVIOUS
    <3>3. /\ modelOnly' = modelOnly \ Keys
          /\ halfStored' = halfStored \ Keys /\ overtaken' = overtaken \ Keys
          /\ torn' \subseteq torn
      BY <2>2 DEF IInv, TypeOK, ClearAllMessages
    <3> HIDE DEF gone
    <3> QED
      BY <2>2, <3>1, <3>2, <3>3 DEF IInv, TypeOK, ClearAllMessages
  <2>3. CASE Reboot
    <3>1. /\ modelOnly' = modelOnly \ Keys
          /\ halfStored' = halfStored \ Keys /\ overtaken' = overtaken \ Keys
      BY <2>3 DEF IInv, TypeOK, Reboot
    <3> QED
      BY <2>0, <2>3, <3>1 DEF IInv, TypeOK, Reboot
  <2> QED
    BY <2>1, <2>2, <2>3
<1>0. /\ persistence' \in [Keys -> {"none", "Durable", "Deferred", "Rejected"}]
      /\ \A k \in Keys : /\ persistence'[k] = "none" <=> persistence[k] = "none"
                         /\ k \notin K => persistence'[k] = persistence[k]
  BY <1>1 DEF IInv, TypeOK, Forgotten
<1>2. TypeOK'
  <2>1. /\ Drop(pendingOutbound, K) \in Tables /\ Drop(pendingStatus, P) \in Tables
        /\ Drop(tracked, K) \in Tables /\ Drop(model, K) \in Tables
        /\ Drop(store, R) \in Tables /\ Drop(announced, K) \in Tables
    BY DEF IInv, TypeOK, Tables, Drop
  <2> QED
    BY <1>0, <1>1, <2>1 DEF IInv, TypeOK
<1>3. /\ \A k \in K : /\ pendingOutbound'[k] = NoStatus /\ tracked'[k] = NoStatus
                      /\ model'[k] = NoStatus /\ announced'[k] = NoStatus
      /\ \A k \in Keys \ K : /\ pendingOutbound'[k] = pendingOutbound[k]
                             /\ pendingStatus'[k] = pendingStatus[k]
                             /\ tracked'[k] = tracked[k]
                             /\ model'[k] = model[k] /\ announced'[k] = announced[k]
                             /\ k \in modelOnly' <=> k \in modelOnly
                             /\ k \in halfStored' <=> k \in halfStored
                             /\ k \in overtaken' <=> k \in overtaken
      /\ \A k \in Keys : /\ store'[k] \in {NoStatus, store[k]}
                         /\ pendingStatus'[k] \in {NoStatus, pendingStatus[k]}
  BY <1>1 DEF Drop
<1>4. Forgets(K)
  BY <1>0, <1>1, <1>3 DEF Forgets
<1>5. Fresh' /\ PendingWasDeferred' /\ SecondRowNeedsRefusal'
  <2>1. Fresh' /\ SecondRowNeedsRefusal'
    BY <1>0, <1>1, <1>3 DEF IInv, Fresh, SecondRowNeedsRefusal, Held
  <2>2. PendingWasDeferred'
    BY <1>0, <1>1, <1>3 DEF IInv, TypeOK, PendingWasDeferred, Held
  <2> QED
    BY <2>1, <2>2
<1>6. PublishedStatusIsKept'
  BY <1>3 DEF IInv, PublishedStatusIsKept, Held
<1>7. ModelIsCurrent' /\ TrackedWasAnnounced' /\ TrackedIsCurrent'
  BY <1>0, <1>1, <1>3 DEF IInv, ModelIsCurrent, TrackedWasAnnounced, TrackedIsCurrent, Held
<1> QED
  BY <1>1, <1>2, <1>4, <1>5, <1>6, <1>7 DEF IInv

\* What happens around the ledger costs the model or the store an entry, and
\* publishes nothing.
Quiet == UNCHANGED <<announced, persistence, modelOnly>>

\* What happens around the ledger keeps the invariant.
LEMMA EnvironmentKeepsIInv ==
  ASSUME IInv,
         \/ \E enabled \in BOOLEAN : SetModelEnabled(enabled)
         \/ ModelEvicts
         \/ StoreEvicts
         \/ StoreAvailability
         \/ UNCHANGED vars
  PROVE  IInv' /\ Quiet
<1> USE StatusValues
<1>1. /\ UNCHANGED <<pendingOutbound, pendingStatus, tracked, orders, halves, torn,
                     announced, persistence, modelOnly>>
      /\ \/ \E K \in SUBSET Keys : model' = Drop(model, K)
         \/ model' = model
      /\ \/ \E K \in SUBSET Keys : store' = Drop(store, K)
         \/ store' = store
      /\ modelEnabled' \in BOOLEAN /\ storeReady' \in BOOLEAN
      /\ modelEnabled /\ ~modelEnabled' => model' = Drop(model, Keys)
  <2>1. CASE \E enabled \in BOOLEAN : SetModelEnabled(enabled)
    BY <2>1 DEF IInv, TypeOK, SetModelEnabled
  <2>2. CASE ModelEvicts
    <3>1. PICK evicted \in ModelEvictions : model' = Drop(model, evicted)
      BY <2>2 DEF ModelEvicts
    <3>2. evicted \subseteq Keys
      BY DEF ModelEvictions, Oldest, Held
    <3> QED
      BY <2>2, <3>1, <3>2 DEF IInv, TypeOK, ModelEvicts
  <2>3. CASE StoreEvicts
    <3>1. PICK evicted \in StoreEvictions : store' = Drop(store, evicted)
      BY <2>3 DEF StoreEvicts
    <3>2. evicted \subseteq Keys
      BY DEF StoreEvictions, Held
    <3> QED
      BY <2>3, <3>1, <3>2 DEF IInv, TypeOK, StoreEvicts
  <2>4. CASE StoreAvailability
    BY <2>4 DEF IInv, TypeOK, StoreAvailability, tables
  <2>5. CASE UNCHANGED vars
    BY <2>5 DEF IInv, TypeOK, vars, tables
  <2> QED
    BY <2>1, <2>2, <2>3, <2>4, <2>5
<1>2. /\ model' \in Tables /\ store' \in Tables
      /\ \A k \in Keys : /\ model'[k] \in {NoStatus, model[k]}
                         /\ store'[k] \in {NoStatus, store[k]}
  BY <1>1 DEF IInv, TypeOK, Tables, Drop
<1>3. TypeOK'
  BY <1>1, <1>2 DEF IInv, TypeOK, orders, halves
<1>4. Fresh' /\ PendingWasDeferred' /\ SecondRowNeedsRefusal'
  BY <1>1, <1>2 DEF IInv, Fresh, PendingWasDeferred, SecondRowNeedsRefusal, Held, halves
<1>5. PublishedStatusIsKept'
  BY <1>1, <1>2 DEF halves, IInv, PublishedStatusIsKept, Held
<1>6. ModelIsCurrent'
  BY <1>1, <1>2 DEF IInv, TypeOK, ModelIsCurrent, Held, Drop
<1>7. TrackedWasAnnounced' /\ TrackedIsCurrent'
  BY <1>1 DEF IInv, TrackedWasAnnounced, TrackedIsCurrent, Held
<1> QED
  BY <1>1, <1>3, <1>4, <1>5, <1>6, <1>7 DEF IInv, Quiet

\* Every step is one of these six kinds.
LEMMA StepKinds ==
  ASSUME IInv, [Next]_vars
  PROVE  \/ \E k \in Keys, s \in {"Queued", "Failed"} : RecordOutbound(k, s)
         \/ \E k \in Keys, s \in Statuses :
              WriteAndPublish(k, s) /\ persistence[k] # "none" /\ Reported(k, s)
         \/ FlushPendingWrites
         \/ FlushRefused
         \/ \/ \E c \in Conversations : ClearConversation(c)
            \/ ClearAllMessages
            \/ Reboot
         \/ \/ \E enabled \in BOOLEAN : SetModelEnabled(enabled)
            \/ ModelEvicts
            \/ StoreEvicts
            \/ StoreAvailability
            \/ UNCHANGED vars
<1>1. ASSUME NEW k \in Keys, NEW s \in Statuses,
             ApplyStatusForProtocol(k, s) \/ ApplyStatus(k[1], s)
      PROVE  \E j \in Keys : WriteAndPublish(j, s) /\ persistence[j] # "none" /\ Reported(j, s)
  BY <1>1, ReportedStatus
<1>2. ASSUME NEW k \in Keys, ResendFailed(k)
      PROVE  \E j \in Keys : /\ WriteAndPublish(j, "Queued") /\ persistence[j] # "none"
                             /\ Reported(j, "Queued")
  BY <1>2, ReportedStatus, StatusValues
<1>3. "Queued" \in Statuses
  BY StatusValues
<1> QED
  BY <1>1, <1>2, <1>3 DEF Next

\* No operation of the ledger, of the chat service or of the store breaks the
\* invariant.
LEMMA NextKeepsIInv == IInv /\ [Next]_vars => IInv'
<1> SUFFICES ASSUME IInv, [Next]_vars PROVE IInv'
  OBVIOUS
<1> QED
  BY StepKinds, RecordKeepsIInv, WriteKeepsIInv, FlushKeepsIInv, RefusalKeepsIInv,
     ForgetKeepsIInv, EnvironmentKeepsIInv

\* Every entry a message has, in whatever table, agrees with the last status
\* published for it, through sends, results, flushes, clears and reboots.
THEOREM LedgerInvariant == Spec => []IInv
<1> QED
  BY InitIInv, NextKeepsIInv, PTL DEF Spec

\* The tables of the ledger, of the model and of the store keep their types.
THEOREM TypeCorrect == Spec => []TypeOK
<1>1. IInv => TypeOK
  BY DEF IInv
<1> QED
  BY <1>1, LedgerInvariant, PTL

\* Appending a deferred message makes a second row only where an append that
\* was refused had written the first, and drops no status of its own.
THEOREM SecondRowNeedsRefusalHolds == Spec => []SecondRowNeedsRefusal
<1>1. IInv => SecondRowNeedsRefusal
  BY DEF IInv
<1> QED
  BY <1>1, LedgerInvariant, PTL

\* The status observers were told is the one that reaches the store, however
\* long the store stays away and whatever is flushed, refused, evicted or
\* cleared, but for the rows a status passed while the message waited.
THEOREM PublishedStatusIsKeptHolds == Spec => []PublishedStatusIsKept
<1>1. IInv => PublishedStatusIsKept
  BY DEF IInv
<1> QED
  BY <1>1, LedgerInvariant, PTL

\* Readers never see an older status than the observers were told, but of a
\* message whose slot was given up for the passed row of a refused append.
THEOREM ReadersSeeLastEventHolds == Spec => []ReadersSeeLastEvent
<1>1. IInv => ReadersSeeLastEvent
  BY LookupIsCurrent DEF ReadersSeeLastEvent, Held, LeftBehind
<1> QED
  BY <1>1, LedgerInvariant, PTL

\* The status the next result is judged against is the last one published.
THEOREM TrackedIsCurrentHolds == Spec => []TrackedIsCurrent
<1>1. IInv => TrackedIsCurrent
  BY DEF IInv
<1> QED
  BY <1>1, LedgerInvariant, PTL

-----------------------------------------------------------------------------
(* The ledger implements OutboxStatus. *)

\* Nothing is promised of a message that was never sent.
LEMMA InitRefines == Init => Outbox!Init
BY StatusValues DEF Init, Outbox!Init, settled, NoStatus

\* A step of the ledger is one announcement, report, retry or act of
\* forgetting of OutboxStatus, or changes no settled status.
LEMMA NextRefines == IInv /\ [Next]_vars => [Outbox!Next]_settled
<1> SUFFICES ASSUME IInv, [Next]_vars PROVE Outbox!Next \/ settled' = settled
  OBVIOUS
<1> USE StatusValues
<1>1. ASSUME NEW k \in Keys, NEW s \in {"Queued", "Failed"}, RecordOutbound(k, s)
      PROVE  Outbox!Next \/ settled' = settled
  <2>1. /\ persistence[k] = "none" /\ announced[k] = NoStatus
        /\ modelOnly' = modelOnly
        /\ announced' = [announced EXCEPT ![k] = s]
        /\ \A j \in Keys \ {k} : persistence'[j] = persistence[j]
    BY <1>1 DEF IInv, TypeOK, Fresh, RecordOutbound
  <2>2. \A j \in Keys \ {k} : announced'[j] = announced[j]
    BY <2>1 DEF IInv, TypeOK, Tables
  <2>3. announced'[k] = s
    BY <2>1 DEF IInv, TypeOK, Tables
  <2>4. settled[k] = NoStatus /\ settled'[k] \in {NoStatus, s}
    BY <2>1, <2>3 DEF settled
  <2>5. settled' = [settled EXCEPT ![k] = settled'[k]]
    <3>1. \A j \in Keys \ {k} : settled'[j] = settled[j]
      BY <2>1, <2>2 DEF settled
    <3> QED
      BY <3>1 DEF settled
  <2>6. CASE settled'[k] = NoStatus
    BY <2>4, <2>5, <2>6 DEF settled
  <2>7. CASE settled'[k] = s
    <3>1. Outbox!Announce(k, s)
      BY <2>4, <2>5, <2>7 DEF Outbox!Announce, NoStatus
    <3> QED
      BY <3>1 DEF Outbox!Next, Statuses
  <2> QED
    BY <2>4, <2>6, <2>7
<1>2. ASSUME NEW k \in Keys, NEW s \in Statuses, WriteAndPublish(k, s), Reported(k, s)
      PROVE  Outbox!Next \/ settled' = settled
  <2>1. /\ announced'[k] = s
        /\ persistence' = persistence
        /\ \A j \in Keys \ {k} : /\ announced'[j] = announced[j]
                                 /\ j \in modelOnly' <=> j \in modelOnly
    BY <1>2 DEF IInv, TypeOK, Tables, WriteAndPublish, WriteStatus, WriteToPendingOutbound,
       WriteToStore, DeferStatus, WriteToModelOnly
  <2>2. settled' = [settled EXCEPT ![k] = settled'[k]]
    BY <2>1 DEF settled
  <2>3. settled'[k] \in {NoStatus, s}
    BY <2>1 DEF settled
  <2>4. CASE settled'[k] = NoStatus
    <3>1. Outbox!Forget({k})
      BY <2>2, <2>4 DEF Outbox!Forget, settled, NoStatus
    <3> QED
      BY <3>1 DEF Outbox!Next
  <2>5. CASE settled'[k] = s /\ settled[k] = NoStatus
    <3>1. Outbox!Announce(k, s)
      BY <2>2, <2>5 DEF Outbox!Announce, NoStatus
    <3> QED
      BY <3>1 DEF Outbox!Next, Statuses
  <2>6. CASE settled'[k] = s /\ settled[k] # NoStatus
    <3>1. settled[k] \in Statuses
      BY <2>6 DEF IInv, TypeOK, Tables, settled
    <3>2. CASE ShouldApplyStatus(settled[k], s)
      <4>1. Outbox!Report(k, s)
        BY <2>2, <2>6, <3>1, <3>2 DEF Outbox!Report, ShouldApplyStatus, Statuses
      <4> QED
        BY <4>1 DEF Outbox!Next, Statuses
    <3>3. CASE settled[k] = "Failed" /\ s = "Queued"
      <4>1. Outbox!Retry(k)
        BY <2>2, <2>6, <3>3 DEF Outbox!Retry
      <4> QED
        BY <4>1 DEF Outbox!Next
    <3> QED
      BY <1>2, <2>6, <3>2, <3>3, SettledIsJudged DEF Reported
  <2> QED
    BY <2>3, <2>4, <2>5, <2>6
<1>3. ASSUME NEW K \in SUBSET Keys, Forgets(K)
      PROVE  Outbox!Next
  <2>1. Outbox!Forget(K)
    BY <1>3 DEF Outbox!Forget, Forgets, settled, NoStatus
  <2> QED
    BY <2>1 DEF Outbox!Next
<1>4. ASSUME Quiet
      PROVE  settled' = settled
  BY <1>4 DEF Quiet, settled
<1>5. FlushPendingWrites \/ FlushRefused => Quiet
  BY DEF FlushPendingWrites, FlushPendingOutbound, FlushPendingStatus, FlushRefused, Quiet
<1> QED
  BY <1>1, <1>2, <1>3, <1>4, <1>5, StepKinds, ForgetKeepsIInv, EnvironmentKeepsIInv

\* The status published for a settled message moves only as OutboxStatus
\* promises: in particular it never leaves Delivered.
THEOREM LedgerImplementsOutbox == Spec => OutboxSpec
<1> QED
  BY InitRefines, NextRefines, LedgerInvariant, PTL DEF Spec, OutboxSpec, Outbox!Spec

-----------------------------------------------------------------------------
(* How far "Delivered is terminal" (chat_service.h:178) holds. *)

\* Delivered is left only by a message whose tracked status is an older one,
\* whose last status reached the model alone, or was left behind by the flush.
DeliveredIsFinal ==
  \A k \in Keys :
    announced[k] = "Delivered" /\ JudgedByLast(k)
      => announced'[k] \in {"Delivered", NoStatus}

\* DeliveredIsTerminal fails in these ways only: a result for a message whose
\* first append was refused is judged against the status it was recorded with,
\* or that of the row the refused append had written, and one for a message
\* that found the pending table full against what the store has.  Late,
\* repeated and ambiguous results do no harm otherwise.
THEOREM DeliveredIsFinalHolds == Spec => [][DeliveredIsFinal]_vars
<1> USE StatusValues
<1>1. IInv /\ [Next]_vars => [DeliveredIsFinal]_vars
  <2> SUFFICES ASSUME IInv, [Next]_vars, NEW k \in Keys,
                      announced[k] = "Delivered", JudgedByLast(k)
               PROVE  announced'[k] \in {"Delivered", NoStatus}
    BY DEF DeliveredIsFinal
  <2>1. ASSUME NEW j \in Keys, NEW s \in {"Queued", "Failed"}, RecordOutbound(j, s)
        PROVE  announced'[k] = announced[k]
    BY <2>1 DEF IInv, TypeOK, Tables, Fresh, RecordOutbound
  <2>2. ASSUME NEW j \in Keys, NEW s \in Statuses, WriteAndPublish(j, s), Reported(j, s)
        PROVE  announced'[k] \in {"Delivered", NoStatus}
    BY <2>2 DEF IInv, TypeOK, Tables, WriteAndPublish, Reported, ShouldApplyStatus,
       Outbox!ShouldApplyStatus
  <2>3. FlushPendingWrites \/ FlushRefused => announced'[k] = announced[k]
    BY DEF FlushPendingWrites, FlushPendingOutbound, FlushPendingStatus, FlushRefused
  <2>4. ASSUME NEW K \in SUBSET Keys, Forgets(K)
        PROVE  announced'[k] \in {"Delivered", NoStatus}
    BY <2>4 DEF Forgets
  <2>5. Quiet => announced'[k] = announced[k]
    BY DEF Quiet
  <2> QED
    BY <2>1, <2>2, <2>3, <2>4, <2>5, StepKinds, ForgetKeepsIInv, EnvironmentKeepsIInv
<1> QED
  BY <1>1, LedgerInvariant, PTL DEF Spec

=============================================================================
