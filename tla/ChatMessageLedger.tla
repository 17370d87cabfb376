-------------------------- MODULE ChatMessageLedger --------------------------
(***************************************************************************)
(* ChatMessageLedger: the bookkeeping of outgoing chat messages between    *)
(* the in-memory ChatModel, a store that may be unavailable for a while    *)
(* (an SD card, a database file) and the observers of delivery events.     *)
(*                                                                         *)
(* A message is a key <<id, protocol>>: two protocols may number two       *)
(* messages alike.  Every table of the code (model, store, pending         *)
(* writes, tracked messages) is a function from keys to the status it      *)
(* holds, NoStatus where it holds no entry.  The uint32_t sequence numbers *)
(* that order the entries of a table are the relations sentBefore and      *)
(* deferredBefore: only the order they give is ever used.                  *)
(*                                                                         *)
(* An append may fail, and the SD store may fail behind the row: the       *)
(* message then waits for an append and has a row as well.                 *)
(***************************************************************************)
EXTENDS Naturals, FiniteSets

CONSTANTS
  Keys,                   \* the outgoing messages, as pairs <<id, protocol>>
  Conversations,
  ConversationOf,         \* the conversation a message belongs to
  PendingOutboundDepth,   \* kPendingOutboundWriteDepth
  PendingStatusDepth,     \* kPendingStatusWriteDepth
  TrackedDepth,           \* kTrackedOutboundDepth
  StoreUpserts,           \* does the store accept a status for a row it lacks?
  HalfStorable            \* bound: the messages whose append may be half done

ASSUME KeysAssumption ==
  /\ IsFiniteSet(Keys)
  /\ ConversationOf \in [Keys -> Conversations]
ASSUME DepthAssumption ==
  /\ PendingOutboundDepth \in Nat
  /\ PendingStatusDepth \in Nat
  /\ TrackedDepth \in Nat
ASSUME StoreAssumption == StoreUpserts \in BOOLEAN
ASSUME BoundAssumption == HalfStorable \subseteq Keys

VARIABLES
  model,            \* ChatModel: the status of the messages it holds
  modelEnabled,     \* ChatService::model_enabled_, true while the chat UI is open
  store,            \* IChatStore: the status of the durable rows
  storeReady,       \* does the store answer now?
  torn,             \* the conversations whose segment has a torn header
  pendingOutbound,  \* messages waiting to be appended to the store
  pendingStatus,    \* status writes waiting for the store
  tracked,          \* the status remembered for the last messages sent
  sentBefore,       \* <<j, k>>: j was recorded before k
  deferredBefore,   \* <<j, k>>: the pending status of j is older than that of k
  announced,        \* the last status published for a message since boot
  persistence,      \* what recordOutbound answered, "none" before the message,
                    \* and "Durable" once a clear or a boot has forgotten it
  modelOnly,        \* messages whose last status reached nothing but the model
  halfStored,       \* messages with a row from an append that answered false
  overtaken         \* messages of these whose row was passed by a status

tables == <<model, store, pendingOutbound, pendingStatus, tracked>>
orders == <<sentBefore, deferredBefore>>
halves == <<halfStored, overtaken>>
vars == <<tables, orders, halves, modelEnabled, storeReady, torn, announced, persistence,
          modelOnly>>

\* The refinement mapping.  A message recorded while the store was away keeps
\* a tracked status that status writes do not refresh, and a status that
\* found the pending table full is remembered by the model alone: neither is
\* promised anything.
settled == [k \in Keys |->
              IF persistence[k] # "Deferred" /\ k \notin modelOnly
              THEN announced[k] ELSE "none"]

Outbox == INSTANCE OutboxStatus WITH Messages <- Keys, status <- settled

Statuses == Outbox!Statuses
NoStatus == Outbox!NoStatus
ShouldApplyStatus(current, next) == Outbox!ShouldApplyStatus(current, next)

-----------------------------------------------------------------------------
(* Tables *)

Tables == [Keys -> Statuses \cup {NoStatus}]

Held(table) == {k \in Keys : table[k] # NoStatus}

\* Mutant: the entry is erased, not reset.
ErasedFrom(table, K) == [k \in Keys \ K |-> table[k]]

Drop(table, K) == [k \in Keys |-> IF k \in K THEN NoStatus ELSE table[k]]

\* The status of an entry changes; what has no entry is left alone.
Refresh(table, k, s) ==
  IF table[k] # NoStatus THEN [table EXCEPT ![k] = s] ELSE table

\* Mutant: writeStatusForProtocol forgets the tracked message.
TrackedLeft(k, s) == tracked

\* tracked->status = status, where the message is tracked.
RefreshTracked(k, s) == Refresh(tracked, k, s)

\* Mutant: an older status stays behind the one the store just took.
PendingStatusLeft(k) == pendingStatus

RemovePendingStatus(k) == Drop(pendingStatus, {k})

\* Mutant: the slot is not released after the append.
PendingOutboundLeft(k) == pendingOutbound

\* pending = PendingOutboundWrite{}
ReleaseOutbound(k) == Drop(pendingOutbound, {k})

\* What recordOutbound answered is past once a clear or a boot has forgotten
\* the message: whatever is found of it after that is what the store has.
Forgotten(K) ==
  [k \in Keys |-> IF k \in K /\ persistence[k] # "none" THEN "Durable" ELSE persistence[k]]

Without(order, K) == {p \in order : p[1] \notin K /\ p[2] \notin K}

Oldest(table, order) ==
  {k \in Held(table) : \A j \in Held(table) : <<j, k>> \notin order}

\* The slots of a table, the oldest of which is given up when it is full.
TrackOutbound(k, s) ==
  LET kept == IF Cardinality(Held(tracked)) < TrackedDepth THEN tracked
              ELSE Drop(tracked, Oldest(tracked, sentBefore))
  IN  [kept EXCEPT ![k] = s]

\* ChatModel holds MAX_MESSAGES_TOTAL messages, sent and received together:
\* one more may cost it the oldest message sent, or a received one.
ModelEvictions == {{}} \cup {{k} : k \in Oldest(model, sentBefore)}

\* A store with a retention limit drops its oldest row when it appends; which
\* of the messages sent that is depends on late appends and received messages.
StoreEvictions == {{}} \cup {{k} : k \in Held(store)}

Stored(k) == storeReady /\ store[k] # NoStatus

\* Mutant: the store refuses the status of a row it has dropped.
StoreAcceptsRowsOnly(k) == storeReady /\ store[k] # NoStatus

\* Does updateMessageStatusForProtocol of the store succeed?
StoreAcceptsStatus(k) == storeReady /\ (StoreUpserts \/ store[k] # NoStatus)

\* The pending append, then the model, then the store.
LookupEntry(k) ==
  CASE pendingOutbound[k] # NoStatus -> pendingOutbound[k]
    [] pendingOutbound[k] = NoStatus /\ model[k] # NoStatus -> model[k]
    [] pendingOutbound[k] = NoStatus /\ model[k] = NoStatus ->
         IF Stored(k) THEN store[k] ELSE NoStatus

\* Mutant: applyPendingStatus is not called.
LookupNoOverlay(k) == LookupEntry(k)

\* lookupMessageForProtocol: the entry found, overlaid with a pending status.
LookupMessage(k) ==
  IF LookupEntry(k) # NoStatus /\ pendingStatus[k] # NoStatus
  THEN pendingStatus[k] ELSE LookupEntry(k)

\* lookupMessage finds the first entry with this id, of whichever protocol.
FoundById(id) ==
  LET ofId(table) == {k \in Held(table) : k[1] = id}
      stored == {k \in Keys : k[1] = id /\ Stored(k)}
  IN  IF ofId(pendingOutbound) # {} THEN ofId(pendingOutbound)
      ELSE IF ofId(model) # {} THEN ofId(model) ELSE stored

-----------------------------------------------------------------------------

Init ==
  /\ model = [k \in Keys |-> NoStatus]
  /\ store = [k \in Keys |-> NoStatus]
  /\ pendingOutbound = [k \in Keys |-> NoStatus]
  /\ pendingStatus = [k \in Keys |-> NoStatus]
  /\ tracked = [k \in Keys |-> NoStatus]
  /\ announced = [k \in Keys |-> NoStatus]
  /\ persistence = [k \in Keys |-> "none"]
  /\ sentBefore = {}
  /\ deferredBefore = {}
  /\ modelOnly = {} /\ halfStored = {} /\ overtaken = {}
  /\ modelEnabled = TRUE
  /\ storeReady \in BOOLEAN
  /\ torn = {}

\* appendDurably writes the row of k.  A refused append may have written one
\* before: the second row is the one a reader finds.
WriteRow(k, s) ==
  /\ storeReady
  /\ ConversationOf[k] \notin torn
  /\ \E evicted \in StoreEvictions : store' = [Drop(store, evicted) EXCEPT ![k] = s]
  /\ overtaken' = overtaken \ {k}
  /\ UNCHANGED torn

\* already_stored: k has the latest row of its conversation (received messages
\* have rows too), and nothing is written, its status neither.
FindRow(k) ==
  /\ Stored(k)
  /\ UNCHANGED <<store, overtaken, torn>>

\* appendDurably answers true.
AppendSucceeds(k, s) ==
  /\ WriteRow(k, s) \/ FindRow(k)
  /\ halfStored' = halfStored \ {k}

\* appendDurably answers false: nothing was written; the header of a new
\* segment was torn; or the row was written and a later step failed.
AppendFails(k, s) ==
  \/ UNCHANGED <<store, torn, halves>>
  \/ /\ storeReady
     /\ \A j \in Held(store) : ConversationOf[j] # ConversationOf[k]
     /\ torn' = torn \cup {ConversationOf[k]}
     /\ UNCHANGED <<store, halves>>
  \/ /\ k \in HalfStorable
     /\ WriteRow(k, s)
     /\ halfStored' = halfStored \cup {k}

\* recordOutbound: the adapter took the message (Queued) or refused it (Failed).
RecordOutbound(k, s) ==
  /\ persistence[k] = "none"
  /\ tracked' = TrackOutbound(k, s)
  /\ \E evicted \in ModelEvictions :
       model' = IF modelEnabled THEN [Drop(model, evicted) EXCEPT ![k] = s] ELSE model
  /\ \/ /\ AppendSucceeds(k, s)
        /\ persistence' = [persistence EXCEPT ![k] = "Durable"]
        /\ UNCHANGED pendingOutbound
     \/ /\ AppendFails(k, s)
        /\ Cardinality(Held(pendingOutbound)) < PendingOutboundDepth
        /\ pendingOutbound' = [pendingOutbound EXCEPT ![k] = s]
        /\ persistence' = [persistence EXCEPT ![k] = "Deferred"]
     \/ /\ AppendFails(k, s)
        /\ Cardinality(Held(pendingOutbound)) >= PendingOutboundDepth
        /\ persistence' = [persistence EXCEPT ![k] = "Rejected"]
        /\ UNCHANGED pendingOutbound
  /\ announced' = [announced EXCEPT ![k] = s]
  /\ sentBefore' = sentBefore \cup ({j \in Keys : persistence[j] # "none"} \X {k})
  /\ UNCHANGED <<pendingStatus, deferredBefore, modelEnabled, storeReady, modelOnly>>

\* writeStatusForProtocol, first branch: the message itself still waits for
\* the store.  The tracked status is left as it was, and so is the row of a
\* refused append.
WriteToPendingOutbound(k, s) ==
  /\ pendingOutbound[k] # NoStatus
  /\ pendingOutbound' = [pendingOutbound EXCEPT ![k] = s]
  /\ overtaken' = overtaken \cup (halfStored \cap {k})
  /\ modelOnly' = modelOnly \ {k}
  /\ UNCHANGED <<store, pendingStatus, deferredBefore, tracked>>

\* Second branch: the store takes the status.
WriteToStore(k, s) ==
  /\ pendingOutbound[k] = NoStatus
  /\ StoreAcceptsStatus(k)
  /\ store' = Refresh(store, k, s)
  /\ tracked' = RefreshTracked(k, s)
  /\ pendingStatus' = RemovePendingStatus(k)
  /\ deferredBefore' = Without(deferredBefore, {k})
  /\ modelOnly' = modelOnly \ {k}
  /\ overtaken' = overtaken \ {k}
  /\ UNCHANGED pendingOutbound

\* Third branch: the status waits for the store, in the slot of the message
\* if it has one.
DeferStatus(k, s) ==
  /\ pendingOutbound[k] = NoStatus
  /\ ~StoreAcceptsStatus(k)
  /\ \/ pendingStatus[k] # NoStatus
     \/ Cardinality(Held(pendingStatus)) < PendingStatusDepth
  /\ pendingStatus' = [pendingStatus EXCEPT ![k] = s]
  /\ deferredBefore' = IF pendingStatus[k] # NoStatus THEN deferredBefore
                       ELSE deferredBefore \cup (Held(pendingStatus) \X {k})
  /\ tracked' = RefreshTracked(k, s)
  /\ modelOnly' = modelOnly \ {k}
  /\ UNCHANGED <<store, pendingOutbound, overtaken>>

\* Fourth branch: no slot is left, but the model took the status and the
\* write counts as done (return deferred || updated).
WriteToModelOnly(k, s) ==
  /\ pendingOutbound[k] = NoStatus
  /\ ~StoreAcceptsStatus(k)
  /\ pendingStatus[k] = NoStatus
  /\ Cardinality(Held(pendingStatus)) >= PendingStatusDepth
  /\ modelEnabled /\ model[k] # NoStatus
  /\ modelOnly' = modelOnly \cup {k}
  /\ UNCHANGED <<store, pendingOutbound, pendingStatus, deferredBefore, tracked, overtaken>>

WriteStatus(k, s) ==
  /\ model' = IF modelEnabled THEN Refresh(model, k, s) ELSE model
  /\ \/ WriteToPendingOutbound(k, s)
     \/ WriteToStore(k, s)
     \/ DeferStatus(k, s)
     \/ WriteToModelOnly(k, s)

\* A write that succeeded is published.
WriteAndPublish(k, s) ==
  /\ WriteStatus(k, s)
  /\ announced' = [announced EXCEPT ![k] = s]
  /\ UNCHANGED <<sentBefore, modelEnabled, storeReady, torn, halfStored, persistence>>

\* applyOutboundStatusForProtocol: a send result, receipt or timeout of k.
ApplyStatusForProtocol(k, s) ==
  LET current == IF tracked[k] # NoStatus THEN tracked[k] ELSE LookupMessage(k)
  IN  /\ current # NoStatus
      /\ ShouldApplyStatus(current, s)
      /\ WriteAndPublish(k, s)

\* applyOutboundStatus: the result names no protocol.  One tracked message of
\* that id decides; with none, or with two, the first one found does.
ApplyStatus(id, s) ==
  LET candidates == {k \in Held(tracked) : k[1] = id}
  IN  \/ /\ Cardinality(candidates) = 1
         /\ \E k \in candidates : /\ ShouldApplyStatus(tracked[k], s)
                                  /\ WriteAndPublish(k, s)
      \/ /\ Cardinality(candidates) # 1
         /\ \E k \in FoundById(id) : /\ ShouldApplyStatus(LookupMessage(k), s)
                                     /\ WriteAndPublish(k, s)

\* ChatService::resendFailedForProtocol: it reads the model, then the store,
\* without the pending writes; the adapter takes the message again, and
\* markRetryQueuedForProtocol puts it back in the queue.
ResendFailed(k) ==
  /\ \/ model[k] = "Failed"
     \/ model[k] = NoStatus /\ storeReady /\ store[k] = "Failed"
  /\ LookupMessage(k) = "Failed"
  /\ WriteAndPublish(k, "Queued")

\* flushPendingWrites(1), run by every processIncoming: the oldest pending
\* message, or if there is none the oldest pending status.
FlushPendingOutbound ==
  /\ \E k \in Oldest(pendingOutbound, sentBefore) :
       /\ AppendSucceeds(k, pendingOutbound[k])
       /\ pendingOutbound' = ReleaseOutbound(k)
       /\ pendingStatus' = RemovePendingStatus(k)
       /\ deferredBefore' = Without(deferredBefore, {k})
  /\ UNCHANGED <<model, tracked, sentBefore, modelEnabled, storeReady, announced,
                 persistence, modelOnly>>

\* The append is refused: the message waits on, and the others behind it.
FlushRefused ==
  /\ \E k \in Oldest(pendingOutbound, sentBefore) : AppendFails(k, pendingOutbound[k])
  /\ UNCHANGED <<model, pendingOutbound, pendingStatus, tracked, orders, modelEnabled,
                 storeReady, announced, persistence, modelOnly>>

FlushPendingStatus ==
  /\ Held(pendingOutbound) = {}
  /\ \E k \in Oldest(pendingStatus, deferredBefore) :
       /\ StoreAcceptsStatus(k)
       /\ store' = Refresh(store, k, pendingStatus[k])
       /\ overtaken' = overtaken \ {k}
       /\ pendingStatus' = RemovePendingStatus(k)
       /\ deferredBefore' = Without(deferredBefore, {k})
  /\ UNCHANGED <<model, pendingOutbound, tracked, sentBefore, modelEnabled, storeReady, torn,
                 halfStored, announced, persistence, modelOnly>>

FlushPendingWrites == FlushPendingOutbound \/ FlushPendingStatus

\* ChatService::clearConversation: ledger, then model, then store.  A store
\* that is not ready keeps its rows.  A pending status is dropped when its
\* message can still be found.
ClearConversation(c) ==
  LET cleared == {k \in Keys : ConversationOf[k] = c}
      found == {k \in cleared : \/ pendingOutbound[k] # NoStatus
                                \/ model[k] # NoStatus
                                \/ Stored(k)}
  IN  /\ pendingOutbound' = Drop(pendingOutbound, cleared)
      /\ pendingStatus' = Drop(pendingStatus, found)
      /\ deferredBefore' = Without(deferredBefore, found)
      /\ tracked' = Drop(tracked, cleared)
      /\ model' = Drop(model, cleared)
      /\ store' = IF storeReady THEN Drop(store, cleared) ELSE store
      /\ torn' = IF storeReady THEN torn \ {c} ELSE torn
      /\ halfStored' = halfStored \ cleared
      /\ overtaken' = overtaken \ cleared
      /\ announced' = Drop(announced, cleared)
      /\ modelOnly' = modelOnly \ cleared
      /\ persistence' = Forgotten(cleared)
      /\ UNCHANGED <<sentBefore, modelEnabled, storeReady>>

\* ChatService::clearAllMessages.
ClearAllMessages ==
  /\ pendingOutbound' = Drop(pendingOutbound, Keys)
  /\ pendingStatus' = Drop(pendingStatus, Keys)
  /\ deferredBefore' = {}
  /\ tracked' = Drop(tracked, Keys)
  /\ model' = Drop(model, Keys)
  /\ store' = IF storeReady THEN Drop(store, Keys) ELSE store
  /\ torn' = IF storeReady THEN {} ELSE torn
  /\ halfStored' = {} /\ overtaken' = {}
  /\ announced' = Drop(announced, Keys)
  /\ modelOnly' = {}
  /\ persistence' = Forgotten(Keys)
  /\ UNCHANGED <<sentBefore, modelEnabled, storeReady>>

\* ChatService::setModelEnabled: the chat UI opens, or closes and the model
\* is emptied.
SetModelEnabled(enabled) ==
  /\ modelEnabled # enabled
  /\ modelEnabled' = enabled
  /\ model' = IF enabled THEN model ELSE Drop(model, Keys)
  /\ UNCHANGED <<store, pendingOutbound, pendingStatus, tracked, orders, halves,
                 storeReady, torn, announced, persistence, modelOnly>>

\* A received message takes the place of the oldest one in the model.
ModelEvicts ==
  /\ \E evicted \in ModelEvictions \ {{}} : model' = Drop(model, evicted)
  /\ UNCHANGED <<store, pendingOutbound, pendingStatus, tracked, orders, halves,
                 modelEnabled, storeReady, torn, announced, persistence, modelOnly>>

\* A received message takes the place of a row in the store.
StoreEvicts ==
  /\ storeReady
  /\ \E evicted \in StoreEvictions \ {{}} : store' = Drop(store, evicted)
  /\ UNCHANGED <<model, pendingOutbound, pendingStatus, tracked, orders, halves,
                 modelEnabled, storeReady, torn, announced, persistence, modelOnly>>

\* The card is taken or given back, a lease times out, hydration completes.
StoreAvailability ==
  /\ storeReady' = ~storeReady
  /\ UNCHANGED <<tables, orders, halves, modelEnabled, torn, announced, persistence,
                 modelOnly>>

\* Power loss: only the store survives, and it has to be hydrated again.  No
\* boot mends the header of a segment.
Reboot ==
  /\ model' = Drop(model, Keys)
  /\ pendingOutbound' = Drop(pendingOutbound, Keys)
  /\ pendingStatus' = Drop(pendingStatus, Keys)
  /\ deferredBefore' = {}
  /\ tracked' = Drop(tracked, Keys)
  /\ announced' = Drop(announced, Keys)
  /\ modelOnly' = {} /\ halfStored' = {} /\ overtaken' = {}
  /\ modelEnabled' = TRUE
  /\ storeReady' = FALSE
  /\ persistence' = Forgotten(Keys)
  /\ UNCHANGED <<store, torn, sentBefore>>

Next ==
  \/ \E k \in Keys, s \in {"Queued", "Failed"} : RecordOutbound(k, s)
  \/ \E k \in Keys, s \in Statuses : ApplyStatusForProtocol(k, s)
  \/ \E id \in {k[1] : k \in Keys}, s \in Statuses : ApplyStatus(id, s)
  \/ \E k \in Keys : ResendFailed(k)
  \/ FlushPendingWrites
  \/ FlushRefused
  \/ \E c \in Conversations : ClearConversation(c)
  \/ ClearAllMessages
  \/ \E enabled \in BOOLEAN : SetModelEnabled(enabled)
  \/ ModelEvicts
  \/ StoreEvicts
  \/ StoreAvailability
  \/ Reboot

Spec == Init /\ [][Next]_vars

\* Every pass of the application loop calls processIncoming, and with it
\* flushPendingWrites.  A store that is ready and not torn may refuse an
\* append any number of times, but not every one for ever.
FairSpec == Spec /\ WF_vars(FlushPendingWrites)

-----------------------------------------------------------------------------
(* Properties *)

\* The tables hold statuses, and the orders are strict orders on them.
TypeOK ==
  /\ model \in Tables /\ store \in Tables
  /\ pendingOutbound \in Tables /\ pendingStatus \in Tables
  /\ tracked \in Tables /\ announced \in Tables
  /\ sentBefore \subseteq Keys \X Keys
  /\ deferredBefore \subseteq Keys \X Keys
  /\ modelEnabled \in BOOLEAN
  /\ storeReady \in BOOLEAN
  /\ persistence \in [Keys -> {"none", "Durable", "Deferred", "Rejected"}]
  /\ modelOnly \subseteq Keys /\ halfStored \subseteq Keys /\ overtaken \subseteq Keys
  /\ torn \subseteq Conversations

\* A message that waits for the store has a row there only if an append that
\* was refused has written it: nothing else makes the flush write a second
\* row.  It has no status write of its own that the flush would drop.
SecondRowNeedsRefusal ==
  \A k \in Held(pendingOutbound) :
    /\ store[k] # NoStatus => k \in halfStored
    /\ pendingStatus[k] = NoStatus

\* What observers were told survives the flush: the newest status wins
\* wherever the message waits, and the row of a message with no status pending
\* holds the last one published for it, unless a status passed that row while
\* the message waited for a refused append.
PublishedStatusIsKept ==
  \A k \in Held(announced) \ modelOnly :
    /\ pendingOutbound[k] \in {NoStatus, announced[k]}
    /\ pendingStatus[k] \in {NoStatus, announced[k]}
    /\ pendingStatus[k] = NoStatus /\ k \notin overtaken
         => store[k] \in {NoStatus, announced[k]}

\* Messages whose slot the flush gave up for a row with an older status.
LeftBehind == {k \in overtaken : pendingOutbound[k] = NoStatus}

\* Any path a reader takes to a message (pending append, model, store, with
\* or without a pending status) shows the last status published for it, again
\* but for a row that was passed before its append was told to be done.
ReadersSeeLastEvent ==
  \A k \in Held(announced) \ (modelOnly \cup LeftBehind) :
    LookupMessage(k) \in {NoStatus, announced[k]}

\* The tracked status, which decides what the next result may do, is the last
\* one published, for every message the store took when it was sent.
TrackedIsCurrent ==
  \A k \in Held(tracked) \ modelOnly :
    persistence[k] # "Deferred" => tracked[k] = announced[k]

\* The ledger implements the promise of OutboxStatus for settled messages: no
\* interleaving of results, flushes, evictions and store outages moves the
\* published status along a transition shouldApplyStatus forbids.
OutboxSpec == Outbox!Spec

\* chat_service.h:178 says of every sent message "Delivered is terminal".
DeliveredIsTerminal ==
  [][\A k \in Keys : announced[k] = "Delivered" => announced'[k] \in {"Delivered", NoStatus}]_vars

\* Once the store stays ready and no segment is torn, the pending tables
\* empty, whatever statuses and sends still arrive and whichever appends are
\* refused: no entry blocks the one behind it for ever.
PendingWritesDrain ==
  <>[](storeReady /\ torn = {})
    => <>[](Held(pendingOutbound) = {} /\ Held(pendingStatus) = {})

=============================================================================
