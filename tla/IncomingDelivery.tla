-------------------------- MODULE IncomingDelivery --------------------------
(***************************************************************************)
(* The path of a received text: the adapter's receive queue, the drain     *)
(* loop of ChatService::processIncoming, the SD store that makes the text  *)
(* durable, the queue that holds texts the store could not take, the       *)
(* window of recent texts, and the answer given back to the adapter        *)
(* (IIncomingDeliveryCommitPort).                                          *)
(*                                                                         *)
(* Texts arrive more than once: a sender repeats what it was not           *)
(* acknowledged for, a propagation node offers a text again.  The store    *)
(* comes and goes, a write may fail half way and leave a journal no append *)
(* gets past, the device may reboot.                                       *)
(* ChatService runs on one task; the store and the adapter run beside it.  *)
(***************************************************************************)
EXTENDS Naturals, Sequences, SequencesExt

CONSTANTS
  Messages,         \* texts with an identity (a message id or an LXMF hash),
                    \* none of them longer than the store takes
  Lxmf,             \* those that carry a Reticulum LXMF hash
  Conversations,
  ConversationOf,
  InboxDepth,       \* slots of the adapter's text queue
  DeferredDepth,    \* kDeferredIncomingDepth
  RecentLimit,      \* kRecentIncomingLimit
  DrainBudget,      \* kIncomingDrainBudget
  MaxArrivals,      \* bound: texts delivered to the adapter
  MaxFaults,        \* bound: store writes that fail half way
  MaxReboots,       \* bound: reboots
  MaxClears         \* bound: conversations cleared

ASSUME MessagesAssumption ==
  /\ Lxmf \subseteq Messages
  /\ ConversationOf \in [Messages -> Conversations]
ASSUME BoundsAssumption ==
  /\ {InboxDepth, DeferredDepth, RecentLimit, DrainBudget} \subseteq Nat \ {0}
  /\ {MaxArrivals, MaxFaults, MaxReboots, MaxClears} \subseteq Nat

VARIABLES
  inbox,        \* text_receive_queue_ of the adapter
  drained,      \* texts taken by the current call of processIncoming
  rows,         \* the stored rows of a conversation, oldest first
  seen,         \* the LXMF hashes the store remembers
  torn,         \* the conversations whose last segment has a torn header
  hashesTorn,   \* has seen.delta a torn header?
  storeReady,   \* hydrated, and the persistence lease can be had
  deferred,     \* deferred_incoming_
  recent,       \* recent_incoming_, oldest first
  taken,        \* texts polled from the adapter since boot, and not cleared
  accepted,     \* texts answered commitIncomingText(m, true)
  refused,      \* texts answered commitIncomingText(m, false)
  shown,        \* times a text reached the model and the observers
  arrivals, faults, reboots, clears     \* counters of the environment

store == <<rows, seen>>
damage == <<torn, hashesTorn>>
answers == <<accepted, refused>>
environment == <<arrivals, faults, reboots, clears>>
vars == <<inbox, drained, store, damage, storeReady, deferred, recent, taken, answers, shown,
          environment>>

idle == drained = DrainBudget
row(c) == ToSet(rows[c])

Init ==
  /\ inbox = <<>>
  /\ drained = DrainBudget
  /\ rows = [c \in Conversations |-> <<>>]
  /\ seen = {}
  /\ torn = {} /\ hashesTorn = FALSE
  /\ storeReady \in BOOLEAN
  /\ deferred = <<>>
  /\ recent = <<>>
  /\ taken = {} /\ accepted = {} /\ refused = {}
  /\ shown = [m \in Messages |-> 0]
  /\ arrivals = 0 /\ faults = 0 /\ reboots = 0 /\ clears = 0

-----------------------------------------------------------------------------
(* SdStore *)

\* Mutant: the journal is created anew for each text.
JournalAnew(m) == [rows EXCEPT ![ConversationOf[m]] = <<m>>]

\* appendMessageRecord, unless the latest row of the conversation is m
\* (storedMessageMatches looks no further).
WithRow(m) ==
  LET stored == rows[ConversationOf[m]]
  IN  IF stored # <<>> /\ Last(stored) = m THEN rows
      ELSE [rows EXCEPT ![ConversationOf[m]] = Append(@, m)]

\* rememberReticulumHash, for the messages that have one.
WithHash(m) == seen \cup ({m} \cap Lxmf)

\* The row can be written, or is there already.
RowPossible(m) == WithRow(m) = rows \/ ConversationOf[m] \notin torn

HashPossible(m) == WithHash(m) = seen \/ ~hashesTorn

WriteRow(m) == RowPossible(m) /\ rows' = WithRow(m)

WriteHash(m) == HashPossible(m) /\ seen' = WithHash(m)

\* Mutant: a row that is already stored counts as a failure.
AppendsOnce(m) ==
  /\ storeReady /\ WithRow(m) # rows
  /\ WriteRow(m) /\ WriteHash(m)
  /\ UNCHANGED <<damage, faults>>

\* appendIncomingDurably answers TRUE: row and hash are written.
AppendSucceeds(m) ==
  /\ storeReady
  /\ WriteRow(m) /\ WriteHash(m)
  /\ UNCHANGED <<damage, faults>>

\* The journal of the row, or that of the hash behind it, takes nothing any
\* more: every try answers FALSE, though the store is ready.
AppendBlocked(m) ==
  /\ \/ ~RowPossible(m) /\ UNCHANGED store
     \/ WriteRow(m) /\ ~HashPossible(m) /\ UNCHANGED seen
  /\ UNCHANGED <<damage, faults>>

\* A write fails, at the row, at the hash behind it, or the store ceases to be
\* ready after both.  If the write began a journal, its header may be torn.
AppendFaulty(m) ==
  /\ faults < MaxFaults
  /\ faults' = faults + 1
  /\ \/ /\ UNCHANGED <<store, hashesTorn>>
        /\ torn' \in {torn, torn \cup {c \in {ConversationOf[m]} : WithRow(m) # rows}}
     \/ /\ WriteRow(m)
        /\ hashesTorn' \in {hashesTorn, hashesTorn \/ WithHash(m) # seen}
        /\ UNCHANGED <<seen, torn>>
     \/ WriteRow(m) /\ WriteHash(m) /\ UNCHANGED damage

\* It answers FALSE: the store is not ready, or something was not written.
AppendFails(m) ==
  \/ ~storeReady /\ UNCHANGED <<store, damage, faults>>
  \/ storeReady /\ AppendBlocked(m)
  \/ storeReady /\ AppendFaulty(m)

-----------------------------------------------------------------------------
(* ChatService *)

\* Mutant: the window is consulted only when the store answers.
DuplicateIfAnswered(m, answered) == answered /\ (m \in seen \/ m \in ToSet(recent))

\* isDuplicateIncoming: the store is asked for an LXMF hash, and says no when
\* it cannot answer; then the window is searched.
IsDuplicateIncoming(m, answered) ==
  \/ m \in Lxmf /\ answered /\ m \in seen
  \/ m \in ToSet(recent)

\* Mutant: pending duplicates are not recognised.
NeverDeferred(m) == FALSE

IsDeferredIncoming(m) == m \in ToSet(deferred)

\* Mutant: the ring never wraps.
RememberForEver(m) == recent' = Append(recent, m)

\* RecentIncomingWindow::remember: a ring, the oldest text is overwritten.
RememberIncoming(m) ==
  recent' = Append(IF Len(recent) < RecentLimit THEN recent ELSE Tail(recent), m)

\* commitIncoming: remember, show, and tell the adapter the text is durable.
CommitIncoming(m) ==
  /\ RememberIncoming(m)
  /\ shown' = [shown EXCEPT ![m] = @ + 1]
  /\ accepted' = accepted \cup {m}

\* Mutant: the head leaves the queue whether or not the store took it.
RetryAndForget ==
  /\ idle
  /\ drained' = 0
  /\ \/ deferred = <<>> /\ UNCHANGED <<store, damage, faults, deferred, recent, shown, accepted>>
     \/ /\ deferred # <<>>
        /\ deferred' = Tail(deferred)
        /\ \/ AppendSucceeds(Head(deferred)) /\ CommitIncoming(Head(deferred))
           \/ AppendFails(Head(deferred)) /\ UNCHANGED <<recent, shown, accepted>>
  /\ UNCHANGED <<inbox, storeReady, taken, refused, arrivals, reboots, clears>>

\* processIncoming begins: retryDeferredIncoming offers the oldest deferred
\* text to the store again.
RetryDeferredIncoming ==
  /\ idle
  /\ drained' = 0
  /\ \/ deferred = <<>> /\ UNCHANGED <<store, damage, faults, deferred, recent, shown, accepted>>
     \/ /\ deferred # <<>>
        /\ \/ /\ AppendSucceeds(Head(deferred))
              /\ CommitIncoming(Head(deferred))
              /\ deferred' = Tail(deferred)
           \/ /\ AppendFails(Head(deferred))
              /\ UNCHANGED <<deferred, recent, shown, accepted>>
  /\ UNCHANGED <<inbox, storeReady, taken, refused, arrivals, reboots, clears>>

\* Mutant: a text that finds the deferred queue full is acknowledged.
RefuseByAccepting(m) ==
  IF Len(deferred) < DeferredDepth
  THEN deferred' = Append(deferred, m) /\ UNCHANGED answers
  ELSE accepted' = accepted \cup {m} /\ UNCHANGED <<deferred, refused>>

\* DeferredIncomingQueue::push, or commitIncomingText(m, false) when full.
DeferOrRefuse(m) ==
  IF Len(deferred) < DeferredDepth
  THEN deferred' = Append(deferred, m) /\ UNCHANGED answers
  ELSE refused' = refused \cup {m} /\ UNCHANGED <<deferred, accepted>>

\* The loop of processIncoming takes one text.  The lease is taken anew for
\* the lookup and for the append: the first may miss it, the second get it.
DrainIncoming ==
  /\ drained < DrainBudget
  /\ inbox # <<>>
  /\ drained' = drained + 1
  /\ inbox' = Tail(inbox)
  /\ taken' = taken \cup {Head(inbox)}
  /\ \E answered \in {storeReady, FALSE} :
       LET m == Head(inbox)
       IN  \/ /\ IsDuplicateIncoming(m, answered)
              /\ accepted' = accepted \cup {m}
              /\ UNCHANGED <<store, damage, faults, deferred, recent, shown, refused>>
           \/ /\ ~IsDuplicateIncoming(m, answered)
              /\ IsDeferredIncoming(m)
              /\ UNCHANGED <<store, damage, faults, deferred, recent, shown, answers>>
           \/ /\ ~IsDuplicateIncoming(m, answered)
              /\ ~IsDeferredIncoming(m)
              /\ \/ /\ AppendSucceeds(m)
                    /\ CommitIncoming(m)
                    /\ UNCHANGED <<deferred, refused>>
                 \/ /\ AppendFails(m)
                    /\ DeferOrRefuse(m)
                    /\ UNCHANGED <<recent, shown>>
  /\ UNCHANGED <<storeReady, arrivals, reboots, clears>>

\* pollIncomingText finds nothing: processIncoming returns.
EndDrain ==
  /\ drained < DrainBudget
  /\ inbox = <<>>
  /\ drained' = DrainBudget
  /\ UNCHANGED <<inbox, store, damage, storeReady, deferred, recent, taken, answers, shown,
                 environment>>

\* clearConversation: the deferred queue and the window are emptied whatever
\* conversation their texts belong to; a store that is not ready keeps its rows.
ClearConversation(c) ==
  /\ idle
  /\ clears < MaxClears
  /\ clears' = clears + 1
  /\ deferred' = <<>>
  /\ recent' = <<>>
  /\ rows' = IF storeReady THEN [rows EXCEPT ![c] = <<>>] ELSE rows
  /\ torn' = IF storeReady THEN torn \ {c} ELSE torn
  /\ LET cleared == {m \in Messages : ConversationOf[m] = c} \cup ToSet(deferred)
     IN  /\ taken' = taken \ cleared
         /\ accepted' = accepted \ cleared
  /\ UNCHANGED <<inbox, drained, seen, hashesTorn, storeReady, refused, shown, arrivals,
                 faults, reboots>>

\* clearAllMessages: the files of every protocol go, and with them the hashes.
ClearAllMessages ==
  /\ idle
  /\ clears < MaxClears
  /\ clears' = clears + 1
  /\ deferred' = <<>>
  /\ recent' = <<>>
  /\ rows' = IF storeReady THEN [c \in Conversations |-> <<>>] ELSE rows
  /\ seen' = IF storeReady THEN {} ELSE seen
  /\ torn' = IF storeReady THEN {} ELSE torn
  /\ hashesTorn' = (hashesTorn /\ ~storeReady)
  /\ taken' = {}
  /\ accepted' = {}
  /\ UNCHANGED <<inbox, drained, storeReady, refused, shown, arrivals, faults, reboots>>

-----------------------------------------------------------------------------
(* The environment *)

\* The radio or a propagation node delivers m to the adapter.
Arrive(m) ==
  /\ arrivals < MaxArrivals
  /\ Len(inbox) < InboxDepth
  /\ arrivals' = arrivals + 1
  /\ inbox' = Append(inbox, m)
  /\ UNCHANGED <<drained, store, damage, storeReady, deferred, recent, taken, answers, shown,
                 faults, reboots, clears>>

\* Hydration completes; maintenance takes the lease, or gives it back.
StoreAvailability ==
  /\ storeReady' = ~storeReady
  /\ UNCHANGED <<inbox, drained, store, damage, deferred, recent, taken, answers, shown,
                 environment>>

\* Power loss: rows and hashes stay, and have to be hydrated again.  The boot
\* rebuilds the journal of hashes, if it can remove it; no boot mends a segment.
Reboot ==
  /\ reboots < MaxReboots
  /\ reboots' = reboots + 1
  /\ inbox' = <<>>
  /\ drained' = DrainBudget
  /\ storeReady' = FALSE
  /\ deferred' = <<>>
  /\ recent' = <<>>
  /\ taken' = {}
  /\ hashesTorn' \in {FALSE, hashesTorn}
  /\ UNCHANGED <<store, torn, answers, shown, arrivals, faults, clears>>

Next ==
  \/ RetryDeferredIncoming
  \/ DrainIncoming
  \/ EndDrain
  \/ \E c \in Conversations : ClearConversation(c)
  \/ ClearAllMessages
  \/ \E m \in Messages : Arrive(m)
  \/ StoreAvailability
  \/ Reboot

Spec == Init /\ [][Next]_vars

\* The application loop calls processIncoming again and again.  No fault is
\* met at every try for ever; a torn header is, until it is mended.
FairSpec == Spec /\ WF_vars(RetryDeferredIncoming) /\ WF_vars(DrainIncoming) /\ WF_vars(EndDrain)

-----------------------------------------------------------------------------
(* Properties *)

TypeOK ==
  /\ inbox \in Seq(Messages) /\ Len(inbox) <= InboxDepth
  /\ drained \in 0..DrainBudget
  /\ rows \in [Conversations -> Seq(Messages)]
  /\ seen \subseteq Lxmf
  /\ torn \subseteq Conversations /\ hashesTorn \in BOOLEAN
  /\ storeReady \in BOOLEAN
  /\ deferred \in Seq(Messages) /\ Len(deferred) <= DeferredDepth
  /\ recent \in Seq(Messages) /\ Len(recent) <= RecentLimit
  /\ taken \subseteq Messages /\ accepted \subseteq Messages /\ refused \subseteq Messages
  /\ shown \in [Messages -> Nat]

\* The adapter is told a text is durable only when it is: an LXMF hash is
\* remembered for good (the propagation node forgets the text it is
\* acknowledged), any other text has its row.
AcceptedIsDurable ==
  \A m \in accepted : IF m \in Lxmf THEN m \in seen ELSE m \in row(ConversationOf[m])

\* A text taken from the adapter is never lost between the queues: it is
\* stored, deferred, or given back with a refusal.  (Clearing drops what is
\* deferred.)
TakenIsAccountedFor ==
  \A m \in taken : m \in row(ConversationOf[m]) \cup seen \cup ToSet(deferred) \cup refused

\* No text is shown while it is among the recent ones, whether it comes from
\* the adapter or from the deferred queue.
ShownOncePerWindow ==
  [][\A m \in Messages : shown'[m] > shown[m] => m \notin ToSet(recent)]_vars

\* As long as nothing fails, nothing is cleared and the window is not
\* outgrown, a text has one row and is shown once, however often it arrives
\* and however the store comes and goes.
OnceWhileUndisturbed ==
  /\ faults + reboots + clears = 0
  /\ \A m \in Messages : shown[m] > 0 => m \in ToSet(recent)
  => \A m \in Messages :
      /\ shown[m] <= 1
      /\ Cardinality({i \in DOMAIN rows[ConversationOf[m]] : rows[ConversationOf[m]][i] = m}) <= 1

\* What is supposed of the store, and what is made of its answers, is what
\* TextStore says with nothing lost: a text stays acknowledged as long as its
\* row is there, and row and hash stay until they are cleared.
Contract == INSTANCE TextStore WITH
  Texts <- Messages,
  Hashed <- Lxmf,
  rows <- {m \in Messages : m \in row(ConversationOf[m])},
  hashes <- seen,
  acked <- {m \in accepted : m \in row(ConversationOf[m])},
  lost <- {}

TextStoreSpec == Contract!Spec

\* Once the store stays ready and no journal of it is torn, what was deferred
\* is committed.  Behind a torn one the oldest text is tried again for ever, and
\* those behind it wait with it.
DeferredDrains ==
  <>[](storeReady /\ torn = {} /\ ~hashesTorn) => <>[](deferred = <<>>)

\* docs/reticulum_client_architecture.md:91-94: the LXMF hash is the idempotency
\* key across reboot; a repeated offer cannot create another chat item.
LxmfShownOnce == \A m \in Lxmf : shown[m] <= 1

=============================================================================
