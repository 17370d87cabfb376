# Trail Mate: specifications, model checking and proofs

TLA+ models of the core logic of Trail Mate (a handheld messenger for
Meshtastic, MeshCore, RNode and Reticulum/LXMF networks), the TLC runs that
check them on small instances, and TLAPS proofs of their main properties for
every value of the constants. Every definition is translated from the source;
`PROJECT.json` names the lines each one stands for.

## 1. Inventory of the system

| Component | State it keeps | Operations | What is hard |
|---|---|---|---|
| `core_chat` message ledger (`chat_message_ledger.cpp`) | pending appends, pending statuses, tracked messages | record, apply status (by id, by protocol), mark retry, flush, clear | results in any order, stale copies, full tables, a store that comes and goes and may refuse an append behind the row it wrote |
| `core_chat` outbox policy (`chat_outbox_service.cpp`) | none | `shouldApplyStatus` | which status may replace which |
| `core_chat` chat service (`chat_service.cpp`) | recent window, deferred queue, active protocol | send, resend, `processIncoming`, clear, enable model | duplicates, durable acknowledgement, retries |
| `core_chat` chat model (`chat_model.cpp`) | conversations, messages, unread counts | append, evict, update status, mark read | eviction against counters |
| `core_chat` read-state ledger | unread counts pending for the store | mark read, flush | store away when a conversation is read |
| SD chat store (`sd_store.cpp`, `fixed_slot_journal.cpp`) | message segments; catalog, read marks and LXMF hashes as snapshot and delta; their copies in memory; persistence lease | append, set unread, clear, hydrate, reconcile, rebuild, compact | power loss between any two file operations, failed and repeated steps, a card that denies what it has |
| other chat stores (SQLite, RAM, internal flash) | rows, statuses | append, update status, clear | retention |
| LXMF adapter, propagation client (ESP) | links, receive queues, pending commits | poll, commit, sync | loss, repetition, sockets and radios |
| LXST call state machine (`lxst_call_state_machine.cpp`) | phase, profile, mode, statuses | `dispatch` of thirteen events | two ends over a lossy link, phase timeouts |
| call runtime (`reticulum_call_runtime.cpp`) | one call snapshot, hangup request, audio queues | begin, accept, hang up, prepare media, notify | UI task, mesh task and audio workers, hooks called outside the lock |
| Wi-Fi access policy (`platform_ui_wifi_access_runtime.cpp`, ESP) | owner of the one HTTP transaction, call phase, announced download, non-preemptible flag, revoke generation | acquire, release, poll, call hooks, on and off | one radio for downloads, firmware writes, calls and pairing |
| VMP voice session, inbox, FEC (`core_chat/infra/voice`) | session state, windows | dispatch, receive blocks | windows and timeouts |
| `core_team` pairing (`team_pairing_coordinator.cpp`) | state, leader, nonce, attempts, key | start, stop, packets, update | loss, reorder, two leaders, restarts |
| `core_team` service, controller, track sampler | keys, members, track | encrypt, decode, sample | mostly encoding and forwarding |
| `core_mesh` | peers, duplicate table, session | route, receive, deduplicate | table limits |
| `core_phone` | BLE phone sessions | request, reply | framing |
| `core_hostlink` | handshake state and deadline | frame, handshake | 32-bit clock |
| `core_sys` asynchronous queues | command, event, effect queues | enqueue, pop, cancel | deadlines, full queues |
| `core_gps`, `core_device`, `product_composition` | filters, tables | update | sequential |
| `ui_*`, `platform`, `apps`, `boards` | widgets, drivers, tasks | | I/O, rendering |

How the modelled parts interact. The UI calls `ChatService`; `ChatService`
calls the adapter of the active protocol (send), the `ChatMessageLedger` (record,
apply, retry) and the stores. The application loop calls
`ChatService::processIncoming`, which flushes pending writes, retries deferred
texts, polls the adapter and answers it (`IIncomingDeliveryCommitPort`).
Adapters report send results and receipts back through
`ChatService::handleSendResult` to the ledger, which publishes delivery events.
Pairing runs beside chat: packets come from ESP-NOW, the key it obtains goes to
the team service. A call is run by the mesh task: the LXMF adapter feeds link
events, signals and timers of a link session to the call state machine, executes
the actions it answers with, and tells the call runtime, which the UI task and
the audio workers share. The hooks of the call runtime (ringing, exclusive,
closing, end) take and return the call phase of the Wi-Fi access policy; the
exclusive phase revokes the leases of HTTP clients, which notice at their next
poll. The firmware update may not be interrupted while it writes, and team
pairing turns Wi-Fi off and takes the radio for ESP-NOW.

What makes each modelled part correct:

- ledger: an observer never sees a status undone; pending writes neither
  duplicate a row nor bring back an old status, and every reader sees the status
  last published, but where the store refused an append and kept its row; the
  copies agree; pending writes are written in the end;
- incoming path: a text acknowledged to the network is durable, none is lost
  between two queues, none is shown twice, deferred texts are committed;
- pairing: leader and member agree on which session and which key, and every
  session ends;
- calls: a device is in one call at most, microphone and speaker run only for an
  answered call, both ends agree that it is one, and every session ends;
- call runtime: whichever task reaches it between two critical sections, no call
  takes over another or inherits its consent; the exclusive lease and the media
  always belong to a call or to a task that is about to return them; a hang-up
  reaches the link;
- Wi-Fi: one HTTP transaction at a time, one that was preempted never takes its
  lease back for valid and lets go, and a call gets the gateway in the end if no
  batch of images waits for memory for ever;
- SD store: an acknowledged text is in its segment, listed, and known by its hash,
  and a read mark once set is found, whichever file operation was the last before
  the power went or failed.

`PROJECT.json` lists every component, modelled or not, and the hazards of the
code line by line.

## 2. Plan

1. Message ledger and its abstract specification (this directory).
2. Incoming path (this directory).
3. Team pairing (this directory).
4. Calls between two devices, `LxstCall` (this directory).
5. The call runtime under its three tasks, `CallRuntime`, with the abstract
   specification `CallOwnership` that it shares with `LxstCall` (this directory).
6. Who may use the Wi-Fi radio, `WifiAccess` (this directory).
7. The SD store's files, `SdStore`: crash, partial failure and repetition of every
   file operation (this directory).
8. Next: the VMP voice session, with its control and outbound workers, the radio
   lease and the MQTT uplink (what is already known is under "Seen while
   modelling").
9. `ChatModel` with the read-state ledger: unread counts against eviction,
   status updates and a store that is away, in lockstep with the durable ones.
10. Asynchronous command queue, host link handshake with a clock of 2^w ticks.
11. Composition: the ledger and the incoming path behind one `processIncoming`
    sharing one model and one store.

Abstract specifications: `OutboxStatus`, `CallOwnership` and `TextStore`, the
contract of the incoming path and the store under it (done). Theorems: the
inductive invariant of each module, its safety properties, each refinement, what
each abstract specification means, and how far the rules of the documents hold
that a run refutes; all of these are proved for the modules of items 1 to 7.

## 3. Modules

### OutboxStatus and ChatMessageLedger

`OutboxStatus` is the promise: the published status of a message moves only
along the transitions of `shouldApplyStatus`, or from Failed to Queued by a
resend, or is forgotten. `ChatMessageLedger` is the code. A message is a pair
of id and protocol; each table is a function from messages to the status it
holds or `NoStatus`; the sequence numbers are the order relations they induce.

| Model | Code |
|---|---|
| `RecordOutbound` | `recordOutbound`, `enqueuePendingOutbound`, `trackOutbound`, `ChatModel::onSendQueued` |
| `ApplyStatusForProtocol`, `ApplyStatus` | `applyOutboundStatusForProtocol`, `applyOutboundStatus` |
| `WriteToPendingOutbound`, `WriteToStore`, `DeferStatus`, `WriteToModelOnly` | the four exits of `writeStatusForProtocol` |
| `ResendFailed` | `ChatService::resendFailedForProtocol` with `markRetryQueuedForProtocol` (`resendFailed` reaches the same call for the active protocol) |
| `FlushPendingOutbound`, `FlushRefused`, `FlushPendingStatus` | `flushPendingWrites(1)`, the append taken or refused |
| `WriteRow`, `FindRow`, `AppendSucceeds`, `AppendFails` | `SdStore::appendDurably`: the row, `already_stored`, and the places where it answers false |
| `ClearConversation`, `ClearAllMessages`, `SetModelEnabled` | the `ChatService` calls with the ledger, model and store they clear |
| `ModelEvicts`, `StoreEvicts` | what a received message may displace |
| `StoreAvailability`, `Reboot` | `isReady`, leases, hydration; loss of all volatile tables |

A failed status write changes nothing and is a stutter. `StoreUpserts` tells the
two kinds of store apart: the SD store keeps a status projection for any id, the
RAM, SQLite and flash stores refuse a status for a row they lack.
`announced`, `persistence` and `modelOnly` are history: what was last published,
what `recordOutbound` answered (past once a clear or a boot has forgotten the
message), and which messages have their last status in the model only.

An append is not atomic. `appendInternal` may write the row and answer false
behind it (a flush that fails, a state mutex it does not get, a store that ceased
to be ready): the message then waits with a row. `halfStored` has these messages,
and `overtaken` those of them that got a status while they waited, which
`writeStatusForProtocol` writes to the pending append alone. The next append of
the message either finds its row to be the latest of the conversation
(`FindRow`, `already_stored`), keeps the old status of that row and drops the
newer one, or writes a second row (`WriteRow`) because a received message came in
between. Where the segment is begun, its header may be torn (`torn`); from then on
that conversation takes no row until it is cleared. That the header of a later
segment is torn is left out: a segment has more slots than the instance messages.

### IncomingDelivery

The adapter's text queue, one text per `DrainIncoming` step, the append of
`SdStore` (row, then hash, then the readiness check), the deferred queue, the
window, and the answer to the adapter. `AppendFails` covers every point where
the write may stop, and tells a fault (`AppendFaulty`, which the next try may not
meet) from a journal that takes nothing any more (`AppendBlocked`): a segment with
a torn header refuses every row of its conversation until that is cleared, a
`seen.delta` with one every new hash until a boot rebuilds it, while the store
says it is ready. With the second each try may write the row again. The store's lease is taken anew for the duplicate lookup
and for the append, so the lookup may miss a store that the append finds.
`shown`, `accepted`, `refused` and `taken` are history. Message text, transport
metadata and observers are left out; so are texts without an identity, which
the code never treats as duplicates, and the active protocol, which tags a text
when it is drained. No text of `Messages` is longer than the store takes (section
4, "Seen while modelling").

### TextStore

The contract between the two modules around it: what
`IChatStore::appendIncomingDurably` promises, seen from above and from below. Its
state is which texts have a row, which have their hash kept, which are
acknowledged and not cleared since, and which are given up. A text is
acknowledged only when row and hash are there, and neither goes away but through
a clear or a rebuild, or as a loss that the implementation names.

`IncomingDelivery` implements it with nothing lost: `acked` is the accepted texts
that still have their row. `SdStore` implements it with the losses it records,
at every step of an operation on its files: rows are what the segments have,
hashes what a boot would find (`InFiles`, with `Base`, the snapshot or its backup).
So what the incoming path takes for one step of its store is what the files do in
many, with power losses between them. The contract shows one difference: a
rebuild of the hash index forgets texts that have no row any more, so after a
clear and a rebuild the store takes for new what `IncomingDelivery` still knows.
`Rebuild` allows it, and no property of the incoming path says otherwise.

### TeamPairing

All devices run the coordinator; `air` is every packet ever sent, so a packet is
lost if it is never received, and repeated or reordered at will. Nonces are
drawn without repetition (32 random bits in the code). Timers may fire whenever
they are armed. Completed and Failed are left for Idle within the handler that
enters them. Names, transport setup and the one-packet receive slot of the
ESP-NOW wrapper (loss) are left out.

### LxstCall

A link is one call attempt, with a record of session state and phase for each of
its ends. The mesh task of a device runs one handler at a time, so a handler is
one action, with every send and every media step that may fail inside it: a
failed send is an `OperationFailed` event that closes the link in the same step.
A packet that is never received is lost; a session that is over has wiped its
keys and receives nothing.

| Model | Code |
|---|---|
| `Dial` | `startReticulumAudioCall`, `makeCaller`, `begin_outgoing` |
| `AdmitRequest`, `RejectBusy` | `handleLinkRequestPacket`, `makeCallee`, `begin_incoming_identifying` |
| `LinkProof`, `LinkRtt` | `handleLinkProofPacket`, the LrRtt branch of `handleLinkDataPacket`, the `LinkActive` event |
| `Available`, `Ringing`, `Connecting`, `Established`, `Refused` | `handleCallerSignal` with the actions `dispatchLxstCallEvent` executes |
| `LinkIdentify` | the LinkIdentify branch, `RemoteIdentified`, `AdmissionGranted` or `AdmissionDenied` |
| `RetryAvailable`, `Accept`, `Hangup` | `pumpReticulumAudioCall` |
| `RemoteClose` | the LinkClose branch |
| `Timeout`, `HandshakeTimeout`, `StaleTimeout`, `MarkStale`, `Reactivate`, `RemoveExpired` | `cullLinkSessions` and `advanceLinkSessionLifecycle`; keepalive answers |
| `Evict` | `LinkManager::ensureCapacity`: another link is opened while the table of twelve is full, and its first session is erased |
| `CloseSession`, `NotifyLinkClosed` | `closeLinkSession`, `notify_link_closed` |

CallerConnecting entered by ESTABLISHED, CalleeAwaitingAdmission,
CalleeConnecting and Closing are entered and left within one handler and are no
states of the model. `current` and `onAir` are all that is kept of the call
runtime: which link owns it, and whether it is in ActiveCall. `answered` is
history. The clock is left out: a timer may fire whenever it is armed. So are the
other sessions of the table: a live session may be evicted at any moment, but by a
call request that is answered BUSY, which preserves the call in hand.
Codec profile, duplex mode and the audio itself are left out, and so are the
optional MeshChat wire profile and peers that are not this firmware.

### CallOwnership and CallRuntime

`CallOwnership` is the promise: a device has one call at most, media only after
the user dialled or answered that very call, and the end of a call takes both
away. `CallRuntime` is `reticulum_call_runtime.cpp` cut at its critical sections:
an action is one stretch under `s_state.mutex`, or one hook run without it.
`task` says for the UI task, the mesh task (under the router's lock) and an
audio worker what comes next, for which link, and what follows the operation.

| Model | Code |
|---|---|
| `CloseLocked`, then `StopMedia`, `BeginClosing` or `EndRealtime` | `close_call`, its lock and its hooks |
| `CloseAsking`, `CloseTold` | its callers after a failure, and `notify_link_closed` |
| `LinkRequest`, `LinkIdentify`, `Identify`, `SoftPreempt`, `Ring`, `Alert` | `begin_incoming_identifying`, `mark_incoming_ringing`, the ringing hook and tone |
| `MarkLinkActive`, `ConnectMedia`, `Prepare`, `Reserve`, `Start`, `Activate` | `mark_link_active`, `prepare_media`, `start_media_if_needed`, `mark_call_active` |
| `CloseLink`, `LinkLost`, `NotifyClosed`, `Forget` | `closeLinkSession`, `notify_link_closed`, the session's removal |
| `ConsumeHangup`, `Pump` | `consume_hangup_request` and what `pumpReticulumAudioCall` does with it |
| `Accept`, `AcceptExclusive`, `AcceptCheck` | `accept`, with the lease taken between two looks |
| `Dial`, `DialExclusive`, `DialStart` | `startReticulumAudioCall`, `begin_outgoing` |
| `Hangup`, `Tick`, `Guard` | `hangup` and `reject`, the call page, `applyCallRealtimeResourceGuard` |
| `WorkerFails`, `MediaFailed`, `WorkersLeave` | the audio workers |

A link session is reduced to its direction and what is left of it; `LxstCall`
has the protocol. The dialler holds the router's lock, so mesh steps wait for it
(`MeshIsFree`). Idle, Ended and Failed are one state, because no guard tells
them apart. Peer names, codec, mute, audio packets and counters are left out.

### WifiAccess

The critical sections of `platform_ui_wifi_access_runtime.cpp` and the steps of
its users between them. `at` says where each client's worker is; `fresh` is the
set of clients whose lease carries the present `revoke_generation`, so a
revocation empties it.

| Model | Code |
|---|---|
| `Acquire`, `AskCall`, `AskHttp`, `Release` | `acquire` with its two looks (call, then HTTP), `release` |
| `Connect`, `ConnectCall`, `Poll`, `Read` | `ensure_connected`, the poll point and read loop of the HTTP client |
| `EnterCritical`, `LeaveCritical`, `Restart` | `ScopedNonPreemptibleActivity` in the firmware update, and its reboot |
| `BeginForeground`, `SetPending`, `EndBatch` | `begin_foreground_download` and the scope of a route batch |
| `EnterCallRinging`, `EnterCallExclusive`, `EnterCallClosing`, `ExitCall` | the call's hooks, in any order (`CallRuntime` shows how late one may be) |
| `TurnOff`, `TurnOn` | `apply_enabled` |
| `BeginPairing`, `ReserveRadio`, `EndPairing` | the ESP-NOW transport |

`preempted` is history: transactions a call or the user cut short. Left out: the
screen phase (it only defers), connect back-off, traffic budgets, the settle time
after a download, and connections that are no transaction.

### SdStore

The SD store after the files it keeps, for one protocol. The message segments are
the authority; the catalog, the read marks and the LXMF hashes are projections,
each a snapshot with a delta behind it, and temp and backup files while a
snapshot is replaced. `segment` and `files` are on the card, `ram`, `hot`, `ready`
and `dirty` in memory, and `op` or `maint` says who holds the persistence lease
and what it does next: the caller in one of its operations, or the storage owner,
which hydrates after a boot and compacts when the screen sleeps.

A step is one operation on one file, or one replacement, with every outcome the
code can leave: the file as it was, as it should be, torn, truncated or gone, and
what the caller is told. An outcome has a cost, the number of things that went
wrong in it; `troubles` limits them between two power losses. A power loss in the
middle of an operation is a failing outcome and a `PowerLoss` after it.

| Model | Code |
|---|---|
| `AppendTo`, `CreateAndAppend`, `Damaged` | `FixedSlotJournalEngine::append`, `create`, `inspect` |
| `Repair`, `PutSlotRepaired`, `PutRow` | `repairPartialJournal` and the appends that call it |
| `AppendRow`, `RememberHash`, `ListConversation` | `appendInternal`: the row, the hash, the catalog entry, then the acknowledgement |
| `MarkRead`, `Relist` | `setUnread`: the mark, then the catalog entry |
| `Clear`, `Unlist`, `Unmark` | `clearConversation`: the directory, then two tombstones |
| `BeginHydration`, `Recover`, `Replay`, `LookAtSeen`, `FinishHydration` | `stepHydration`, `recoverAtomicFile`, `applyHydrationJournalSlot` |
| `RebuildSeen`, `ReplaceFile`, `SeenDeltaAfter` | `stepSeenRebuild`, `replaceFileAtomically` |
| `ReconcileConversation` | `stepConversationDirectoryReconcile` for one directory |
| `BeginCompaction`, `Inspect`, `Create`, `WriteRecord`, `Replace`, `RemoveDelta` | the phases of `stepCompaction` |
| `Stop`, `PowerLoss` | `cancelMaintenance`; a boot |

`fate`, `marks` and `lost` are history: what became of each text, which marks a
user may find, and what one of the weaknesses listed at the end of section 4 gave
up. The properties excuse what is in `lost`, and `marks` admits any mark where a
weakness left a stale one. As long as nothing fails, no acknowledged text needs an
excuse, however often the power goes (`PowerLossLosesNothing`, section 5). Clocks and thresholds
are left out (a delta may be due at any time); so are unread counts and previews,
which are derived from rows and marks, the status projection (the store's side of
the ledger's model), reading pages, `clearAll`, the capacity of `seen_hot_`
(behind it the files are searched), and a state mutex that times out.

## 4. Runs

| Run | Shows | Bounds and why they suffice |
|---|---|---|
| `Ledger` | the ledger's invariants, `OutboxSpec` and `PendingWritesDrain` | two messages with one id in two protocols; every table one slot, so that each is full, overflows and evicts; a store that upserts, as the SD store does, and tears headers; one of the two may have a half-done append (`HalfStorable`; nothing tells the two apart; 373 000 states), which meets every status, flush, clear and outage, and the other message. Interactions are between a message, its competitor for a slot, and the order of the two. A store that refuses unknown rows is covered by the proofs, which leave `StoreUpserts` open; with it `PendingWritesDrain` does not hold (below, "Seen while modelling") |
| `LedgerTerminal` | a finding, below | |
| `Incoming` | durability, no loss, no duplicate, drain, `TextStoreSpec` | two LXMF texts in one conversation and a radio text in another; queues of one, window of two, so that queue and window overflow; four arrivals (488 000 states), one failing or tearing write, one reboot, one clear. Five arrivals were explored once (1.8 million states), with the same result |
| `IncomingReboot` | a finding, below | |
| `Pairing` | `KeyAgreement`, `SessionsEnd` | three devices (two leaders and a member, or two members), two keys of one team, three sessions, three nonces, two join attempts: a join, the join that replaces it, and one more for a second leader or member. Four nonces were explored too, with the same result |
| `Call` | one call per device, no media before an answer, no one-sided call, identity before ringing, every session ends, `OwnershipSpec` for each device | two devices, each may dial the other: both ends, glare, and a busy rejection; every order and loss of the twelve packets of a call, and an eviction at any moment. A third device dialling one of the two was explored once for the safety properties (2.4 million states) and showed nothing new |
| `CallExpiry` | a finding, below | |
| `Runtime` | media and exclusive lease belong to a call, `OwnershipSpec`, hang-ups and suspensions take effect | two links (62 000 states): a call that is closing and the next one, or two at once; the three tasks are each inside one operation at most, so every pair of windows meets |
| `RuntimeLease` | a finding, below | one link |
| `Wifi` | one transaction, a preempted one stays revoked and lets go, a call gets the gateway | the announcing client, the firmware update and one other client (36 000 states): every pair of workers competes, with the call's operations in any order; a batch of images that ends or does not |
| `WifiPairing` | a finding, below | |
| `SdStore` | acknowledged texts are found and listed, their hashes kept, read marks kept, `TextStoreSpec` | one conversation, two texts (which nothing tells apart, hence the symmetry), three rows, one trouble per boot and one power loss (1.4 million states): a failure, the retry after it, the crash, and one more failure in the recovery. Every file has at most one other row or slot behind which to be lost; conversations meet only in the plan of a compaction. Two conversations with one text each were explored once, with the same result |

`OnceWhileUndisturbed` states what holds until something fails, is cleared or
leaves the window; `ShownOncePerWindow` holds always.

Fairness. `FairSpec` of the ledger and of the incoming path gives weak fairness
to what every pass of the application loop does: `updateCoreServices`
(`app_runtime_support.cpp:408`) and `LinuxAppServices` call `processIncoming`
again and again. The ESP loop skips it while a call holds the realtime
resources, so the liveness properties assume that calls end. Nothing is assumed
of the radio or the user, and of the store what the drain properties have as
hypothesis: in the end it stays ready and none of its journals has a torn header
(`torn`, `hashesTorn`). Such a store may still refuse an append any number of
times, the ledger's behind the row as well, but not every one for ever: for the
ledger that is the fairness of `FlushPendingWrites`, for the incoming path the
bound on faults. Behind a torn header every try fails, and nothing is promised of
the entries that wait. `SessionsEnd` assumes only that the clock
advances and `update` is called, which the pairing service does every pass.
`EveryCallEnds` assumes `Expires` only: that a clock which cannot be put off is
looked at in the end. `cullLinkSessions` does so on every pass of the mesh task:
the phase limit, the handshake limit, the lifetime of an Active session, and the
last wait of a Stale one once the other end has stopped sending (while it is
Active, what it sends still puts that wait off). No packet, no user and no
keepalive is assumed.
`CallFairness`: a task that has begun an operation goes on with it (the three
are tasks of the scheduler, and no hook waits without limit); the mesh pass,
whenever the router's lock comes free, takes the hang-up request, and the UI
loop runs its guard, hence strong fairness for both. Nobody need answer, dial or
hang up. `WifiFairness`: a worker goes on with its transaction (reads have time
limits) and the firmware update with its step. Nothing is assumed of calls,
pairing or the user, nor that a batch of images ends: on low memory its worker
waits, and tries the same image again, without a bound and before it asks for
HTTP. `CallGetsGateway` has as hypothesis that there is no batch again and again.
Deadlock is not checked in `Pairing`, `Wifi` and the call runs: sessions and
calls are bounded or wait for a user, and when all are over nothing is left to do.

### Findings

1. `LedgerTerminal`. `chat_service.h:178` says "Delivered is terminal". A
   message recorded while the store is away keeps the tracked status it was
   recorded with, because the first exit of `writeStatusForProtocol` does not
   refresh it; a Failed after a Delivered is then published. Two other ways are
   left and no more (`DeliveredIsFinalHolds`): a message that found the pending
   table full, and one whose status the flush dropped for the row of a refused
   append.
2. `IncomingReboot`. `docs/reticulum_client_architecture.md:91` makes the LXMF
   hash the idempotency key across reboot. Until the store is hydrated it
   answers "not a duplicate"; the text is deferred, and the retry does not ask
   again.
3. `CallExpiry`. `docs/reticulum_client_architecture.md:142` has an Active call
   close when its link does. `removeExpiredLinkSessions` erases a call's session
   after ten minutes, or five of silence, and `LinkManager::ensureCapacity` the
   first session of a full table, whatever it is for. Neither closes it: no packet,
   no event, and the runtime stays in the call, media and Wi-Fi lease included,
   until the user hangs up (`LostCallHeldUntilHangup`); the other end waits for its
   own clock. No third step takes the link from a call (`OnlyErasureLosesLink`).
   The run's trace is the shortest: a device dials, and its session is evicted.
4. `RuntimeLease`. Line 144 of the same document releases the leases when Closing
   completes. The closing hook of a hang-up runs after the lock is gone; if the
   mesh task ends the call first, the hook then puts the Wi-Fi lease back into
   its closing phase, and GPS, radio receive and MQTT stay suspended until
   another call ends. There is one other way to it and no third
   (`LeaseLeftByTwoSteps`): `close_call` on a call that is over, by a second press
   of hang-up or a media failure that comes late, puts the runtime back into
   Closing, and the pump's LocalHangup is refused by a session that is Closed
   already, so nobody ends it.
5. `WifiPairing`. A comment in `team_pairing_transport_espnow.cpp:217` has pairing
   reserve the radio against the settings switch. The reservation is one flag
   that the firmware update also sets and clears: a write that ends during
   pairing gives it up. The end of pairing gives up that of a write in the same
   way, and nothing else takes it from either (`WifiLostToEachOther`).

Seen while modelling, without a run: the retry detection that a comment in
`sd_store.cpp:1753` calls idempotent compares with the latest row of the
conversation only; the ringing limit sends no REJECTED, which
`reticulum_client_architecture.md:131` asks for; the answer button and a failing
audio worker end whatever call is in hand when they come to it: if the exclusive
lease is refused and the call they found has ended meanwhile, a call that began
since is closed as failed (the mesh task cannot do that, `CallEndsItsOwn`); in the
VMP session
(`vmp_pager_session.cpp`), `tryAcquire` clears the radio lease before it refuses,
while an inbound teardown that has already called itself inactive still holds it,
so the release is skipped and the radio tasks stay paused; the pause of the radio
tasks is a flag and a protocol switch resumes them under a held lease; a clip
whose terminal state could not be saved stays Sending with its pending id
forgotten; a repeated AVAILABLE does not make the
caller repeat a lost LinkIdentify, so both ends wait for their limits; phase
limits are not looked at while a session is Stale, and a callee's session never
leaves Stale, because only the initiator asks for keepalives; a LinkClose sent
before the link proof is encrypted with a key that does not exist yet, so a
callee whose caller hung up at once identifies until its handshake limit; the pairing diagram of
`docs/models/team-coordination/model.md` has the leader complete when a join is
handled and fail when a transport send fails (the code's leader does neither);
a beacon restarts a member's exchange, so a leader that beacons every 600 ms
invalidates the nonce of a join still unanswered and the 800 ms hold never
elapses; clearing one conversation drops deferred texts of all of them without
an answer to the adapter; a strict store that lost the row of the oldest pending
status blocks the statuses behind it (such a store is `StoreUpserts = FALSE`).

Of an append that is refused, all of them outcomes of the models that the
properties name: where the row was written, a status published while the message
waits is dropped when the flush finds the row (`LeftBehind`), and readers see the
old one again; where a received message came in between, the message gets a second
row; a torn segment header stops the oldest pending message of its conversation,
and every pending append and status behind it, until the conversation is cleared;
in the incoming path it does the same to the deferred texts, and a torn
`seen.delta` header to every LXMF text, whose row may be written again at each try.
A compressed Meshtastic text may decode to 234 to 255 bytes: the deferred queue
takes 255 (`chat_service.h:283`), the store 233 (`sd_store.cpp:1722`), so it would
be refused at every try and block the queue in the same way.

Of the Wi-Fi policy: `wait_for_route_http_memory`
(`platform_ui_route_storage.cpp:1238-1257`) waits without a bound, and an image that
failed on low memory is tried again without one (1265-1286, 1313-1316). An
announcement that slipped in after `enter_call_exclusive` stays as long as that
lasts, and the gateway gives the call no budget.

Of the SD store, all of them outcomes of the model that it marks as weak or that
the properties name:
`sd_exists` says no when it gets no lock within 25 ms (`sd_card_runtime.cpp:853`),
and the append that asked takes the journal for missing and truncates it with
"w+"; during a replay a denied journal is skipped, in `setUnread` a denied segment
has no rows and the mark becomes 0;
a repair that stops between its two renames leaves a `.partial` file that no boot
looks at; `replaceFileAtomically`, tried again after a rename that could not be
undone, removes the backup first, which by then is the only copy;
a compaction whose record failed goes on, at the next try, with the record behind
it; the rebuild of the hash index runs before the reconciliation, on the
conversations that the catalog files list; a delta of the catalog or the read
marks with a torn header fails the inspection of every compaction, which keeps the
lease while it tries again; a delta of the hashes with a torn header makes every
LXMF append fail until a boot rebuilds it; a read tombstone that was not written
lets a cleared conversation come back with its old mark.

Two weaknesses of modules that are not modelled that far: `team_pairing_coordinator.cpp:422`
compares the session's deadline with `>=` on a 32-bit clock, and
`chat_model.cpp:335` lowers the unread count of newer messages when it evicts one
that was already read.

## 5. Proofs

The proofs use SMT, Zenon and LS4 through TLAPS; constants are arbitrary under
the named assumptions of each module (finite set of messages and natural table
sizes for the ledger; positive depths for the incoming path; a retry limit of at
least one for pairing; `NoLink` no link; the announcing client and the updater
two clients, `NoClient` none).

`ChatMessageLedger_proofs`. None of the ledger's properties is inductive. What
must be added: a message not yet recorded is in no table (`Fresh`); a message in
the pending appends, or with a row that a status passed, was answered Deferred
(`PendingWasDeferred`); the model agrees with what was published
(`ModelIsCurrent`); a tracked message was published (`TrackedWasAnnounced`). The
argument: all copies of a published status are written in the same step that
publishes it, or hold nothing, but for two copies of a deferred message: its
tracked status, and the row that a refused append left. Deferred messages are
exactly what the refinement mapping excludes; the row is what
`SecondRowNeedsRefusal` and `PublishedStatusIsKept` name, no other message has
one, and `LeftBehind` says when a reader reaches it. `LedgerImplementsOutbox` then maps each
step to one of `OutboxStatus` or to a stutter, step by step: a status is applied
after `shouldApplyStatus` on the tracked or the looked-up status, and both are
the published one. `DeliveredIsFinalHolds` says how far "Delivered is terminal"
holds: `DeliveredIsFinal` exempts a message only while its tracked status is an
older one, its last status is in the model alone, or the flush left it behind.

`IncomingDelivery_proofs`. The invariant adds that what the window remembers is
durable (`RecentIsDurable`) and that the deferred texts are distinct and not in
the window (`DeferredIsNew`). Every step of the service moves one text
(`TextStep`), and one lemma shows that such a step keeps the invariant.
`OnceWhileUndisturbed` needs a second argument (`OnceInv`). As long as all that
was shown is still in the window (`AllRecent`), every row was shown, and a text
new to the window is new to the store. Otherwise more than `RecentLimit` texts
were shown (`Outgrown`); that stays so, and by counting not all of them can be in
the window (`WindowIsSmall`), where the property promises nothing.
`IncomingImplementsTextStore` needs no more than the invariant: an append is an
`Offer`, whatever half of it failed, and a reboot forgets nothing of the contract.

`TeamPairing_proofs`. The invariant says of each packet in the air what its
sender did: a nonce in the air was drawn by one device in one session, a join
carries the session of its sender, a key answers a join that its sender has
published. `KeyAgreement` follows when the nonce matches. `KeyComesOnceHolds` adds
that session numbers are not used again (`RunsAreOwn`): a session takes one of the
keys that reach it, and only one.

`LxstCall_proofs`. For any devices and links. One end's safety depends on what
the other end did, so the invariant fixes, link by link, what a packet on its
way says of its sender: CONNECTING and ESTABLISHED mean that the call was
answered (`AnsweredBeforeMedia`), ESTABLISHED that the callee is Active or over
(`EstablishedByCallee`), LinkIdentify that the caller is past its availability
phase (`IdentifiedByCaller`); and how session and phase of an end go together
(`SessionFitsPhase`). Closing an end keeps all of it, whatever was sent before
(`CloseSessionIInv`); a step that leaves the runtimes alone owes only what holds
of its link (`QuietStep`); then there is one lemma for each action.

`LxstCall` also implements `CallOwnership`, device by device (`CallOwnershipKept`):
what owns the runtime, consented to and talks is read off `current`, `onAir` and
the session.

Two theorems are the safety core of `EveryCallEnds`: no end ever goes back to a
phase it has left, whatever repeats or overtakes (`CallsOnlyAdvance`), and every
session that is not over has a clock that can end it (`NoCallWithoutClock`). What
is left to fairness is that the clock is looked at. `OnlyErasureLosesLink` is the
boundary of finding 3, and `LostCallHeldUntilHangup` says how long the call stays:
while the device owns it, every step but a hang-up that changes the runtime needs
a live session or an idle device.

`CallRuntime_proofs`. `CallInv` adds to the type which fields of the snapshot go
together (`CallShape`), what a task between two critical sections may rely on
(`TaskShape`: an incoming call has a link; while the dialler waits for the lease
no mesh step is under way and no call in hand), and that the exclusive lease has
a call or a task that answers for it (`ExclusiveHasCall`). Each action has one lemma that shows both that it keeps
`CallInv` and that it is a step of `CallOwnership` or a stutter (`Kept`).
`CallDiallerFindsRoom` states a part of `TaskShape` by itself.

`LeaseLeftByTwoSteps` has as hypothesis that two kinds of step are not taken:
`LateHook` and `StaleClose`. Then `LeaseFit` is inductive: a call whose link is
closed is about to be told (`ClosedIsTold`), one that is closing has a task that is
about to end it (`ClosingIsAsked`), and a lease without a call has a task that is
about to give it back (`LeaseIsAnswered`). `CallEndsItsOwn` rests on `OwnsCall`: the
mesh task, and a hang-up request, hold the link of the call in hand, because no
call begins between its look and its step.

`WifiAccess_proofs`. `WifiInv` adds that a transaction cut short is between
grant and release and has no fresh lease (`CutShape`: only a new grant makes a
lease fresh, and a grant comes after the release), and that the route worker
announces a batch before the batch begins (`ScopeShape`). Beside it,
`WifiCutComesToRelease` is the safety core of `PreemptedLetsGo`: each step of a
transaction that was cut short leads closer to its release (`StepsToGo`), at most
seven steps, and only the release or a restart ends that; and
`WifiLostToEachOther` the boundary of finding 5.

`SdStore_proofs`. For any conversations, texts, rows, and any number of troubles
and power losses. First what every outcome of an operation on one file keeps
(`AppendOutcome`, `PutSlotOutcome`, `RowInOutcome`, `RecoverOutcome`,
`ReplaceOutcome`): the other slots, or it says that it gave them up; the new slot,
if the caller is told so. `TypeInv` adds to the types who holds the lease, and
that a file that is gone has no content. Each property then has an invariant of
its own. `RowsInv`: the row is in the segment from the first step of an append on,
and once a conversation is reconciled the catalog in memory lists what the segment
has. `HashesInv`: `seen_hot_` says no more than the files do, so an append that
skips the write of a known hash finds it in a file; a rebuild loses nothing only
because of `RowsInv`, since it copies what the segments say. `MarksInv`: memory
and files agree from the replay on, what a compaction has copied agrees with the
memory, and the delta is removed only behind a snapshot that has it all.
`StoreImplementsTextStore` maps each step to one of the contract or to a stutter.

`PowerLossLosesNothing` excuses nothing: in a behaviour where no operation on a
file fails, is torn or is denied its file (`NothingFails`: no step pays), every
acknowledged text is found, listed and known by its hash, whatever number of times
the power goes between two operations. Its invariant (`CalmInv`) says what is given
up nevertheless: hashes of texts that nobody was told are stored, when the index is
rebuilt before the directories are looked at. TLC explored it before it was proved,
with no troubles and three power losses.

`Promises_proofs`. What an abstract specification promises over a whole behaviour,
for whatever implements it. With `TextStore` an acknowledged text stays durable
(`StoreKeepsAcked`); with `OutboxStatus` a published status never goes back but by a
resend (`OutboxProgress`); with `CallOwnership` no call is taken over, and media are
those of the call its user took (`CallsAreOwned`). By the refinements these hold of
the ledger, of both sides of the store, and of the calls.

Only model-checked: liveness (`PendingWritesDrain`, `DeferredDrains`,
`SessionsEnd`, `EveryCallEnds`, `HangupReachesLink`, `ResourcesFollowCall`,
`PreemptedLetsGo`, `CallGetsGateway`), which needs fairness and ENABLED, out of
the prover's reach. Every invariant and refinement of the runs is proved.
Of `EveryCallEnds` and `PreemptedLetsGo` the part that is safety is proved too.
Induction over
data and RECURSIVE operators are out of reach too; the modules use neither.

## 6. Not modelled

Wire formats, ciphers and codecs; the SD store's status projection and page
loading; the SQLite and flash stores; links other than a call's, resources, paths and propagation sync of the LXMF adapter; rendering and
input; drivers and tasks; static product tables; phone protocols. The reasons
are with each component in `PROJECT.json`.
