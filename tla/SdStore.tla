------------------------------- MODULE SdStore --------------------------------
(***************************************************************************)
(* The chat store on the SD card (sd_store.cpp, fixed_slot_journal.cpp),   *)
(* one protocol of it, Reticulum: message segments, which are the          *)
(* authority; a catalog, the read marks and the LXMF hashes, each a        *)
(* snapshot and a delta journal; and the copies in memory.                 *)
(*                                                                         *)
(* Two tasks use it under one persistence lease: the caller, who appends,  *)
(* marks and clears, and the storage owner, who hydrates the store after a *)
(* boot and compacts it when the screen sleeps.  A step is one operation   *)
(* on a file, with every outcome it may have.  An outcome costs what goes  *)
(* wrong in it: the card refuses or tears an operation, or sd_exists gets  *)
(* no lock within its 25 ms and denies a file that is there.  A power loss *)
(* in the middle of an operation is a failing outcome and then PowerLoss.  *)
(*                                                                         *)
(* A journal is read in order and the last slot of a key counts, so its    *)
(* content is a map.  A conversation has one segment file and its texts    *)
(* are incoming LXMF texts.  Unread counts and previews (derived from rows *)
(* and marks), statuses (the ledger's model), the delta thresholds, the    *)
(* capacity of seen_hot_ (the files are searched behind it) and a state    *)
(* mutex that times out are left out.                                      *)
(***************************************************************************)
EXTENDS Naturals, Sequences

CONSTANTS
    Conversations, Messages,
    ConversationOf,   \* [Messages -> Conversations]
    None, Deleted,    \* no slot; a tombstone
    MaxTroubles,      \* bounds: what goes wrong between two power losses,
    MaxPowerLosses,   \*         power losses,
    MaxRows           \*         rows of a conversation

ASSUME StoreAssumption ==
    /\ ConversationOf \in [Messages -> Conversations]
    /\ None # Deleted
    /\ None \notin Nat /\ Deleted \notin Nat
    /\ None \notin Nat \X Messages /\ Deleted \notin Nat \X Messages
    /\ None \notin Conversations /\ None \notin Messages
    /\ MaxTroubles \in Nat /\ MaxPowerLosses \in Nat /\ MaxRows \in Nat

VARIABLES
    segment,  \* the message journal of each conversation
    files,    \* of each projection: snapshot, temp, backup and delta
    ready,    \* ready_
    ram,      \* catalog_ and read_state_
    hot,      \* seen_hot_
    dirty,    \* projection_dirty_
    op,       \* the caller's operation that holds the lease
    maint,    \* maintenance_; it holds the lease unless Idle
    fate,     \* history: each message new, acknowledged or cleared
    marks,    \* history: what the user may find as a read mark
    lost,     \* history: what a named weakness of the code gave up
    troubles, powerLosses   \* how much may still go wrong

diskVars == <<segment, files>>
memoryVars == <<ready, ram, hot, dirty>>
historyVars == <<fate, marks, lost>>
storeVars == <<diskVars, memoryVars, op, maint, historyVars, troubles, powerLosses>>

Projections == {"catalog", "read"}
Journals == Projections \cup {"seen"}
Roles == {"snapshot", "temp", "backup", "delta"}
JournalState == {"Missing", "Ready", "PartialTail", "Incompatible"}

\* A catalog slot is the number of rows and the last row; a read slot is the
\* last sequence read; a seen slot says no more than its key.
Keys(p) == IF p = "seen" THEN Messages ELSE Conversations
Value(p) == IF p = "catalog" THEN Nat \X Messages
            ELSE IF p = "read" THEN 0..MaxRows ELSE {1}
Mark == 0..MaxRows \cup {None}
Contents(p) == [Keys(p) -> Value(p) \cup {None, Deleted}]
Nothing(p) == [k \in Keys(p) |-> None]

File(s, slots) == [state |-> s, slots |-> slots]
NoFile(p) == File("Missing", Nothing(p))
NoRows == File("Missing", <<>>)
Exists(f) == f.state # "Missing"
Damaged(f) == f.state \in {"PartialTail", "Incompatible"}

Rows(c) == {segment[c].slots[i] : i \in DOMAIN segment[c].slots}

CallerStep ==
    {"idle", "hash", "list", "relist", "unlist", "unmark"}
NoOp == [step |-> "idle", conv |-> None, msg |-> None, count |-> 0]

Hydrating == {"Recover", "Replay", "LookAtSeen", "RebuildSeen", "Reconcile"}
Compacting == {"Inspect", "Create", "Write", "RemoveDelta"}
AtRest == [phase |-> "Idle", journal |-> None, plan |-> {}, todo |-> {}]

StoreTypeOK ==
    /\ segment \in [Conversations -> [state : JournalState,
                                      slots : Seq(Messages)]]
    /\ \A c \in Conversations : Len(segment[c].slots) <= MaxRows
    /\ DOMAIN files = Journals
    /\ \A p \in Journals :
          files[p] \in [Roles -> [state : JournalState, slots : Contents(p)]]
    /\ ready \in BOOLEAN /\ dirty \in BOOLEAN
    /\ DOMAIN ram = Projections
    /\ \A p \in Projections :
          ram[p] \in [Conversations -> Value(p) \cup {None}]
    /\ hot \in SUBSET Messages
    /\ op \in [step : CallerStep, conv : Conversations \cup {None},
               msg : Messages \cup {None}, count : Nat]
    /\ maint \in [phase : {"Idle"} \cup Hydrating \cup Compacting,
                  journal : Journals \cup {None},
                  plan : SUBSET Projections, todo : SUBSET Conversations]
    /\ fate \in [Messages -> {"new", "acked", "cleared"}]
    /\ marks \in [Conversations -> SUBSET Mark]
    /\ lost \in [rows : SUBSET Messages, hashes : SUBSET Messages,
                 listed : SUBSET Conversations]
    /\ troubles \in 0..MaxTroubles /\ powerLosses \in 0..MaxPowerLosses

StoreInit ==
    /\ segment = [c \in Conversations |-> NoRows]
    /\ files = [p \in Journals |-> [r \in Roles |-> NoFile(p)]]
    /\ ready = FALSE /\ dirty = FALSE
    /\ ram = [p \in Projections |-> Nothing(p)]
    /\ hot = {}
    /\ op = NoOp /\ maint = AtRest
    /\ fate = [m \in Messages |-> "new"]
    /\ marks = [c \in Conversations |-> {None}]
    /\ lost = [rows |-> {}, hashes |-> {}, listed |-> {}]
    /\ troubles = MaxTroubles /\ powerLosses = MaxPowerLosses

-----------------------------------------------------------------------------
(* Operations on one file and their outcomes: what is left of it, what the *)
(* caller is told, what went wrong, and whether content was given up in    *)
(* one of the ways the README names.                                       *)

Outcome(left, told, price, gaveUp) ==
    [file |-> left, ok |-> told, cost |-> price, weak |-> gaveUp]

Pay(price) == troubles >= price /\ troubles' = troubles - price

\* FixedSlotJournalEngine::create and the append behind it, on a file that
\* is missing or was denied by inspect's sd_exists: "w+" truncates it.
CreateAndAppend(alone, empty, price, gaveUp) ==
    {Outcome(File("Ready", alone), told, IF told THEN price ELSE price + 1, gaveUp) :
        told \in BOOLEAN}
    \cup {Outcome(File(s, empty), FALSE, price + 1, gaveUp) :
             s \in JournalState \ {"Missing"}}

\* FixedSlotJournalEngine::append: flush may fail after the slot is written.
AppendTo(f, with, alone, empty) ==
    (IF Exists(f) THEN CreateAndAppend(alone, empty, 1, TRUE)
     ELSE CreateAndAppend(alone, empty, 0, FALSE)
          \cup {Outcome(f, FALSE, 1, FALSE)})
    \cup (IF f.state = "Ready"
          THEN {Outcome(File("Ready", with), TRUE, 0, FALSE)}
               \cup {Outcome(left, FALSE, 1, FALSE) :
                        left \in {File("Ready", with), f,
                                  File("PartialTail", f.slots)}}
          ELSE IF Damaged(f) THEN {Outcome(f, FALSE, 0, FALSE)} ELSE {})

\* repairPartialJournal.  The copy may lose what precedes a denied append,
\* and between the two renames nothing is left that a boot would look at.
Repair(f, remnants, empty) ==
    {Outcome(File("Ready", f.slots), TRUE, 0, FALSE),
     Outcome(f, FALSE, 1, FALSE),
     Outcome(File("Missing", empty), FALSE, 1, TRUE)}
    \cup {Outcome(File("Ready", r), TRUE, 1, TRUE) : r \in remnants}

Put(slots, k, v) == [slots EXCEPT ![k] = v]
Only(slots, k, v) == [x \in DOMAIN slots |-> IF x = k THEN v ELSE None]
Remnants(slots) ==
    {[x \in DOMAIN slots |-> IF x \in S THEN slots[x] ELSE None] :
        S \in SUBSET DOMAIN slots}
Suffixes(rows) == {SubSeq(rows, i, Len(rows)) : i \in 2..(Len(rows) + 1)}

\* What follows a first step that succeeded with o.
After(o, outcomes) ==
    {Outcome(n.file, n.ok, o.cost + n.cost, o.weak \/ n.weak) : n \in outcomes}

PutSlot(p, f, k, v) ==
    AppendTo(f, Put(f.slots, k, v), Only(f.slots, k, v), Nothing(p))

\* appendReadProjection, appendSeenProjection
PutSlotRepaired(p, f, k, v) ==
    LET repairs == Repair(f, Remnants(f.slots), Nothing(p))
    IN IF f.state = "PartialTail"
       THEN {o \in repairs : ~o.ok}
            \cup UNION {After(o, PutSlot(p, o.file, k, v)) :
                          o \in {x \in repairs : x.ok}}
       ELSE PutSlot(p, f, k, v)

\* appendMessageRecord: the slot must be the one the count names.
RowIn(f, count, m) ==
    IF Len(f.slots) = count /\ f.state # "Incompatible"
    THEN AppendTo(f, Append(f.slots, m), <<m>>, <<>>)
    ELSE {Outcome(f, FALSE, 0, FALSE)}

PutRow(f, m) ==
    LET repairs == Repair(f, Suffixes(f.slots), <<>>)
    IN IF f.state = "PartialTail"
       THEN {o \in repairs : ~o.ok}
            \cup UNION {After(o, RowIn(o.file, Len(f.slots), m)) :
                          o \in {x \in repairs : x.ok}}
       ELSE RowIn(f, Len(f.slots), m)

-----------------------------------------------------------------------------
(* The caller: appendInternal, setUnread, clearConversation.               *)

Listed(c) == ram["catalog"][c] # None
LeaseIsFree == op = NoOp /\ maint = AtRest
At(step, c, m, n) == [step |-> step, conv |-> c, msg |-> m, count |-> n]
GiveUp(kind, items) == [lost EXCEPT ![kind] = @ \cup items]
AnyMark(convs) ==
    [c \in Conversations |->
        IF c \in convs THEN Mark ELSE marks[c]]
HasSlot(f) == {k \in DOMAIN f.slots : f.slots[k] # None}
SetDelta(p, f) == files' = [files EXCEPT ![p].delta = f]

\* storedMessageMatches, appendMessageRecord: the text is recognised when it
\* is the latest row, and in no other place.
AppendRow(m) ==
    LET c == ConversationOf[m]
        f == segment[c]
        count == Len(f.slots)
    IN /\ ready /\ LeaseIsFree /\ fate[m] = "new"
       /\ \/ /\ count > 0 /\ f.slots[count] = m
             /\ op' = At("hash", c, m, count)
             /\ UNCHANGED <<segment, lost, troubles>>
          \/ /\ ~ (count > 0 /\ f.slots[count] = m)
             /\ count < MaxRows
             /\ \E o \in PutRow(f, m) :
                   /\ Pay(o.cost)
                   /\ segment' = [segment EXCEPT ![c] = o.file]
                   /\ lost' = IF o.weak THEN GiveUp("rows", Rows(c)) ELSE lost
                   /\ op' = IF o.ok THEN At("hash", c, m, count + 1) ELSE NoOp
       /\ UNCHANGED <<files, memoryVars, maint, fate, marks>>

InSeen(m) ==
    \/ m \in hot
    \/ files["seen"].delta.slots[m] # None
    \/ files["seen"].snapshot.slots[m] # None

\* rememberReticulumHash
RememberHash ==
    LET m == op.msg
        f == files["seen"].delta
    IN /\ op.step = "hash"
       /\ \/ /\ InSeen(m)
             /\ op' = [op EXCEPT !.step = "list"]
             /\ UNCHANGED <<files, hot, lost, troubles>>
          \/ /\ ~ InSeen(m)
             /\ \E o \in PutSlotRepaired("seen", f, m, 1) :
                   /\ Pay(o.cost)
                   /\ SetDelta("seen", o.file)
                   /\ lost' =
                        [lost EXCEPT !.hashes =
                            (IF o.weak THEN @ \cup HasSlot(f) ELSE @)
                            \ (IF o.ok THEN {m} ELSE {})]
                   /\ hot' = IF o.ok THEN hot \cup {m} ELSE hot
                   /\ op' = IF o.ok THEN [op EXCEPT !.step = "list"] ELSE NoOp
       /\ UNCHANGED <<segment, ready, ram, dirty, maint, fate, marks>>

\* Mutant: the memory lists what the file lists.
Entered(c, entry, written) ==
    IF written THEN [ram EXCEPT !["catalog"][c] = entry] ELSE ram

\* appendCatalogProjection: the entry is in memory whether it is written or
\* not.
EnterCatalog(c, entry, written) == [ram EXCEPT !["catalog"][c] = entry]

\* The text is acknowledged either way.
ListConversation ==
    LET c == op.conv
        entry == <<op.count, op.msg>>
    IN /\ op.step = "list"
       /\ \/ /\ ram["catalog"][c] = entry
             /\ UNCHANGED <<files, ram, dirty, troubles>>
          \/ /\ ram["catalog"][c] # entry
             /\ \E o \in PutSlot("catalog", files["catalog"].delta, c, entry) :
                   /\ Pay(o.cost)
                   /\ SetDelta("catalog", o.file)
                   /\ dirty' = (dirty \/ ~o.ok)
                   /\ ram' = EnterCatalog(c, entry, o.ok)
       /\ fate' = [fate EXCEPT ![op.msg] = "acked"]
       /\ lost' = [lost EXCEPT !.listed = @ \ {c}, !.rows = @ \ {op.msg}]
       /\ op' = NoOp
       /\ UNCHANGED <<segment, ready, hot, maint, marks>>

\* setUnread, which everyone calls with no unread messages, writes the mark:
\* the number of rows, or 0 when the segment is denied,
MarkRead(c) ==
    LET f == files["read"].delta
        rows == Len(segment[c].slots)
    IN /\ ready /\ LeaseIsFree
       /\ Listed(c)
       /\ \E to \in {rows, 0} : \E o \in PutSlotRepaired("read", f, c, to) :
             /\ Pay(o.cost + (IF to = rows THEN 0 ELSE 1))
             /\ SetDelta("read", o.file)
             /\ marks' = IF o.weak THEN AnyMark(HasSlot(f) \cup {c})
                         ELSE [marks EXCEPT ![c] = @ \cup {to}]
             /\ op' = IF o.ok THEN At("relist", c, None, to) ELSE NoOp
       /\ UNCHANGED <<segment, memoryVars, maint, fate, lost>>

\* and the catalog entry with it.
Relist ==
    LET c == op.conv
    IN /\ op.step = "relist"
       /\ \E o \in PutSlot("catalog", files["catalog"].delta, c,
                           ram["catalog"][c]) :
             /\ Pay(o.cost)
             /\ SetDelta("catalog", o.file)
             /\ dirty' = (dirty \/ ~o.ok)
       /\ ram' = [ram EXCEPT !["read"][c] = op.count]
       /\ marks' = [marks EXCEPT ![c] = {op.count}]
       /\ op' = NoOp
       /\ UNCHANGED <<segment, ready, hot, maint, fate, lost>>

Gone(c) == {m \in Messages : ConversationOf[m] = c /\ fate[m] = "acked"}

\* clearConversation removes the directory first; when that fails it stops,
\* with the segment gone or not.
Clear(c) ==
    /\ ready /\ LeaseIsFree
    /\ Listed(c)                             \* the user clears what he sees
    /\ \/ /\ segment' = [segment EXCEPT ![c] = NoRows]
          /\ op' = At("unlist", c, None, 0)
          /\ marks' = [marks EXCEPT ![c] = @ \cup {None}]
          /\ UNCHANGED troubles
       \/ /\ Pay(1)
          /\ segment' \in {segment, [segment EXCEPT ![c] = NoRows]}
          /\ UNCHANGED <<op, marks>>
    /\ fate' = [m \in Messages |-> IF m \in Gone(c) THEN "cleared" ELSE fate[m]]
    /\ lost' = [lost EXCEPT !.rows = @ \ Gone(c), !.hashes = @ \ Gone(c)]
    /\ UNCHANGED <<files, memoryVars, maint>>

Unlist ==
    /\ op.step = "unlist"
    /\ \E o \in PutSlot("catalog", files["catalog"].delta, op.conv, Deleted) :
          /\ Pay(o.cost)
          /\ SetDelta("catalog", o.file)
          /\ op' = At("unmark", op.conv, None, IF o.ok THEN 1 ELSE 0)
    /\ UNCHANGED <<segment, memoryVars, maint, historyVars>>

\* The memory forgets the mark even when its tombstone was not written.
Unmark ==
    LET c == op.conv
        f == files["read"].delta
    IN /\ op.step = "unmark"
       /\ \E o \in PutSlotRepaired("read", f, c, Deleted) :
             /\ Pay(o.cost)
             /\ SetDelta("read", o.file)
             /\ dirty' = (dirty \/ ~o.ok \/ op.count = 0)
             /\ marks' = [(IF o.weak THEN AnyMark(HasSlot(f)) ELSE marks)
                            EXCEPT ![c] =
                               IF o.ok THEN {None} ELSE @ \cup {None}]
       /\ ram' = [p \in Projections |-> [ram[p] EXCEPT ![c] = None]]
       /\ op' = NoOp
       /\ UNCHANGED <<segment, ready, hot, maint, fate, lost>>

-----------------------------------------------------------------------------
(* The owner: hydration.  A failed step gives the lease back, and the next *)
(* attempt starts from nothing.                                            *)

Phase(name, j) == [maint EXCEPT !.phase = name, !.journal = j]

BeginHydration ==
    /\ ~ready /\ LeaseIsFree
    /\ maint' = Phase("Recover", "catalog")
    /\ ram' = [p \in Projections |-> Nothing(p)]
    /\ hot' = {} /\ dirty' = FALSE
    /\ lost' = [lost EXCEPT !.listed = {}]
    /\ UNCHANGED <<diskVars, ready, op, fate, marks, troubles>>

\* recoverAtomicFile: removals are not looked at, and a backup denied by
\* sd_exists stays where nobody reads it.
RecoverFile(f, none) ==
    IF Exists(f.snapshot)
    THEN {Outcome([f EXCEPT !.temp = t, !.backup = b], TRUE,
                  IF Exists(t) \/ Exists(b) THEN 1 ELSE 0, FALSE) :
             t \in {f.temp, none}, b \in {f.backup, none}}
         \cup (IF Exists(f.backup) THEN {Outcome(f, FALSE, 1, FALSE)} ELSE {})
    ELSE IF Exists(f.backup)
    THEN LET put == [f EXCEPT !.snapshot = f.backup, !.backup = none]
         IN {Outcome([put EXCEPT !.temp = none], TRUE, 0, FALSE),
             Outcome(put, TRUE, 1, FALSE),
             Outcome(f, FALSE, 1, FALSE),
             Outcome([f EXCEPT !.temp = none], TRUE, 1, TRUE)}
    ELSE {Outcome([f EXCEPT !.temp = none], TRUE, 0, FALSE),
          Outcome(f, TRUE, 1, FALSE)}

Recover ==
    LET p == maint.journal
    IN /\ maint.phase = "Recover"
       /\ \E o \in RecoverFile(files[p], NoFile(p)) :
             /\ Pay(o.cost)
             /\ files' = [files EXCEPT ![p] = o.file]
             /\ marks' = IF o.weak /\ p = "read"
                         THEN AnyMark(Conversations) ELSE marks
             /\ maint' = IF ~o.ok THEN AtRest
                         ELSE CASE p = "catalog" -> Phase("Recover", "read")
                                [] p = "read" -> Phase("Replay", "catalog")
                                [] p = "seen" -> Phase("LookAtSeen", "seen")
       /\ UNCHANGED <<segment, memoryVars, op, fate, lost>>

\* A journal that sd_exists denies is skipped.
Denied == {{}, {"snapshot"}, {"delta"}}
SlotIn(p, denied, r, k) ==
    IF r \in denied THEN None ELSE files[p][r].slots[k]

\* Mutant: a tombstone counts as an entry.
ReplayedAsWritten(p, denied, k) ==
    LET newer == SlotIn(p, denied, "delta", k)
    IN IF newer # None THEN newer ELSE SlotIn(p, denied, "snapshot", k)

Replayed(p, denied, k) ==
    LET newer == SlotIn(p, denied, "delta", k)
        last == IF newer # None THEN newer
                ELSE SlotIn(p, denied, "snapshot", k)
    IN IF last = Deleted THEN None ELSE last

Replay ==
    LET p == maint.journal
    IN /\ maint.phase = "Replay"
       /\ \E denied \in Denied :
             /\ \A r \in denied : Exists(files[p][r])
             /\ Pay(IF denied = {} THEN 0 ELSE 1)
             /\ ram' = [ram EXCEPT ![p] =
                          [c \in Conversations |-> Replayed(p, denied, c)]]
             /\ dirty' = (\/ dirty
                          \/ \E r \in {"snapshot", "delta"} \ denied :
                                files[p][r].state = "Incompatible")
             /\ marks' = IF p = "read" /\ denied # {}
                         THEN AnyMark(Conversations) ELSE marks
       /\ maint' = IF p = "catalog" THEN Phase("Replay", "read")
                   ELSE Phase("Recover", "seen")
       /\ UNCHANGED <<diskVars, ready, hot, op, fate, lost>>

LookAtSeen ==
    /\ maint.phase = "LookAtSeen"
    /\ \E denied \in Denied :
          LET seen == files["seen"]
              looked == {r \in {"snapshot", "delta"} \ denied : Exists(seen[r])}
              rebuild == \/ \E r \in looked : Damaged(seen[r])
                         \/ /\ looked = {}
                            /\ \E c \in Conversations : Listed(c)
          IN /\ \A r \in denied : Exists(seen[r])
             /\ Pay(IF denied = {} THEN 0 ELSE 1)
             /\ hot' = {m \in Messages : \E r \in looked : seen[r].slots[m] # None}
             /\ maint' = [phase |-> IF rebuild THEN "RebuildSeen" ELSE "Reconcile",
                          journal |-> None, plan |-> {}, todo |-> Conversations]
    /\ UNCHANGED <<diskVars, ready, ram, dirty, op, historyVars>>

\* replaceFileAtomically: old backup away, snapshot to backup, temp to
\* snapshot, backup away.  Tried again after a rename that was not undone, it
\* begins by removing the only copy.
ReplaceFile(f, none) ==
    LET only == ~Exists(f.snapshot) /\ Exists(f.backup)
        alone == [f EXCEPT !.backup = none]
        aside == [alone EXCEPT !.backup = f.snapshot, !.snapshot = none]
        installed == [aside EXCEPT !.snapshot = f.temp, !.temp = none]
    IN IF ~Exists(f.temp) THEN {Outcome(f, FALSE, 0, FALSE)}
       ELSE {Outcome([installed EXCEPT !.backup = none], TRUE, 0, FALSE),
             Outcome(installed, TRUE, 1, FALSE),
             Outcome(f, FALSE, 1, FALSE)}
            \cup {Outcome(left, FALSE, 1, only) : left \in {alone, aside}}

\* Mutant: of each conversation the row the catalog names is asked.
HashesOfLatest ==
    [m \in Messages |->
        IF /\ Listed(ConversationOf[m])
           /\ ram["catalog"][ConversationOf[m]][2] = m
        THEN 1 ELSE None]

\* stepSeenRebuild asks the rows of the conversations the catalog files
\* list; the others are found only by the reconciliation that follows.
HashesOfListed ==
    [m \in Messages |->
        IF Listed(ConversationOf[m]) /\ m \in Rows(ConversationOf[m])
        THEN 1 ELSE None]

\* Mutant: the delta is removed whether the snapshot was replaced or not.
SeenDeltaRemoved(replaced) == {NoFile("seen"), files["seen"].delta}

\* The delta is removed when its content is in the snapshot; a removal that
\* fails is not looked at.
SeenDeltaAfter(replaced) ==
    IF replaced THEN {NoFile("seen"), files["seen"].delta}
                ELSE {files["seen"].delta}

RebuildSeen ==
    /\ maint.phase = "RebuildSeen"
    /\ \E hashes \in {HashesOfListed} \cup Remnants(HashesOfListed) :
       LET whole == hashes = HashesOfListed
           none == NoFile("seen")
           temp == [files["seen"] EXCEPT !.temp = File("Ready", hashes)]
       IN \/ \E o \in ReplaceFile(temp, none) : \E delta \in SeenDeltaAfter(o.ok) :
               /\ Pay(o.cost + (IF whole THEN 0 ELSE 1)
                     + (IF o.ok /\ Exists(delta) THEN 1 ELSE 0))
               /\ files' = [files EXCEPT !["seen"] = [o.file EXCEPT !.delta = delta]]
               /\ hot' = {m \in Messages : hashes[m] # None}
               /\ lost' = IF o.weak \/ ~whole THEN GiveUp("hashes", Messages)
                          ELSE IF o.ok
                          THEN GiveUp("hashes", {m \in Messages :
                                                   ~Listed(ConversationOf[m])})
                          ELSE lost
               /\ maint' = IF o.ok THEN Phase("Reconcile", None) ELSE AtRest
          \/ /\ Pay(1)                    \* the copy itself fails
             /\ maint' = AtRest
             /\ hot' = {}
             /\ UNCHANGED <<files, lost>>
    /\ UNCHANGED <<segment, ready, ram, dirty, op, fate, marks>>

\* stepConversationDirectoryReconcile: what the segment says replaces what
\* the catalog files said; a conversation that fails is left out.
Inspected(f) ==
    IF f.state = "PartialTail" THEN Repair(f, Suffixes(f.slots), <<>>)
    ELSE {Outcome(f, f.state # "Incompatible", 0, FALSE)}

ReconcileConversation(c) ==
    LET f == segment[c]
    IN /\ maint.phase = "Reconcile" /\ c \in maint.todo
       /\ \/ \E o \in Inspected(f) :
                LET count == Len(o.file.slots)
                    entry == IF o.ok /\ count > 0
                             THEN <<count, o.file.slots[count]>> ELSE None
                IN /\ Pay(o.cost)
                   /\ segment' = [segment EXCEPT ![c] = o.file]
                   /\ ram' = [ram EXCEPT !["catalog"][c] = entry]
                   /\ dirty' = \/ dirty
                               \/ ~o.ok
                               \/ entry \notin {None, ram["catalog"][c]}
                   /\ lost' =
                        [lost EXCEPT
                            !.rows = IF o.weak THEN @ \cup Rows(c) ELSE @,
                            !.listed = IF o.ok THEN @ ELSE @ \cup {c}]
          \/ /\ Pay(1)                    \* denied, or a read fails
             /\ dirty' \in {dirty, TRUE}
             /\ ram' = [ram EXCEPT !["catalog"][c] = None]
             /\ lost' = GiveUp("listed", {c})
             /\ UNCHANGED segment
       /\ maint' = [maint EXCEPT !.todo = @ \ {c}]
       /\ UNCHANGED <<files, ready, hot, op, fate, marks>>

FinishHydration ==
    /\ maint.phase = "Reconcile" /\ maint.todo = {}
    /\ ready' = TRUE
    /\ maint' = AtRest
    /\ UNCHANGED <<diskVars, ram, hot, dirty, op, historyVars, troubles>>

-----------------------------------------------------------------------------
(* The owner: compaction.  It keeps the lease while it tries again.        *)

BeginCompaction ==
    /\ ready /\ LeaseIsFree
    /\ maint' = Phase("Inspect", None)
    /\ UNCHANGED <<diskVars, memoryVars, op, historyVars, troubles>>

NextOf(plan) ==
    IF "catalog" \in plan THEN Phase("Create", "catalog")
    ELSE IF "read" \in plan THEN Phase("Create", "read") ELSE AtRest

\* The thresholds: a catalog that is dirty is due, any other delta may be.
\* A delta with an unreadable header fails the inspection each time.
Delta(p) == files[p].delta
Unreadable == \E p \in Projections : Delta(p).state = "Incompatible"

Inspect ==
    /\ maint.phase = "Inspect"
    /\ \/ Unreadable /\ UNCHANGED maint
       \/ /\ ~Unreadable
          /\ \E due \in SUBSET {p \in Projections : Exists(Delta(p))} :
                LET plan == IF dirty THEN due \cup {"catalog"} ELSE due
                IN maint' = [NextOf(plan) EXCEPT !.plan = plan]
    /\ UNCHANGED <<diskVars, memoryVars, op, historyVars, troubles>>

SetTemp(p, f) == files' = [files EXCEPT ![p].temp = f]

Create ==
    LET p == maint.journal
    IN /\ maint.phase = "Create"
       /\ \/ /\ SetTemp(p, File("Ready", Nothing(p)))
             /\ maint' = [Phase("Write", p) EXCEPT
                            !.todo = {c \in Conversations : ram[p][c] # None}]
             /\ UNCHANGED troubles
          \/ /\ Pay(1)
             /\ \E s \in JournalState \ {"PartialTail"} : SetTemp(p, File(s, Nothing(p)))
             /\ UNCHANGED maint
       /\ UNCHANGED <<segment, memoryVars, op, historyVars>>

\* The record is ticked off before it is written: the next try goes on with
\* the one behind it.
WriteRecord(c) ==
    LET p == maint.journal
        f == files[p].temp
    IN /\ maint.phase = "Write" /\ c \in maint.todo
       /\ maint' = [maint EXCEPT !.todo = @ \ {c}]
       /\ \E o \in PutSlot(p, f, c, ram[p][c]) :
             /\ Pay(o.cost)
             /\ SetTemp(p, o.file)
             /\ marks' = IF p = "catalog" THEN marks
                         ELSE AnyMark((IF o.weak THEN HasSlot(f) ELSE {})
                                      \cup (IF o.ok THEN {} ELSE {c}))
       /\ UNCHANGED <<segment, memoryVars, op, fate, lost>>

\* Mutant: the delta is removed next, replaced or not.
ThenRemoveDelta(p, replaced) == Phase("RemoveDelta", p)

AfterReplace(p, replaced) == IF replaced THEN Phase("RemoveDelta", p) ELSE maint

Replace ==
    LET p == maint.journal
    IN /\ maint.phase = "Write" /\ maint.todo = {}
       /\ \E o \in ReplaceFile(files[p], NoFile(p)) :
             /\ Pay(o.cost)
             /\ files' = [files EXCEPT ![p] = o.file]
             /\ marks' = IF o.weak /\ p = "read"
                         THEN AnyMark(Conversations) ELSE marks
             /\ maint' = AfterReplace(p, o.ok)
       /\ UNCHANGED <<segment, memoryVars, op, fate, lost>>

RemoveDelta ==
    LET p == maint.journal
    IN /\ maint.phase = "RemoveDelta"
       /\ \/ SetDelta(p, NoFile(p)) /\ UNCHANGED troubles
          \/ Pay(1) /\ UNCHANGED files
       /\ dirty' = (dirty /\ p # "catalog")
       /\ maint' = [NextOf(maint.plan \ {"catalog", p}) EXCEPT
                      !.plan = @ \ {"catalog", p}]
       /\ UNCHANGED <<segment, ready, ram, hot, op, historyVars>>

-----------------------------------------------------------------------------
(* cancelMaintenance at a step boundary; a boot after the power was gone.  *)

Stop ==
    /\ maint # AtRest
    /\ Pay(1)
    /\ maint' = AtRest
    /\ UNCHANGED <<diskVars, memoryVars, op, historyVars>>

PowerLoss ==
    /\ powerLosses > 0 /\ powerLosses' = powerLosses - 1
    /\ ready' = FALSE /\ dirty' = FALSE
    /\ ram' = [p \in Projections |-> Nothing(p)]
    /\ hot' = {}
    /\ op' = NoOp /\ maint' = AtRest
    /\ troubles' = MaxTroubles
    /\ UNCHANGED <<diskVars, historyVars>>

Caller ==
    \/ \E m \in Messages : AppendRow(m)
    \/ RememberHash \/ ListConversation
    \/ \E c \in Conversations : MarkRead(c) \/ Clear(c)
    \/ Relist
    \/ Unlist \/ Unmark

Hydrate ==
    \/ BeginHydration \/ Recover \/ Replay \/ LookAtSeen \/ RebuildSeen
    \/ \E c \in Conversations : ReconcileConversation(c)
    \/ FinishHydration

Compact ==
    \/ Inspect \/ Create
    \/ \E c \in Conversations : WriteRecord(c)
    \/ Replace \/ RemoveDelta

StoreNext ==
    \/ (Caller \/ Hydrate \/ BeginCompaction \/ Compact \/ Stop)
          /\ UNCHANGED powerLosses
    \/ PowerLoss

StoreSpec == StoreInit /\ [][StoreNext]_storeVars

-----------------------------------------------------------------------------
(* A message the caller was told is stored stays in its segment until its  *)
(* conversation is cleared, and the conversation is listed whenever the    *)
(* store is ready; whatever the catalog files went through.  Given up are  *)
(* rows whose journal was denied and truncated, or set aside by a repair   *)
(* that did not come to its second rename.                                 *)
CommittedIsFound ==
    \A m \in Messages :
        LET c == ConversationOf[m]
        IN fate[m] = "acked" /\ m \notin lost.rows =>
              /\ m \in Rows(c)
              /\ ready /\ c \notin lost.listed => Listed(c)

\* The snapshot a boot would use, and what it would find with the delta.
Base(f) == IF Exists(f.snapshot) THEN f.snapshot ELSE f.backup

DurableMark(c) ==
    LET f == files["read"]
        v == IF f.delta.slots[c] # None THEN f.delta.slots[c]
             ELSE Base(f).slots[c]
    IN IF v = Deleted THEN None ELSE v

InFiles(m) ==
    \/ files["seen"].delta.slots[m] # None
    \/ Base(files["seen"]).slots[m] # None

(* A read mark that was set is the one found, in memory and after a boot,  *)
(* at every step of a compaction and of a repair; while one is being set   *)
(* or when setting it failed, it or one found before.                      *)
MarksKept ==
    \A c \in Conversations :
        /\ DurableMark(c) \in marks[c]
        /\ ready => ram["read"][c] \in marks[c]

(* The hash of an acknowledged message, by which a repeated offer of it is *)
(* known, is in the files a boot would read, also while they are rebuilt.  *)
HashesKept ==
    \A m \in Messages :
        fate[m] = "acked" /\ m \notin lost.hashes \cup lost.rows => InFiles(m)

(* The files keep, at every step, what the path of a received text takes   *)
(* for granted of its store (TextStore), but for the losses recorded: rows *)
(* and hashes go away by a clear or by a rebuild that finds no row, and an *)
(* acknowledgement is given only for what the files hold.                  *)
Contract == INSTANCE TextStore WITH
    Texts <- Messages,
    Hashed <- Messages,
    rows <- {m \in Messages : m \in Rows(ConversationOf[m])},
    hashes <- {m \in Messages : InFiles(m)},
    acked <- {m \in Messages : fate[m] = "acked"},
    lost <- lost.rows \cup lost.hashes

TextStoreSpec == Contract!Spec
=============================================================================
