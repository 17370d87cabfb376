--------------------------- MODULE SdStore_proofs ----------------------------
(***************************************************************************)
(* Proofs about SdStore, for any conversations, messages, rows, troubles   *)
(* and power losses.                                                       *)
(*                                                                         *)
(* An operation on one file has many outcomes, so the first part says once *)
(* what all of them keep: the other slots, or the operation gave them up   *)
(* by name; the new slot, if the code says so.  TypeInv adds to the types  *)
(* who holds the lease and that a file that is gone has no content.  Then  *)
(* each property has an invariant of its own:                              *)
(*   RowsInv    the row is in the segment from the first step of an append *)
(*              on, and the catalog in memory agrees with the segments     *)
(*              once a conversation is reconciled;                         *)
(*   HashesInv  seen_hot_ says no more than the files do, so a hash that   *)
(*              is skipped as known is in a file;                          *)
(*   MarksInv   what a compaction has copied agrees with the memory, which *)
(*              agrees with the files, also before the delta is removed.   *)
(***************************************************************************)
EXTENDS SdStore, TLAPS

RowFile == [state : JournalState, slots : Seq(Messages)]
SlotFile(p) == [state : JournalState, slots : Contents(p)]
Priced(o) == o.ok \in BOOLEAN /\ o.cost \in Nat /\ o.weak \in BOOLEAN

-----------------------------------------------------------------------------
(* One file *)

\* What create and append may leave of a file.
LEMMA AppendOutcome ==
    ASSUME NEW f, f.state \in JournalState, NEW with, NEW alone, NEW empty,
           NEW o \in AppendTo(f, with, alone, empty)
    PROVE  /\ Priced(o)
           /\ \/ o.file = f
              \/ /\ o.file = File(o.file.state, o.file.slots)
                 /\ o.file.state \in JournalState \ {"Missing"}
           /\ o.ok => o.file.slots = (IF o.weak \/ ~Exists(f) THEN alone ELSE with)
           /\ o.weak => Exists(f) /\ o.file.slots \in {alone, empty}
           /\ ~o.weak /\ Exists(f) => o.file.slots \in {with, f.slots}
           /\ ~o.weak /\ ~Exists(f) => o.file.slots \in {alone, empty, f.slots}
  <1>1. ASSUME NEW price \in Nat, NEW gaveUp \in BOOLEAN,
               NEW x \in CreateAndAppend(alone, empty, price, gaveUp)
        PROVE  /\ x.cost \in Nat /\ x.ok \in BOOLEAN /\ x.weak = gaveUp
               /\ x.file = File(x.file.state, x.file.slots)
               /\ x.file.state \in JournalState \ {"Missing"}
               /\ x.file.slots \in {alone, empty}
               /\ x.ok => x.file.slots = alone
    <2>1. CASE \E told \in BOOLEAN :
                  x = Outcome(File("Ready", alone), told,
                              IF told THEN price ELSE price + 1, gaveUp)
      BY <2>1 DEF Outcome, File, JournalState
    <2>2. CASE \E s \in JournalState \ {"Missing"} :
                  x = Outcome(File(s, empty), FALSE, price + 1, gaveUp)
      BY <2>2 DEF Outcome, File
    <2> QED
      BY <1>1, <2>1, <2>2 DEF CreateAndAppend
  <1>2. CASE o \in CreateAndAppend(alone, empty, 1, TRUE) /\ Exists(f)
    BY <1>2, <1>1 DEF Priced
  <1>3. CASE o \in CreateAndAppend(alone, empty, 0, FALSE) /\ ~Exists(f)
    BY <1>3, <1>1 DEF Priced
  <1>4. CASE o = Outcome(f, FALSE, 1, FALSE) \/ o = Outcome(f, FALSE, 0, FALSE)
    <2>1. o.file = f /\ o.ok = FALSE /\ o.weak = FALSE /\ o.cost \in Nat
      BY <1>4 DEF Outcome
    <2> QED
      BY <2>1 DEF Priced
  <1>5. CASE /\ f.state = "Ready"
             /\ \E left \in {File("Ready", with), f, File("PartialTail", f.slots)},
                   ok \in BOOLEAN, n \in Nat :
                   /\ o = Outcome(left, ok, n, FALSE)
                   /\ ok => left = File("Ready", with)
    BY <1>5 DEF Outcome, File, Priced, JournalState, Exists
  <1> QED
    BY <1>2, <1>3, <1>4, <1>5 DEF AppendTo

Tidy(p, f) == f.state = "Missing" => f.slots = Nothing(p)

\* After a slot k is put into f: every other slot is as it was, or was given
\* up; and the slot is there when the code says so.
PutLeaves(p, f, k, v, o) ==
    /\ Priced(o)
    /\ o.file \in SlotFile(p) /\ Tidy(p, o.file)
    /\ o.ok => o.file.slots[k] = v
    /\ \A x \in Keys(p) :
          \/ o.file.slots[x] = f.slots[x]
          \/ x = k /\ o.file.slots[x] = v
          \/ o.weak /\ o.file.slots[x] = None

LEMMA PutSlotOutcome ==
    ASSUME NEW p, NEW f \in SlotFile(p), Tidy(p, f), NEW k \in Keys(p),
           NEW v \in Value(p) \cup {None, Deleted}, NEW o \in PutSlot(p, f, k, v)
    PROVE  PutLeaves(p, f, k, v, o)
  <1> DEFINE with == Put(f.slots, k, v)
             alone == Only(f.slots, k, v)
             empty == Nothing(p)
  <1>1. f.slots \in Contents(p) /\ f.state \in JournalState
    BY DEF SlotFile
  <1>2. /\ with \in Contents(p) /\ with[k] = v
        /\ \A x \in Keys(p) : x # k => with[x] = f.slots[x]
    BY <1>1 DEF Put, Contents
  <1>3. /\ alone \in Contents(p) /\ alone[k] = v
        /\ \A x \in Keys(p) : x # k => alone[x] = None
    BY <1>1 DEF Only, Contents
  <1>4. empty \in Contents(p) /\ \A x \in Keys(p) : empty[x] = None
    BY DEF Nothing, Contents
  <1>5. o \in AppendTo(f, with, alone, empty)
    BY DEF PutSlot
  <1> HIDE DEF with, alone, empty
  <1>6. /\ Priced(o)
        /\ \/ o.file = f
           \/ /\ o.file = File(o.file.state, o.file.slots)
              /\ o.file.state \in JournalState \ {"Missing"}
        /\ o.ok => o.file.slots = (IF o.weak \/ ~Exists(f) THEN alone ELSE with)
        /\ o.weak => Exists(f) /\ o.file.slots \in {alone, empty}
        /\ ~o.weak /\ Exists(f) => o.file.slots \in {with, f.slots}
        /\ ~o.weak /\ ~Exists(f) => o.file.slots \in {alone, empty, f.slots}
    BY <1>1, <1>5, AppendOutcome
  <1>7. o.file.slots \in {with, alone, empty, f.slots}
    BY <1>6
  <1>8. o.file \in SlotFile(p) /\ Tidy(p, o.file)
    <2>1. CASE o.file = f
      BY <2>1
    <2>2. CASE /\ o.file = File(o.file.state, o.file.slots)
               /\ o.file.state \in JournalState \ {"Missing"}
      BY <2>2, <1>1, <1>2, <1>3, <1>4, <1>7 DEF File, SlotFile, Tidy
    <2> QED
      BY <1>6, <2>1, <2>2
  <1>9. ~Exists(f) => \A x \in Keys(p) : f.slots[x] = None
    BY DEF Exists, Tidy, Nothing
  <1>10. o.ok => o.file.slots[k] = v
    BY <1>2, <1>3, <1>6
  <1>11. ASSUME NEW x \in Keys(p)
         PROVE  \/ o.file.slots[x] = f.slots[x]
                \/ x = k /\ o.file.slots[x] = v
                \/ o.weak /\ o.file.slots[x] = None
    BY <1>2, <1>3, <1>4, <1>6, <1>9
  <1> QED
    BY <1>6, <1>8, <1>10, <1>11 DEF PutLeaves

\* A repair keeps the slots, or gives some up.
LEMMA RepairOutcome ==
    ASSUME NEW f, NEW remnants, NEW empty, NEW o \in Repair(f, remnants, empty)
    PROVE  /\ Priced(o)
           /\ o.ok => o.file.state = "Ready"
           /\ \/ o.file = f
              \/ o.file = File("Ready", f.slots)
              \/ o.file = File("Missing", empty) /\ o.weak /\ ~o.ok
              \/ o.weak /\ \E r \in remnants : o.file = File("Ready", r)
  <1>1. CASE \E r \in remnants : o = Outcome(File("Ready", r), TRUE, 1, TRUE)
    BY <1>1 DEF Outcome, File, Priced
  <1>2. CASE o = Outcome(File("Ready", f.slots), TRUE, 0, FALSE)
    BY <1>2 DEF Outcome, File, Priced
  <1>3. CASE o = Outcome(f, FALSE, 1, FALSE)
    BY <1>3 DEF Outcome, Priced
  <1>4. CASE o = Outcome(File("Missing", empty), FALSE, 1, TRUE)
    BY <1>4 DEF Outcome, File, Priced
  <1> QED
    BY <1>1, <1>2, <1>3, <1>4 DEF Repair

LEMMA PutSlotRepairedOutcome ==
    ASSUME NEW p, NEW f \in SlotFile(p), Tidy(p, f), NEW k \in Keys(p),
           NEW v \in Value(p) \cup {None, Deleted},
           NEW o \in PutSlotRepaired(p, f, k, v)
    PROVE  PutLeaves(p, f, k, v, o)
  <1>1. CASE f.state # "PartialTail"
    BY <1>1, PutSlotOutcome DEF PutSlotRepaired
  <1>2. CASE f.state = "PartialTail"
    <2> DEFINE repairs == Repair(f, Remnants(f.slots), Nothing(p))
    <2>1. f.slots \in Contents(p) /\ "Ready" \in JournalState
                                  /\ "Missing" \in JournalState
      BY DEF SlotFile, JournalState
    <2>2. \A r \in Remnants(f.slots) :
             r \in Contents(p) /\ \A x \in Keys(p) : r[x] \in {f.slots[x], None}
      BY <2>1 DEF Remnants, Contents
    <2>3. Nothing(p) \in Contents(p) /\ \A x \in Keys(p) : Nothing(p)[x] = None
      BY DEF Nothing, Contents
    <2>4. ASSUME NEW e \in repairs
          PROVE  /\ Priced(e) /\ e.file \in SlotFile(p) /\ Tidy(p, e.file)
                 /\ \A x \in Keys(p) :
                       \/ e.file.slots[x] = f.slots[x]
                       \/ e.weak /\ e.file.slots[x] = None
      <3>1. /\ Priced(e)
            /\ e.ok => e.file.state = "Ready"
            /\ \/ e.file = f
               \/ e.file = File("Ready", f.slots)
               \/ e.file = File("Missing", Nothing(p)) /\ e.weak /\ ~e.ok
               \/ e.weak /\ \E r \in Remnants(f.slots) : e.file = File("Ready", r)
        BY RepairOutcome
      <3>2. CASE e.file = f
        BY <3>1, <3>2
      <3>3. CASE e.file = File("Ready", f.slots)
        BY <3>1, <3>3, <2>1 DEF File, SlotFile, Tidy
      <3>4. CASE e.file = File("Missing", Nothing(p)) /\ e.weak
        BY <3>1, <3>4, <2>1, <2>3 DEF File, SlotFile, Tidy
      <3>5. CASE e.weak /\ \E r \in Remnants(f.slots) : e.file = File("Ready", r)
        BY <3>1, <3>5, <2>1, <2>2 DEF File, SlotFile, Tidy
      <3> QED
        BY <3>1, <3>2, <3>3, <3>4, <3>5
    <2>5. CASE o \in repairs /\ ~o.ok
      BY <2>5, <2>4 DEF PutLeaves
    <2>6. ASSUME NEW e \in repairs, NEW n \in PutSlot(p, e.file, k, v),
                 o = Outcome(n.file, n.ok, e.cost + n.cost, e.weak \/ n.weak)
          PROVE  PutLeaves(p, f, k, v, o)
      <3>1. PutLeaves(p, e.file, k, v, n)
        BY <2>4, PutSlotOutcome
      <3>2. /\ o.file = n.file /\ o.ok = n.ok /\ o.cost = e.cost + n.cost
            /\ o.weak = (e.weak \/ n.weak)
        BY <2>6 DEF Outcome
      <3>3. Priced(o)
        BY <2>4, <3>1, <3>2 DEF Priced, PutLeaves
      <3>4. ASSUME NEW x \in Keys(p)
            PROVE  \/ o.file.slots[x] = f.slots[x]
                   \/ x = k /\ o.file.slots[x] = v
                   \/ o.weak /\ o.file.slots[x] = None
        BY <2>4, <3>1, <3>2 DEF PutLeaves
      <3> QED
        BY <3>1, <3>2, <3>3, <3>4 DEF PutLeaves
    <2> QED
      BY <1>2, <2>5, <2>6 DEF PutSlotRepaired, After
  <1> QED
    BY <1>1, <1>2

RowsOf(rows) == {rows[i] : i \in DOMAIN rows}
TidyRows(f) == f.state = "Missing" => f.slots = <<>>

\* Rows behind which one was put, and a row that may precede a repair.
LEMMA RowsOfAppend ==
    ASSUME NEW rows \in Seq(Messages), NEW m \in Messages
    PROVE  /\ Append(rows, m) \in Seq(Messages)
           /\ Len(Append(rows, m)) = Len(rows) + 1
           /\ RowsOf(Append(rows, m)) = RowsOf(rows) \cup {m}
  <1>1. /\ Append(rows, m) \in Seq(Messages)
        /\ Len(Append(rows, m)) = Len(rows) + 1
        /\ Append(rows, m)[Len(rows) + 1] = m
        /\ \A i \in 1..Len(rows) : Append(rows, m)[i] = rows[i]
    OBVIOUS
  <1>2. DOMAIN rows = 1..Len(rows) /\ Len(rows) \in Nat
        /\ DOMAIN Append(rows, m) = 1..(Len(rows) + 1)
    BY <1>1
  <1> QED
    BY <1>1, <1>2 DEF RowsOf

LEMMA RowsOfSuffix ==
    ASSUME NEW rows \in Seq(Messages), NEW r \in Suffixes(rows)
    PROVE  /\ r \in Seq(Messages) /\ Len(r) <= Len(rows)
           /\ RowsOf(r) \subseteq RowsOf(rows)
  <1>1. PICK i \in 2..(Len(rows) + 1) : r = SubSeq(rows, i, Len(rows))
    BY DEF Suffixes
  <1>2. Len(rows) \in Nat /\ i \in Nat /\ DOMAIN rows = 1..Len(rows)
    BY <1>1
  <1>3. /\ r \in Seq(Messages) /\ Len(r) = Len(rows) - i + 1
        /\ DOMAIN r = 1..(Len(rows) - i + 1)
        /\ \A j \in DOMAIN r : r[j] = rows[i + j - 1]
    BY <1>1, <1>2
  <1>4. \A j \in DOMAIN r : i + j - 1 \in DOMAIN rows
    BY <1>1, <1>2, <1>3
  <1> QED
    BY <1>1, <1>2, <1>3, <1>4 DEF RowsOf

\* After a row m is put behind those of f: the others are there, or were
\* given up, and the row is there when the code says so.
RowLeaves(f, m, o) ==
    /\ Priced(o)
    /\ o.file \in RowFile /\ TidyRows(o.file)
    /\ Len(o.file.slots) <= Len(f.slots) + 1
    /\ o.ok => m \in RowsOf(o.file.slots)
    /\ o.weak \/ RowsOf(f.slots) \subseteq RowsOf(o.file.slots)
    /\ RowsOf(o.file.slots) \subseteq RowsOf(f.slots) \cup {m}

LEMMA RowInOutcome ==
    ASSUME NEW f \in RowFile, TidyRows(f), NEW count, NEW m \in Messages,
           NEW o \in RowIn(f, count, m)
    PROVE  RowLeaves(f, m, o)
  <1> DEFINE with == Append(f.slots, m)
             alone == <<m>>
             empty == <<>>
  <1>1. f.slots \in Seq(Messages) /\ f.state \in JournalState
        /\ Len(f.slots) \in Nat
    BY DEF RowFile
  <1>2. /\ with \in Seq(Messages) /\ Len(with) = Len(f.slots) + 1
        /\ RowsOf(with) = RowsOf(f.slots) \cup {m}
    BY <1>1, RowsOfAppend
  <1>3. /\ alone \in Seq(Messages) /\ Len(alone) = 1 /\ RowsOf(alone) = {m}
        /\ empty \in Seq(Messages) /\ Len(empty) = 0
    BY DEF RowsOf
  <1>4. RowsOf(<<>>) = {}
    BY DEF RowsOf
  <1>5. CASE o = Outcome(f, FALSE, 0, FALSE)
    <2>1. o.file = f /\ o.ok = FALSE /\ o.cost = 0 /\ o.weak = FALSE
      BY <1>5 DEF Outcome
    <2> QED
      <3>1. Priced(o)
        BY <1>5 DEF Outcome, Priced
      <3>2. Len(o.file.slots) <= Len(f.slots) + 1
        BY <2>1, <1>1
      <3> QED
        BY <2>1, <3>1, <3>2 DEF RowLeaves
  <1>6. CASE o \in AppendTo(f, with, alone, empty)
    <2> HIDE DEF with, alone
    <2>1. /\ Priced(o)
          /\ \/ o.file = f
             \/ /\ o.file = File(o.file.state, o.file.slots)
                /\ o.file.state \in JournalState \ {"Missing"}
          /\ o.ok => o.file.slots = (IF o.weak \/ ~Exists(f) THEN alone ELSE with)
          /\ o.weak => Exists(f) /\ o.file.slots \in {alone, empty}
          /\ ~o.weak /\ Exists(f) => o.file.slots \in {with, f.slots}
          /\ ~o.weak /\ ~Exists(f) => o.file.slots \in {alone, empty, f.slots}
      BY <1>1, <1>6, AppendOutcome
    <2>2. o.file.slots \in {with, alone, empty, f.slots}
      BY <2>1
    <2>3. o.file.slots \in Seq(Messages) /\ Len(o.file.slots) <= Len(f.slots) + 1
      <3>1. CASE o.file.slots = with
        BY <3>1, <1>1, <1>2
      <3>2. CASE o.file.slots = alone
        BY <3>2, <1>1, <1>3
      <3>3. CASE o.file.slots = empty
        BY <3>3, <1>1, <1>3
      <3>4. CASE o.file.slots = f.slots
        BY <3>4, <1>1
      <3> QED
        BY <2>2, <3>1, <3>2, <3>3, <3>4
    <2>4. o.file \in RowFile /\ TidyRows(o.file)
      BY <2>1, <2>3 DEF File, RowFile, TidyRows
    <2>5. o.ok => m \in RowsOf(o.file.slots)
      BY <2>1, <1>2, <1>3
    <2>6. o.weak \/ RowsOf(f.slots) \subseteq RowsOf(o.file.slots)
      <3>1. ~Exists(f) => RowsOf(f.slots) = {}
        BY <1>4 DEF Exists, TidyRows
      <3> QED
        BY <2>1, <1>2, <3>1
    <2>7. RowsOf(o.file.slots) \subseteq RowsOf(f.slots) \cup {m}
      <3>1. RowsOf(empty) = {}
        BY <1>4
      <3> QED
        BY <2>2, <1>2, <1>3, <3>1
    <2> QED
      BY <2>1, <2>3, <2>4, <2>5, <2>6, <2>7 DEF RowLeaves
  <1> QED
    BY <1>5, <1>6 DEF RowIn

LEMMA RepairedRows ==
    ASSUME NEW f \in RowFile, TidyRows(f),
           NEW o \in Repair(f, Suffixes(f.slots), <<>>)
    PROVE  /\ Priced(o) /\ o.file \in RowFile /\ TidyRows(o.file)
           /\ Len(o.file.slots) <= Len(f.slots)
           /\ o.weak \/ o.file.slots = f.slots
           /\ RowsOf(o.file.slots) \subseteq RowsOf(f.slots)
  <1>1. /\ f.slots \in Seq(Messages) /\ Len(f.slots) \in Nat
        /\ "Ready" \in JournalState /\ "Missing" \in JournalState
    BY DEF RowFile, JournalState
  <1>2. <<>> \in Seq(Messages) /\ Len(<<>>) = 0
    OBVIOUS
  <1>3. /\ Priced(o)
        /\ o.ok => o.file.state = "Ready"
        /\ \/ o.file = f
           \/ o.file = File("Ready", f.slots)
           \/ o.file = File("Missing", <<>>) /\ o.weak /\ ~o.ok
           \/ o.weak /\ \E r \in Suffixes(f.slots) : o.file = File("Ready", r)
    BY RepairOutcome
  <1>4. CASE o.file = f
    BY <1>1, <1>3, <1>4
  <1>5. CASE o.file = File("Ready", f.slots)
    BY <1>1, <1>3, <1>5 DEF File, RowFile, TidyRows
  <1>6. CASE o.file = File("Missing", <<>>) /\ o.weak
    BY <1>1, <1>2, <1>3, <1>6 DEF File, RowFile, TidyRows, RowsOf
  <1>7. ASSUME o.weak, NEW r \in Suffixes(f.slots), o.file = File("Ready", r)
        PROVE  /\ o.file \in RowFile /\ TidyRows(o.file)
               /\ Len(o.file.slots) <= Len(f.slots)
               /\ RowsOf(o.file.slots) \subseteq RowsOf(f.slots)
    BY <1>1, <1>7, RowsOfSuffix DEF File, RowFile, TidyRows
  <1> QED
    BY <1>3, <1>4, <1>5, <1>6, <1>7

LEMMA PutRowOutcome ==
    ASSUME NEW f \in RowFile, TidyRows(f), NEW m \in Messages,
           NEW o \in PutRow(f, m)
    PROVE  RowLeaves(f, m, o)
  <1>1. CASE f.state # "PartialTail"
    BY <1>1, RowInOutcome DEF PutRow
  <1>2. CASE f.state = "PartialTail"
    <2> DEFINE repairs == Repair(f, Suffixes(f.slots), <<>>)
    <2>1. CASE o \in repairs /\ ~o.ok
      <3>1. Len(f.slots) \in Nat
        BY DEF RowFile
      <3>2. /\ Priced(o) /\ o.file \in RowFile /\ TidyRows(o.file)
            /\ Len(o.file.slots) <= Len(f.slots)
            /\ o.weak \/ o.file.slots = f.slots
            /\ RowsOf(o.file.slots) \subseteq RowsOf(f.slots)
        BY <2>1, RepairedRows
      <3>3. Len(o.file.slots) \in Nat
        BY <3>2 DEF RowFile
      <3> QED
        BY <2>1, <3>1, <3>2, <3>3 DEF RowLeaves
    <2>2. ASSUME NEW e \in repairs, NEW n \in RowIn(e.file, Len(f.slots), m),
                 o = Outcome(n.file, n.ok, e.cost + n.cost, e.weak \/ n.weak)
          PROVE  RowLeaves(f, m, o)
      <3>1. /\ Priced(e) /\ e.file \in RowFile /\ TidyRows(e.file)
            /\ Len(e.file.slots) <= Len(f.slots)
            /\ e.weak \/ e.file.slots = f.slots
            /\ RowsOf(e.file.slots) \subseteq RowsOf(f.slots)
        BY RepairedRows
      <3>2. RowLeaves(e.file, m, n)
        BY <3>1, RowInOutcome
      <3>3. /\ o.file = n.file /\ o.ok = n.ok /\ o.cost = e.cost + n.cost
            /\ o.weak = (e.weak \/ n.weak)
        BY <2>2 DEF Outcome
      <3>4. /\ Len(f.slots) \in Nat /\ Len(e.file.slots) \in Nat
            /\ Len(n.file.slots) \in Nat
        BY <3>1, <3>2 DEF RowFile, RowLeaves
      <3>5. Priced(o)
        BY <3>1, <3>2, <3>3 DEF Priced, RowLeaves
      <3>6. Len(o.file.slots) <= Len(f.slots) + 1
        BY <3>1, <3>2, <3>3, <3>4 DEF RowLeaves
      <3> QED
        BY <3>1, <3>2, <3>3, <3>5, <3>6 DEF RowLeaves
    <2> QED
      BY <1>2, <2>1, <2>2 DEF PutRow, After
  <1> QED
    BY <1>1, <1>2

-----------------------------------------------------------------------------
(* Types, and who holds the lease *)

SegmentOK ==
    /\ segment \in [Conversations -> RowFile]
    /\ \A c \in Conversations :
          TidyRows(segment[c]) /\ Len(segment[c].slots) <= MaxRows

FilesOK ==
    /\ DOMAIN files = Journals
    /\ \A p \in Journals :
          /\ files[p] \in [Roles -> SlotFile(p)]
          /\ \A r \in Roles : Tidy(p, files[p][r])

RamOK ==
    /\ DOMAIN ram = Projections
    /\ \A p \in Projections : ram[p] \in [Conversations -> Value(p) \cup {None}]

OpOK ==
    /\ op \in [step : CallerStep, conv : Conversations \cup {None},
               msg : Messages \cup {None}, count : Nat]
    /\ op.step # "idle" =>
          op.conv \in Conversations /\ ready /\ maint.phase = "Idle"
    /\ op.step \in {"hash", "list"} =>
          op.msg \in Messages /\ op.conv = ConversationOf[op.msg]
    /\ op.step = "relist" => op.count \in 0..MaxRows

MaintOK ==
    /\ maint \in [phase : {"Idle"} \cup Hydrating \cup Compacting,
                  journal : Journals \cup {None},
                  plan : SUBSET Projections, todo : SUBSET Conversations]
    /\ maint.phase \in Hydrating => ~ready
    /\ maint.phase \in Compacting => ready
    /\ maint.phase = "Recover" => maint.journal \in Journals
    /\ maint.phase \in {"Replay", "Create", "Write", "RemoveDelta"} =>
          maint.journal \in Projections
    /\ maint.phase = "RebuildSeen" => maint.todo = Conversations

RestOK ==
    /\ ready \in BOOLEAN /\ dirty \in BOOLEAN
    /\ hot \in SUBSET Messages
    /\ fate \in [Messages -> {"new", "acked", "cleared"}]
    /\ marks \in [Conversations -> SUBSET Mark]
    /\ lost \in [rows : SUBSET Messages, hashes : SUBSET Messages,
                 listed : SUBSET Conversations]
    /\ troubles \in 0..MaxTroubles /\ powerLosses \in 0..MaxPowerLosses

TypeInv == SegmentOK /\ FilesOK /\ RamOK /\ OpOK /\ MaintOK /\ RestOK

LEMMA TypeInvIsType == TypeInv => StoreTypeOK
  BY SMT DEF TypeInv, SegmentOK, FilesOK, RamOK, OpOK, MaintOK, RestOK,
             RowFile, SlotFile, StoreTypeOK

LEMMA NoRowsOK ==
    NoRows \in RowFile /\ TidyRows(NoRows) /\ Len(NoRows.slots) <= MaxRows
  BY StoreAssumption DEF NoRows, File, RowFile, TidyRows, JournalState

LEMMA Marks == None \in Mark /\ 0..MaxRows \subseteq Mark /\ 0 \in 0..MaxRows
  BY StoreAssumption DEF Mark

LEMMA InitTypeInv == StoreInit => TypeInv
  <1> SUFFICES ASSUME StoreInit PROVE TypeInv
    OBVIOUS
  <1>1. SegmentOK
    BY NoRowsOK DEF StoreInit, SegmentOK
  <1>2. FilesOK
    <2>1. \A p \in Journals : NoFile(p) \in SlotFile(p) /\ Tidy(p, NoFile(p))
      BY DEF NoFile, Nothing, File, SlotFile, Tidy, JournalState, Contents
    <2>2. \A p \in Journals : files[p] = [r \in Roles |-> NoFile(p)]
      BY DEF StoreInit
    <2> QED
      BY <2>1, <2>2 DEF StoreInit, FilesOK
  <1>3. RamOK
    BY DEF StoreInit, RamOK, Nothing, Projections, Keys
  <1>4. OpOK /\ MaintOK
    BY DEF StoreInit, OpOK, MaintOK, NoOp, AtRest, CallerStep, Hydrating, Compacting
  <1>5. RestOK
    <2>1. ready \in BOOLEAN /\ dirty \in BOOLEAN /\ hot \in SUBSET Messages
      BY DEF StoreInit
    <2>2. /\ fate \in [Messages -> {"new", "acked", "cleared"}]
          /\ marks \in [Conversations -> SUBSET Mark]
      BY Marks DEF StoreInit
    <2>3. lost \in [rows : SUBSET Messages, hashes : SUBSET Messages,
                   listed : SUBSET Conversations]
      BY DEF StoreInit
    <2>4. troubles \in 0..MaxTroubles /\ powerLosses \in 0..MaxPowerLosses
      BY StoreAssumption DEF StoreInit
    <2> QED
      BY <2>1, <2>2, <2>3, <2>4 DEF RestOK
  <1> QED
    BY <1>1, <1>2, <1>3, <1>4, <1>5 DEF TypeInv

-----------------------------------------------------------------------------
(* What single steps change *)

LEMMA NoFileOK == \A p : NoFile(p) \in SlotFile(p) /\ Tidy(p, NoFile(p))
  BY DEF NoFile, Nothing, File, SlotFile, Tidy, JournalState, Contents

\* One projection's files change, or one file of it.
LEMMA FilesChange ==
    ASSUME FilesOK, NEW p \in Journals, NEW g \in [Roles -> SlotFile(p)],
           \A r \in Roles : Tidy(p, g[r]),
           files' = [files EXCEPT ![p] = g]
    PROVE  /\ FilesOK'
           /\ files'[p] = g
           /\ \A q \in Journals : q # p => files'[q] = files[q]
  BY DEF FilesOK

LEMMA FileChange ==
    ASSUME FilesOK, NEW p \in Journals, NEW r \in Roles,
           NEW f \in SlotFile(p), Tidy(p, f),
           files' = [files EXCEPT ![p] = [files[p] EXCEPT ![r] = f]]
    PROVE  /\ FilesOK'
           /\ files'[p][r] = f
           /\ \A s \in Roles : s # r => files'[p][s] = files[p][s]
           /\ \A q \in Journals : q # p => files'[q] = files[q]
  <1> DEFINE g == [files[p] EXCEPT ![r] = f]
  <1>1. files[p] \in [Roles -> SlotFile(p)] /\ \A s \in Roles : Tidy(p, files[p][s])
    BY DEF FilesOK
  <1>2. /\ g \in [Roles -> SlotFile(p)] /\ g[r] = f
        /\ \A s \in Roles : s # r => g[s] = files[p][s]
    BY <1>1
  <1>3. \A s \in Roles : Tidy(p, g[s])
    BY <1>1, <1>2
  <1>4. files' = [files EXCEPT ![p] = g]
    OBVIOUS
  <1> HIDE DEF g
  <1>5. FilesOK' /\ files'[p] = g /\ \A q \in Journals : q # p => files'[q] = files[q]
    BY <1>2, <1>3, <1>4, FilesChange
  <1> QED
    BY <1>2, <1>5

\* A delta is a file; what was put into it leaves it one.
LEMMA DeltaChange ==
    ASSUME FilesOK, NEW p \in Journals, NEW f \in SlotFile(p), Tidy(p, f),
           SetDelta(p, f)
    PROVE  /\ FilesOK'
           /\ files'[p].delta = f
           /\ \A s \in Roles : s # "delta" => files'[p][s] = files[p][s]
           /\ \A q \in Journals : q # p => files'[q] = files[q]
  <1>1. files' = [files EXCEPT ![p] = [files[p] EXCEPT !["delta"] = f]]
    BY DEF SetDelta, FilesOK
  <1>2. "delta" \in Roles
    BY DEF Roles
  <1> QED
    BY <1>1, <1>2, FileChange

LEMMA TempChange ==
    ASSUME FilesOK, NEW p \in Journals, NEW f \in SlotFile(p), Tidy(p, f),
           SetTemp(p, f)
    PROVE  /\ FilesOK'
           /\ files'[p].temp = f
           /\ \A s \in Roles : s # "temp" => files'[p][s] = files[p][s]
           /\ \A q \in Journals : q # p => files'[q] = files[q]
  <1>1. files' = [files EXCEPT ![p] = [files[p] EXCEPT !["temp"] = f]]
    BY DEF SetTemp, FilesOK
  <1>2. "temp" \in Roles
    BY DEF Roles
  <1> QED
    BY <1>1, <1>2, FileChange

LEMMA Paid ==
    ASSUME RestOK, NEW n \in Nat, Pay(n)
    PROVE  troubles' \in 0..MaxTroubles
  BY StoreAssumption DEF RestOK, Pay

LEMMA OpEnds == op' = NoOp => OpOK'
  BY DEF OpOK, NoOp, CallerStep

LEMMA OpNext ==
    ASSUME NEW step \in CallerStep, NEW c \in Conversations,
           NEW m \in Messages \cup {None}, NEW n \in Nat,
           step \in {"hash", "list"} => m \in Messages /\ c = ConversationOf[m],
           step = "relist" => n \in 0..MaxRows,
           ready', maint'.phase = "Idle", op' = At(step, c, m, n)
    PROVE  OpOK'
  BY DEF OpOK, At

LEMMA MaintSame == MaintOK /\ UNCHANGED <<maint, ready>> => MaintOK'
  BY DEF MaintOK

LEMMA MaintRests == maint' = AtRest => MaintOK'
  BY DEF MaintOK, AtRest, Hydrating, Compacting

LEMMA Resting == maint = AtRest => maint.phase = "Idle"
  BY DEF AtRest

LEMMA RowsAreMessages ==
    ASSUME SegmentOK, NEW c \in Conversations
    PROVE  /\ segment[c] \in RowFile /\ TidyRows(segment[c])
           /\ Len(segment[c].slots) \in Nat
           /\ Rows(c) = RowsOf(segment[c].slots) /\ Rows(c) \subseteq Messages
  <1>1. segment[c] \in RowFile /\ TidyRows(segment[c])
    BY DEF SegmentOK
  <1>2. segment[c].slots \in Seq(Messages)
    BY <1>1 DEF RowFile
  <1>3. Rows(c) = RowsOf(segment[c].slots)
    BY DEF Rows, RowsOf
  <1>4. \A i \in DOMAIN segment[c].slots : segment[c].slots[i] \in Messages
    BY <1>2
  <1> QED
    BY <1>1, <1>2, <1>3, <1>4 DEF Rows

LEMMA AppendRowType ==
    ASSUME TypeInv, NEW m \in Messages, AppendRow(m), UNCHANGED powerLosses
    PROVE  TypeInv'
  <1> DEFINE c == ConversationOf[m]
             f == segment[c]
             count == Len(f.slots)
  <1>1. c \in Conversations
    BY StoreAssumption
  <1>2. /\ f \in RowFile /\ TidyRows(f) /\ count \in Nat
        /\ Rows(c) \subseteq Messages
    BY <1>1, RowsAreMessages DEF TypeInv
  <1>3. FilesOK' /\ RamOK' /\ MaintOK'
    BY MaintSame DEF AppendRow, memoryVars, TypeInv, FilesOK, RamOK
  <1>4. ready' /\ maint'.phase = "Idle"
    BY Resting DEF AppendRow, memoryVars, LeaseIsFree
  <1>5. "hash" \in CallerStep
    BY DEF CallerStep
  <1>6. CASE /\ op' = At("hash", c, m, count)
             /\ UNCHANGED <<segment, lost, troubles>>
    <2>1. OpOK'
      BY <1>1, <1>2, <1>4, <1>5, <1>6, OpNext
    <2>2. SegmentOK' /\ RestOK'
      BY <1>6 DEF TypeInv, AppendRow, memoryVars, SegmentOK, RestOK
    <2> QED
      BY <1>3, <2>1, <2>2 DEF TypeInv
  <1>7. ASSUME count < MaxRows, NEW o \in PutRow(f, m), Pay(o.cost),
               segment' = [segment EXCEPT ![c] = o.file],
               lost' = (IF o.weak THEN GiveUp("rows", Rows(c)) ELSE lost),
               op' = (IF o.ok THEN At("hash", c, m, count + 1) ELSE NoOp)
        PROVE  TypeInv'
    <2>1. RowLeaves(f, m, o)
      BY <1>2, PutRowOutcome
    <2>2. Len(o.file.slots) <= MaxRows
      <3>1. Len(o.file.slots) \in Nat
        BY <2>1 DEF RowLeaves, RowFile
      <3> QED
        BY <1>2, <1>7, <2>1, <3>1, StoreAssumption DEF RowLeaves
    <2>7. SegmentOK'
      BY <1>1, <1>7, <2>1, <2>2 DEF TypeInv, SegmentOK, RowLeaves
    <2>3. OpOK'
      <3>1. CASE o.ok
        BY <1>1, <1>2, <1>4, <1>5, <1>7, <3>1, OpNext
      <3>2. CASE ~o.ok
        BY <1>7, <3>2, OpEnds
      <3> QED
        BY <3>1, <3>2
    <2>4. troubles' \in 0..MaxTroubles
      BY <1>7, <2>1, Paid DEF TypeInv, RowLeaves, Priced
    <2>5. lost' \in [rows : SUBSET Messages, hashes : SUBSET Messages,
                     listed : SUBSET Conversations]
      BY <1>2, <1>7 DEF TypeInv, RestOK, GiveUp
    <2>6. RestOK'
      BY <2>4, <2>5 DEF TypeInv, AppendRow, memoryVars, RestOK
    <2> QED
      BY <1>3, <2>7, <2>3, <2>6 DEF TypeInv
  <1> QED
    BY <1>6, <1>7 DEF AppendRow

LEMMA RememberHashType ==
    ASSUME TypeInv, RememberHash, UNCHANGED powerLosses
    PROVE  TypeInv'
  <1> DEFINE m == op.msg
             f == files["seen"].delta
  <1>1. /\ op.step = "hash" /\ m \in Messages
        /\ op.conv \in Conversations /\ op.conv = ConversationOf[m]
        /\ op.count \in Nat /\ ready /\ maint.phase = "Idle"
    BY DEF RememberHash, TypeInv, OpOK
  <1>2. SegmentOK' /\ RamOK' /\ MaintOK' /\ ready' /\ maint'.phase = "Idle"
    BY <1>1, MaintSame DEF RememberHash, TypeInv, SegmentOK, RamOK
  <1>3. "seen" \in Journals /\ "delta" \in Roles /\ m \in Keys("seen")
        /\ 1 \in Value("seen") /\ Keys("seen") = Messages
    BY <1>1 DEF Journals, Roles, Keys, Value
  <1>4. f \in SlotFile("seen") /\ Tidy("seen", f)
    BY <1>3 DEF TypeInv, FilesOK
  <1>5. op' = [op EXCEPT !.step = "list"] => OpOK'
    <2> SUFFICES ASSUME op' = [op EXCEPT !.step = "list"] PROVE OpOK'
      OBVIOUS
    <2>1. "list" \in CallerStep
      BY DEF CallerStep
    <2> QED
      BY <1>1, <1>2, <2>1 DEF TypeInv, OpOK
  <1>6. CASE /\ op' = [op EXCEPT !.step = "list"]
             /\ UNCHANGED <<files, hot, lost, troubles>>
    <2>1. FilesOK' /\ RestOK'
      BY <1>6 DEF TypeInv, RememberHash, FilesOK, RestOK
    <2> QED
      BY <1>2, <1>5, <1>6, <2>1 DEF TypeInv
  <1>7. ASSUME NEW o \in PutSlotRepaired("seen", f, m, 1), Pay(o.cost),
               SetDelta("seen", o.file),
               lost' = [lost EXCEPT !.hashes =
                           (IF o.weak THEN @ \cup HasSlot(f) ELSE @)
                           \ (IF o.ok THEN {m} ELSE {})],
               hot' = (IF o.ok THEN hot \cup {m} ELSE hot),
               op' = (IF o.ok THEN [op EXCEPT !.step = "list"] ELSE NoOp)
        PROVE  TypeInv'
    <2>1. PutLeaves("seen", f, m, 1, o)
      BY <1>3, <1>4, PutSlotRepairedOutcome
    <2>2. FilesOK'
      BY <1>3, <1>7, <2>1, DeltaChange DEF TypeInv, PutLeaves
    <2>3. OpOK'
      BY <1>5, <1>7, OpEnds
    <2>4. troubles' \in 0..MaxTroubles
      BY <1>7, <2>1, Paid DEF TypeInv, PutLeaves, Priced
    <2>5. HasSlot(f) \subseteq Messages
      BY <1>3, <1>4 DEF HasSlot, SlotFile, Contents
    <2>6. lost' \in [rows : SUBSET Messages, hashes : SUBSET Messages,
                     listed : SUBSET Conversations]
      BY <1>7, <2>5 DEF TypeInv, RestOK
    <2>7. hot' \in SUBSET Messages
      BY <1>1, <1>7 DEF TypeInv, RestOK
    <2>8. RestOK'
      BY <2>4, <2>6, <2>7 DEF TypeInv, RememberHash, RestOK
    <2> QED
      BY <1>2, <2>2, <2>3, <2>8 DEF TypeInv
  <1> QED
    BY <1>6, <1>7 DEF RememberHash

LEMMA CatalogKeys ==
    /\ "catalog" \in Journals /\ "read" \in Journals /\ "seen" \in Journals
    /\ "catalog" \in Projections /\ "read" \in Projections
    /\ Projections \subseteq Journals
    /\ "delta" \in Roles /\ "temp" \in Roles /\ "snapshot" \in Roles
    /\ "backup" \in Roles
    /\ Keys("catalog") = Conversations /\ Keys("read") = Conversations
    /\ Keys("seen") = Messages
    /\ Value("catalog") = Nat \X Messages /\ Value("read") = 0..MaxRows
    /\ Value("seen") = {1}
    /\ \A p \in Projections : Keys(p) = Conversations
  BY DEF Journals, Projections, Roles, Keys, Value

LEMMA IsFile ==
    ASSUME FilesOK, NEW p \in Journals, NEW r \in Roles
    PROVE  files[p][r] \in SlotFile(p) /\ Tidy(p, files[p][r])
  BY DEF FilesOK

LEMMA ListConversationType ==
    ASSUME TypeInv, ListConversation, UNCHANGED powerLosses
    PROVE  TypeInv'
  <1> DEFINE c == op.conv
             entry == <<op.count, op.msg>>
             f == files["catalog"].delta
  <1>1. /\ op.step = "list" /\ op.msg \in Messages
        /\ c \in Conversations /\ op.count \in Nat
    BY DEF ListConversation, TypeInv, OpOK
  <1>2. SegmentOK' /\ MaintOK' /\ OpOK'
    BY MaintSame, OpEnds DEF ListConversation, TypeInv, SegmentOK
  <1>3. entry \in Value("catalog")
    BY <1>1, CatalogKeys
  <1>4. /\ lost' \in [rows : SUBSET Messages, hashes : SUBSET Messages,
                      listed : SUBSET Conversations]
        /\ fate' \in [Messages -> {"new", "acked", "cleared"}]
    BY <1>1 DEF ListConversation, TypeInv, RestOK
  <1>5. CASE UNCHANGED <<files, ram, dirty, troubles>>
    <2>1. FilesOK' /\ RamOK' /\ RestOK'
      BY <1>4, <1>5 DEF ListConversation, TypeInv, FilesOK, RamOK, RestOK
    <2> QED
      BY <1>2, <2>1 DEF TypeInv
  <1>6. ASSUME NEW o \in PutSlot("catalog", f, c, entry), Pay(o.cost),
               SetDelta("catalog", o.file), dirty' = (dirty \/ ~o.ok),
               ram' = EnterCatalog(c, entry, o.ok)
        PROVE  TypeInv'
    <2>1. PutLeaves("catalog", f, c, entry, o)
      BY <1>1, <1>3, CatalogKeys, IsFile, PutSlotOutcome DEF TypeInv
    <2>2. FilesOK'
      BY <1>6, <2>1, CatalogKeys, DeltaChange DEF TypeInv, PutLeaves
    <2>3. RamOK'
      BY <1>1, <1>3, <1>6, CatalogKeys DEF TypeInv, RamOK, EnterCatalog
    <2>4. troubles' \in 0..MaxTroubles
      BY <1>6, <2>1, Paid DEF TypeInv, PutLeaves, Priced
    <2>5. dirty' \in BOOLEAN
      BY <1>6
    <2>6. RestOK'
      BY <1>4, <2>4, <2>5 DEF TypeInv, ListConversation, RestOK
    <2> QED
      BY <1>2, <2>2, <2>3, <2>6 DEF TypeInv
  <1> QED
    BY <1>5, <1>6 DEF ListConversation

LEMMA AnyMarkType ==
    ASSUME RestOK, NEW C
    PROVE  AnyMark(C) \in [Conversations -> SUBSET Mark]
  BY StoreAssumption DEF RestOK, AnyMark

LEMMA MarkReadType ==
    ASSUME TypeInv, NEW c \in Conversations, MarkRead(c), UNCHANGED powerLosses
    PROVE  TypeInv'
  <1> DEFINE f == files["read"].delta
             rows == Len(segment[c].slots)
  <1>1. rows \in 0..MaxRows
    BY RowsAreMessages, StoreAssumption DEF TypeInv, SegmentOK
  <1> PICK to \in {rows, 0} :
         \E o \in PutSlotRepaired("read", f, c, to) :
           /\ Pay(o.cost + (IF to = rows THEN 0 ELSE 1))
           /\ SetDelta("read", o.file)
           /\ marks' = IF o.weak THEN AnyMark(HasSlot(f) \cup {c})
                       ELSE [marks EXCEPT ![c] = @ \cup {to}]
           /\ op' = IF o.ok THEN At("relist", c, None, to) ELSE NoOp
    BY DEF MarkRead
  <1>2. PICK o \in PutSlotRepaired("read", f, c, to) :
           /\ Pay(o.cost + (IF to = rows THEN 0 ELSE 1))
           /\ SetDelta("read", o.file)
           /\ marks' = IF o.weak THEN AnyMark(HasSlot(f) \cup {c})
                       ELSE [marks EXCEPT ![c] = @ \cup {to}]
           /\ op' = IF o.ok THEN At("relist", c, None, to) ELSE NoOp
    OBVIOUS
  <1>3. to \in 0..MaxRows /\ to \in Nat
    BY <1>1, Marks, StoreAssumption
  <1>4. PutLeaves("read", f, c, to, o)
    BY <1>3, CatalogKeys, IsFile, PutSlotRepairedOutcome DEF TypeInv
  <1>5. SegmentOK' /\ RamOK' /\ MaintOK'
    BY MaintSame DEF MarkRead, memoryVars, TypeInv, SegmentOK, RamOK
  <1>6. FilesOK'
    BY <1>2, <1>4, CatalogKeys, DeltaChange DEF TypeInv, PutLeaves
  <1>7. OpOK'
    <2>1. ready' /\ maint'.phase = "Idle"
      BY Resting DEF MarkRead, memoryVars, LeaseIsFree
    <2>2. "relist" \in CallerStep
      BY DEF CallerStep
    <2> QED
      BY <1>2, <1>3, <2>1, <2>2, OpEnds, OpNext
  <1>8. troubles' \in 0..MaxTroubles
    BY <1>2, <1>4, Paid DEF TypeInv, PutLeaves, Priced
  <1>9. marks' \in [Conversations -> SUBSET Mark]
    <2>1. [marks EXCEPT ![c] = @ \cup {to}]
             \in [Conversations -> SUBSET Mark]
      BY <1>3, Marks DEF TypeInv, RestOK
    <2> QED
      BY <1>2, <2>1, AnyMarkType DEF TypeInv
  <1>10. RestOK'
    BY <1>8, <1>9 DEF MarkRead, memoryVars, TypeInv, RestOK
  <1> QED
    BY <1>5, <1>6, <1>7, <1>10 DEF TypeInv

LEMMA RelistType ==
    ASSUME TypeInv, Relist, UNCHANGED powerLosses
    PROVE  TypeInv'
  <1> DEFINE c == op.conv
             f == files["catalog"].delta
  <1>1. op.step = "relist" /\ c \in Conversations /\ op.count \in 0..MaxRows
    BY DEF Relist, TypeInv, OpOK
  <1>2. ram["catalog"][c] \in Value("catalog") \cup {None, Deleted}
    BY <1>1, CatalogKeys DEF TypeInv, RamOK
  <1>3. PICK o \in PutSlot("catalog", f, c, ram["catalog"][c]) :
           /\ Pay(o.cost)
           /\ SetDelta("catalog", o.file)
           /\ dirty' = (dirty \/ ~o.ok)
    BY DEF Relist
  <1>4. PutLeaves("catalog", f, c, ram["catalog"][c], o)
    BY <1>1, <1>2, CatalogKeys, IsFile, PutSlotOutcome DEF TypeInv
  <1>5. SegmentOK' /\ MaintOK' /\ OpOK'
    BY MaintSame, OpEnds DEF Relist, TypeInv, SegmentOK
  <1>6. FilesOK'
    BY <1>3, <1>4, CatalogKeys, DeltaChange DEF TypeInv, PutLeaves
  <1>7. RamOK'
    BY <1>1, CatalogKeys DEF Relist, TypeInv, RamOK
  <1>8. troubles' \in 0..MaxTroubles
    BY <1>3, <1>4, Paid DEF TypeInv, PutLeaves, Priced
  <1>9. dirty' \in BOOLEAN
    BY <1>3
  <1>10. marks' \in [Conversations -> SUBSET Mark]
    BY <1>1, Marks DEF Relist, TypeInv, RestOK
  <1>11. RestOK'
    BY <1>8, <1>9, <1>10 DEF Relist, TypeInv, RestOK
  <1> QED
    BY <1>5, <1>6, <1>7, <1>11 DEF TypeInv

LEMMA ClearType ==
    ASSUME TypeInv, NEW c \in Conversations, Clear(c), UNCHANGED powerLosses
    PROVE  TypeInv'
  <1>1. FilesOK' /\ RamOK' /\ MaintOK'
    BY MaintSame DEF Clear, memoryVars, TypeInv, FilesOK, RamOK
  <1>2. /\ NoRows \in RowFile /\ TidyRows(NoRows)
        /\ Len(NoRows.slots) <= MaxRows
    BY NoRowsOK
  <1>3. segment' \in {segment, [segment EXCEPT ![c] = NoRows]}
    BY DEF Clear
  <1>4. SegmentOK'
    BY <1>2, <1>3 DEF TypeInv, SegmentOK
  <1>5. /\ lost' \in [rows : SUBSET Messages, hashes : SUBSET Messages,
                      listed : SUBSET Conversations]
        /\ fate' \in [Messages -> {"new", "acked", "cleared"}]
    BY DEF Clear, TypeInv, RestOK
  <1>6. CASE /\ op' = At("unlist", c, None, 0)
             /\ marks' = [marks EXCEPT ![c] = @ \cup {None}]
             /\ UNCHANGED troubles
    <2>1. "unlist" \in CallerStep /\ ready' /\ maint'.phase = "Idle"
      BY Resting DEF CallerStep, Clear, memoryVars, LeaseIsFree
    <2>2. OpOK'
      BY <1>6, <2>1, OpNext
    <2>3. marks' \in [Conversations -> SUBSET Mark]
      BY <1>6, Marks DEF TypeInv, RestOK
    <2>4. RestOK'
      BY <1>5, <1>6, <2>3 DEF Clear, memoryVars, TypeInv, RestOK
    <2> QED
      BY <1>1, <1>4, <2>2, <2>4 DEF TypeInv
  <1>7. CASE Pay(1) /\ UNCHANGED <<op, marks>>
    <2>1. OpOK'
      BY <1>7 DEF Clear, memoryVars, TypeInv, OpOK
    <2>2. troubles' \in 0..MaxTroubles
      BY <1>7, Paid DEF TypeInv
    <2>3. RestOK'
      BY <1>5, <1>7, <2>2 DEF Clear, memoryVars, TypeInv, RestOK
    <2> QED
      BY <1>1, <1>4, <2>1, <2>3 DEF TypeInv
  <1> QED
    BY <1>6, <1>7 DEF Clear

LEMMA UnlistType ==
    ASSUME TypeInv, Unlist, UNCHANGED powerLosses
    PROVE  TypeInv'
  <1> DEFINE c == op.conv
             f == files["catalog"].delta
  <1>1. /\ op.step = "unlist" /\ c \in Conversations
        /\ ready /\ maint.phase = "Idle"
    BY DEF Unlist, TypeInv, OpOK
  <1>2. PICK o \in PutSlot("catalog", f, c, Deleted) :
           /\ Pay(o.cost)
           /\ SetDelta("catalog", o.file)
           /\ op' = At("unmark", c, None, IF o.ok THEN 1 ELSE 0)
    BY DEF Unlist
  <1>3. PutLeaves("catalog", f, c, Deleted, o)
    BY <1>1, CatalogKeys, IsFile, PutSlotOutcome DEF TypeInv
  <1>4. SegmentOK' /\ RamOK' /\ MaintOK'
    BY MaintSame DEF Unlist, memoryVars, TypeInv, SegmentOK, RamOK
  <1>5. FilesOK'
    BY <1>2, <1>3, CatalogKeys, DeltaChange DEF TypeInv, PutLeaves
  <1>6. OpOK'
    <2>1. "unmark" \in CallerStep /\ ready' /\ maint'.phase = "Idle"
      BY <1>1 DEF CallerStep, Unlist, memoryVars
    <2> QED
      BY <1>1, <1>2, <2>1, OpNext
  <1>7. troubles' \in 0..MaxTroubles
    BY <1>2, <1>3, Paid DEF TypeInv, PutLeaves, Priced
  <1>8. RestOK'
    BY <1>7 DEF Unlist, memoryVars, historyVars, TypeInv, RestOK
  <1> QED
    BY <1>4, <1>5, <1>6, <1>8 DEF TypeInv

LEMMA UnmarkType ==
    ASSUME TypeInv, Unmark, UNCHANGED powerLosses
    PROVE  TypeInv'
  <1> DEFINE c == op.conv
             f == files["read"].delta
  <1>1. op.step = "unmark" /\ c \in Conversations
    BY DEF Unmark, TypeInv, OpOK
  <1>2. PICK o \in PutSlotRepaired("read", f, c, Deleted) :
           /\ Pay(o.cost)
           /\ SetDelta("read", o.file)
           /\ dirty' = (dirty \/ ~o.ok \/ op.count = 0)
           /\ marks' = [(IF o.weak THEN AnyMark(HasSlot(f)) ELSE marks)
                        EXCEPT ![c] = IF o.ok THEN {None} ELSE @ \cup {None}]
    BY DEF Unmark
  <1>3. PutLeaves("read", f, c, Deleted, o)
    BY <1>1, CatalogKeys, IsFile, PutSlotRepairedOutcome DEF TypeInv
  <1>4. SegmentOK' /\ MaintOK' /\ OpOK'
    BY MaintSame, OpEnds DEF Unmark, TypeInv, SegmentOK
  <1>5. FilesOK'
    BY <1>2, <1>3, CatalogKeys, DeltaChange DEF TypeInv, PutLeaves
  <1>6. RamOK'
    BY <1>1 DEF Unmark, TypeInv, RamOK
  <1>7. troubles' \in 0..MaxTroubles
    BY <1>2, <1>3, Paid DEF TypeInv, PutLeaves, Priced
  <1>8. dirty' \in BOOLEAN
    BY <1>2
  <1>9. marks' \in [Conversations -> SUBSET Mark]
    <2>1. (IF o.weak THEN AnyMark(HasSlot(f)) ELSE marks)
             \in [Conversations -> SUBSET Mark]
      BY AnyMarkType DEF TypeInv, RestOK
    <2> QED
      BY <1>2, <2>1, Marks
  <1>10. RestOK'
    BY <1>7, <1>8, <1>9 DEF Unmark, TypeInv, RestOK
  <1> QED
    BY <1>4, <1>5, <1>6, <1>10 DEF TypeInv

-----------------------------------------------------------------------------
(* The owner's steps *)

LEMMA OpRests ==
    ASSUME OpOK, maint.phase # "Idle", op' = op
    PROVE  OpOK' /\ op.step = "idle"
  BY DEF OpOK

LEMMA PhaseOK ==
    ASSUME MaintOK, NEW name, NEW j \in Journals \cup {None},
           name \in (Hydrating \cup Compacting) \ {"RebuildSeen"},
           maint' = Phase(name, j), ready' = ready,
           name \in Hydrating => ~ready,
           name \in Compacting => ready,
           name = "Recover" => j \in Journals,
           name \in {"Replay", "Create", "Write", "RemoveDelta"} =>
              j \in Projections
    PROVE  MaintOK'
  BY DEF MaintOK, Phase

LEMMA PhaseIs ==
    ASSUME MaintOK, NEW name, NEW j
    PROVE  /\ Phase(name, j).phase = name /\ Phase(name, j).journal = j
           /\ Phase(name, j).todo = maint.todo /\ Phase(name, j).plan = maint.plan
  BY DEF MaintOK, Phase

GoodFiles(p, f) == f \in [Roles -> SlotFile(p)] /\ \A r \in Roles : Tidy(p, f[r])

LEMMA Fails ==
    ASSUME NEW left, NEW price \in Nat, NEW o, o = Outcome(left, FALSE, price, FALSE)
    PROVE  Priced(o) /\ o.file = left /\ ~o.ok /\ ~o.weak
  BY DEF Outcome, Priced

IsNone(p, none) ==
    /\ none \in SlotFile(p) /\ Tidy(p, none) /\ none.slots = Nothing(p)
    /\ ~Exists(none)

LEMMA RecoverOutcome ==
    ASSUME NEW p, NEW f, GoodFiles(p, f), NEW none, IsNone(p, none),
           NEW o \in RecoverFile(f, none)
    PROVE  /\ Priced(o) /\ GoodFiles(p, o.file)
           /\ o.file.delta = f.delta
           /\ Base(o.file).slots = Base(f).slots
           /\ o.ok /\ ~o.weak => Exists(o.file.snapshot) \/ ~Exists(o.file.backup)
  <1> DEFINE bare == [f EXCEPT !.temp = none]
             put == [f EXCEPT !.snapshot = f.backup, !.backup = none]
             done == [put EXCEPT !.temp = none]
  <1>1. {"snapshot", "temp", "backup", "delta"} = Roles
    BY DEF Roles
  <1>2. /\ f.snapshot \in SlotFile(p) /\ Tidy(p, f.snapshot)
        /\ f.backup \in SlotFile(p) /\ Tidy(p, f.backup)
        /\ f.temp \in SlotFile(p) /\ Tidy(p, f.temp)
        /\ f.delta \in SlotFile(p) /\ Tidy(p, f.delta)
        /\ none \in SlotFile(p) /\ Tidy(p, none)
    BY <1>1 DEF GoodFiles, IsNone
  <1>3. /\ GoodFiles(p, bare) /\ bare.snapshot = f.snapshot
        /\ bare.backup = f.backup /\ bare.delta = f.delta
    BY <1>1, <1>2 DEF GoodFiles
  <1>4. /\ GoodFiles(p, put) /\ put.snapshot = f.backup /\ put.delta = f.delta
    BY <1>1, <1>2 DEF GoodFiles
  <1>5. /\ GoodFiles(p, done) /\ done.snapshot = f.backup /\ done.delta = f.delta
    BY <1>1, <1>2 DEF GoodFiles
  <1>6. ASSUME NEW t \in {f.temp, none}, NEW b \in {f.backup, none},
               Exists(f.snapshot),
               o = Outcome([f EXCEPT !.temp = t, !.backup = b], TRUE,
                           IF Exists(t) \/ Exists(b) THEN 1 ELSE 0, FALSE)
        PROVE  /\ Priced(o) /\ GoodFiles(p, o.file)
               /\ o.file.delta = f.delta
               /\ Base(o.file).slots = Base(f).slots
               /\ Exists(o.file.snapshot)
    <2> DEFINE g == [f EXCEPT !.temp = t, !.backup = b]
    <2>1. Priced(o) /\ o.file = g
      BY <1>6 DEF Outcome, Priced
    <2>2. /\ t \in SlotFile(p) /\ Tidy(p, t)
          /\ b \in SlotFile(p) /\ Tidy(p, b)
      BY <1>2, <1>6
    <2>3. /\ GoodFiles(p, g) /\ g.snapshot = f.snapshot
          /\ g.delta = f.delta
      BY <1>1, <1>2, <2>2 DEF GoodFiles
    <2> HIDE DEF g
    <2> QED
      BY <1>6, <2>1, <2>3 DEF Base
  <1>7. CASE Exists(f.snapshot)
    <2>1. CASE o = Outcome(f, FALSE, 1, FALSE)
      BY <1>7, <2>1, Fails
    <2> QED
      BY <1>6, <1>7, <2>1 DEF RecoverFile, Outcome
  <1>8. CASE ~Exists(f.snapshot) /\ Exists(f.backup)
    <2>1. \/ o = Outcome(done, TRUE, 0, FALSE)
          \/ o = Outcome(put, TRUE, 1, FALSE)
          \/ o = Outcome(f, FALSE, 1, FALSE)
          \/ o = Outcome(bare, TRUE, 1, TRUE)
      BY <1>8 DEF RecoverFile, Outcome
    <2> HIDE DEF bare, put, done
    <2>2. CASE o = Outcome(done, TRUE, 0, FALSE)
      <3>1. Priced(o) /\ o.file = done
        BY <2>2 DEF Outcome, Priced
      <3> QED
        BY <1>5, <1>8, <3>1 DEF Base
    <2>3. CASE o = Outcome(put, TRUE, 1, FALSE)
      <3>1. Priced(o) /\ o.file = put
        BY <2>3 DEF Outcome, Priced
      <3> QED
        BY <1>4, <1>8, <3>1 DEF Base
    <2>4. CASE o = Outcome(f, FALSE, 1, FALSE)
      BY <2>4, Fails
    <2>5. CASE o = Outcome(bare, TRUE, 1, TRUE)
      <3>1. Priced(o) /\ o.file = bare /\ o.weak
        BY <2>5 DEF Outcome, Priced
      <3> QED
        BY <1>3, <3>1 DEF Base
    <2> QED
      BY <2>1, <2>2, <2>3, <2>4, <2>5 DEF Outcome
  <1>9. CASE ~Exists(f.snapshot) /\ ~Exists(f.backup)
    <2>1. o \in {Outcome(bare, TRUE, 0, FALSE), Outcome(f, TRUE, 1, FALSE)}
      BY <1>9 DEF RecoverFile, Outcome
    <2> HIDE DEF bare
    <2>2. ASSUME NEW g, NEW n \in Nat, o = Outcome(g, TRUE, n, FALSE)
          PROVE  Priced(o) /\ o.file = g
      BY <2>2 DEF Outcome, Priced
    <2>3. Priced(o) /\ o.file \in {bare, f}
      BY <2>1, <2>2 DEF Outcome
    <2> QED
      BY <1>3, <1>9, <2>3 DEF Base
  <1> QED
    BY <1>7, <1>8, <1>9

LEMMA ReplaceOutcome ==
    ASSUME NEW p, NEW f, GoodFiles(p, f), NEW none, IsNone(p, none),
           NEW o \in ReplaceFile(f, none)
    PROVE  /\ Priced(o) /\ GoodFiles(p, o.file)
           /\ o.file.delta = f.delta
           /\ o.ok => o.file.snapshot = f.temp /\ Exists(f.temp)
           /\ ~o.ok => o.file.temp = f.temp
           /\ ~o.ok /\ ~o.weak => Base(o.file).slots = Base(f).slots
           /\ ~o.ok => Base(o.file).slots \in {Base(f).slots, Nothing(p)}
  <1> DEFINE only == ~Exists(f.snapshot) /\ Exists(f.backup)
             alone == [f EXCEPT !.backup = none]
             aside == [alone EXCEPT !.backup = f.snapshot, !.snapshot = none]
             installed == [aside EXCEPT !.snapshot = f.temp, !.temp = none]
             done == [installed EXCEPT !.backup = none]
  <1>1. none \in SlotFile(p) /\ Tidy(p, none) /\ none.slots = Nothing(p)
    BY DEF IsNone
  <1>2. {"snapshot", "temp", "backup", "delta"} = Roles
    BY DEF Roles
  <1>3. ~Exists(none)
    BY DEF IsNone
  <1>4. /\ f.snapshot \in SlotFile(p) /\ Tidy(p, f.snapshot)
        /\ f.backup \in SlotFile(p) /\ Tidy(p, f.backup)
        /\ f.temp \in SlotFile(p) /\ Tidy(p, f.temp)
        /\ f.delta \in SlotFile(p) /\ Tidy(p, f.delta)
    BY <1>2 DEF GoodFiles
  <1>5. \/ o = Outcome(f, FALSE, 0, FALSE)
        \/ o = Outcome(f, FALSE, 1, FALSE)
        \/ Exists(f.temp) /\ o = Outcome(done, TRUE, 0, FALSE)
        \/ Exists(f.temp) /\ o = Outcome(installed, TRUE, 1, FALSE)
        \/ \E left \in {alone, aside} : o = Outcome(left, FALSE, 1, only)
    BY DEF ReplaceFile
  <1>6. /\ GoodFiles(p, alone) /\ alone.backup = none
        /\ alone.snapshot = f.snapshot /\ alone.delta = f.delta
        /\ alone.temp = f.temp
    BY <1>1, <1>2, <1>4 DEF GoodFiles
  <1> HIDE DEF alone
  <1>7. /\ GoodFiles(p, aside) /\ aside.backup = f.snapshot
        /\ aside.snapshot = none /\ aside.delta = f.delta
        /\ aside.temp = f.temp
    BY <1>1, <1>2, <1>4, <1>6 DEF GoodFiles
  <1> HIDE DEF aside
  <1>8. /\ GoodFiles(p, installed) /\ installed.snapshot = f.temp
        /\ installed.delta = f.delta
    BY <1>1, <1>2, <1>4, <1>7 DEF GoodFiles
  <1> HIDE DEF installed
  <1>9. /\ GoodFiles(p, done) /\ done.snapshot = f.temp /\ done.delta = f.delta
    BY <1>1, <1>2, <1>8 DEF GoodFiles
  <1> HIDE DEF done
  <1>10. CASE o = Outcome(f, FALSE, 0, FALSE) \/ o = Outcome(f, FALSE, 1, FALSE)
    BY <1>10, Fails
  <1>11. CASE /\ Exists(f.temp)
              /\ o = Outcome(done, TRUE, 0, FALSE)
                 \/ o = Outcome(installed, TRUE, 1, FALSE)
    <2>1. CASE o = Outcome(done, TRUE, 0, FALSE)
      BY <1>9, <1>11, <2>1 DEF Outcome, Priced
    <2>2. CASE o = Outcome(installed, TRUE, 1, FALSE)
      BY <1>8, <1>11, <2>2 DEF Outcome, Priced
    <2> QED
      BY <1>11, <2>1, <2>2
  <1>12. ASSUME NEW left \in {alone, aside}, o = Outcome(left, FALSE, 1, only)
         PROVE  /\ Priced(o) /\ GoodFiles(p, o.file)
                /\ o.file.delta = f.delta /\ ~o.ok
                /\ o.file.temp = f.temp
                /\ ~o.weak => Base(o.file).slots = Base(f).slots
                /\ Base(o.file).slots \in {Base(f).slots, Nothing(p)}
    <2>1. /\ o.file = left /\ ~o.ok /\ (o.weak <=> only)
          /\ o.ok \in BOOLEAN /\ o.cost \in Nat /\ o.weak \in BOOLEAN
      BY <1>12 DEF Outcome
    <2>2. ~Exists(f.snapshot) => f.snapshot.slots = Nothing(p)
      BY <1>4 DEF Tidy, Exists
    <2>3. ~Exists(f.backup) => f.backup.slots = Nothing(p)
      BY <1>4 DEF Tidy, Exists
    <2>4. ~only => Base(alone).slots = Base(f).slots
      BY <1>1, <1>6, <2>3 DEF Base
    <2>5. ~only => Base(aside).slots = Base(f).slots
      BY <1>3, <1>7, <2>2, <2>3 DEF Base
    <2>6. only => /\ Base(alone).slots = Nothing(p)
                  /\ Base(aside).slots = Nothing(p)
      BY <1>1, <1>3, <1>6, <1>7, <2>2 DEF Base
    <2> QED
      BY <1>6, <1>7, <2>1, <2>4, <2>5, <2>6 DEF Priced
  <1> QED
    BY <1>5, <1>10, <1>11, <1>12

LEMMA NothingOK ==
    \A p : /\ Nothing(p) \in Contents(p)
           /\ \A k \in Keys(p) : Nothing(p)[k] = None
           /\ IsNone(p, NoFile(p))
  BY NoFileOK DEF Nothing, Contents, IsNone, NoFile, File, Exists

\* The memory after a boot, and before a hydration.
LEMMA RamEmpty ==
    ASSUME ram' = [p \in Projections |-> Nothing(p)]
    PROVE  RamOK'
  BY CatalogKeys DEF RamOK, Nothing

LEMMA BeginHydrationType ==
    ASSUME TypeInv, BeginHydration, UNCHANGED powerLosses
    PROVE  TypeInv'
  <1>1. SegmentOK' /\ FilesOK' /\ RamOK'
    BY RamEmpty DEF BeginHydration, diskVars, TypeInv, SegmentOK, FilesOK
  <1>2. OpOK'
    BY OpEnds DEF BeginHydration, LeaseIsFree
  <1>3. MaintOK'
    BY PhaseOK, CatalogKeys DEF BeginHydration, TypeInv, Hydrating, Compacting
  <1>4. RestOK'
    BY DEF BeginHydration, TypeInv, RestOK
  <1> QED
    BY <1>1, <1>2, <1>3, <1>4 DEF TypeInv

LEMMA RecoverType ==
    ASSUME TypeInv, Recover, UNCHANGED powerLosses
    PROVE  TypeInv'
  <1> DEFINE p == maint.journal
  <1>1. maint.phase = "Recover" /\ p \in Journals /\ ~ready
    BY DEF Recover, TypeInv, MaintOK, Hydrating
  <1>2. PICK o \in RecoverFile(files[p], NoFile(p)) :
           /\ Pay(o.cost)
           /\ files' = [files EXCEPT ![p] = o.file]
           /\ marks' = IF o.weak /\ p = "read"
                       THEN AnyMark(Conversations) ELSE marks
           /\ maint' = IF ~o.ok THEN AtRest
                       ELSE CASE p = "catalog" -> Phase("Recover", "read")
                              [] p = "read" -> Phase("Replay", "catalog")
                              [] p = "seen" -> Phase("LookAtSeen", "seen")
    BY DEF Recover
  <1>3. GoodFiles(p, files[p])
    BY <1>1 DEF TypeInv, FilesOK, GoodFiles
  <1>4. Priced(o) /\ GoodFiles(p, o.file)
    BY <1>2, <1>3, NothingOK, RecoverOutcome
  <1>5. FilesOK'
    BY <1>1, <1>2, <1>4, FilesChange DEF TypeInv, GoodFiles
  <1>6. SegmentOK' /\ RamOK' /\ ready' = ready
    BY DEF Recover, memoryVars, TypeInv, SegmentOK, RamOK
  <1>7. OpOK'
    BY <1>1, OpRests DEF Recover, TypeInv
  <1>8. MaintOK'
    <2>1. CASE ~o.ok
      BY <1>2, <2>1, MaintRests
    <2>2. CASE o.ok
      <3>1. \/ maint' = Phase("Recover", "read")
            \/ maint' = Phase("Replay", "catalog")
            \/ maint' = Phase("LookAtSeen", "seen")
        BY <1>1, <1>2, <2>2 DEF Journals, Projections
      <3> QED
        BY <1>1, <1>6, <3>1, PhaseOK, CatalogKeys DEF TypeInv, Hydrating, Compacting
    <2> QED
      BY <2>1, <2>2
  <1>9. troubles' \in 0..MaxTroubles
    BY <1>2, <1>4, Paid DEF TypeInv, Priced
  <1>10. marks' \in [Conversations -> SUBSET Mark]
    <2>1. marks \in [Conversations -> SUBSET Mark]
      BY DEF TypeInv, RestOK
    <2> QED
      BY <1>2, <2>1, AnyMarkType DEF TypeInv
  <1>11. RestOK'
    BY <1>9, <1>10 DEF Recover, memoryVars, TypeInv, RestOK
  <1> QED
    BY <1>5, <1>6, <1>7, <1>8, <1>11 DEF TypeInv

LEMMA ReplayedOK ==
    ASSUME TypeInv, NEW p \in Projections, NEW denied, NEW c \in Conversations
    PROVE  Replayed(p, denied, c) \in Value(p) \cup {None}
  <1>1. /\ files[p].snapshot.slots[c] \in Value(p) \cup {None, Deleted}
        /\ files[p].delta.slots[c] \in Value(p) \cup {None, Deleted}
    BY IsFile, CatalogKeys DEF TypeInv, SlotFile, Contents
  <1>2. /\ SlotIn(p, denied, "delta", c) \in Value(p) \cup {None, Deleted}
        /\ SlotIn(p, denied, "snapshot", c) \in Value(p) \cup {None, Deleted}
    BY <1>1 DEF SlotIn
  <1> QED
    BY <1>2 DEF Replayed

LEMMA ReplayType ==
    ASSUME TypeInv, Replay, UNCHANGED powerLosses
    PROVE  TypeInv'
  <1> DEFINE p == maint.journal
  <1>1. maint.phase = "Replay" /\ p \in Projections /\ ~ready
    BY DEF Replay, TypeInv, MaintOK, Hydrating
  <1>2. PICK denied \in Denied :
           /\ Pay(IF denied = {} THEN 0 ELSE 1)
           /\ ram' = [ram EXCEPT ![p] =
                        [c \in Conversations |-> Replayed(p, denied, c)]]
           /\ dirty' = (\/ dirty
                        \/ \E r \in {"snapshot", "delta"} \ denied :
                              files[p][r].state = "Incompatible")
           /\ marks' = IF p = "read" /\ denied # {}
                       THEN AnyMark(Conversations) ELSE marks
    BY DEF Replay
  <1>3. SegmentOK' /\ FilesOK' /\ ready' = ready
    BY DEF Replay, diskVars, TypeInv, SegmentOK, FilesOK
  <1>4. OpOK'
    BY <1>1, OpRests DEF Replay, TypeInv
  <1>5. MaintOK'
    <2>1. maint' = Phase("Replay", "read") \/ maint' = Phase("Recover", "seen")
      BY DEF Replay
    <2> QED
      BY <1>1, <1>3, <2>1, PhaseOK, CatalogKeys DEF TypeInv, Hydrating, Compacting
  <1>6. RamOK'
    <2>1. [c \in Conversations |-> Replayed(p, denied, c)]
             \in [Conversations -> Value(p) \cup {None}]
      BY <1>1, ReplayedOK
    <2> QED
      BY <1>1, <1>2, <2>1 DEF TypeInv, RamOK
  <1>7. troubles' \in 0..MaxTroubles
    BY <1>2, Paid DEF TypeInv
  <1>8. marks' \in [Conversations -> SUBSET Mark]
    <2>1. marks \in [Conversations -> SUBSET Mark]
      BY DEF TypeInv, RestOK
    <2> QED
      BY <1>2, <2>1, AnyMarkType DEF TypeInv
  <1>9. dirty' \in BOOLEAN
    BY <1>2
  <1>10. RestOK'
    BY <1>7, <1>8, <1>9 DEF Replay, diskVars, TypeInv, RestOK
  <1> QED
    BY <1>3, <1>4, <1>5, <1>6, <1>10 DEF TypeInv

LEMMA LookAtSeenType ==
    ASSUME TypeInv, LookAtSeen, UNCHANGED powerLosses
    PROVE  TypeInv'
  <1>1. maint.phase = "LookAtSeen" /\ ~ready
    BY DEF LookAtSeen, TypeInv, MaintOK, Hydrating
  <1>2. PICK denied \in Denied :
           /\ Pay(IF denied = {} THEN 0 ELSE 1)
           /\ hot' \in SUBSET Messages
           /\ \E name \in {"RebuildSeen", "Reconcile"} :
                 maint' = [phase |-> name, journal |-> None, plan |-> {},
                           todo |-> Conversations]
    BY DEF LookAtSeen
  <1>3. SegmentOK' /\ FilesOK' /\ RamOK' /\ ready' = ready
    BY DEF LookAtSeen, diskVars, TypeInv, SegmentOK, FilesOK, RamOK
  <1>4. OpOK'
    BY <1>1, OpRests DEF LookAtSeen, TypeInv
  <1>5. MaintOK'
    BY <1>1, <1>2, <1>3 DEF MaintOK, Hydrating, Compacting
  <1>6. troubles' \in 0..MaxTroubles
    BY <1>2, Paid DEF TypeInv
  <1>7. RestOK'
    BY <1>2, <1>6 DEF LookAtSeen, diskVars, historyVars, TypeInv, RestOK
  <1> QED
    BY <1>3, <1>4, <1>5, <1>7 DEF TypeInv

\* What the rebuild copies is the content of a file of hashes.
LEMMA CopiedHashes ==
    ASSUME TypeInv, NEW hashes \in {HashesOfListed} \cup Remnants(HashesOfListed)
    PROVE  hashes \in Contents("seen")
  <1>1. HashesOfListed \in [Messages -> {1, None}]
    BY DEF HashesOfListed
  <1>2. hashes \in [Messages -> {1, None}]
    BY <1>1 DEF Remnants
  <1> QED
    BY <1>2, CatalogKeys DEF Contents, Value

LEMMA RebuildSeenType ==
    ASSUME TypeInv, RebuildSeen, UNCHANGED powerLosses
    PROVE  TypeInv'
  <1>1. maint.phase = "RebuildSeen" /\ ~ready
    BY DEF RebuildSeen, TypeInv, MaintOK, Hydrating
  <1>2. SegmentOK' /\ RamOK' /\ ready' = ready
    BY DEF RebuildSeen, TypeInv, SegmentOK, RamOK
  <1>3. OpOK'
    BY <1>1, OpRests DEF RebuildSeen, TypeInv
  <1>4. MaintOK'
    <2>1. maint' = AtRest \/ maint' = Phase("Reconcile", None)
      BY DEF RebuildSeen
    <2> QED
      BY <1>1, <1>2, <2>1, PhaseOK, MaintRests DEF TypeInv, Hydrating, Compacting
  <1>5. lost \in [rows : SUBSET Messages, hashes : SUBSET Messages,
                  listed : SUBSET Conversations]
    BY DEF TypeInv, RestOK
  <1>6. CASE Pay(1) /\ hot' = {} /\ UNCHANGED <<files, lost>>
    <2>1. troubles' \in 0..MaxTroubles
      BY <1>6, Paid DEF TypeInv
    <2>2. FilesOK'
      BY <1>6 DEF TypeInv, FilesOK
    <2>3. RestOK'
      BY <1>6, <2>1 DEF RebuildSeen, TypeInv, RestOK
    <2> QED
      BY <1>2, <1>3, <1>4, <2>2, <2>3 DEF TypeInv
  <1>7. ASSUME NEW hashes \in {HashesOfListed} \cup Remnants(HashesOfListed),
               NEW whole \in BOOLEAN, NEW temp,
               temp = [files["seen"] EXCEPT !.temp = File("Ready", hashes)],
               NEW o \in ReplaceFile(temp, NoFile("seen")),
               NEW delta \in SeenDeltaAfter(o.ok),
               Pay(o.cost + (IF whole THEN 0 ELSE 1)
                     + (IF o.ok /\ Exists(delta) THEN 1 ELSE 0)),
               files' = [files EXCEPT !["seen"] = [o.file EXCEPT !.delta = delta]],
               hot' = {m \in Messages : hashes[m] # None},
               lost' = IF o.weak \/ ~whole THEN GiveUp("hashes", Messages)
                       ELSE IF o.ok
                       THEN GiveUp("hashes", {m \in Messages :
                                                ~Listed(ConversationOf[m])})
                       ELSE lost
        PROVE  TypeInv'
    <2>1. /\ File("Ready", hashes) \in SlotFile("seen")
          /\ Tidy("seen", File("Ready", hashes))
      BY CopiedHashes DEF File, SlotFile, Tidy, JournalState
    <2>2. GoodFiles("seen", files["seen"])
      BY CatalogKeys DEF TypeInv, FilesOK, GoodFiles
    <2>3. GoodFiles("seen", temp)
      BY <1>7, <2>1, <2>2, CatalogKeys DEF GoodFiles
    <2>4. Priced(o) /\ GoodFiles("seen", o.file)
      BY <1>7, <2>3, NothingOK, ReplaceOutcome
    <2>5. delta \in SlotFile("seen") /\ Tidy("seen", delta)
      BY <1>7, <2>2, NoFileOK, CatalogKeys DEF SeenDeltaAfter, GoodFiles
    <2>6. GoodFiles("seen", [o.file EXCEPT !.delta = delta])
      BY <2>4, <2>5, CatalogKeys DEF GoodFiles
    <2>7. FilesOK'
      BY <1>7, <2>6, CatalogKeys, FilesChange DEF TypeInv, GoodFiles
    <2>8. troubles' \in 0..MaxTroubles
      BY <1>7, <2>4, Paid DEF TypeInv, Priced
    <2>9. lost' \in [rows : SUBSET Messages, hashes : SUBSET Messages,
                     listed : SUBSET Conversations]
      BY <1>5, <1>7 DEF GiveUp
    <2>10. hot' \in SUBSET Messages
      BY <1>7
    <2>11. RestOK'
      BY <2>8, <2>9, <2>10 DEF RebuildSeen, TypeInv, RestOK
    <2> QED
      BY <1>2, <1>3, <1>4, <2>7, <2>11 DEF TypeInv
  <1> QED
    BY <1>6, <1>7 DEF RebuildSeen

LEMMA InspectedOutcome ==
    ASSUME NEW f \in RowFile, TidyRows(f), NEW o \in Inspected(f)
    PROVE  /\ Priced(o) /\ o.file \in RowFile /\ TidyRows(o.file)
           /\ Len(o.file.slots) <= Len(f.slots)
           /\ o.weak \/ o.file.slots = f.slots
           /\ RowsOf(o.file.slots) \subseteq RowsOf(f.slots)
  <1>1. CASE f.state = "PartialTail"
    BY <1>1, RepairedRows DEF Inspected
  <1>2. CASE o = Outcome(f, f.state # "Incompatible", 0, FALSE)
    <2>1. /\ o.file = f /\ ~o.weak
          /\ o.ok \in BOOLEAN /\ o.cost \in Nat /\ o.weak \in BOOLEAN
      BY <1>2 DEF Outcome
    <2>2. Len(f.slots) \in Nat
      BY DEF RowFile
    <2> QED
      BY <2>1, <2>2 DEF Priced
  <1> QED
    BY <1>1, <1>2 DEF Inspected

LEMMA ReconcileConversationType ==
    ASSUME TypeInv, NEW c \in Conversations, ReconcileConversation(c),
           UNCHANGED powerLosses
    PROVE  TypeInv'
  <1> DEFINE f == segment[c]
             count(o) == Len(o.file.slots)
             entry(o) == IF o.ok /\ count(o) > 0
                         THEN <<count(o), o.file.slots[count(o)]>> ELSE None
  <1>1. maint.phase = "Reconcile" /\ ~ready
    BY DEF ReconcileConversation, TypeInv, MaintOK, Hydrating
  <1>2. FilesOK' /\ ready' = ready
    BY DEF ReconcileConversation, TypeInv, FilesOK
  <1>3. OpOK'
    BY <1>1, OpRests DEF ReconcileConversation, TypeInv
  <1>4. MaintOK'
    <2>1. maint' = [maint EXCEPT !.todo = @ \ {c}]
      BY DEF ReconcileConversation
    <2>2. maint \in [phase : {"Idle"} \cup Hydrating \cup Compacting,
                    journal : Journals \cup {None},
                    plan : SUBSET Projections, todo : SUBSET Conversations]
      BY DEF TypeInv, MaintOK
    <2>3. /\ maint' \in [phase : {"Idle"} \cup Hydrating \cup Compacting,
                         journal : Journals \cup {None},
                         plan : SUBSET Projections, todo : SUBSET Conversations]
          /\ maint'.phase = "Reconcile"
      BY <1>1, <2>1, <2>2
    <2> QED
      BY <1>1, <1>2, <2>3 DEF MaintOK, Compacting
  <1>5. /\ f \in RowFile /\ TidyRows(f) /\ Rows(c) \subseteq Messages
        /\ dirty \in BOOLEAN
        /\ lost \in [rows : SUBSET Messages, hashes : SUBSET Messages,
                     listed : SUBSET Conversations]
    BY RowsAreMessages DEF TypeInv, RestOK
  <1>6. ASSUME NEW o \in Inspected(f), Pay(o.cost),
               segment' = [segment EXCEPT ![c] = o.file],
               ram' = [ram EXCEPT !["catalog"][c] = entry(o)],
               dirty' = (\/ dirty \/ ~o.ok
                         \/ entry(o) \notin {None, ram["catalog"][c]}),
               lost' = [lost EXCEPT
                           !.rows = IF o.weak THEN @ \cup Rows(c) ELSE @,
                           !.listed = IF o.ok THEN @ ELSE @ \cup {c}]
        PROVE  TypeInv'
    <2>1. /\ Priced(o) /\ o.file \in RowFile /\ TidyRows(o.file)
          /\ Len(o.file.slots) <= Len(f.slots)
      BY <1>5, InspectedOutcome
    <2>2. SegmentOK'
      <3>1. Len(o.file.slots) \in Nat /\ Len(f.slots) \in Nat
        BY <1>5, <2>1 DEF RowFile
      <3>2. Len(o.file.slots) <= MaxRows
        BY <2>1, <3>1, StoreAssumption DEF TypeInv, SegmentOK
      <3> QED
        BY <1>6, <2>1, <3>2 DEF TypeInv, SegmentOK
    <2>3. entry(o) \in Value("catalog") \cup {None}
      <3>1. o.file.slots \in Seq(Messages) /\ count(o) \in Nat
        BY <2>1 DEF RowFile
      <3>2. count(o) > 0 => o.file.slots[count(o)] \in Messages
        BY <3>1
      <3> QED
        BY <3>1, <3>2, CatalogKeys
    <2>4. RamOK'
      BY <1>6, <2>3, CatalogKeys DEF TypeInv, RamOK
    <2>5. troubles' \in 0..MaxTroubles
      BY <1>6, <2>1, Paid DEF TypeInv, Priced
    <2>6. lost' \in [rows : SUBSET Messages, hashes : SUBSET Messages,
                     listed : SUBSET Conversations]
      BY <1>5, <1>6
    <2>7. dirty' \in BOOLEAN
      BY <1>6
    <2>8. RestOK'
      BY <2>5, <2>6, <2>7 DEF ReconcileConversation, TypeInv, RestOK
    <2> QED
      BY <1>2, <1>3, <1>4, <2>2, <2>4, <2>8 DEF TypeInv
  <1>7. CASE /\ Pay(1)
             /\ dirty' \in {dirty, TRUE}
             /\ ram' = [ram EXCEPT !["catalog"][c] = None]
             /\ lost' = GiveUp("listed", {c})
             /\ UNCHANGED segment
    <2>1. SegmentOK' /\ RamOK'
      BY <1>7, CatalogKeys DEF TypeInv, SegmentOK, RamOK
    <2>2. troubles' \in 0..MaxTroubles
      BY <1>7, Paid DEF TypeInv
    <2>3. lost' \in [rows : SUBSET Messages, hashes : SUBSET Messages,
                     listed : SUBSET Conversations]
      BY <1>5, <1>7 DEF GiveUp
    <2>4. dirty' \in BOOLEAN
      BY <1>5, <1>7
    <2>5. RestOK'
      BY <2>2, <2>3, <2>4 DEF ReconcileConversation, TypeInv, RestOK
    <2> QED
      BY <1>2, <1>3, <1>4, <2>1, <2>5 DEF TypeInv
  <1> QED
    BY <1>6, <1>7 DEF ReconcileConversation

\* The steps that leave files, memory and history alone.
LEMMA OnlyMaintType ==
    ASSUME TypeInv, MaintOK', OpOK', UNCHANGED <<diskVars, ram, hot, dirty,
               historyVars, powerLosses>>,
           ready' \in BOOLEAN, troubles' \in 0..MaxTroubles
    PROVE  TypeInv'
  BY DEF diskVars, historyVars, TypeInv, SegmentOK, FilesOK, RamOK, RestOK

LEMMA FinishHydrationType ==
    ASSUME TypeInv, FinishHydration, UNCHANGED powerLosses
    PROVE  TypeInv'
  <1>1. MaintOK'
    BY MaintRests DEF FinishHydration
  <1>2. OpOK'
    BY OpRests DEF FinishHydration, TypeInv
  <1> QED
    BY <1>1, <1>2, OnlyMaintType DEF FinishHydration, TypeInv, RestOK

LEMMA BeginCompactionType ==
    ASSUME TypeInv, BeginCompaction, UNCHANGED powerLosses
    PROVE  TypeInv'
  <1>1. MaintOK'
    BY PhaseOK DEF BeginCompaction, memoryVars, TypeInv, Hydrating, Compacting
  <1>2. OpOK'
    BY OpEnds DEF BeginCompaction, LeaseIsFree
  <1> QED
    BY <1>1, <1>2, OnlyMaintType DEF BeginCompaction, memoryVars, TypeInv, RestOK

LEMMA NextOfOK ==
    ASSUME TypeInv, ready, NEW plan, NEW left \in SUBSET Projections,
           maint' = [NextOf(plan) EXCEPT !.plan = left], ready' = ready
    PROVE  MaintOK'
  <1>1. CASE NextOf(plan) = AtRest
    BY <1>1 DEF MaintOK, AtRest, Hydrating, Compacting
  <1>2. CASE \E p \in Projections : NextOf(plan) = Phase("Create", p)
    BY <1>2, CatalogKeys DEF TypeInv, MaintOK, Phase, Hydrating, Compacting
  <1> QED
    BY <1>1, <1>2, CatalogKeys DEF NextOf

LEMMA InspectType ==
    ASSUME TypeInv, Inspect, UNCHANGED powerLosses
    PROVE  TypeInv'
  <1>1. maint.phase = "Inspect" /\ ready /\ ready' = ready
    BY DEF Inspect, memoryVars, TypeInv, MaintOK, Compacting
  <1>2. MaintOK'
    <2>1. CASE UNCHANGED maint
      BY <1>1, <2>1, MaintSame DEF TypeInv
    <2>2. ASSUME NEW due \in SUBSET Projections, NEW plan,
                 plan = (IF dirty THEN due \cup {"catalog"} ELSE due),
                 maint' = [NextOf(plan) EXCEPT !.plan = plan]
          PROVE  MaintOK'
      <3>1. plan \in SUBSET Projections
        BY <2>2, CatalogKeys
      <3> QED
        BY <1>1, <2>2, <3>1, NextOfOK
    <2> QED
      BY <2>1, <2>2 DEF Inspect
  <1>3. OpOK'
    BY <1>1, OpRests DEF Inspect, TypeInv
  <1> QED
    BY <1>2, <1>3, OnlyMaintType DEF Inspect, memoryVars, TypeInv, RestOK

LEMMA CreateType ==
    ASSUME TypeInv, Create, UNCHANGED powerLosses
    PROVE  TypeInv'
  <1> DEFINE p == maint.journal
  <1>1. maint.phase = "Create" /\ p \in Projections /\ ready /\ ready' = ready
    BY DEF Create, memoryVars, TypeInv, MaintOK, Compacting
  <1>2. p \in Journals /\ Nothing(p) \in Contents(p)
    BY <1>1, CatalogKeys, NothingOK
  <1>3. \A s \in JournalState :
           File(s, Nothing(p)) \in SlotFile(p) /\ Tidy(p, File(s, Nothing(p)))
    BY <1>2 DEF File, SlotFile, Tidy
  <1>4. "Ready" \in JournalState
    BY DEF JournalState
  <1>5. \E s \in JournalState : SetTemp(p, File(s, Nothing(p)))
    BY <1>4 DEF Create
  <1>6. FilesOK'
    BY <1>2, <1>3, <1>5, TempChange DEF TypeInv
  <1>7. MaintOK'
    <2>1. CASE UNCHANGED maint
      BY <1>1, <2>1, MaintSame DEF TypeInv
    <2>2. CASE maint' = [Phase("Write", p) EXCEPT
                           !.todo = {c \in Conversations : ram[p][c] # None}]
      <3>1. maint \in [phase : {"Idle"} \cup Hydrating \cup Compacting,
                       journal : Journals \cup {None},
                       plan : SUBSET Projections, todo : SUBSET Conversations]
        BY DEF TypeInv, MaintOK
      <3>2. /\ maint' \in [phase : {"Idle"} \cup Hydrating \cup Compacting,
                           journal : Journals \cup {None},
                           plan : SUBSET Projections, todo : SUBSET Conversations]
            /\ maint'.phase = "Write" /\ maint'.journal = p
        BY <1>2, <2>2, <3>1 DEF Phase, Compacting
      <3> QED
        BY <1>1, <3>2 DEF MaintOK, Hydrating
    <2> QED
      BY <2>1, <2>2 DEF Create
  <1>8. OpOK'
    BY <1>1, OpRests DEF Create, TypeInv
  <1>9. troubles' \in 0..MaxTroubles
    <2>1. troubles' = troubles \/ Pay(1)
      BY DEF Create
    <2> QED
      BY <2>1, Paid DEF TypeInv, RestOK
  <1>10. SegmentOK' /\ RamOK' /\ RestOK'
    BY <1>9 DEF Create, memoryVars, historyVars, TypeInv, SegmentOK, RamOK, RestOK
  <1> QED
    BY <1>6, <1>7, <1>8, <1>10 DEF TypeInv

LEMMA WriteRecordType ==
    ASSUME TypeInv, NEW c \in Conversations, WriteRecord(c), UNCHANGED powerLosses
    PROVE  TypeInv'
  <1> DEFINE p == maint.journal
             f == files[p].temp
  <1>1. maint.phase = "Write" /\ p \in Projections /\ ready /\ ready' = ready
    BY DEF WriteRecord, memoryVars, TypeInv, MaintOK, Compacting
  <1>2. /\ p \in Journals /\ c \in Keys(p) /\ f \in SlotFile(p) /\ Tidy(p, f)
        /\ ram[p][c] \in Value(p) \cup {None, Deleted}
    BY <1>1, CatalogKeys, IsFile DEF TypeInv, RamOK
  <1>3. PICK o \in PutSlot(p, f, c, ram[p][c]) :
           /\ Pay(o.cost)
           /\ SetTemp(p, o.file)
           /\ marks' = IF p = "catalog" THEN marks
                       ELSE AnyMark((IF o.weak THEN HasSlot(f) ELSE {})
                                    \cup (IF o.ok THEN {} ELSE {c}))
    BY DEF WriteRecord
  <1>4. PutLeaves(p, f, c, ram[p][c], o)
    BY <1>2, PutSlotOutcome
  <1>5. FilesOK'
    BY <1>2, <1>3, <1>4, TempChange DEF TypeInv, PutLeaves
  <1>6. MaintOK'
    <2>1. maint' = [maint EXCEPT !.todo = @ \ {c}]
      BY DEF WriteRecord
    <2>2. maint \in [phase : {"Idle"} \cup Hydrating \cup Compacting,
                    journal : Journals \cup {None},
                    plan : SUBSET Projections, todo : SUBSET Conversations]
      BY DEF TypeInv, MaintOK
    <2>3. /\ maint' \in [phase : {"Idle"} \cup Hydrating \cup Compacting,
                         journal : Journals \cup {None},
                         plan : SUBSET Projections, todo : SUBSET Conversations]
          /\ maint'.phase = "Write" /\ maint'.journal = p
      BY <1>1, <2>1, <2>2
    <2> QED
      BY <1>1, <2>3 DEF MaintOK, Hydrating
  <1>7. OpOK'
    BY <1>1, OpRests DEF WriteRecord, TypeInv
  <1>8. troubles' \in 0..MaxTroubles
    BY <1>3, <1>4, Paid DEF TypeInv, PutLeaves, Priced
  <1>9. marks' \in [Conversations -> SUBSET Mark]
    <2>1. marks \in [Conversations -> SUBSET Mark]
      BY DEF TypeInv, RestOK
    <2> QED
      BY <1>3, <2>1, AnyMarkType DEF TypeInv
  <1>10. SegmentOK' /\ RamOK' /\ RestOK'
    BY <1>8, <1>9 DEF WriteRecord, memoryVars, TypeInv, SegmentOK, RamOK, RestOK
  <1> QED
    BY <1>5, <1>6, <1>7, <1>10 DEF TypeInv

LEMMA ReplaceType ==
    ASSUME TypeInv, Replace, UNCHANGED powerLosses
    PROVE  TypeInv'
  <1> DEFINE p == maint.journal
  <1>1. /\ maint.phase = "Write" /\ p \in Projections /\ p \in Journals
        /\ ready /\ ready' = ready
    BY CatalogKeys DEF Replace, memoryVars, TypeInv, MaintOK, Compacting
  <1>2. PICK o \in ReplaceFile(files[p], NoFile(p)) :
           /\ Pay(o.cost)
           /\ files' = [files EXCEPT ![p] = o.file]
           /\ marks' = IF o.weak /\ p = "read"
                       THEN AnyMark(Conversations) ELSE marks
           /\ maint' = AfterReplace(p, o.ok)
    BY DEF Replace
  <1>3. GoodFiles(p, files[p])
    BY <1>1 DEF TypeInv, FilesOK, GoodFiles
  <1>4. Priced(o) /\ GoodFiles(p, o.file)
    BY <1>2, <1>3, NothingOK, ReplaceOutcome
  <1>5. FilesOK'
    BY <1>1, <1>2, <1>4, FilesChange DEF TypeInv, GoodFiles
  <1>6. MaintOK'
    <2>1. maint' = maint \/ maint' = Phase("RemoveDelta", p)
      BY <1>2 DEF AfterReplace
    <2> QED
      BY <1>1, <2>1, MaintSame, PhaseOK DEF TypeInv, Hydrating, Compacting
  <1>7. OpOK'
    BY <1>1, OpRests DEF Replace, TypeInv
  <1>8. troubles' \in 0..MaxTroubles
    BY <1>2, <1>4, Paid DEF TypeInv, Priced
  <1>9. marks' \in [Conversations -> SUBSET Mark]
    <2>1. marks \in [Conversations -> SUBSET Mark]
      BY DEF TypeInv, RestOK
    <2> QED
      BY <1>2, <2>1, AnyMarkType DEF TypeInv
  <1>10. SegmentOK' /\ RamOK' /\ RestOK'
    BY <1>8, <1>9 DEF Replace, memoryVars, TypeInv, SegmentOK, RamOK, RestOK
  <1> QED
    BY <1>5, <1>6, <1>7, <1>10 DEF TypeInv

LEMMA RemoveDeltaType ==
    ASSUME TypeInv, RemoveDelta, UNCHANGED powerLosses
    PROVE  TypeInv'
  <1> DEFINE p == maint.journal
  <1>1. /\ maint.phase = "RemoveDelta" /\ p \in Projections /\ p \in Journals
        /\ ready /\ ready' = ready
    BY CatalogKeys DEF RemoveDelta, TypeInv, MaintOK, Compacting
  <1>2. FilesOK' /\ troubles' \in 0..MaxTroubles
    <2>1. CASE SetDelta(p, NoFile(p)) /\ UNCHANGED troubles
      BY <1>1, <2>1, NoFileOK, DeltaChange DEF TypeInv, RestOK
    <2>2. CASE Pay(1) /\ UNCHANGED files
      BY <2>2, Paid DEF TypeInv, FilesOK
    <2> QED
      BY <2>1, <2>2 DEF RemoveDelta
  <1>3. MaintOK'
    <2> DEFINE left == maint.plan \ {"catalog", p}
    <2>1. left \in SUBSET Projections
      BY DEF TypeInv, MaintOK
    <2>2. maint' = [NextOf(left) EXCEPT !.plan = @ \ {"catalog", p}]
      BY DEF RemoveDelta
    <2>3. NextOf(left).plan \in SUBSET Projections
      BY DEF NextOf, Phase, AtRest, TypeInv, MaintOK
    <2>4. maint' = [NextOf(left) EXCEPT
                       !.plan = NextOf(left).plan \ {"catalog", p}]
      BY <2>2
    <2> HIDE DEF left
    <2> QED
      BY <1>1, <2>3, <2>4, NextOfOK
  <1>4. OpOK'
    BY <1>1, OpRests DEF RemoveDelta, TypeInv
  <1>5. dirty' \in BOOLEAN
    BY DEF RemoveDelta
  <1>6. SegmentOK' /\ RamOK' /\ RestOK'
    BY <1>2, <1>5 DEF RemoveDelta, historyVars, TypeInv, SegmentOK, RamOK, RestOK
  <1> QED
    BY <1>2, <1>3, <1>4, <1>6 DEF TypeInv

LEMMA StopType ==
    ASSUME TypeInv, Stop, UNCHANGED powerLosses
    PROVE  TypeInv'
  <1>1. MaintOK'
    BY MaintRests DEF Stop
  <1>2. OpOK'
    BY DEF Stop, memoryVars, TypeInv, OpOK, AtRest
  <1>3. troubles' \in 0..MaxTroubles
    BY Paid DEF Stop, TypeInv
  <1> QED
    BY <1>1, <1>2, <1>3, OnlyMaintType DEF Stop, memoryVars, TypeInv, RestOK

LEMMA PowerLossType ==
    ASSUME TypeInv, PowerLoss
    PROVE  TypeInv'
  <1>1. MaintOK' /\ OpOK' /\ RamOK'
    BY MaintRests, OpEnds, RamEmpty DEF PowerLoss
  <1>2. troubles' \in 0..MaxTroubles /\ powerLosses' \in 0..MaxPowerLosses
    BY StoreAssumption DEF PowerLoss, TypeInv, RestOK
  <1>3. SegmentOK' /\ FilesOK' /\ RestOK'
    BY <1>2 DEF PowerLoss, diskVars, historyVars, TypeInv, SegmentOK, FilesOK, RestOK
  <1> QED
    BY <1>1, <1>3 DEF TypeInv

LEMMA TypeStep == TypeInv /\ [StoreNext]_storeVars => TypeInv'
  <1> SUFFICES ASSUME TypeInv, [StoreNext]_storeVars PROVE TypeInv'
    OBVIOUS
  <1>1. CASE UNCHANGED storeVars
    BY <1>1 DEF storeVars, diskVars, memoryVars, historyVars, TypeInv,
                SegmentOK, FilesOK, RamOK, OpOK, MaintOK, RestOK
  <1>2. CASE Caller /\ UNCHANGED powerLosses
    BY <1>2, AppendRowType, RememberHashType, ListConversationType, MarkReadType,
       ClearType, RelistType, UnlistType, UnmarkType DEF Caller
  <1>3. CASE Hydrate /\ UNCHANGED powerLosses
    BY <1>3, BeginHydrationType, RecoverType, ReplayType, LookAtSeenType,
       RebuildSeenType, ReconcileConversationType, FinishHydrationType DEF Hydrate
  <1>4. CASE Compact /\ UNCHANGED powerLosses
    BY <1>4, InspectType, CreateType, WriteRecordType, ReplaceType,
       RemoveDeltaType DEF Compact
  <1>5. CASE PowerLoss
    BY <1>5, PowerLossType
  <1>6. CASE (BeginCompaction \/ Stop) /\ UNCHANGED powerLosses
    BY <1>6, BeginCompactionType, StopType
  <1> QED
    BY <1>1, <1>2, <1>3, <1>4, <1>5, <1>6 DEF StoreNext

(* Files, memory, lease and history are well formed, whatever fails, and a *)
(* segment never outgrows its rows.                                        *)
THEOREM StoreTypes == StoreSpec => []StoreTypeOK
  <1>1. TypeInv => StoreTypeOK
    BY TypeInvIsType
  <1> QED
    BY <1>1, InitTypeInv, TypeStep, PTL DEF StoreSpec

-----------------------------------------------------------------------------
(* What was acknowledged is found *)

Acked(m) == fate[m] = "acked"

\* The catalog in memory says what the segment said.
Reconciled(c) ==
    ready \/ (maint.phase = "Reconcile" /\ c \notin maint.todo)

RowsInv ==
    /\ \A m \in Messages :
          Acked(m) /\ m \notin lost.rows =>
             /\ m \in Rows(ConversationOf[m])
             /\ LET c == ConversationOf[m]
                IN Reconciled(c) /\ c \notin lost.listed => Listed(c)
    /\ op.step \in {"hash", "list"} => op.msg \in Rows(op.conv)
    /\ op.step \in {"unlist", "unmark"} =>
          \A m \in Messages : ConversationOf[m] = op.conv => ~Acked(m)

\* A step that leaves segments and history alone, takes no entry out of the
\* catalog in memory and begins no operation of the caller's.
SameOp ==
    \/ op' = NoOp
    \/ /\ op'.conv = op.conv /\ op'.msg = op.msg
       /\ op'.step \in {"hash", "list"} => op.step \in {"hash", "list"}
       /\ op'.step \in {"unlist", "unmark"} => op.step \in {"unlist", "unmark"}
    \/ op'.step = "relist"

LEMMA RowsSame ==
    ASSUME RowsInv, UNCHANGED <<segment, fate>>,
           lost'.rows = lost.rows, SameOp,
           \A c \in Conversations :
              Reconciled(c)' => /\ Reconciled(c)
                                /\ c \in lost.listed => c \in lost'.listed
                                /\ Listed(c) => Listed(c)'
    PROVE  RowsInv'
  <1>1. \A c : Rows(c)' = Rows(c)
    BY DEF Rows
  <1>2. \A m : Acked(m)' <=> Acked(m)
    BY DEF Acked
  <1>3. ASSUME NEW m \in Messages, Acked(m)', m \notin lost'.rows
        PROVE  /\ m \in Rows(ConversationOf[m])'
               /\ LET c == ConversationOf[m]
                  IN Reconciled(c)' /\ c \notin lost'.listed => Listed(c)'
    BY <1>1, <1>2, <1>3, StoreAssumption DEF RowsInv
  <1>4. op'.step \in {"hash", "list"} => op'.msg \in Rows(op.conv)'
    BY <1>1 DEF RowsInv, SameOp, NoOp
  <1>5. op'.step \in {"unlist", "unmark"} =>
           \A m \in Messages : ConversationOf[m] = op'.conv => ~Acked(m)'
    BY <1>2 DEF RowsInv, SameOp, NoOp
  <1> QED
    BY <1>3, <1>4, <1>5 DEF RowsInv

LEMMA AppendRowRows ==
    ASSUME TypeInv, RowsInv, NEW m \in Messages, AppendRow(m)
    PROVE  RowsInv'
  <1> DEFINE c == ConversationOf[m]
             f == segment[c]
             count == Len(f.slots)
  <1>1. c \in Conversations /\ f \in RowFile /\ TidyRows(f) /\ count \in Nat
        /\ Rows(c) = RowsOf(f.slots)
    BY StoreAssumption, RowsAreMessages DEF TypeInv
  <1>2. UNCHANGED <<ready, ram, maint, fate>>
    BY DEF AppendRow, memoryVars
  <1>3. CASE /\ count > 0 /\ f.slots[count] = m
             /\ op' = At("hash", c, m, count)
             /\ UNCHANGED <<segment, lost, troubles>>
    <2>1. m \in Rows(c)
      BY <1>1, <1>3 DEF RowFile, Rows
    <2>2. \A k : Rows(k)' = Rows(k)
      BY <1>3 DEF Rows
    <2> QED
      BY <1>2, <1>3, <2>1, <2>2 DEF RowsInv, Acked, Reconciled, Listed, At
  <1>4. ASSUME NEW o \in PutRow(f, m),
               segment' = [segment EXCEPT ![c] = o.file],
               lost' = (IF o.weak THEN GiveUp("rows", Rows(c)) ELSE lost),
               op' = (IF o.ok THEN At("hash", c, m, count + 1) ELSE NoOp)
        PROVE  RowsInv'
    <2>1. RowLeaves(f, m, o)
      BY <1>1, PutRowOutcome
    <2>2. /\ segment'[c] = o.file
          /\ \A k \in Conversations : k # c => segment'[k] = segment[k]
      BY <1>1, <1>4 DEF TypeInv, SegmentOK
    <2>3. /\ Rows(c)' = RowsOf(o.file.slots)
          /\ \A k \in Conversations : k # c => Rows(k)' = Rows(k)
      BY <2>2 DEF Rows, RowsOf
    <2>4. /\ lost'.rows = (IF o.weak THEN lost.rows \cup Rows(c) ELSE lost.rows)
          /\ lost'.listed = lost.listed
      BY <1>4 DEF GiveUp, TypeInv, RestOK
    <2>5. ASSUME NEW n \in Messages, Acked(n)', n \notin lost'.rows
          PROVE  /\ n \in Rows(ConversationOf[n])'
                 /\ LET k == ConversationOf[n]
                    IN Reconciled(k)' /\ k \notin lost'.listed => Listed(k)'
      <3>1. Acked(n) /\ n \notin lost.rows
        BY <1>2, <2>4, <2>5 DEF Acked
      <3>2. n \in Rows(ConversationOf[n])'
        BY <1>1, <2>1, <2>3, <2>4, <2>5, <3>1, StoreAssumption DEF RowsInv, RowLeaves
      <3> QED
        BY <1>2, <2>4, <2>5, <3>1, <3>2 DEF RowsInv, Reconciled, Listed
    <2>6. op'.step \in {"hash", "list"} => op'.msg \in Rows(op.conv)'
      BY <1>4, <2>1, <2>3 DEF RowLeaves, At, NoOp
    <2>7. op'.step \notin {"unlist", "unmark"}
      BY <1>4 DEF At, NoOp
    <2> QED
      BY <2>5, <2>6, <2>7 DEF RowsInv
  <1> QED
    BY <1>3, <1>4 DEF AppendRow

LEMMA RememberHashRows ==
    ASSUME TypeInv, RowsInv, RememberHash
    PROVE  RowsInv'
  <1>1. UNCHANGED <<segment, ready, ram, maint, fate>>
    BY DEF RememberHash
  <1>2. op.step = "hash" /\ (op' = [op EXCEPT !.step = "list"] \/ op' = NoOp)
    BY DEF RememberHash
  <1>3. SameOp
    BY <1>2 DEF SameOp, TypeInv, OpOK
  <1>4. lost'.rows = lost.rows /\ lost'.listed = lost.listed
    BY DEF RememberHash, TypeInv, RestOK
  <1> QED
    BY <1>1, <1>3, <1>4, RowsSame DEF Reconciled, Listed

LEMMA ListConversationRows ==
    ASSUME TypeInv, RowsInv, ListConversation
    PROVE  RowsInv'
  <1> PICK c, entry : c = op.conv /\ entry = <<op.count, op.msg>>
    OBVIOUS
  <1>1. /\ UNCHANGED <<segment, ready, maint>> /\ op' = NoOp
        /\ op.step = "list" /\ op.msg \in Messages /\ c \in Conversations
        /\ op.count \in Nat /\ c = ConversationOf[op.msg]
    BY DEF ListConversation, TypeInv, OpOK
  <1>2. entry # None
    BY <1>1, StoreAssumption
  <1>3. Listed(c)' /\ \A k \in Conversations : k # c => (Listed(k)' <=> Listed(k))
    <2>1. CASE ram["catalog"][c] = entry /\ ram' = ram
      BY <1>2, <2>1 DEF Listed
    <2>2. CASE \E ok : ram' = EnterCatalog(c, entry, ok)
      BY <1>1, <1>2, <2>2, CatalogKeys DEF EnterCatalog, Listed, TypeInv, RamOK
    <2> QED
      BY <2>1, <2>2 DEF ListConversation
  <1>4. \A k : Rows(k)' = Rows(k)
    BY <1>1 DEF Rows
  <1>5. /\ lost'.rows = lost.rows \ {op.msg}
        /\ lost'.listed = lost.listed \ {c}
        /\ fate' = [fate EXCEPT ![op.msg] = "acked"]
    BY DEF ListConversation, TypeInv, RestOK
  <1>6. ASSUME NEW n \in Messages, Acked(n)', n \notin lost'.rows
        PROVE  /\ n \in Rows(ConversationOf[n])'
               /\ LET k == ConversationOf[n]
                  IN Reconciled(k)' /\ k \notin lost'.listed => Listed(k)'
    <2>1. CASE n = op.msg
      BY <1>1, <1>3, <1>4, <2>1 DEF RowsInv
    <2>2. CASE n # op.msg
      <3>1. Acked(n) /\ n \notin lost.rows
        BY <1>5, <1>6, <2>2 DEF Acked, TypeInv, RestOK
      <3> QED
        BY <1>1, <1>3, <1>4, <1>5, <3>1, StoreAssumption DEF RowsInv, Reconciled
    <2> QED
      BY <2>1, <2>2
  <1> QED
    BY <1>1, <1>6 DEF RowsInv, NoOp

LEMMA ClearRows ==
    ASSUME TypeInv, RowsInv, NEW c \in Conversations, Clear(c)
    PROVE  RowsInv'
  <1>1. /\ segment' \in {segment, [segment EXCEPT ![c] = NoRows]}
        /\ UNCHANGED <<ready, ram, maint>> /\ op = NoOp
        /\ op' \in {At("unlist", c, None, 0), op}
    BY DEF Clear, memoryVars, LeaseIsFree
  <1>2. \A k \in Conversations : k # c => Rows(k)' = Rows(k)
    BY <1>1 DEF Rows, TypeInv, SegmentOK
  <1>3. /\ fate' = [m \in Messages |-> IF m \in Gone(c) THEN "cleared" ELSE fate[m]]
        /\ lost'.rows = lost.rows \ Gone(c) /\ lost'.listed = lost.listed
    BY DEF Clear, TypeInv, RestOK
  <1>4. \A m \in Messages : Acked(m)' => /\ Acked(m) /\ m \notin Gone(c)
                                         /\ ConversationOf[m] # c
    BY <1>3 DEF Acked, Gone
  <1>5. ASSUME NEW n \in Messages, Acked(n)', n \notin lost'.rows
        PROVE  /\ n \in Rows(ConversationOf[n])'
               /\ LET k == ConversationOf[n]
                  IN Reconciled(k)' /\ k \notin lost'.listed => Listed(k)'
    BY <1>1, <1>2, <1>3, <1>4, <1>5, StoreAssumption DEF RowsInv, Reconciled, Listed
  <1>6. op'.step \notin {"hash", "list"}
        /\ (op'.step \in {"unlist", "unmark"} => op'.conv = c)
    BY <1>1 DEF At, NoOp
  <1> QED
    BY <1>4, <1>5, <1>6 DEF RowsInv

LEMMA UnmarkRows ==
    ASSUME TypeInv, RowsInv, Unmark
    PROVE  RowsInv'
  <1> PICK c : c = op.conv
    OBVIOUS
  <1>1. /\ op.step = "unmark" /\ op' = NoOp /\ c \in Conversations
        /\ UNCHANGED <<segment, ready, maint, fate, lost>>
    BY DEF Unmark, TypeInv, OpOK
  <1>2. \A k \in Conversations : k # c => (Listed(k)' <=> Listed(k))
    BY CatalogKeys DEF Unmark, Listed, TypeInv, RamOK
  <1>3. \A k : Rows(k)' = Rows(k)
    BY <1>1 DEF Rows
  <1>4. ASSUME NEW n \in Messages, Acked(n)', n \notin lost'.rows
        PROVE  /\ n \in Rows(ConversationOf[n])'
               /\ LET k == ConversationOf[n]
                  IN Reconciled(k)' /\ k \notin lost'.listed => Listed(k)'
    <2>1. Acked(n) /\ n \notin lost.rows /\ ConversationOf[n] # c
      BY <1>1, <1>4 DEF RowsInv, Acked
    <2> QED
      BY <1>1, <1>2, <1>3, <2>1, StoreAssumption DEF RowsInv, Reconciled
  <1> QED
    BY <1>1, <1>4 DEF RowsInv, NoOp

LEMMA ReconcileConversationRows ==
    ASSUME TypeInv, RowsInv, NEW c \in Conversations, ReconcileConversation(c)
    PROVE  RowsInv'
  <1> DEFINE f == segment[c]
  <1>1. /\ maint.phase = "Reconcile" /\ ~ready /\ ready' = ready
        /\ UNCHANGED <<op, fate>> /\ op.step = "idle"
    BY DEF ReconcileConversation, TypeInv, MaintOK, OpOK, Hydrating
  <1>2. \A k \in Conversations : k # c => (Reconciled(k)' => Reconciled(k))
    <2>1. maint' = [maint EXCEPT !.todo = @ \ {c}]
      BY DEF ReconcileConversation
    <2>2. maint'.todo = maint.todo \ {c}
      BY <2>1 DEF TypeInv, MaintOK
    <2> QED
      BY <1>1, <2>2 DEF Reconciled
  <1>3. f \in RowFile /\ TidyRows(f) /\ Rows(c) = RowsOf(f.slots)
    BY RowsAreMessages DEF TypeInv
  <1>4. ASSUME /\ \A k \in Conversations : k # c =>
                     /\ Rows(k)' = Rows(k) /\ (Listed(k)' <=> Listed(k))
                     /\ k \in lost.listed => k \in lost'.listed
               /\ lost.rows \subseteq lost'.rows
               /\ \A m \in Messages : m \in Rows(c) /\ m \notin lost'.rows =>
                     m \in Rows(c)' /\ (c \notin lost'.listed => Listed(c)')
        PROVE  RowsInv'
    <2>1. ASSUME NEW n \in Messages, Acked(n)', n \notin lost'.rows
          PROVE  /\ n \in Rows(ConversationOf[n])'
                 /\ LET k == ConversationOf[n]
                    IN Reconciled(k)' /\ k \notin lost'.listed => Listed(k)'
      <3>1. Acked(n) /\ n \notin lost.rows
        BY <1>1, <1>4, <2>1 DEF Acked
      <3> QED
        BY <1>2, <1>4, <2>1, <3>1, StoreAssumption DEF RowsInv
    <2> QED
      BY <1>1, <2>1 DEF RowsInv
  <1>5. ASSUME NEW o \in Inspected(f),
               segment' = [segment EXCEPT ![c] = o.file],
               ram' = [ram EXCEPT !["catalog"][c] =
                         IF o.ok /\ Len(o.file.slots) > 0
                         THEN <<Len(o.file.slots), o.file.slots[Len(o.file.slots)]>>
                         ELSE None],
               lost' = [lost EXCEPT
                           !.rows = IF o.weak THEN @ \cup Rows(c) ELSE @,
                           !.listed = IF o.ok THEN @ ELSE @ \cup {c}]
        PROVE  RowsInv'
    <2>1. /\ Priced(o) /\ o.file \in RowFile
          /\ o.weak \/ o.file.slots = f.slots
      BY <1>3, InspectedOutcome
    <2>2. /\ Rows(c)' = RowsOf(o.file.slots)
          /\ \A k \in Conversations : k # c => Rows(k)' = Rows(k)
      BY <1>5 DEF Rows, RowsOf, TypeInv, SegmentOK
    <2>3. \A k \in Conversations : k # c => (Listed(k)' <=> Listed(k))
      BY <1>5, CatalogKeys DEF Listed, TypeInv, RamOK
    <2>4. /\ lost'.rows = (IF o.weak THEN lost.rows \cup Rows(c) ELSE lost.rows)
          /\ lost'.listed = (IF o.ok THEN lost.listed ELSE lost.listed \cup {c})
      BY <1>5 DEF TypeInv, RestOK
    <2>5. ASSUME NEW m \in Messages, m \in Rows(c), m \notin lost'.rows
          PROVE  m \in Rows(c)' /\ (c \notin lost'.listed => Listed(c)')
      <3>1. m \in RowsOf(o.file.slots)
        BY <1>3, <2>1, <2>4, <2>5
      <3>2. /\ o.file.slots \in Seq(Messages) /\ Len(o.file.slots) \in Nat
            /\ Len(o.file.slots) > 0
            /\ o.file.slots[Len(o.file.slots)] \in Messages
        BY <2>1, <3>1 DEF RowFile, RowsOf
      <3>3. <<Len(o.file.slots), o.file.slots[Len(o.file.slots)]>> # None
        BY <3>2, StoreAssumption
      <3>4. o.ok => Listed(c)'
        BY <1>5, <3>2, <3>3, CatalogKeys DEF Listed, TypeInv, RamOK
      <3> QED
        BY <2>2, <2>4, <3>1, <3>4
    <2> QED
      BY <1>4, <2>2, <2>3, <2>4, <2>5
  <1>6. CASE /\ ram' = [ram EXCEPT !["catalog"][c] = None]
             /\ lost' = GiveUp("listed", {c})
             /\ UNCHANGED segment
    <2>1. \A k : Rows(k)' = Rows(k)
      BY <1>6 DEF Rows
    <2>2. \A k \in Conversations : k # c => (Listed(k)' <=> Listed(k))
      BY <1>6, CatalogKeys DEF Listed, TypeInv, RamOK
    <2>3. lost'.rows = lost.rows /\ lost'.listed = lost.listed \cup {c}
      BY <1>6 DEF GiveUp, TypeInv, RestOK
    <2> QED
      BY <1>4, <2>1, <2>2, <2>3
  <1> QED
    BY <1>5, <1>6 DEF ReconcileConversation

\* The other steps of the owner.
LEMMA OwnerRows ==
    ASSUME TypeInv, RowsInv, UNCHANGED <<segment, fate>>,
           lost'.rows = lost.rows, op' = op \/ op' = NoOp,
           \/ ~ready' /\ maint'.phase # "Reconcile"
           \/ ~ready' /\ maint'.todo = Conversations
           \/ /\ ready' /\ (ready \/ (maint.phase = "Reconcile" /\ maint.todo = {}))
              /\ lost'.listed = lost.listed /\ ram' = ram
    PROVE  RowsInv'
  <1>1. SameOp
    BY DEF SameOp
  <1> QED
    BY <1>1, RowsSame DEF Reconciled, Listed

LEMMA RowsStep == TypeInv /\ RowsInv /\ [StoreNext]_storeVars => RowsInv'
  <1> SUFFICES ASSUME TypeInv, RowsInv, [StoreNext]_storeVars PROVE RowsInv'
    OBVIOUS
  <1>1. CASE UNCHANGED storeVars
    BY <1>1 DEF storeVars, diskVars, memoryVars, historyVars, RowsInv, Acked,
                Reconciled, Listed, Rows
  <1>2. CASE Caller
    <2>1. ASSUME NEW c \in Conversations, MarkRead(c)
          PROVE  RowsInv'
      <3>1. op' = NoOp \/ op'.step = "relist"
        BY <2>1 DEF MarkRead, At
      <3> QED
        BY <2>1, <3>1, RowsSame DEF MarkRead, memoryVars, SameOp, Reconciled, Listed
    <2>2. CASE Relist
      <3>1. \A c \in Conversations : Listed(c)' <=> Listed(c)
        BY <2>2, CatalogKeys DEF Relist, Listed, TypeInv, RamOK
      <3> QED
        BY <2>2, <3>1, RowsSame DEF Relist, SameOp, Reconciled
    <2>3. CASE Unlist
      <3>1. op.step = "unlist" /\ op'.step = "unmark" /\ op'.conv = op.conv
        BY <2>3 DEF Unlist, At
      <3>2. UNCHANGED <<segment, fate, lost, ready, ram, maint>>
        BY <2>3 DEF Unlist, memoryVars, historyVars
      <3> QED
        BY <3>1, <3>2 DEF RowsInv, Acked, Reconciled, Listed, Rows
    <2> QED
      BY <1>2, <2>1, <2>2, <2>3, AppendRowRows, RememberHashRows,
         ListConversationRows, ClearRows, UnmarkRows DEF Caller
  <1>3. CASE Hydrate
    <2>1. CASE BeginHydration
      BY <2>1, OwnerRows DEF BeginHydration, diskVars, Phase, TypeInv, MaintOK, RestOK
    <2>2. CASE Recover
      <3>1. ~ready /\ maint'.phase # "Reconcile"
        BY <2>2 DEF Recover, Phase, AtRest, TypeInv, MaintOK, Hydrating, Journals,
                    Projections
      <3> QED
        BY <2>2, <3>1, OwnerRows DEF Recover, memoryVars
    <2>3. CASE Replay
      <3>1. ~ready /\ maint'.phase # "Reconcile"
        BY <2>3 DEF Replay, Phase, TypeInv, MaintOK, Hydrating
      <3> QED
        BY <2>3, <3>1, OwnerRows DEF Replay, diskVars
    <2>4. CASE LookAtSeen
      <3>1. ~ready /\ maint'.todo = Conversations
        BY <2>4 DEF LookAtSeen, TypeInv, MaintOK, Hydrating
      <3> QED
        BY <2>4, <3>1, OwnerRows DEF LookAtSeen, diskVars, historyVars
    <2>5. CASE RebuildSeen
      <3>1. /\ ~ready
            /\ maint'.phase # "Reconcile" \/ maint'.todo = Conversations
        <4>1. /\ maint.todo = Conversations
              /\ maint' = AtRest \/ maint' = Phase("Reconcile", None)
          BY <2>5 DEF RebuildSeen, TypeInv, MaintOK
        <4>2. ~ready
          BY <2>5 DEF RebuildSeen, TypeInv, MaintOK, Hydrating
        <4> QED
          BY <4>1, <4>2, PhaseIs DEF AtRest, TypeInv
      <3>2. lost'.rows = lost.rows
        BY <2>5 DEF RebuildSeen, GiveUp, TypeInv, RestOK
      <3> QED
        BY <2>5, <3>1, <3>2, OwnerRows DEF RebuildSeen
    <2>6. CASE FinishHydration
      BY <2>6, OwnerRows DEF FinishHydration, diskVars, historyVars
    <2> QED
      BY <1>3, <2>1, <2>2, <2>3, <2>4, <2>5, <2>6, ReconcileConversationRows
         DEF Hydrate
  <1>4. CASE BeginCompaction \/ Compact
    <2>1. ready /\ UNCHANGED <<segment, fate, lost, ready, ram, op>>
      BY <1>4 DEF BeginCompaction, Compact, Inspect, Create, WriteRecord, Replace,
                  RemoveDelta, diskVars, memoryVars, historyVars, TypeInv, MaintOK,
                  Compacting
    <2> QED
      BY <2>1, OwnerRows
  <1>5. CASE Stop
    <2>1. /\ UNCHANGED <<segment, fate, lost, ready, ram, op>>
          /\ maint'.phase = "Idle" /\ ready \in BOOLEAN
      BY <1>5 DEF Stop, AtRest, diskVars, memoryVars, historyVars, TypeInv, RestOK
    <2> QED
      BY <2>1, OwnerRows
  <1>6. CASE PowerLoss
    BY <1>6, OwnerRows DEF PowerLoss, AtRest, diskVars, historyVars
  <1> QED
    BY <1>1, <1>2, <1>3, <1>4, <1>5, <1>6 DEF StoreNext

(* What the caller was told is stored stays in its segment, and is listed  *)
(* when the store is ready: an entry that was not written is in memory,    *)
(* and after a boot the reconciliation finds the segment.                  *)
THEOREM StoreFindsCommitted == StoreSpec => []CommittedIsFound
  <1>1. StoreInit => RowsInv
    BY DEF StoreInit, RowsInv, Acked, NoOp
  <1>2. RowsInv => CommittedIsFound
    BY StoreAssumption DEF RowsInv, CommittedIsFound, Acked, Reconciled
  <1> QED
    BY <1>1, <1>2, InitTypeInv, TypeStep, RowsStep, PTL DEF StoreSpec

-----------------------------------------------------------------------------
(* Its hash is in the files *)

\* seen_hot_ says no more than the files do; a hash is being written, or is
\* written, of a text that is not acknowledged yet.
HashesInv ==
    /\ \A m \in Messages :
          Acked(m) /\ m \notin lost.hashes \cup lost.rows => InFiles(m)
    /\ ready \/ maint.phase = "Reconcile" =>
          \A m \in hot : fate[m] # "cleared" => InFiles(m) \/ m \in lost.hashes
    /\ op.step \in {"hash", "list"} => fate[op.msg] = "new"
    /\ op.step = "list" => InFiles(op.msg) \/ op.msg \in lost.hashes

\* A step that leaves the hashes that are in files there.
LEMMA HashesSame ==
    ASSUME HashesInv, \A m \in Messages : InFiles(m) => InFiles(m)',
           fate' = fate, op' = op \/ op'.step \notin {"hash", "list"},
           op.step \in {"hash", "list"} => op.msg \in Messages,
           lost.hashes \subseteq lost'.hashes, lost.rows \subseteq lost'.rows,
           ready' \/ maint'.phase = "Reconcile" =>
              hot' \subseteq hot /\ (ready \/ maint.phase = "Reconcile"),
           hot \subseteq Messages
    PROVE  HashesInv'
  <1>1. \A m \in Messages : InFiles(m) \/ m \in lost.hashes
                               => InFiles(m)' \/ m \in lost'.hashes
    OBVIOUS
  <1>2. ASSUME NEW m \in Messages, Acked(m)', m \notin lost'.hashes \cup lost'.rows
        PROVE  InFiles(m)'
    BY <1>2 DEF HashesInv, Acked
  <1>3. ASSUME ready' \/ maint'.phase = "Reconcile",
               NEW m \in hot', fate'[m] # "cleared"
        PROVE  InFiles(m)' \/ m \in lost'.hashes
    BY <1>1, <1>3 DEF HashesInv
  <1>4. op'.step \in {"hash", "list"} => fate'[op'.msg] = "new"
    BY DEF HashesInv
  <1>5. op'.step = "list" => InFiles(op.msg)' \/ op'.msg \in lost'.hashes
    <2> PICK m : m = op.msg
      OBVIOUS
    <2> SUFFICES ASSUME op'.step = "list" PROVE InFiles(op.msg)' \/ op'.msg \in lost'.hashes
      OBVIOUS
    <2>1. op' = op /\ op'.msg = m /\ m \in Messages
      OBVIOUS
    <2>2. InFiles(m)' \/ m \in lost'.hashes
      BY <1>1, <2>1 DEF HashesInv
    <2> QED
      BY <2>1, <2>2 DEF InFiles
  <1> QED
    BY <1>2, <1>3, <1>4, <1>5 DEF HashesInv

\* A step that leaves the files of hashes alone.
LEMMA FilesSame ==
    ASSUME files'["seen"] = files["seen"]
    PROVE  \A m : InFiles(m)' <=> InFiles(m)
  BY DEF InFiles

LEMMA InSeenIsInFiles ==
    ASSUME TypeInv, HashesInv, ready, NEW m \in Messages, InSeen(m),
           fate[m] = "new"
    PROVE  InFiles(m) \/ m \in lost.hashes
  <1>1. CASE m \in hot
    BY <1>1 DEF HashesInv
  <1>2. CASE files["seen"].snapshot.slots[m] # None
    <2>1. Tidy("seen", files["seen"].snapshot) /\ Nothing("seen")[m] = None
      BY IsFile, CatalogKeys, NothingOK DEF TypeInv
    <2>2. Exists(files["seen"].snapshot)
      BY <1>2, <2>1 DEF Tidy, Exists
    <2> QED
      BY <1>2, <2>2 DEF InFiles, Base
  <1> QED
    BY <1>1, <1>2 DEF InSeen, InFiles

LEMMA AppendRowHashes ==
    ASSUME TypeInv, HashesInv, NEW m \in Messages, AppendRow(m)
    PROVE  HashesInv'
  <1>1. /\ UNCHANGED <<files, ready, hot, maint, fate>>
        /\ fate[m] = "new" /\ ready
        /\ op' = NoOp \/ (op'.step = "hash" /\ op'.msg = m)
    BY DEF AppendRow, memoryVars, At
  <1>2. lost'.hashes = lost.hashes /\ lost.rows \subseteq lost'.rows
    BY DEF AppendRow, GiveUp, TypeInv, RestOK
  <1>3. \A n : InFiles(n)' <=> InFiles(n)
    BY <1>1, FilesSame
  <1> QED
    BY <1>1, <1>2, <1>3 DEF HashesInv, Acked, NoOp

LEMMA RememberHashHashes ==
    ASSUME TypeInv, HashesInv, RememberHash
    PROVE  HashesInv'
  <1> PICK m : m = op.msg
    OBVIOUS
  <1> DEFINE f == files["seen"].delta
  <1>1. /\ op.step = "hash" /\ m \in Messages /\ ready /\ fate[m] = "new"
        /\ UNCHANGED <<ready, maint, fate>>
        /\ op' = NoOp \/ (op'.step = "list" /\ op'.msg = m)
    BY DEF RememberHash, TypeInv, OpOK, HashesInv
  <1>2. CASE InSeen(m) /\ UNCHANGED <<files, hot, lost, troubles>>
    <2>1. InFiles(m) \/ m \in lost.hashes
      BY <1>1, <1>2, InSeenIsInFiles
    <2>2. \A n : InFiles(n)' <=> InFiles(n)
      BY <1>2, FilesSame
    <2> QED
      BY <1>1, <1>2, <2>1, <2>2 DEF HashesInv, Acked, NoOp
  <1>3. ASSUME ~InSeen(m), NEW o \in PutSlotRepaired("seen", f, m, 1),
               SetDelta("seen", o.file),
               lost' = [lost EXCEPT !.hashes =
                           (IF o.weak THEN @ \cup HasSlot(f) ELSE @)
                           \ (IF o.ok THEN {m} ELSE {})],
               hot' = (IF o.ok THEN hot \cup {m} ELSE hot),
               op' = (IF o.ok THEN [op EXCEPT !.step = "list"] ELSE NoOp)
        PROVE  HashesInv'
    <2>1. PutLeaves("seen", f, m, 1, o)
      BY <1>1, CatalogKeys, IsFile, PutSlotRepairedOutcome DEF TypeInv, Value
    <2>2. /\ files'["seen"].delta = o.file
          /\ files'["seen"].snapshot = files["seen"].snapshot
          /\ files'["seen"].backup = files["seen"].backup
      BY <1>3, <2>1, CatalogKeys, DeltaChange DEF TypeInv, PutLeaves
    <2>3. lost'.hashes = (IF o.weak THEN lost.hashes \cup HasSlot(f)
                          ELSE lost.hashes) \ (IF o.ok THEN {m} ELSE {})
          /\ lost'.rows = lost.rows
      BY <1>3 DEF TypeInv, RestOK
    <2>4. DOMAIN f.slots = Messages
      BY IsFile, CatalogKeys DEF TypeInv, SlotFile, Contents
    <2>5. o.ok => InFiles(m)'
      <3>1. o.ok => o.file.slots[m] = 1
        BY <2>1 DEF PutLeaves
      <3> QED
        BY <2>2, <3>1, StoreAssumption DEF InFiles
    <2>6. ASSUME NEW n \in Messages, InFiles(n) \/ n \in lost.hashes, n # m
          PROVE  InFiles(n)' \/ n \in lost'.hashes
      <3>1. \/ o.file.slots[n] = f.slots[n]
            \/ o.weak /\ o.file.slots[n] = None
        BY <2>1, <2>6, CatalogKeys DEF PutLeaves
      <3>2. o.weak /\ f.slots[n] # None => n \in lost'.hashes
        BY <2>3, <2>4, <2>6 DEF HasSlot
      <3> QED
        BY <2>2, <2>3, <2>6, <3>1, <3>2 DEF InFiles, Base
    <2>7. ASSUME NEW n \in Messages, Acked(n)', n \notin lost'.hashes \cup lost'.rows
          PROVE  InFiles(n)'
      <3>1. Acked(n) /\ n # m
        BY <1>1, <2>7 DEF Acked
      <3>2. InFiles(n) \/ n \in lost.hashes
        BY <2>3, <2>7, <3>1 DEF HashesInv
      <3> QED
        BY <2>6, <2>7, <3>1, <3>2
    <2>8. ASSUME NEW n \in hot', fate'[n] # "cleared"
          PROVE  InFiles(n)' \/ n \in lost'.hashes
      <3>1. CASE n \in hot
        <4>1. n # m /\ n \in Messages
          BY <1>1, <1>3, <3>1 DEF InSeen, TypeInv, RestOK
        <4>2. InFiles(n) \/ n \in lost.hashes
          BY <1>1, <2>8, <3>1 DEF HashesInv
        <4> QED
          BY <2>6, <4>1, <4>2
      <3>2. CASE n \notin hot
        BY <1>3, <2>5, <2>8, <3>2
      <3> QED
        BY <3>1, <3>2
    <2>9. op'.step = "list" => InFiles(op.msg)'
      <3> SUFFICES ASSUME op'.step = "list" PROVE InFiles(op.msg)'
        OBVIOUS
      <3>1. op'.msg = m /\ o.ok
        BY <1>1, <1>3 DEF NoOp
      <3> QED
        BY <2>5, <3>1 DEF InFiles
    <2> QED
      BY <1>1, <2>7, <2>8, <2>9 DEF HashesInv, NoOp
  <1> QED
    BY <1>2, <1>3 DEF RememberHash

LEMMA ListConversationHashes ==
    ASSUME TypeInv, HashesInv, ListConversation
    PROVE  HashesInv'
  <1> PICK m : m = op.msg
    OBVIOUS
  <1>1. /\ op.step = "list" /\ m \in Messages /\ op' = NoOp
        /\ UNCHANGED <<ready, hot, maint>>
        /\ fate' = [fate EXCEPT ![m] = "acked"]
    BY DEF ListConversation, TypeInv, OpOK
  <1>2. files'["seen"] = files["seen"]
    <2>1. \/ files' = files
          \/ \E f : SetDelta("catalog", f)
      BY DEF ListConversation
    <2> QED
      BY <2>1, CatalogKeys DEF SetDelta, TypeInv, FilesOK
  <1>3. \A n : InFiles(n)' <=> InFiles(n)
    BY <1>2, FilesSame
  <1>4. lost'.hashes = lost.hashes /\ lost'.rows = lost.rows \ {m}
    BY DEF ListConversation, TypeInv, RestOK
  <1>5. \A n \in Messages : n # m => fate'[n] = fate[n]
    BY <1>1 DEF TypeInv, RestOK
  <1>6. InFiles(m) \/ m \in lost.hashes
    BY <1>1 DEF HashesInv
  <1>7. ASSUME NEW n \in Messages, Acked(n)', n \notin lost'.hashes \cup lost'.rows
        PROVE  InFiles(n)'
    BY <1>3, <1>4, <1>5, <1>6, <1>7 DEF HashesInv, Acked
  <1>8. ASSUME ready \/ maint.phase = "Reconcile", NEW n \in hot,
               fate'[n] # "cleared"
        PROVE  InFiles(n)' \/ n \in lost'.hashes
    <2>1. n \in Messages
      BY <1>8 DEF TypeInv, RestOK
    <2> QED
      BY <1>3, <1>4, <1>5, <1>6, <1>8, <2>1 DEF HashesInv
  <1> QED
    BY <1>1, <1>7, <1>8 DEF HashesInv, NoOp

LEMMA ClearHashes ==
    ASSUME TypeInv, HashesInv, NEW c \in Conversations, Clear(c)
    PROVE  HashesInv'
  <1>1. /\ UNCHANGED <<files, ready, hot, maint>> /\ op'.step \notin {"hash", "list"}
        /\ fate' = [m \in Messages |-> IF m \in Gone(c) THEN "cleared" ELSE fate[m]]
        /\ lost'.rows = lost.rows \ Gone(c) /\ lost'.hashes = lost.hashes \ Gone(c)
    BY DEF Clear, memoryVars, LeaseIsFree, At, NoOp, TypeInv, RestOK
  <1>2. \A n : InFiles(n)' <=> InFiles(n)
    BY <1>1, FilesSame
  <1>3. ASSUME NEW n \in Messages, Acked(n)', n \notin lost'.hashes \cup lost'.rows
        PROVE  InFiles(n)'
    BY <1>1, <1>2, <1>3 DEF HashesInv, Acked
  <1>4. ASSUME ready \/ maint.phase = "Reconcile", NEW n \in hot,
               fate'[n] # "cleared"
        PROVE  InFiles(n)' \/ n \in lost'.hashes
    <2>1. n \in Messages
      BY <1>4 DEF TypeInv, RestOK
    <2> QED
      BY <1>1, <1>2, <1>4, <2>1 DEF HashesInv
  <1> QED
    BY <1>1, <1>3, <1>4 DEF HashesInv

LEMMA LookAtSeenHashes ==
    ASSUME TypeInv, HashesInv, LookAtSeen
    PROVE  HashesInv'
  <1>1. UNCHANGED <<files, ready, op, fate, lost>> /\ op.step = "idle"
    BY DEF LookAtSeen, diskVars, historyVars, TypeInv, OpOK
  <1>2. \A n : InFiles(n)' <=> InFiles(n)
    BY <1>1, FilesSame
  <1>3. ASSUME NEW m \in hot' PROVE InFiles(m)
    <2>1. PICK r \in {"snapshot", "delta"} :
             Exists(files["seen"][r]) /\ files["seen"][r].slots[m] # None
      BY <1>3 DEF LookAtSeen
    <2> QED
      BY <2>1 DEF InFiles, Base
  <1> QED
    BY <1>1, <1>2, <1>3 DEF HashesInv, Acked

LEMMA RebuildSeenHashes ==
    ASSUME TypeInv, RowsInv, HashesInv, RebuildSeen
    PROVE  HashesInv'
  <1>1. /\ ~ready /\ ready' = ready /\ op' = op /\ op.step = "idle" /\ fate' = fate
        /\ hot \subseteq Messages
    BY DEF RebuildSeen, TypeInv, MaintOK, OpOK, RestOK, Hydrating
  <1>2. CASE maint' = AtRest /\ hot' = {} /\ UNCHANGED <<files, lost>>
    BY <1>1, <1>2, HashesSame, FilesSame DEF AtRest
  <1>3. ASSUME NEW hashes, NEW whole \in BOOLEAN, whole => hashes = HashesOfListed,
               NEW temp,
               hashes \in {HashesOfListed} \cup Remnants(HashesOfListed),
               temp = [files["seen"] EXCEPT !.temp = File("Ready", hashes)],
               NEW o \in ReplaceFile(temp, NoFile("seen")),
               NEW delta \in SeenDeltaAfter(o.ok),
               files' = [files EXCEPT !["seen"] = [o.file EXCEPT !.delta = delta]],
               hot' = {m \in Messages : hashes[m] # None},
               lost' = IF o.weak \/ ~whole THEN GiveUp("hashes", Messages)
                       ELSE IF o.ok
                       THEN GiveUp("hashes", {m \in Messages :
                                                ~Listed(ConversationOf[m])})
                       ELSE lost,
               maint' = IF o.ok THEN Phase("Reconcile", None) ELSE AtRest
        PROVE  HashesInv'
    <2>1. /\ File("Ready", hashes) \in SlotFile("seen")
          /\ Tidy("seen", File("Ready", hashes))
      BY <1>3, CopiedHashes DEF File, SlotFile, Tidy, JournalState
    <2>2. GoodFiles("seen", files["seen"])
      BY CatalogKeys DEF TypeInv, FilesOK, GoodFiles
    <2>3. /\ GoodFiles("seen", temp) /\ temp.temp = File("Ready", hashes)
          /\ temp.delta = files["seen"].delta
          /\ Base(temp) = Base(files["seen"])
      BY <1>3, <2>1, <2>2, CatalogKeys DEF GoodFiles, Base
    <2>4. /\ GoodFiles("seen", o.file)
          /\ o.file.delta = files["seen"].delta
          /\ o.ok => o.file.snapshot = File("Ready", hashes)
          /\ ~o.ok /\ ~o.weak => Base(o.file).slots = Base(files["seen"]).slots
      <3>1. /\ GoodFiles("seen", o.file)
            /\ o.file.delta = temp.delta
            /\ o.ok => o.file.snapshot = temp.temp
            /\ ~o.ok /\ ~o.weak => Base(o.file).slots = Base(temp).slots
        <4>1. o \in ReplaceFile(temp, NoFile("seen"))
          BY <1>3
        <4>2. IsNone("seen", NoFile("seen"))
          BY NothingOK
        <4> QED
          BY <2>3, <4>1, <4>2, ReplaceOutcome
      <3> QED
        BY <2>3, <3>1
    <2>5. /\ files'["seen"].delta = delta
          /\ Base(files'["seen"]) = Base(o.file)
      BY <1>3, <2>4, CatalogKeys DEF GoodFiles, Base, TypeInv, FilesOK
    <2>6. CASE o.weak \/ ~whole
      <3>1. lost'.hashes = lost.hashes \cup Messages
        BY <1>3, <2>6 DEF GiveUp, TypeInv, RestOK
      <3>2. hot' \subseteq Messages
        BY <1>3
      <3> QED
        BY <1>1, <3>1, <3>2 DEF HashesInv
    <2>7. CASE ~(o.weak \/ ~whole) /\ ~o.ok
      <3>1. delta = files["seen"].delta
        BY <1>3, <2>7 DEF SeenDeltaAfter
      <3>2. \A m : InFiles(m)' <=> InFiles(m)
        BY <2>4, <2>5, <2>7, <3>1 DEF InFiles
      <3> QED
        BY <1>1, <1>3, <2>7, <3>2, HashesSame DEF AtRest
    <2>8. CASE ~(o.weak \/ ~whole) /\ o.ok
      <3>1. /\ lost'.hashes = lost.hashes \cup {m \in Messages :
                                                 ~Listed(ConversationOf[m])}
            /\ lost'.rows = lost.rows
        BY <1>3, <2>8 DEF GiveUp, TypeInv, RestOK
      <3>2. Base(files'["seen"]).slots = HashesOfListed /\ hashes = HashesOfListed
        BY <1>3, <2>4, <2>5, <2>8 DEF File, Exists, Base
      <3>3. \A m \in hot' : InFiles(m)'
        BY <1>3, <3>2 DEF InFiles
      <3>4. ASSUME NEW m \in Messages, Acked(m)',
                   m \notin lost'.hashes \cup lost'.rows
            PROVE  InFiles(m)'
        <4>1. Listed(ConversationOf[m]) /\ m \in Rows(ConversationOf[m])
          BY <1>1, <3>1, <3>4 DEF RowsInv, Acked
        <4>2. HashesOfListed[m] = 1
          BY <4>1 DEF HashesOfListed
        <4> QED
          BY <3>2, <4>2, StoreAssumption DEF InFiles
      <3> QED
        BY <1>1, <3>3, <3>4 DEF HashesInv
    <2> QED
      BY <2>6, <2>7, <2>8
  <1> QED
    BY <1>2, <1>3 DEF RebuildSeen

LEMMA HashesStep ==
    TypeInv /\ RowsInv /\ HashesInv /\ [StoreNext]_storeVars => HashesInv'
  <1> SUFFICES ASSUME TypeInv, RowsInv, HashesInv, [StoreNext]_storeVars
               PROVE  HashesInv'
    OBVIOUS
  <1>1. hot \subseteq Messages
        /\ (op.step \in {"hash", "list"} => op.msg \in Messages)
    BY DEF TypeInv, RestOK, OpOK
  <1> DEFINE Calm ==
         /\ files'["seen"] = files["seen"] /\ fate' = fate
         /\ op' = op \/ op'.step \notin {"hash", "list"}
         /\ lost.hashes \subseteq lost'.hashes /\ lost.rows \subseteq lost'.rows
         /\ ready' \/ maint'.phase = "Reconcile" =>
               hot' \subseteq hot /\ (ready \/ maint.phase = "Reconcile")
  <1>2. Calm => HashesInv'
    BY <1>1, HashesSame, FilesSame
  <1>3. \A p \in Projections : \A f :
           SetDelta(p, f) \/ SetTemp(p, f) \/ files' = [files EXCEPT ![p] = f]
              => files'["seen"] = files["seen"]
    BY CatalogKeys DEF SetDelta, SetTemp, TypeInv, FilesOK, Projections
  <1>4. CASE UNCHANGED storeVars
    BY <1>2, <1>4 DEF storeVars, diskVars, memoryVars, historyVars
  <1>5. CASE Caller
    <2>1. ASSUME NEW c \in Conversations, MarkRead(c)
          PROVE  Calm
      BY <1>3, <2>1, CatalogKeys DEF MarkRead, memoryVars, At, NoOp
    <2>2. CASE Relist
      <3>1. files'["seen"] = files["seen"]
        BY <1>3, <2>2, CatalogKeys DEF Relist
      <3> QED
        BY <1>2, <2>2, <3>1 DEF Relist, NoOp
    <2>3. CASE Unlist
      <3>1. files'["seen"] = files["seen"]
        BY <1>3, <2>3, CatalogKeys DEF Unlist
      <3> QED
        BY <1>2, <2>3, <3>1 DEF Unlist, memoryVars, historyVars, At
    <2>4. CASE Unmark
      <3>1. files'["seen"] = files["seen"]
        BY <1>3, <2>4, CatalogKeys DEF Unmark
      <3> QED
        BY <1>2, <2>4, <3>1 DEF Unmark, NoOp
    <2> QED
      BY <1>2, <1>5, <2>1, <2>2, <2>3, <2>4, AppendRowHashes, RememberHashHashes,
         ListConversationHashes, ClearHashes DEF Caller
  <1>6. CASE Hydrate
    <2>1. CASE BeginHydration
      <3>1. lost'.hashes = lost.hashes /\ lost'.rows = lost.rows
        BY <2>1 DEF BeginHydration, TypeInv, RestOK
      <3>2. ~ready' /\ maint'.phase # "Reconcile"
        BY <2>1, PhaseIs DEF BeginHydration, TypeInv
      <3> QED
        BY <1>2, <2>1, <3>1, <3>2 DEF BeginHydration, diskVars
    <2>2. CASE Recover
      <3>1. ~ready' /\ maint'.phase # "Reconcile" /\ lost' = lost /\ op' = op
            /\ fate' = fate
        BY <2>2, PhaseIs DEF Recover, memoryVars, AtRest, TypeInv, MaintOK,
                             Hydrating, Journals, Projections
      <3> PICK p : p = maint.journal
        OBVIOUS
      <3>2. p \in Journals
        BY <2>2 DEF Recover, TypeInv, MaintOK
      <3>3. PICK o \in RecoverFile(files[p], NoFile(p)) :
               files' = [files EXCEPT ![p] = o.file]
        BY <2>2 DEF Recover
      <3>4. CASE p # "seen"
        BY <1>2, <3>1, <3>2, <3>3, <3>4 DEF TypeInv, FilesOK
      <3>5. CASE p = "seen"
        <4>1. GoodFiles(p, files[p])
          BY <3>2 DEF TypeInv, FilesOK, GoodFiles
        <4>2. /\ o.file.delta = files[p].delta
              /\ Base(o.file).slots = Base(files[p]).slots
          BY <4>1, NothingOK, RecoverOutcome
        <4>3. files'["seen"] = o.file
          BY <3>2, <3>3, <3>5 DEF TypeInv, FilesOK
        <4>4. \A m : InFiles(m) => InFiles(m)'
          BY <3>5, <4>2, <4>3 DEF InFiles
        <4> QED
          BY <1>1, <3>1, <4>4, HashesSame
      <3> QED
        BY <3>4, <3>5
    <2>3. CASE Replay
      <3>1. ~ready' /\ maint'.phase # "Reconcile"
        BY <2>3, PhaseIs DEF Replay, diskVars, TypeInv, MaintOK, Hydrating
      <3> QED
        BY <1>2, <2>3, <3>1 DEF Replay, diskVars
    <2>4. ASSUME NEW c \in Conversations, ReconcileConversation(c)
          PROVE  HashesInv'
      <3>1. maint.phase = "Reconcile"
        BY <2>4 DEF ReconcileConversation
      <3>2. lost'.hashes = lost.hashes /\ lost.rows \subseteq lost'.rows
        <4>1. \/ \E R \in {lost.rows, lost.rows \cup Rows(c)} : \E L :
                    lost' = [lost EXCEPT !.rows = R, !.listed = L]
              \/ lost' = GiveUp("listed", {c})
          BY <2>4 DEF ReconcileConversation
        <4>2. lost \in [rows : SUBSET Messages, hashes : SUBSET Messages,
                        listed : SUBSET Conversations]
          BY DEF TypeInv, RestOK
        <4>3. CASE lost' = GiveUp("listed", {c})
          BY <4>2, <4>3 DEF GiveUp
        <4>4. ASSUME NEW R \in {lost.rows, lost.rows \cup Rows(c)}, NEW L,
                     lost' = [lost EXCEPT !.rows = R, !.listed = L]
              PROVE  lost'.hashes = lost.hashes /\ lost.rows \subseteq lost'.rows
          BY <4>2, <4>4
        <4> QED
          BY <4>1, <4>3, <4>4
      <3> QED
        BY <1>2, <2>4, <3>1, <3>2 DEF ReconcileConversation
    <2>5. CASE FinishHydration
      BY <1>2, <2>5 DEF FinishHydration, diskVars, historyVars
    <2> QED
      BY <1>6, <2>1, <2>2, <2>3, <2>4, <2>5, LookAtSeenHashes, RebuildSeenHashes
         DEF Hydrate
  <1>7. CASE BeginCompaction \/ Compact
    <2>1. ready /\ UNCHANGED <<fate, lost, ready, hot, op>>
      BY <1>7 DEF BeginCompaction, Compact, Inspect, Create, WriteRecord, Replace,
                  RemoveDelta, diskVars, memoryVars, historyVars, TypeInv, MaintOK,
                  Compacting
    <2>2. files'["seen"] = files["seen"]
      <3>1. CASE BeginCompaction \/ Inspect
        BY <3>1 DEF BeginCompaction, Inspect, diskVars
      <3>2. CASE Create
        BY <1>3, <3>2 DEF Create, TypeInv, MaintOK
      <3>3. ASSUME NEW c \in Conversations, WriteRecord(c)
            PROVE  files'["seen"] = files["seen"]
        BY <1>3, <3>3 DEF WriteRecord, TypeInv, MaintOK
      <3>4. CASE Replace
        BY <1>3, <3>4 DEF Replace, TypeInv, MaintOK
      <3>5. CASE RemoveDelta
        BY <1>3, <3>5 DEF RemoveDelta, TypeInv, MaintOK
      <3> QED
        BY <1>7, <3>1, <3>2, <3>3, <3>4, <3>5 DEF Compact
    <2> QED
      BY <1>2, <2>1, <2>2
  <1>8. CASE Stop
    <2>1. maint'.phase = "Idle"
      BY <1>8 DEF Stop, AtRest
    <2> QED
      BY <1>2, <1>8, <2>1 DEF Stop, diskVars, memoryVars, historyVars
  <1>9. CASE PowerLoss
    BY <1>2, <1>9 DEF PowerLoss, AtRest, NoOp, diskVars, historyVars
  <1> QED
    BY <1>4, <1>5, <1>6, <1>7, <1>8, <1>9 DEF StoreNext

(* The hash of an acknowledged text is in a file a boot would read, also   *)
(* between the renames of a rebuild and before its delta is removed.       *)
THEOREM StoreKeepsHashes == StoreSpec => []HashesKept
  <1>1. StoreInit => HashesInv
    BY DEF StoreInit, HashesInv, Acked, NoOp
  <1>2. StoreInit => RowsInv
    BY DEF StoreInit, RowsInv, Acked, NoOp
  <1>3. HashesInv => HashesKept
    BY DEF HashesInv, HashesKept, Acked, InFiles, Base
  <1> QED
    BY <1>1, <1>2, <1>3, InitTypeInv, TypeStep, RowsStep, HashesStep, PTL
       DEF StoreSpec

-----------------------------------------------------------------------------
(* The files keep TextStore *)

HasRow(m) == m \in Rows(ConversationOf[m])
IsLost(m) == m \in lost.rows \cup lost.hashes

\* A step of an append: of the texts at most m gets a row, a hash and an
\* acknowledgement, which are due when it is acknowledged.
LEMMA OfferRefines ==
    ASSUME NEW m \in Messages,
           \A x \in Messages :
              /\ HasRow(x) => HasRow(x)' \/ IsLost(x)'
              /\ HasRow(x)' => HasRow(x) \/ x = m
              /\ InFiles(x) => InFiles(x)' \/ IsLost(x)'
              /\ InFiles(x)' => InFiles(x) \/ x = m
              /\ IsLost(x) => IsLost(x)' \/ x = m
              /\ Acked(x) => Acked(x)'
              /\ Acked(x)' => Acked(x) \/ x = m,
           Acked(m)' => (HasRow(m)' /\ InFiles(m)') \/ IsLost(m)',
           lost.rows \cup lost.hashes \subseteq Messages
    PROVE  Contract!Next
  <1> DEFINE R == {x \in Messages : HasRow(x)}
             H == {x \in Messages : InFiles(x)}
             A == {x \in Messages : Acked(x)}
             L == lost.rows \cup lost.hashes
  <1>1. R \ L' \subseteq R' /\ R' \subseteq R \cup {m}
    BY DEF IsLost
  <1>2. H \ L' \subseteq H' /\ H' \subseteq H \cup ({m} \cap Messages)
    BY DEF IsLost
  <1>3. L \ L' \subseteq {m}
    BY DEF IsLost
  <1>4. A' = A \/ A' = A \cup {m}
    <2>1. A \subseteq A' /\ A' \subseteq A \cup {m}
      OBVIOUS
    <2> QED
      BY <2>1
  <1>5. m \in A' => (m \in R' /\ m \in H') \/ m \in L'
    BY DEF IsLost
  <1>6. Contract!Offer(m)
    BY <1>1, <1>2, <1>3, <1>4, <1>5
       DEF Contract!Offer, Contract!Durable, HasRow, Acked
  <1> QED
    BY <1>6 DEF Contract!Next

\* A step of hydration.
LEMMA RebuildRefines ==
    ASSUME \A x \in Messages :
              /\ HasRow(x) => HasRow(x)' \/ IsLost(x)'
              /\ HasRow(x)' => HasRow(x)
              /\ InFiles(x) /\ HasRow(x) => InFiles(x)' \/ IsLost(x)'
              /\ InFiles(x)' => InFiles(x) \/ HasRow(x)
              /\ IsLost(x) => IsLost(x)',
           fate' = fate,
           lost.rows \cup lost.hashes \subseteq Messages
    PROVE  Contract!Next
  <1> DEFINE R == {x \in Messages : HasRow(x)}
             H == {x \in Messages : InFiles(x)}
             L == lost.rows \cup lost.hashes
  <1>1. R \ L' \subseteq R' /\ R' \subseteq R
    BY DEF IsLost
  <1>2. (H \cap R) \ L' \subseteq H' /\ H' \subseteq H \cup (R \cap Messages)
    BY DEF IsLost
  <1>3. L \subseteq L'
    BY DEF IsLost
  <1>4. Contract!Rebuild
    BY <1>1, <1>2, <1>3 DEF Contract!Rebuild, HasRow
  <1> QED
    BY <1>4 DEF Contract!Next

\* A step that is about something else.
LEMMA SameRefines ==
    ASSUME UNCHANGED <<segment, fate>>, \A x \in Messages : InFiles(x)' <=> InFiles(x),
           lost'.rows = lost.rows, lost'.hashes = lost.hashes
    PROVE  UNCHANGED Contract!textStore
  <1>1. \A c : Rows(c)' = Rows(c)
    BY DEF Rows
  <1> QED
    BY <1>1 DEF Contract!textStore

LEMMA AppendRowRefines ==
    ASSUME TypeInv, NEW m \in Messages, AppendRow(m)
    PROVE  Contract!Next \/ UNCHANGED Contract!textStore
  <1> PICK c : c = ConversationOf[m]
    OBVIOUS
  <1> DEFINE f == segment[c]
             count == Len(f.slots)
  <1>1. c \in Conversations /\ f \in RowFile /\ TidyRows(f)
        /\ Rows(c) = RowsOf(f.slots)
    BY StoreAssumption, RowsAreMessages DEF TypeInv
  <1>2. UNCHANGED <<files, fate>> /\ fate[m] = "new"
    BY DEF AppendRow
  <1>3. \A x : InFiles(x)' <=> InFiles(x)
    BY <1>2, FilesSame
  <1>4. CASE UNCHANGED <<segment, lost, troubles>>
    BY <1>2, <1>3, <1>4, SameRefines
  <1>5. ASSUME NEW o \in PutRow(f, m),
               segment' = [segment EXCEPT ![c] = o.file],
               lost' = (IF o.weak THEN GiveUp("rows", Rows(c)) ELSE lost)
        PROVE  Contract!Next
    <2>1. RowLeaves(f, m, o)
      BY <1>1, PutRowOutcome
    <2>2. /\ segment'[c] = o.file
          /\ \A k \in Conversations : k # c => segment'[k] = segment[k]
      BY <1>1, <1>5 DEF TypeInv, SegmentOK
    <2>3. /\ Rows(c)' = RowsOf(o.file.slots)
          /\ \A k \in Conversations : k # c => Rows(k)' = Rows(k)
      BY <2>2 DEF Rows, RowsOf
    <2>4. /\ lost'.rows = (IF o.weak THEN lost.rows \cup Rows(c) ELSE lost.rows)
          /\ lost'.hashes = lost.hashes
      BY <1>5 DEF GiveUp, TypeInv, RestOK
    <2>5. ASSUME NEW x \in Messages
          PROVE  /\ HasRow(x) => HasRow(x)' \/ IsLost(x)'
                 /\ HasRow(x)' => HasRow(x) \/ x = m
      <3>1. CASE ConversationOf[x] = c
        <4>1. /\ o.weak \/ Rows(c) \subseteq Rows(c)'
              /\ Rows(c)' \subseteq Rows(c) \cup {m}
              /\ o.weak => Rows(c) \subseteq lost'.rows
          BY <1>1, <2>1, <2>3, <2>4 DEF RowLeaves
        <4> QED
          BY <3>1, <4>1 DEF HasRow, IsLost
      <3>2. CASE ConversationOf[x] # c
        BY <2>3, <3>2, StoreAssumption DEF HasRow
      <3> QED
        BY <3>1, <3>2
    <2>6. \A x \in Messages : IsLost(x) => IsLost(x)'
      BY <2>4 DEF IsLost
    <2>7. (\A x \in Messages : Acked(x)' <=> Acked(x)) /\ ~Acked(m)
      BY <1>2 DEF Acked
    <2>8. lost.rows \cup lost.hashes \subseteq Messages
      BY DEF TypeInv, RestOK
    <2> QED
      BY <1>3, <2>5, <2>6, <2>7, <2>8, OfferRefines
  <1> QED
    BY <1>4, <1>5 DEF AppendRow

LEMMA RememberHashRefines ==
    ASSUME TypeInv, HashesInv, RememberHash
    PROVE  Contract!Next \/ UNCHANGED Contract!textStore
  <1> PICK m : m = op.msg
    OBVIOUS
  <1> DEFINE f == files["seen"].delta
  <1>1. /\ m \in Messages /\ fate[m] = "new" /\ UNCHANGED <<segment, fate>>
    BY DEF RememberHash, TypeInv, OpOK, HashesInv
  <1>2. \A c : Rows(c)' = Rows(c)
    BY <1>1 DEF Rows
  <1>3. CASE UNCHANGED <<files, hot, lost, troubles>>
    BY <1>1, <1>3, FilesSame, SameRefines
  <1>4. ASSUME ~InSeen(m), NEW o \in PutSlotRepaired("seen", f, m, 1),
               SetDelta("seen", o.file),
               lost' = [lost EXCEPT !.hashes =
                           (IF o.weak THEN @ \cup HasSlot(f) ELSE @)
                           \ (IF o.ok THEN {m} ELSE {})]
        PROVE  Contract!Next
    <2>1. PutLeaves("seen", f, m, 1, o)
      BY <1>1, CatalogKeys, IsFile, PutSlotRepairedOutcome DEF TypeInv, Value
    <2>2. /\ files'["seen"].delta = o.file
          /\ files'["seen"].snapshot = files["seen"].snapshot
          /\ files'["seen"].backup = files["seen"].backup
      BY <1>4, <2>1, CatalogKeys, DeltaChange DEF TypeInv, PutLeaves
    <2>3. lost'.hashes = (IF o.weak THEN lost.hashes \cup HasSlot(f)
                          ELSE lost.hashes) \ (IF o.ok THEN {m} ELSE {})
          /\ lost'.rows = lost.rows
      BY <1>4 DEF TypeInv, RestOK
    <2>4. DOMAIN f.slots = Messages /\ f.slots[m] = None
      BY <1>4, IsFile, CatalogKeys DEF TypeInv, SlotFile, Contents, InSeen
    <2>5. Base(files'["seen"]) = Base(files["seen"])
      BY <2>2 DEF Base
    <2>6. ASSUME NEW x \in Messages
          PROVE  /\ InFiles(x) => InFiles(x)' \/ IsLost(x)'
                 /\ InFiles(x)' => InFiles(x) \/ x = m
                 /\ IsLost(x) => IsLost(x)' \/ x = m
      <3>1. \/ o.file.slots[x] = f.slots[x]
            \/ x = m
            \/ o.weak /\ o.file.slots[x] = None
        BY <2>1, <2>6, CatalogKeys DEF PutLeaves
      <3>2. o.weak /\ f.slots[x] # None => x \in lost'.hashes
        BY <2>3, <2>4, <2>6 DEF HasSlot
      <3> QED
        BY <2>2, <2>3, <2>4, <2>5, <2>6, <3>1, <3>2 DEF InFiles, IsLost
    <2>7. \A x \in Messages : (Acked(x)' <=> Acked(x)) /\ (HasRow(x)' <=> HasRow(x))
      BY <1>1, <1>2 DEF Acked, HasRow
    <2>8. ~Acked(m) /\ lost.rows \cup lost.hashes \subseteq Messages
      BY <1>1 DEF Acked, TypeInv, RestOK
    <2> QED
      BY <1>1, <2>6, <2>7, <2>8, OfferRefines
  <1> QED
    BY <1>3, <1>4 DEF RememberHash

LEMMA ListConversationRefines ==
    ASSUME TypeInv, RowsInv, HashesInv, ListConversation
    PROVE  Contract!Next
  <1> PICK m : m = op.msg
    OBVIOUS
  <1>1. /\ op.step = "list" /\ m \in Messages /\ op.conv = ConversationOf[m]
        /\ UNCHANGED segment
        /\ fate' = [fate EXCEPT ![m] = "acked"]
    BY DEF ListConversation, TypeInv, OpOK
  <1>2. files'["seen"] = files["seen"]
    <2>1. \/ files' = files
          \/ \E f : SetDelta("catalog", f)
      BY DEF ListConversation
    <2> QED
      BY <2>1, CatalogKeys DEF SetDelta, TypeInv, FilesOK
  <1>3. \A x : InFiles(x)' <=> InFiles(x)
    BY <1>2, FilesSame
  <1>4. lost'.hashes = lost.hashes /\ lost'.rows = lost.rows \ {m}
    BY DEF ListConversation, TypeInv, RestOK
  <1>5. \A x \in Messages : HasRow(x)' <=> HasRow(x)
    BY <1>1 DEF HasRow, Rows
  <1>6. Acked(m)' /\ \A x \in Messages : x # m => (Acked(x)' <=> Acked(x))
    BY <1>1 DEF Acked, TypeInv, RestOK
  <1>7. HasRow(m) /\ (InFiles(m) \/ m \in lost.hashes)
    BY <1>1 DEF RowsInv, HashesInv, HasRow
  <1>8. /\ IsLost(m)' <=> m \in lost.hashes
        /\ \A x \in Messages : x # m => (IsLost(x)' <=> IsLost(x))
    BY <1>4 DEF IsLost
  <1>9. lost.rows \cup lost.hashes \subseteq Messages
    BY DEF TypeInv, RestOK
  <1> QED
    BY <1>1, <1>3, <1>5, <1>6, <1>7, <1>8, <1>9, OfferRefines

LEMMA ClearRefines ==
    ASSUME TypeInv, NEW c \in Conversations, Clear(c)
    PROVE  Contract!Next
  <1> PICK M : M = {x \in Messages : ConversationOf[x] = c}
    OBVIOUS
  <1>1. /\ segment' \in {segment, [segment EXCEPT ![c] = NoRows]}
        /\ UNCHANGED files
    BY DEF Clear
  <1>2. /\ fate' = [m \in Messages |-> IF m \in Gone(c) THEN "cleared" ELSE fate[m]]
        /\ lost'.rows = lost.rows \ Gone(c) /\ lost'.hashes = lost.hashes \ Gone(c)
    BY DEF Clear, TypeInv, RestOK
  <1>3. \A x : InFiles(x)' <=> InFiles(x)
    BY <1>1, FilesSame
  <1>4. Gone(c) \subseteq M
    BY DEF Gone
  <1>5. ASSUME NEW x \in Messages
        PROVE  /\ HasRow(x) /\ x \notin M => HasRow(x)'
               /\ HasRow(x)' => HasRow(x)
    <2>1. CASE segment' = segment
      BY <2>1 DEF HasRow, Rows
    <2>2. CASE segment' = [segment EXCEPT ![c] = NoRows]
      <3>1. Rows(c)' = {} /\ \A k \in Conversations : k # c => Rows(k)' = Rows(k)
        BY <2>2 DEF Rows, NoRows, File, TypeInv, SegmentOK
      <3> QED
        BY <3>1, StoreAssumption DEF HasRow
    <2> QED
      BY <1>1, <2>1, <2>2
  <1>6. \A x \in Messages : Acked(x)' <=> Acked(x) /\ x \notin M
    BY <1>2 DEF Acked, Gone
  <1> DEFINE R == {x \in Messages : HasRow(x)}
             H == {x \in Messages : InFiles(x)}
             A == {x \in Messages : Acked(x)}
             L == lost.rows \cup lost.hashes
  <1>7. R \ M \subseteq R' /\ R' \subseteq R
    BY <1>5
  <1>8. H' = H
    BY <1>3
  <1>9. A' = A \ M
    BY <1>6
  <1>10. L \ M \subseteq L' /\ L' \subseteq L
    BY <1>2, <1>4
  <1>11. Contract!Clear(M)
    BY <1>7, <1>8, <1>9, <1>10 DEF Contract!Clear, HasRow, Acked
  <1> QED
    BY <1>11 DEF Contract!Next

\* The rebuilt snapshot has the hashes of rows only; what it leaves out has
\* no row, or belongs to a conversation the catalog files do not list.
LEMMA RebuildSeenRefines ==
    ASSUME TypeInv, RebuildSeen
    PROVE  Contract!Next \/ UNCHANGED Contract!textStore
  <1>1. UNCHANGED <<segment, fate>> /\ lost.rows \cup lost.hashes \subseteq Messages
    BY DEF RebuildSeen, TypeInv, RestOK
  <1>2. \A x \in Messages : (HasRow(x)' <=> HasRow(x)) /\ (Acked(x)' <=> Acked(x))
    BY <1>1 DEF HasRow, Rows, Acked
  <1>3. CASE UNCHANGED <<files, lost>>
    BY <1>1, <1>3, FilesSame, SameRefines
  <1>4. ASSUME NEW hashes, NEW whole \in BOOLEAN, whole => hashes = HashesOfListed,
               NEW temp,
               hashes \in {HashesOfListed} \cup Remnants(HashesOfListed),
               temp = [files["seen"] EXCEPT !.temp = File("Ready", hashes)],
               NEW o \in ReplaceFile(temp, NoFile("seen")),
               NEW delta \in SeenDeltaAfter(o.ok),
               files' = [files EXCEPT !["seen"] = [o.file EXCEPT !.delta = delta]],
               lost' = IF o.weak \/ ~whole THEN GiveUp("hashes", Messages)
                       ELSE IF o.ok
                       THEN GiveUp("hashes", {m \in Messages :
                                                ~Listed(ConversationOf[m])})
                       ELSE lost
        PROVE  Contract!Next
    <2>1. /\ File("Ready", hashes) \in SlotFile("seen")
          /\ Tidy("seen", File("Ready", hashes))
      BY <1>4, CopiedHashes DEF File, SlotFile, Tidy, JournalState
    <2>2. GoodFiles("seen", files["seen"])
      BY CatalogKeys DEF TypeInv, FilesOK, GoodFiles
    <2>3. /\ GoodFiles("seen", temp) /\ temp.temp = File("Ready", hashes)
          /\ temp.delta = files["seen"].delta
          /\ Base(temp) = Base(files["seen"])
      BY <1>4, <2>1, <2>2, CatalogKeys DEF GoodFiles, Base
    <2>4. /\ GoodFiles("seen", o.file)
          /\ o.ok => o.file.snapshot = File("Ready", hashes)
          /\ ~o.ok => Base(o.file).slots \in {Base(files["seen"]).slots, Nothing("seen")}
          /\ ~o.ok /\ ~o.weak => Base(o.file).slots = Base(files["seen"]).slots
      <3>1. IsNone("seen", NoFile("seen"))
        BY NothingOK
      <3> QED
        BY <2>3, <3>1, ReplaceOutcome
    <2>5. /\ files'["seen"].delta = delta
          /\ Base(files'["seen"]) = Base(o.file)
      BY <1>4, <2>4, CatalogKeys DEF GoodFiles, Base, TypeInv, FilesOK
    <2>6. \A x \in Messages : NoFile("seen").slots[x] = None /\ Nothing("seen")[x] = None
      BY DEF NoFile, File, Nothing, Keys
    <2>7. /\ delta \in {NoFile("seen"), files["seen"].delta}
          /\ ~o.ok => delta = files["seen"].delta
      BY DEF SeenDeltaAfter
    <2>8. \A x \in Messages : hashes[x] # None =>
             HasRow(x) /\ HashesOfListed[x] # None
      <3>1. \A x \in Messages : HashesOfListed[x] # None => HasRow(x)
        BY DEF HashesOfListed, HasRow
      <3>2. DOMAIN HashesOfListed = Messages
        BY DEF HashesOfListed
      <3>3. \A x \in Messages : hashes[x] # None => HashesOfListed[x] # None
        BY <1>4, <3>2 DEF Remnants
      <3> QED
        BY <3>1, <3>3
    <2>9. o.ok => Base(o.file).slots = hashes
      BY <2>4 DEF Base, Exists, File
    <2>10. ASSUME NEW x \in Messages, InFiles(x)'
           PROVE  InFiles(x) \/ HasRow(x)
      <3>1. CASE o.ok
        BY <2>5, <2>6, <2>7, <2>8, <2>9, <2>10, <3>1 DEF InFiles
      <3>2. CASE ~o.ok
        BY <2>4, <2>5, <2>6, <2>7, <2>10, <3>2 DEF InFiles
      <3> QED
        BY <3>1, <3>2
    <2>11. ASSUME NEW x \in Messages
           PROVE  /\ InFiles(x) /\ HasRow(x) => InFiles(x)' \/ IsLost(x)'
                  /\ IsLost(x) => IsLost(x)'
      <3>1. CASE o.weak \/ ~whole
        <4>1. lost'.hashes = lost.hashes \cup Messages
          BY <1>4, <3>1 DEF GiveUp, TypeInv, RestOK
        <4> QED
          BY <4>1 DEF IsLost
      <3>2. CASE ~(o.weak \/ ~whole) /\ ~o.ok
        <4>1. lost' = lost
          BY <1>4, <3>2
        <4>2. InFiles(x) => InFiles(x)'
          BY <2>4, <2>5, <2>7, <3>2 DEF InFiles
        <4> QED
          BY <4>1, <4>2 DEF IsLost
      <3>3. CASE ~(o.weak \/ ~whole) /\ o.ok
        <4>1. /\ lost'.hashes = lost.hashes \cup {m \in Messages :
                                                   ~Listed(ConversationOf[m])}
              /\ lost'.rows = lost.rows
          BY <1>4, <3>3 DEF GiveUp, TypeInv, RestOK
        <4>2. Listed(ConversationOf[x]) /\ HasRow(x) => hashes[x] = 1
          BY <1>4, <3>3 DEF HashesOfListed, HasRow
        <4>3. hashes[x] = 1 => InFiles(x)'
          BY <2>5, <2>9, <3>3, StoreAssumption DEF InFiles
        <4> QED
          BY <4>1, <4>2, <4>3 DEF IsLost
      <3> QED
        BY <3>1, <3>2, <3>3
    <2> QED
      BY <1>1, <1>2, <2>10, <2>11, RebuildRefines
  <1> QED
    BY <1>3, <1>4 DEF RebuildSeen

LEMMA ReconcileConversationRefines ==
    ASSUME TypeInv, NEW c \in Conversations, ReconcileConversation(c)
    PROVE  Contract!Next \/ UNCHANGED Contract!textStore
  <1> DEFINE f == segment[c]
  <1>1. UNCHANGED <<files, fate>> /\ lost.rows \cup lost.hashes \subseteq Messages
    BY DEF ReconcileConversation, TypeInv, RestOK
  <1>2. f \in RowFile /\ TidyRows(f) /\ Rows(c) = RowsOf(f.slots)
    BY RowsAreMessages DEF TypeInv
  <1>3. \A x : InFiles(x)' <=> InFiles(x)
    BY <1>1, FilesSame
  <1>4. CASE UNCHANGED segment /\ lost' = GiveUp("listed", {c})
    <2>1. lost'.rows = lost.rows /\ lost'.hashes = lost.hashes
      BY <1>4 DEF GiveUp, TypeInv, RestOK
    <2> QED
      BY <1>1, <1>3, <1>4, <2>1, SameRefines
  <1>5. ASSUME NEW o \in Inspected(f),
               segment' = [segment EXCEPT ![c] = o.file],
               lost' = [lost EXCEPT
                           !.rows = IF o.weak THEN @ \cup Rows(c) ELSE @,
                           !.listed = IF o.ok THEN @ ELSE @ \cup {c}]
        PROVE  Contract!Next
    <2>1. /\ o.weak \/ o.file.slots = f.slots
          /\ RowsOf(o.file.slots) \subseteq RowsOf(f.slots)
      BY <1>2, InspectedOutcome
    <2>2. /\ Rows(c)' = RowsOf(o.file.slots)
          /\ \A k \in Conversations : k # c => Rows(k)' = Rows(k)
      BY <1>5 DEF Rows, RowsOf, TypeInv, SegmentOK
    <2>3. /\ lost'.rows = (IF o.weak THEN lost.rows \cup Rows(c) ELSE lost.rows)
          /\ lost'.hashes = lost.hashes
      BY <1>5 DEF TypeInv, RestOK
    <2>4. ASSUME NEW x \in Messages
          PROVE  /\ HasRow(x) => HasRow(x)' \/ IsLost(x)'
                 /\ HasRow(x)' => HasRow(x)
                 /\ IsLost(x) => IsLost(x)'
      <3>1. CASE ConversationOf[x] = c
        BY <1>2, <2>1, <2>2, <2>3, <3>1 DEF HasRow, IsLost
      <3>2. CASE ConversationOf[x] # c
        BY <2>2, <2>3, <3>2, StoreAssumption DEF HasRow, IsLost
      <3> QED
        BY <3>1, <3>2
    <2> QED
      BY <1>1, <1>3, <2>4, RebuildRefines
  <1> QED
    BY <1>4, <1>5 DEF ReconcileConversation

\* A boot, a hydration that only reads, a compaction and the projections the
\* caller writes leave rows, hashes and answers alone.
LEMMA OthersRefine ==
    ASSUME TypeInv,
           \/ \E c \in Conversations : MarkRead(c)
           \/ Relist \/ Unlist \/ Unmark
           \/ BeginHydration \/ Recover \/ Replay \/ LookAtSeen \/ FinishHydration
           \/ BeginCompaction \/ Compact \/ Stop \/ PowerLoss
           \/ UNCHANGED storeVars
    PROVE  UNCHANGED Contract!textStore
  <1>1. \A p \in Projections : \A f :
           SetDelta(p, f) \/ SetTemp(p, f) \/ files' = [files EXCEPT ![p] = f]
              => files'["seen"] = files["seen"]
    BY CatalogKeys DEF SetDelta, SetTemp, TypeInv, FilesOK, Projections
  <1> DEFINE Calm == /\ UNCHANGED <<segment, fate>>
                     /\ lost'.rows = lost.rows /\ lost'.hashes = lost.hashes
  <1>2. Calm /\ files'["seen"] = files["seen"] => UNCHANGED Contract!textStore
    BY FilesSame, SameRefines
  <1>3. CASE (\E c \in Conversations : MarkRead(c)) \/ Relist \/ Unlist \/ Unmark
    <2>1. UNCHANGED <<segment, fate, lost>>
      BY <1>3 DEF MarkRead, Relist, Unlist, Unmark, historyVars
    <2>2. \E p \in Projections : \E f : SetDelta(p, f)
      BY <1>3, CatalogKeys DEF MarkRead, Relist, Unlist, Unmark
    <2> QED
      BY <1>1, <1>2, <2>1, <2>2
  <1>4. CASE BeginHydration \/ Replay \/ LookAtSeen \/ FinishHydration
             \/ BeginCompaction \/ Stop \/ PowerLoss \/ UNCHANGED storeVars
    <2>1. lost' = lost \/ lost' = [lost EXCEPT !.listed = {}]
      BY <1>4 DEF BeginHydration, Replay, LookAtSeen, FinishHydration, BeginCompaction,
                  Stop, PowerLoss, storeVars, historyVars
    <2>2. UNCHANGED <<segment, files, fate>>
      BY <1>4 DEF BeginHydration, Replay, LookAtSeen, FinishHydration, BeginCompaction,
                  Stop, PowerLoss, storeVars, historyVars, diskVars
    <2>3. lost'.rows = lost.rows /\ lost'.hashes = lost.hashes
      BY <2>1 DEF TypeInv, RestOK
    <2> QED
      BY <1>2, <2>2, <2>3
  <1>5. CASE Compact
    <2>1. UNCHANGED <<segment, fate, lost>>
      BY <1>5 DEF Compact, Inspect, Create, WriteRecord, Replace, RemoveDelta,
                  diskVars, historyVars
    <2>2. \/ files' = files
          \/ \E f : \/ SetDelta(maint.journal, f) \/ SetTemp(maint.journal, f)
                    \/ files' = [files EXCEPT ![maint.journal] = f]
      BY <1>5 DEF Compact, Inspect, Create, WriteRecord, Replace, RemoveDelta, diskVars
    <2>3. files' # files => maint.journal \in Projections
      BY <1>5 DEF Compact, Inspect, Create, WriteRecord, Replace, RemoveDelta, diskVars,
                  TypeInv, MaintOK
    <2> QED
      BY <1>1, <1>2, <2>1, <2>2, <2>3
  <1>6. CASE Recover
    <2>1. UNCHANGED <<segment, fate, lost>>
      BY <1>6 DEF Recover
    <2> PICK p : p = maint.journal
      OBVIOUS
    <2>2. p \in Journals
      BY <1>6 DEF Recover, TypeInv, MaintOK
    <2>3. PICK o \in RecoverFile(files[p], NoFile(p)) :
             files' = [files EXCEPT ![p] = o.file]
      BY <1>6 DEF Recover
    <2>4. CASE p # "seen"
      BY <1>2, <2>1, <2>2, <2>3, <2>4 DEF TypeInv, FilesOK
    <2>5. CASE p = "seen"
      <3>1. GoodFiles(p, files[p])
        BY <2>2 DEF TypeInv, FilesOK, GoodFiles
      <3>2. /\ o.file.delta = files[p].delta
            /\ Base(o.file).slots = Base(files[p]).slots
        BY <3>1, NothingOK, RecoverOutcome
      <3>3. files'["seen"] = o.file
        BY <2>2, <2>3, <2>5 DEF TypeInv, FilesOK
      <3>4. \A x : InFiles(x)' <=> InFiles(x)
        BY <2>5, <3>2, <3>3 DEF InFiles
      <3> QED
        BY <2>1, <3>4, SameRefines
    <2> QED
      BY <2>4, <2>5
  <1> QED
    BY <1>3, <1>4, <1>5, <1>6

LEMMA StepRefines ==
    ASSUME TypeInv, RowsInv, HashesInv, [StoreNext]_storeVars
    PROVE  Contract!Next \/ UNCHANGED Contract!textStore
  BY AppendRowRefines, RememberHashRefines, ListConversationRefines, ClearRefines,
     RebuildSeenRefines, ReconcileConversationRefines, OthersRefine
     DEF StoreNext, Caller, Hydrate

(* Row, hash and acknowledgement change at every step of the store as      *)
(* TextStore allows, with the losses the store records.                    *)
THEOREM StoreImplementsTextStore == StoreSpec => TextStoreSpec
  <1>1. StoreInit => RowsInv /\ HashesInv
    BY DEF StoreInit, RowsInv, HashesInv, Acked, NoOp
  <1>2. StoreInit => Contract!Init
    <2> SUFFICES ASSUME StoreInit PROVE Contract!Init
      OBVIOUS
    <2>1. \A x \in Messages : x \notin Rows(ConversationOf[x])
      BY StoreAssumption DEF StoreInit, Rows, NoRows, File
    <2>2. files["seen"] = [r \in Roles |-> NoFile("seen")]
      BY CatalogKeys DEF StoreInit
    <2>3. \A x \in Messages : ~InFiles(x)
      BY <2>2 DEF InFiles, Base, NoFile, File, Nothing, Keys, Roles
    <2>4. /\ \A x \in Messages : fate[x] # "acked"
          /\ lost.rows \cup lost.hashes = {}
      BY DEF StoreInit
    <2> QED
      BY <2>1, <2>3, <2>4 DEF Contract!Init
  <1> QED
    BY <1>1, <1>2, InitTypeInv, TypeStep, RowsStep, HashesStep, StepRefines, PTL
       DEF StoreSpec, TextStoreSpec, Contract!Spec

-----------------------------------------------------------------------------
(* The read marks *)

\* The mark a boot finds in the files f.
MarkIn(f, c) ==
    LET v == IF f.delta.slots[c] # None THEN f.delta.slots[c]
             ELSE Base(f).slots[c]
    IN IF v = Deleted THEN None ELSE v

\* The marks in memory are those of the files.
RamCounts ==
    \/ ready
    \/ maint.phase \in {"LookAtSeen", "RebuildSeen", "Reconcile"}
    \/ maint.phase = "Recover" /\ maint.journal = "seen"

\* What the replay reads is what a boot would find.
RecoveredMarks ==
    \/ Exists(files["read"].snapshot) \/ ~Exists(files["read"].backup)
    \/ \A c \in Conversations : marks[c] = Mark

\* The file f has the marks in memory, but for those in todo.
CopiedMarks(f, todo) ==
    \A c \in Conversations \ todo :
       marks[c] = Mark \/ f.slots[c] = ram["read"][c]

MarksInv ==
    /\ \A c \in Conversations : MarkIn(files["read"], c) \in marks[c]
    /\ RamCounts => \A c \in Conversations : ram["read"][c] \in marks[c]
    /\ maint.phase = "Replay" => RecoveredMarks
    /\ maint.phase = "Write" /\ maint.journal = "read" =>
          CopiedMarks(files["read"].temp, maint.todo)
    /\ maint.phase = "RemoveDelta" /\ maint.journal = "read" =>
          /\ Exists(files["read"].snapshot)
          /\ CopiedMarks(files["read"].snapshot, {})
    /\ op.step = "relist" => files["read"].delta.slots[op.conv] = op.count

LEMMA MarkInOK ==
    ASSUME NEW f, GoodFiles("read", f), NEW c \in Conversations
    PROVE  MarkIn(f, c) \in Mark
  <1>1. /\ f.delta.slots[c] \in Mark \cup {Deleted}
        /\ f.snapshot.slots[c] \in Mark \cup {Deleted}
        /\ f.backup.slots[c] \in Mark \cup {Deleted}
    <2>1. \A r \in Roles : f[r].slots \in Contents("read")
      BY DEF GoodFiles, SlotFile
    <2>2. Contents("read") = [Conversations -> 0..MaxRows \cup {None, Deleted}]
      BY CatalogKeys DEF Contents
    <2>3. \A r \in Roles : f[r].slots[c] \in Mark \cup {Deleted}
      BY <2>1, <2>2 DEF Mark
    <2> QED
      BY <2>3, CatalogKeys
  <1> QED
    BY <1>1, Marks DEF MarkIn, Base

\* A step that leaves the files and the marks in memory alone.
LEMMA MarksSame ==
    ASSUME MarksInv, files'["read"] = files["read"],
           \A c \in Conversations : marks[c] \subseteq marks'[c],
           RamCounts' => RamCounts /\ ram'["read"] = ram["read"],
           maint'.phase = "Replay" => maint.phase = "Replay" /\ marks' = marks,
           maint'.phase \in {"Write", "RemoveDelta"} /\ maint'.journal = "read" =>
              maint' = maint /\ marks' = marks /\ ram'["read"] = ram["read"],
           op'.step = "relist" => op' = op
    PROVE  MarksInv'
  <1>1. \A c \in Conversations : MarkIn(files["read"], c)' \in marks'[c]
    BY DEF MarksInv, MarkIn
  <1>2. RamCounts' => \A c \in Conversations : ram'["read"][c] \in marks'[c]
    BY DEF MarksInv
  <1>3. maint'.phase = "Replay" => RecoveredMarks'
    BY DEF MarksInv, RecoveredMarks
  <1>4. maint'.phase = "Write" /\ maint'.journal = "read" =>
           CopiedMarks(files["read"].temp, maint.todo)'
    BY DEF MarksInv, CopiedMarks
  <1>5. maint'.phase = "RemoveDelta" /\ maint'.journal = "read" =>
           /\ Exists(files["read"].snapshot)'
           /\ CopiedMarks(files["read"].snapshot, {})'
    BY DEF MarksInv, CopiedMarks
  <1>6. op'.step = "relist" => files'["read"].delta.slots[op'.conv] = op'.count
    BY DEF MarksInv
  <1> QED
    BY <1>1, <1>2, <1>3, <1>4, <1>5, <1>6 DEF MarksInv

\* A step of the caller's, who holds the lease, on the marks.
LEMMA MarksWritten ==
    ASSUME TypeInv, op.step # "idle" \/ LeaseIsFree, ready, UNCHANGED <<ready, maint>>,
           \A c \in Conversations : MarkIn(files'["read"], c) \in marks'[c],
           \A c \in Conversations : ram'["read"][c] \in marks'[c],
           op'.step = "relist" => files'["read"].delta.slots[op'.conv] = op'.count
    PROVE  MarksInv'
  <1>1. maint.phase = "Idle"
    BY Resting DEF TypeInv, OpOK, LeaseIsFree
  <1> QED
    BY <1>1 DEF MarksInv, MarkIn

\* A mark v is put into the delta of c.
LEMMA PutRead ==
    ASSUME TypeInv, NEW c \in Conversations, NEW v \in 0..MaxRows \cup {Deleted},
           NEW o, PutLeaves("read", files["read"].delta, c, v, o),
           SetDelta("read", o.file)
    PROVE  /\ files'["read"].delta = o.file
           /\ \A x \in Conversations :
                 \/ MarkIn(files'["read"], x) = MarkIn(files["read"], x)
                 \/ x = c /\ MarkIn(files'["read"], x) = (IF v = Deleted THEN None ELSE v)
                 \/ o.weak /\ x \in HasSlot(files["read"].delta)
           /\ \A x \in Conversations : MarkIn(files'["read"], x) \in Mark
           /\ o.ok => MarkIn(files'["read"], c) = (IF v = Deleted THEN None ELSE v)
  <1> DEFINE f == files["read"].delta
  <1>1. /\ files'["read"].delta = o.file
        /\ files'["read"].snapshot = files["read"].snapshot
        /\ files'["read"].backup = files["read"].backup
        /\ FilesOK'
    BY CatalogKeys, DeltaChange DEF TypeInv, PutLeaves
  <1>2. v # None
    BY StoreAssumption
  <1>3. DOMAIN f.slots = Conversations
    BY IsFile, CatalogKeys DEF TypeInv, SlotFile, Contents
  <1>4. ASSUME NEW x \in Conversations
        PROVE  \/ MarkIn(files'["read"], x) = MarkIn(files["read"], x)
               \/ x = c /\ MarkIn(files'["read"], x) = (IF v = Deleted THEN None ELSE v)
               \/ o.weak /\ x \in HasSlot(f)
    <2>1. \/ o.file.slots[x] = f.slots[x]
          \/ x = c /\ o.file.slots[x] = v
          \/ o.weak /\ o.file.slots[x] = None
      BY CatalogKeys DEF PutLeaves
    <2>2. x \in HasSlot(f) \/ f.slots[x] = None
      BY <1>3 DEF HasSlot
    <2> QED
      BY <1>1, <1>2, <2>1, <2>2 DEF MarkIn, Base
  <1>5. \A x \in Conversations : MarkIn(files'["read"], x) \in Mark
    BY <1>1, MarkInOK, CatalogKeys DEF FilesOK, GoodFiles
  <1>6. o.ok => MarkIn(files'["read"], c) = (IF v = Deleted THEN None ELSE v)
    BY <1>1, <1>2 DEF MarkIn, PutLeaves
  <1> QED
    BY <1>1, <1>4, <1>5, <1>6

LEMMA AnyMarkIs ==
    ASSUME NEW C, NEW c \in Conversations
    PROVE  AnyMark(C)[c] = IF c \in C THEN Mark ELSE marks[c]
  BY DEF AnyMark

LEMMA MarkReadMarks ==
    ASSUME TypeInv, MarksInv, NEW c \in Conversations, MarkRead(c)
    PROVE  MarksInv'
  <1> PICK f : f = files["read"].delta
    OBVIOUS
  <1>1. Len(segment[c].slots) \in 0..MaxRows
    BY RowsAreMessages, StoreAssumption DEF TypeInv, SegmentOK
  <1> PICK to \in {Len(segment[c].slots), 0} :
         \E o \in PutSlotRepaired("read", f, c, to) :
           /\ SetDelta("read", o.file)
           /\ marks' = IF o.weak THEN AnyMark(HasSlot(f) \cup {c})
                       ELSE [marks EXCEPT ![c] = @ \cup {to}]
           /\ op' = IF o.ok THEN At("relist", c, None, to) ELSE NoOp
    BY DEF MarkRead
  <1>2. PICK o \in PutSlotRepaired("read", f, c, to) :
           /\ SetDelta("read", o.file)
           /\ marks' = IF o.weak THEN AnyMark(HasSlot(f) \cup {c})
                       ELSE [marks EXCEPT ![c] = @ \cup {to}]
           /\ op' = IF o.ok THEN At("relist", c, None, to) ELSE NoOp
    OBVIOUS
  <1>3. to \in 0..MaxRows /\ to # Deleted
    BY <1>1, Marks, StoreAssumption
  <1>4. PutLeaves("read", f, c, to, o)
    BY <1>3, CatalogKeys, IsFile, PutSlotRepairedOutcome DEF TypeInv
  <1>5. /\ files'["read"].delta = o.file
        /\ \A x \in Conversations :
              \/ MarkIn(files'["read"], x) = MarkIn(files["read"], x)
              \/ x = c /\ MarkIn(files'["read"], x) = to
              \/ o.weak /\ x \in HasSlot(f)
        /\ \A x \in Conversations : MarkIn(files'["read"], x) \in Mark
    BY <1>2, <1>3, <1>4, PutRead
  <1>6. \A x \in Conversations : marks[x] \subseteq Mark
    BY DEF TypeInv, RestOK
  <1>7. ASSUME NEW x \in Conversations
        PROVE  /\ marks[x] \subseteq marks'[x]
               /\ MarkIn(files'["read"], x) \in marks'[x]
    <2>1. MarkIn(files["read"], x) \in marks[x]
      BY DEF MarksInv
    <2>2. CASE o.weak
      <3>1. marks' = AnyMark(HasSlot(f) \cup {c})
        BY <1>2, <2>2
      <3>2. marks'[x] = IF x \in HasSlot(f) \cup {c} THEN Mark ELSE marks[x]
        BY <3>1, AnyMarkIs
      <3> QED
        BY <1>5, <1>6, <2>1, <3>2
    <2>3. CASE ~o.weak
      <3>1. marks' = [marks EXCEPT ![c] = marks[c] \cup {to}]
        BY <1>2, <2>3
      <3>2. /\ marks'[c] = marks[c] \cup {to}
            /\ x # c => marks'[x] = marks[x]
        BY <3>1 DEF TypeInv, RestOK
      <3> QED
        BY <1>5, <2>1, <2>3, <3>2
    <2> QED
      BY <2>2, <2>3
  <1>8. ready /\ LeaseIsFree /\ UNCHANGED <<ready, maint, ram>>
    BY DEF MarkRead, memoryVars
  <1>9. \A x \in Conversations : ram'["read"][x] \in marks'[x]
    BY <1>7, <1>8 DEF MarksInv, RamCounts
  <1>10. op'.step = "relist" => files'["read"].delta.slots[op'.conv] = op'.count
    BY <1>2, <1>4, <1>5 DEF At, NoOp, PutLeaves
  <1> QED
    BY <1>7, <1>8, <1>9, <1>10, MarksWritten

LEMMA RelistMarks ==
    ASSUME TypeInv, MarksInv, Relist
    PROVE  MarksInv'
  <1> PICK c : c = op.conv
    OBVIOUS
  <1>1. /\ op.step = "relist" /\ c \in Conversations /\ ready
        /\ op.count \in 0..MaxRows /\ UNCHANGED <<ready, maint>> /\ op' = NoOp
        /\ marks' = [marks EXCEPT ![c] = {op.count}]
        /\ ram' = [ram EXCEPT !["read"][c] = op.count]
    BY DEF Relist, TypeInv, OpOK
  <1>2. files'["read"] = files["read"]
    BY CatalogKeys DEF Relist, SetDelta, TypeInv, FilesOK
  <1>3. /\ marks'[c] = {op.count}
        /\ \A x \in Conversations : x # c => marks'[x] = marks[x]
    BY <1>1 DEF TypeInv, RestOK
  <1>4. /\ ram'["read"][c] = op.count
        /\ \A x \in Conversations : x # c => ram'["read"][x] = ram["read"][x]
    BY <1>1, CatalogKeys DEF TypeInv, RamOK
  <1>5. MarkIn(files["read"], c) = op.count
    <2>1. files["read"].delta.slots[c] = op.count
      BY <1>1 DEF MarksInv
    <2>2. op.count # None /\ op.count # Deleted
      BY <1>1, StoreAssumption
    <2> QED
      BY <2>1, <2>2 DEF MarkIn
  <1>6. \A x \in Conversations : MarkIn(files'["read"], x) \in marks'[x]
    BY <1>2, <1>3, <1>5 DEF MarksInv
  <1>7. \A x \in Conversations : ram'["read"][x] \in marks'[x]
    BY <1>1, <1>3, <1>4 DEF MarksInv, RamCounts
  <1> QED
    BY <1>1, <1>6, <1>7, MarksWritten DEF NoOp

LEMMA UnmarkMarks ==
    ASSUME TypeInv, MarksInv, Unmark
    PROVE  MarksInv'
  <1> PICK c, f : c = op.conv /\ f = files["read"].delta
    OBVIOUS
  <1>1. /\ op.step = "unmark" /\ c \in Conversations /\ ready
        /\ UNCHANGED <<ready, maint>> /\ op' = NoOp
        /\ ram' = [p \in Projections |-> [ram[p] EXCEPT ![c] = None]]
    BY DEF Unmark, TypeInv, OpOK
  <1>2. PICK o \in PutSlotRepaired("read", f, c, Deleted) :
           /\ SetDelta("read", o.file)
           /\ marks' = [(IF o.weak THEN AnyMark(HasSlot(f)) ELSE marks)
                        EXCEPT ![c] = IF o.ok THEN {None} ELSE @ \cup {None}]
    BY DEF Unmark
  <1>3. PutLeaves("read", f, c, Deleted, o)
    BY <1>1, CatalogKeys, IsFile, PutSlotRepairedOutcome DEF TypeInv
  <1>4. /\ files'["read"].delta = o.file
        /\ \A x \in Conversations :
              \/ MarkIn(files'["read"], x) = MarkIn(files["read"], x)
              \/ x = c /\ MarkIn(files'["read"], x) = None
              \/ o.weak /\ x \in HasSlot(f)
        /\ \A x \in Conversations : MarkIn(files'["read"], x) \in Mark
        /\ o.ok => MarkIn(files'["read"], c) = None
    BY <1>1, <1>2, <1>3, PutRead
  <1> DEFINE grown == IF o.weak THEN AnyMark(HasSlot(f)) ELSE marks
  <1>5. /\ grown \in [Conversations -> SUBSET Mark]
        /\ \A x \in Conversations :
              grown[x] = IF o.weak /\ x \in HasSlot(f) THEN Mark ELSE marks[x]
    BY AnyMarkType, AnyMarkIs DEF TypeInv, RestOK
  <1>6. \A x \in Conversations : marks[x] \subseteq Mark
    BY DEF TypeInv, RestOK
  <1>7. marks' = [grown EXCEPT ![c] = IF o.ok THEN {None} ELSE grown[c] \cup {None}]
    BY <1>2
  <1> HIDE DEF grown
  <1>8. /\ \A x \in Conversations : x # c => marks'[x] = grown[x]
        /\ marks'[c] = IF o.ok THEN {None} ELSE grown[c] \cup {None}
    BY <1>1, <1>5, <1>7
  <1>9. ASSUME NEW x \in Conversations
        PROVE  /\ MarkIn(files'["read"], x) \in marks'[x]
               /\ ram'["read"][x] \in marks'[x]
    <2>1. MarkIn(files["read"], x) \in marks[x] /\ ram["read"][x] \in marks[x]
      BY <1>1 DEF MarksInv, RamCounts
    <2>2. /\ x # c => ram'["read"][x] = ram["read"][x]
          /\ ram'["read"][c] = None
      BY <1>1, CatalogKeys DEF TypeInv, RamOK
    <2> QED
      BY <1>4, <1>5, <1>6, <1>8, <2>1, <2>2
  <1> QED
    BY <1>1, <1>9, MarksWritten DEF NoOp

LEMMA ReadIsFile ==
    ASSUME TypeInv
    PROVE  GoodFiles("read", files["read"])
  BY CatalogKeys DEF TypeInv, FilesOK, GoodFiles

LEMMA RecoverMarks ==
    ASSUME TypeInv, MarksInv, Recover
    PROVE  MarksInv'
  <1> PICK p : p = maint.journal
    OBVIOUS
  <1>1. /\ maint.phase = "Recover" /\ p \in Journals
        /\ ~ready /\ ready' = ready /\ ram' = ram /\ op' = op /\ op.step = "idle"
    BY DEF Recover, memoryVars, TypeInv, MaintOK, OpOK, Hydrating
  <1>2. PICK o \in RecoverFile(files[p], NoFile(p)) :
           /\ files' = [files EXCEPT ![p] = o.file]
           /\ marks' = IF o.weak /\ p = "read"
                       THEN AnyMark(Conversations) ELSE marks
           /\ maint' = IF ~o.ok THEN AtRest
                       ELSE CASE p = "catalog" -> Phase("Recover", "read")
                              [] p = "read" -> Phase("Replay", "catalog")
                              [] p = "seen" -> Phase("LookAtSeen", "seen")
    BY DEF Recover
  <1>3. CASE p # "read"
    <2>1. files'["read"] = files["read"] /\ marks' = marks
      BY <1>1, <1>2, <1>3, CatalogKeys DEF TypeInv, FilesOK
    <2>2. \/ maint' = AtRest
          \/ maint' = Phase("Recover", "read")
          \/ maint' = Phase("LookAtSeen", "seen") /\ maint.journal = "seen"
      BY <1>1, <1>2, <1>3 DEF Journals, Projections
    <2> QED
      BY <1>1, <2>1, <2>2, MarksSame, PhaseIs DEF RamCounts, AtRest, TypeInv
  <1>4. CASE p = "read"
    <2>1. /\ Priced(o) /\ GoodFiles("read", o.file)
          /\ o.file.delta = files["read"].delta
          /\ Base(o.file).slots = Base(files["read"]).slots
          /\ o.ok /\ ~o.weak => Exists(o.file.snapshot) \/ ~Exists(o.file.backup)
      BY <1>2, <1>4, ReadIsFile, NothingOK, RecoverOutcome
    <2>2. files'["read"] = o.file
      BY <1>1, <1>2, <1>4 DEF TypeInv, FilesOK
    <2>3. \/ maint' = AtRest /\ ~o.ok
          \/ maint' = Phase("Replay", "catalog") /\ o.ok
      BY <1>2, <1>4
    <2>4. \A c \in Conversations : MarkIn(files["read"], c) \in marks[c]
                                      /\ marks[c] \subseteq Mark
      BY DEF MarksInv, TypeInv, RestOK
    <2>5. \A c \in Conversations : MarkIn(files'["read"], c) \in marks'[c]
      <3>1. \A c \in Conversations : MarkIn(o.file, c) = MarkIn(files["read"], c)
        BY <2>1 DEF MarkIn
      <3>2. \A c \in Conversations : marks[c] \subseteq marks'[c]
        BY <1>2, <2>4, AnyMarkIs
      <3> QED
        BY <2>2, <2>4, <3>1, <3>2
    <2>6. maint'.phase = "Replay" => RecoveredMarks'
      <3>1. o.weak => \A c \in Conversations : marks'[c] = Mark
        BY <1>2, <1>4, AnyMarkIs
      <3> QED
        BY <2>1, <2>2, <2>3, <3>1 DEF RecoveredMarks, AtRest
    <2>7. ~RamCounts' /\ maint'.phase \notin {"Write", "RemoveDelta"}
          /\ op'.step # "relist"
      BY <1>1, <2>3, PhaseIs DEF RamCounts, AtRest, TypeInv
    <2> QED
      BY <2>5, <2>6, <2>7 DEF MarksInv, MarkIn
  <1> QED
    BY <1>3, <1>4

LEMMA ReplayMarks ==
    ASSUME TypeInv, MarksInv, Replay
    PROVE  MarksInv'
  <1> PICK p : p = maint.journal
    OBVIOUS
  <1>1. /\ maint.phase = "Replay" /\ p \in Projections /\ ~ready
        /\ UNCHANGED <<files, ready, op>> /\ op.step = "idle"
    BY DEF Replay, diskVars, TypeInv, MaintOK, OpOK, Hydrating
  <1>2. PICK denied \in Denied :
           /\ ram' = [ram EXCEPT ![p] =
                        [c \in Conversations |-> Replayed(p, denied, c)]]
           /\ marks' = IF p = "read" /\ denied # {}
                       THEN AnyMark(Conversations) ELSE marks
    BY DEF Replay
  <1>3. CASE p = "catalog"
    <2>1. maint' = Phase("Replay", "read")
      BY <1>3 DEF Replay
    <2> QED
      BY <1>1, <1>2, <1>3, <2>1, MarksSame, PhaseIs DEF RamCounts, TypeInv
  <1>4. CASE p = "read"
    <2>1. maint' = Phase("Recover", "seen")
      BY <1>4 DEF Replay
    <2>2. ASSUME NEW c \in Conversations
          PROVE  MarkIn(files["read"], c) \in marks'[c] /\ ram'["read"][c] \in marks'[c]
      <3>1. MarkIn(files["read"], c) \in marks[c] /\ marks[c] \subseteq Mark
        BY DEF MarksInv, TypeInv, RestOK
      <3>2. /\ ram'["read"][c] = Replayed("read", denied, c)
            /\ Replayed("read", denied, c) \in Mark
        BY <1>1, <1>2, <1>4, CatalogKeys, ReplayedOK DEF TypeInv, RamOK, Mark
      <3>3. CASE denied # {}
        BY <1>2, <1>4, <3>1, <3>2, <3>3, AnyMarkIs
      <3>4. CASE denied = {} /\ marks[c] = Mark
        BY <1>2, <3>1, <3>2, <3>4
      <3>5. CASE denied = {} /\ (\/ Exists(files["read"].snapshot)
                                 \/ ~Exists(files["read"].backup))
        <4>1. /\ Tidy("read", files["read"].snapshot)
              /\ Tidy("read", files["read"].backup)
          BY IsFile, CatalogKeys DEF TypeInv
        <4>2. Base(files["read"]).slots = files["read"].snapshot.slots
          BY <3>5, <4>1 DEF Base, Exists, Tidy
        <4>3. Replayed("read", denied, c) = MarkIn(files["read"], c)
          BY <3>5, <4>2 DEF Replayed, SlotIn, MarkIn
        <4> QED
          BY <1>2, <3>1, <3>2, <3>5, <4>3
      <3> QED
        BY <1>1, <3>3, <3>4, <3>5 DEF MarksInv, RecoveredMarks
    <2>3. maint'.phase = "Recover" /\ op'.step # "relist"
      BY <1>1, <2>1, PhaseIs DEF TypeInv
    <2> QED
      BY <1>1, <2>2, <2>3 DEF MarksInv, MarkIn
  <1> QED
    BY <1>1, <1>3, <1>4 DEF Projections

LEMMA CreateMarks ==
    ASSUME TypeInv, MarksInv, Create
    PROVE  MarksInv'
  <1> PICK p : p = maint.journal
    OBVIOUS
  <1>1. /\ maint.phase = "Create" /\ p \in Projections /\ ready
        /\ UNCHANGED <<ready, ram, op, marks>> /\ op.step = "idle"
    BY DEF Create, memoryVars, historyVars, TypeInv, MaintOK, OpOK, Compacting
  <1>2. PICK s \in JournalState : SetTemp(p, File(s, Nothing(p)))
    BY DEF Create, JournalState
  <1>3. /\ File(s, Nothing(p)) \in SlotFile(p) /\ Tidy(p, File(s, Nothing(p)))
    BY NothingOK DEF File, SlotFile, Tidy
  <1>4. /\ files'[p].temp = File(s, Nothing(p))
        /\ \A r \in Roles : r # "temp" => files'[p][r] = files[p][r]
        /\ \A q \in Journals : q # p => files'[q] = files[q]
    BY <1>1, <1>2, <1>3, CatalogKeys, TempChange DEF TypeInv
  <1>5. \/ maint' = maint
        \/ /\ maint'.phase = "Write" /\ maint'.journal = p
           /\ maint'.todo = {c \in Conversations : ram[p][c] # None}
    <2>1. \/ maint' = maint
          \/ maint' = [Phase("Write", p) EXCEPT
                         !.todo = {c \in Conversations : ram[p][c] # None}]
      BY DEF Create
    <2> QED
      BY <2>1 DEF Phase, TypeInv, MaintOK
  <1>6. CASE p = "catalog"
    BY <1>1, <1>4, <1>5, <1>6, CatalogKeys, MarksSame DEF RamCounts
  <1>7. CASE p = "read"
    <2>1. \A c : MarkIn(files'["read"], c) = MarkIn(files["read"], c)
      BY <1>4, <1>7, CatalogKeys DEF MarkIn, Base
    <2>2. maint'.phase = "Write" => CopiedMarks(files["read"].temp, maint.todo)'
      <3> SUFFICES ASSUME maint'.phase = "Write", NEW c \in Conversations \ maint'.todo
                   PROVE  files'["read"].temp.slots[c] = ram'["read"][c]
        BY DEF CopiedMarks
      <3>1. ram["read"][c] = None
        BY <1>1, <1>5, <1>7
      <3> QED
        BY <1>1, <1>4, <1>7, <3>1, CatalogKeys, NothingOK DEF File
    <2> QED
      BY <1>1, <1>5, <2>1, <2>2 DEF MarksInv, RamCounts, MarkIn
  <1> QED
    BY <1>1, <1>6, <1>7 DEF Projections

LEMMA WriteRecordMarks ==
    ASSUME TypeInv, MarksInv, NEW c \in Conversations, WriteRecord(c)
    PROVE  MarksInv'
  <1> PICK p, f : p = maint.journal /\ f = files[p].temp
    OBVIOUS
  <1>1. /\ maint.phase = "Write" /\ p \in Projections /\ ready /\ c \in maint.todo
        /\ UNCHANGED <<ready, ram, op>> /\ op.step = "idle"
    BY DEF WriteRecord, memoryVars, TypeInv, MaintOK, OpOK, Compacting
  <1>2. PICK o \in PutSlot(p, f, c, ram[p][c]) :
           /\ SetTemp(p, o.file)
           /\ marks' = IF p = "catalog" THEN marks
                       ELSE AnyMark((IF o.weak THEN HasSlot(f) ELSE {})
                                    \cup (IF o.ok THEN {} ELSE {c}))
    BY DEF WriteRecord
  <1>3. /\ p \in Journals /\ c \in Keys(p) /\ f \in SlotFile(p) /\ Tidy(p, f)
        /\ ram[p][c] \in Value(p) \cup {None, Deleted}
    BY <1>1, CatalogKeys, IsFile DEF TypeInv, RamOK
  <1>4. PutLeaves(p, f, c, ram[p][c], o)
    BY <1>3, PutSlotOutcome
  <1>5. /\ files'[p].temp = o.file
        /\ \A r \in Roles : r # "temp" => files'[p][r] = files[p][r]
        /\ \A q \in Journals : q # p => files'[q] = files[q]
    BY <1>2, <1>3, <1>4, TempChange DEF TypeInv, PutLeaves
  <1>6. /\ maint'.phase = "Write" /\ maint'.journal = p
        /\ maint'.todo = maint.todo \ {c}
    <2>1. maint' = [maint EXCEPT !.todo = @ \ {c}]
      BY DEF WriteRecord
    <2> QED
      BY <1>1, <2>1 DEF TypeInv, MaintOK
  <1>7. CASE p = "catalog"
    BY <1>1, <1>2, <1>5, <1>6, <1>7, CatalogKeys, MarksSame DEF RamCounts
  <1>8. CASE p = "read"
    <2>1. \A x : MarkIn(files'["read"], x) = MarkIn(files["read"], x)
      BY <1>5, <1>8, CatalogKeys DEF MarkIn, Base
    <2>2. PICK C : /\ C = (IF o.weak THEN HasSlot(f) ELSE {})
                            \cup (IF o.ok THEN {} ELSE {c})
                   /\ marks' = AnyMark(C)
      BY <1>2, <1>8
    <2>3. \A x \in Conversations :
             /\ marks[x] \subseteq Mark
             /\ marks'[x] = IF x \in C THEN Mark ELSE marks[x]
      BY <2>2, AnyMarkIs DEF TypeInv, RestOK
    <2>4. ASSUME NEW x \in Conversations \ maint'.todo
          PROVE  marks'[x] = Mark \/ o.file.slots[x] = ram["read"][x]
      <3>1. DOMAIN f.slots = Conversations
        BY <1>3, <1>8, CatalogKeys DEF SlotFile, Contents
      <3>2. CASE x = c
        BY <1>4, <1>8, <2>2, <2>3, <3>2 DEF PutLeaves
      <3>3. CASE x # c
        <4>1. marks[x] = Mark \/ f.slots[x] = ram["read"][x]
          BY <1>1, <1>6, <1>8, <2>4, <3>3 DEF MarksInv, CopiedMarks
        <4>2. \/ o.file.slots[x] = f.slots[x]
              \/ o.weak /\ o.file.slots[x] = None
          BY <1>4, <1>8, <3>3, CatalogKeys DEF PutLeaves
        <4>3. o.weak /\ f.slots[x] # None => x \in C
          BY <2>2, <3>1 DEF HasSlot
        <4> QED
          BY <2>3, <4>1, <4>2, <4>3
      <3> QED
        BY <3>2, <3>3
    <2>5. CopiedMarks(files["read"].temp, maint.todo)'
      BY <1>1, <1>5, <1>8, <2>4 DEF CopiedMarks
    <2>6. \A x \in Conversations :
             /\ MarkIn(files["read"], x) \in marks[x]
             /\ ram["read"][x] \in marks[x]
      BY <1>1 DEF MarksInv, RamCounts
    <2>7. \A x \in Conversations :
             /\ MarkIn(files["read"], x)' \in marks'[x]
             /\ ram'["read"][x] \in marks'[x]
      BY <1>1, <2>1, <2>3, <2>6 DEF MarkIn
    <2> QED
      BY <1>1, <1>6, <2>5, <2>7 DEF MarksInv
  <1> QED
    BY <1>1, <1>7, <1>8 DEF Projections

LEMMA ReplaceMarks ==
    ASSUME TypeInv, MarksInv, Replace
    PROVE  MarksInv'
  <1> PICK p : p = maint.journal
    OBVIOUS
  <1>1. /\ maint.phase = "Write" /\ p \in Projections /\ ready /\ maint.todo = {}
        /\ UNCHANGED <<ready, ram, op>> /\ op.step = "idle"
    BY DEF Replace, memoryVars, TypeInv, MaintOK, OpOK, Compacting
  <1>2. PICK o \in ReplaceFile(files[p], NoFile(p)) :
           /\ files' = [files EXCEPT ![p] = o.file]
           /\ marks' = IF o.weak /\ p = "read"
                       THEN AnyMark(Conversations) ELSE marks
           /\ maint' = AfterReplace(p, o.ok)
    BY DEF Replace
  <1>3. \/ maint' = Phase("RemoveDelta", p) /\ o.ok
        \/ maint' = maint /\ ~o.ok
    BY <1>2 DEF AfterReplace
  <1>4. CASE p = "catalog"
    <2>1. files'["read"] = files["read"] /\ marks' = marks
      BY <1>2, <1>4, CatalogKeys DEF TypeInv, FilesOK
    <2> QED
      BY <1>1, <1>3, <1>4, <2>1, MarksSame, PhaseIs DEF RamCounts, TypeInv
  <1>5. CASE p = "read"
    <2>1. /\ Priced(o) /\ GoodFiles("read", o.file)
          /\ o.file.delta = files["read"].delta
          /\ o.ok => /\ o.file.snapshot = files["read"].temp
                     /\ Exists(files["read"].temp)
          /\ ~o.ok => o.file.temp = files["read"].temp
          /\ ~o.ok /\ ~o.weak => Base(o.file).slots = Base(files["read"]).slots
      <3>1. IsNone("read", NoFile("read")) /\ o \in ReplaceFile(files["read"], NoFile("read"))
        BY <1>2, <1>5, NothingOK
      <3> QED
        BY <3>1, ReadIsFile, ReplaceOutcome
    <2>2. files'["read"] = o.file
      BY <1>2, <1>5, CatalogKeys DEF TypeInv, FilesOK
    <2>3. \A x \in Conversations :
             /\ MarkIn(files["read"], x) \in marks[x]
             /\ ram["read"][x] \in marks[x]
             /\ marks[x] \subseteq Mark
             /\ marks[x] \subseteq marks'[x]
             /\ marks'[x] \subseteq Mark
             /\ o.weak => marks'[x] = Mark
      BY <1>1, <1>2, <1>5, AnyMarkIs DEF MarksInv, RamCounts, TypeInv, RestOK
    <2>4. CopiedMarks(files["read"].temp, {})
      BY <1>1, <1>5 DEF MarksInv
    <2>5. ASSUME NEW x \in Conversations
          PROVE  MarkIn(files'["read"], x) \in marks'[x]
      <3>1. MarkIn(files'["read"], x) \in Mark
        BY <2>1, <2>2, MarkInOK
      <3>2. CASE o.weak
        BY <2>3, <3>1, <3>2
      <3>3. CASE ~o.weak /\ ~o.ok
        <4>1. MarkIn(files'["read"], x) = MarkIn(files["read"], x)
          BY <2>1, <2>2, <3>3 DEF MarkIn
        <4> QED
          BY <2>3, <4>1
      <3>4. CASE o.ok
        <4>1. Base(o.file) = files["read"].temp
          BY <2>1, <3>4 DEF Base
        <4>2. CASE files["read"].delta.slots[x] # None
          <5>1. MarkIn(files'["read"], x) = MarkIn(files["read"], x)
            BY <2>1, <2>2, <4>2 DEF MarkIn
          <5> QED
            BY <2>3, <5>1
        <4>3. CASE files["read"].delta.slots[x] = None
          <5>1. marks[x] = Mark \/ files["read"].temp.slots[x] = ram["read"][x]
            BY <2>4 DEF CopiedMarks
          <5>2. CASE marks[x] = Mark
            BY <2>3, <3>1, <5>2
          <5>3. CASE files["read"].temp.slots[x] = ram["read"][x]
            <6>1. ram["read"][x] # Deleted
              BY CatalogKeys, StoreAssumption DEF TypeInv, RamOK
            <6>2. MarkIn(files'["read"], x) = ram["read"][x]
              BY <2>1, <2>2, <4>1, <4>3, <5>3, <6>1 DEF MarkIn
            <6> QED
              BY <2>3, <6>2
          <5> QED
            BY <5>1, <5>2, <5>3
        <4> QED
          BY <4>2, <4>3
      <3> QED
        BY <2>1, <3>2, <3>3, <3>4
    <2>6. maint'.phase = "Write" => CopiedMarks(files["read"].temp, maint.todo)'
      <3> SUFFICES ASSUME maint'.phase = "Write"
                   PROVE  CopiedMarks(files["read"].temp, maint.todo)'
        OBVIOUS
      <3>1. ~o.ok /\ maint' = maint
        BY <1>3, PhaseIs DEF TypeInv
      <3>2. maint'.todo = {} /\ ram' = ram
        BY <1>1, <3>1
      <3>3. files'["read"].temp = files["read"].temp
        BY <2>1, <2>2, <3>1
      <3>4. \A x \in Conversations : marks[x] = Mark => marks'[x] = Mark
        BY <2>3
      <3> QED
        BY <2>4, <3>2, <3>3, <3>4 DEF CopiedMarks
    <2>7. maint'.phase = "RemoveDelta" =>
             /\ Exists(files["read"].snapshot)'
             /\ CopiedMarks(files["read"].snapshot, {})'
      <3> SUFFICES ASSUME maint'.phase = "RemoveDelta"
                   PROVE  /\ Exists(files["read"].snapshot)'
                          /\ CopiedMarks(files["read"].snapshot, {})'
        OBVIOUS
      <3>1. o.ok
        BY <1>1, <1>3
      <3>2. files'["read"].snapshot = files["read"].temp
            /\ Exists(files["read"].temp)
        BY <2>1, <2>2, <3>1
      <3>3. Exists(files["read"].snapshot)'
        BY <3>2 DEF Exists
      <3>4. CopiedMarks(files["read"].snapshot, {})'
        BY <1>1, <2>3, <2>4, <3>2 DEF CopiedMarks
      <3> QED
        BY <3>3, <3>4
    <2>8. maint'.phase \in {"Write", "RemoveDelta"}
      BY <1>1, <1>3, PhaseIs DEF TypeInv
    <2> QED
      BY <1>1, <2>3, <2>5, <2>6, <2>7, <2>8 DEF MarksInv, MarkIn
  <1> QED
    BY <1>1, <1>4, <1>5 DEF Projections

LEMMA RemoveDeltaMarks ==
    ASSUME TypeInv, MarksInv, RemoveDelta
    PROVE  MarksInv'
  <1> PICK p : p = maint.journal
    OBVIOUS
  <1>1. /\ maint.phase = "RemoveDelta" /\ p \in Projections /\ ready
        /\ UNCHANGED <<ready, ram, op, marks>> /\ op.step = "idle"
    BY DEF RemoveDelta, historyVars, TypeInv, MaintOK, OpOK, Compacting
  <1>2. maint'.phase \in {"Create", "Idle"}
    <2> DEFINE left == maint.plan \ {"catalog", p}
    <2>1. maint' = [NextOf(left) EXCEPT !.plan = @ \ {"catalog", p}]
      BY DEF RemoveDelta
    <2> QED
      BY <2>1 DEF NextOf, Phase, AtRest, TypeInv, MaintOK
  <1>3. SetDelta(p, NoFile(p)) \/ files' = files
    BY DEF RemoveDelta
  <1>4. CASE p = "catalog" \/ files' = files
    <2>1. files'["read"] = files["read"]
      BY <1>3, <1>4, CatalogKeys DEF SetDelta, TypeInv, FilesOK
    <2> QED
      BY <1>1, <1>2, <2>1, MarksSame DEF RamCounts
  <1>5. CASE p = "read" /\ SetDelta(p, NoFile(p))
    <2>1. /\ files'["read"].delta = NoFile("read")
          /\ files'["read"].snapshot = files["read"].snapshot
          /\ FilesOK'
      BY <1>5, CatalogKeys, NoFileOK, DeltaChange DEF TypeInv
    <2>2. /\ Exists(files["read"].snapshot)
          /\ CopiedMarks(files["read"].snapshot, {})
      BY <1>1, <1>5 DEF MarksInv
    <2>3. ASSUME NEW x \in Conversations
          PROVE  MarkIn(files'["read"], x) \in marks[x]
      <3>1. MarkIn(files'["read"], x) \in Mark
        BY <2>1, MarkInOK, CatalogKeys DEF FilesOK, GoodFiles
      <3>2. CASE marks[x] = Mark
        BY <3>1, <3>2
      <3>3. CASE files["read"].snapshot.slots[x] = ram["read"][x]
        <4>1. NoFile("read").slots[x] = None
          BY CatalogKeys, NothingOK DEF IsNone
        <4>2. ram["read"][x] # Deleted
          BY CatalogKeys, StoreAssumption DEF TypeInv, RamOK
        <4>3. MarkIn(files'["read"], x) = ram["read"][x]
          BY <2>1, <2>2, <3>3, <4>1, <4>2 DEF MarkIn, Base
        <4> QED
          BY <1>1, <4>3 DEF MarksInv, RamCounts
      <3> QED
        BY <2>2, <3>2, <3>3 DEF CopiedMarks
    <2> QED
      BY <1>1, <1>2, <2>3 DEF MarksInv, RamCounts, MarkIn
  <1> QED
    BY <1>1, <1>3, <1>4, <1>5 DEF Projections

LEMMA MarksStep == TypeInv /\ MarksInv /\ [StoreNext]_storeVars => MarksInv'
  <1> SUFFICES ASSUME TypeInv, MarksInv, [StoreNext]_storeVars PROVE MarksInv'
    OBVIOUS
  <1> DEFINE Calm ==
         /\ files'["read"] = files["read"]
         /\ \A c \in Conversations : marks[c] \subseteq marks'[c]
         /\ RamCounts' => RamCounts /\ ram'["read"] = ram["read"]
         /\ maint'.phase \notin {"Replay", "Write", "RemoveDelta"}
         /\ op'.step = "relist" => op' = op
  <1>1. Calm => MarksInv'
    BY MarksSame
  <1>2. \A f : SetDelta("catalog", f) \/ SetDelta("seen", f) =>
                  files'["read"] = files["read"]
    BY CatalogKeys DEF SetDelta, TypeInv, FilesOK
  <1>3. CASE UNCHANGED storeVars
    BY <1>3, MarksSame DEF storeVars, diskVars, memoryVars, historyVars, RamCounts
  <1>4. CASE Caller
    <2>1. ready /\ ready' = ready /\ maint' = maint /\ maint.phase = "Idle"
      BY <1>4, Resting DEF Caller, AppendRow, RememberHash, ListConversation, MarkRead,
                  Clear, Relist, Unlist, Unmark, LeaseIsFree, memoryVars,
                  TypeInv, OpOK
    <2>2. RamCounts
      BY <2>1 DEF RamCounts
    <2>3. ASSUME NEW m \in Messages, AppendRow(m)
          PROVE  MarksInv'
      BY <1>1, <2>1, <2>2, <2>3 DEF AppendRow, memoryVars, At, NoOp
    <2>4. CASE RememberHash
      <3>1. op'.step # "relist"
        BY <2>4 DEF RememberHash, NoOp, TypeInv, OpOK
      <3>2. files'["read"] = files["read"]
        BY <1>2, <2>4 DEF RememberHash
      <3> QED
        BY <1>1, <2>1, <2>2, <2>4, <3>1, <3>2 DEF RememberHash
    <2>5. CASE ListConversation
      <3>1. files'["read"] = files["read"]
        BY <1>2, <2>5 DEF ListConversation
      <3>2. ram'["read"] = ram["read"]
        BY <2>5, CatalogKeys DEF ListConversation, EnterCatalog, TypeInv, RamOK
      <3> QED
        BY <1>1, <2>1, <2>2, <2>5, <3>1, <3>2 DEF ListConversation, NoOp
    <2>6. ASSUME NEW c \in Conversations, Clear(c)
          PROVE  MarksInv'
      <3>1. \A x \in Conversations : marks[x] \subseteq marks'[x]
        BY <2>6 DEF Clear, TypeInv, RestOK
      <3>2. op'.step # "relist"
        BY <2>6 DEF Clear, LeaseIsFree, At, NoOp
      <3> QED
        BY <1>1, <2>1, <2>2, <2>6, <3>1, <3>2 DEF Clear, memoryVars
    <2>7. CASE Unlist
      <3>1. files'["read"] = files["read"]
        BY <1>2, <2>7 DEF Unlist
      <3>2. op'.step # "relist"
        BY <2>7 DEF Unlist, At
      <3> QED
        BY <1>1, <2>1, <2>2, <2>7, <3>1, <3>2 DEF Unlist, memoryVars, historyVars
    <2> QED
      BY <1>4, <2>3, <2>4, <2>5, <2>6, <2>7, MarkReadMarks, RelistMarks,
         UnmarkMarks DEF Caller
  <1>5. CASE Hydrate
    <2>1. ~ready /\ op.step = "idle"
      BY <1>5 DEF Hydrate, BeginHydration, Recover, Replay, LookAtSeen, RebuildSeen,
                  ReconcileConversation, FinishHydration, LeaseIsFree, NoOp,
                  TypeInv, MaintOK, OpOK, Hydrating
    <2>2. CASE BeginHydration
      <3>1. ~RamCounts' /\ maint'.phase = "Recover"
        BY <2>1, <2>2, PhaseIs DEF BeginHydration, RamCounts, TypeInv
      <3> QED
        BY <1>1, <2>1, <2>2, <3>1 DEF BeginHydration, diskVars
    <2>3. CASE LookAtSeen
      <3>1. RamCounts /\ maint'.phase \in {"RebuildSeen", "Reconcile"}
        BY <2>3 DEF LookAtSeen, RamCounts
      <3> QED
        BY <1>1, <2>1, <2>3, <3>1 DEF LookAtSeen, diskVars, historyVars
    <2>4. CASE RebuildSeen
      <3>1. RamCounts /\ maint'.phase \in {"Idle", "Reconcile"}
        <4>1. \/ maint' = Phase("Reconcile", None)
              \/ maint' = AtRest
          BY <2>4 DEF RebuildSeen
        <4> QED
          BY <2>4, <4>1, PhaseIs DEF RebuildSeen, RamCounts, AtRest, TypeInv
      <3>2. \/ files' = files
            \/ \E f : files' = [files EXCEPT !["seen"] = f]
        BY <2>4 DEF RebuildSeen
      <3>3. files'["read"] = files["read"]
        BY <3>2, CatalogKeys DEF TypeInv, FilesOK
      <3> QED
        BY <1>1, <2>1, <2>4, <3>1, <3>3 DEF RebuildSeen
    <2>5. ASSUME NEW c \in Conversations, ReconcileConversation(c)
          PROVE  MarksInv'
      <3>1. RamCounts /\ maint'.phase = "Reconcile"
        BY <2>5 DEF ReconcileConversation, RamCounts, TypeInv, MaintOK
      <3>2. \E entry : ram' = [ram EXCEPT !["catalog"][c] = entry]
        BY <2>5 DEF ReconcileConversation
      <3>3. ram'["read"] = ram["read"]
        BY <3>2, CatalogKeys DEF TypeInv, RamOK
      <3> QED
        BY <1>1, <2>1, <2>5, <3>1, <3>3 DEF ReconcileConversation
    <2>6. CASE FinishHydration
      BY <1>1, <2>1, <2>6 DEF FinishHydration, RamCounts, AtRest, diskVars, historyVars
    <2> QED
      BY <1>5, <2>2, <2>3, <2>4, <2>5, <2>6, RecoverMarks, ReplayMarks DEF Hydrate
  <1>6. CASE BeginCompaction \/ Inspect
    <2>1. UNCHANGED <<files, ready, ram, marks, op>> /\ ready
      BY <1>6 DEF BeginCompaction, Inspect, diskVars, memoryVars, historyVars,
                  TypeInv, MaintOK, Compacting
    <2>2. maint'.phase \in {"Inspect", "Create", "Idle"}
      <3>1. CASE BeginCompaction
        BY <3>1, PhaseIs DEF BeginCompaction, TypeInv
      <3>2. CASE Inspect
        <4>1. \/ maint' = maint
              \/ \E plan : maint' = [NextOf(plan) EXCEPT !.plan = plan]
          BY <3>2 DEF Inspect
        <4> QED
          BY <3>2, <4>1 DEF Inspect, NextOf, Phase, AtRest, TypeInv, MaintOK
      <3> QED
        BY <1>6, <3>1, <3>2
    <2> QED
      BY <1>1, <2>1, <2>2 DEF RamCounts
  <1>7. CASE Compact
    BY <1>6, <1>7, CreateMarks, WriteRecordMarks, ReplaceMarks, RemoveDeltaMarks
       DEF Compact
  <1>8. CASE Stop
    BY <1>1, <1>8 DEF Stop, AtRest, RamCounts, diskVars, memoryVars, historyVars
  <1>9. CASE PowerLoss
    BY <1>1, <1>9 DEF PowerLoss, AtRest, NoOp, RamCounts, diskVars, historyVars
  <1> QED
    BY <1>3, <1>4, <1>5, <1>6, <1>7, <1>8, <1>9 DEF StoreNext

(* The read mark a user set is the one found, in memory and by a boot, at  *)
(* every step of a compaction that fails and is tried again.               *)
THEOREM StoreKeepsMarks == StoreSpec => []MarksKept
  <1>1. StoreInit => MarksInv
    <2> SUFFICES ASSUME StoreInit PROVE MarksInv
      OBVIOUS
    <2>1. /\ marks = [c \in Conversations |-> {None}]
          /\ ~RamCounts /\ maint.phase = "Idle" /\ op.step = "idle"
      BY DEF StoreInit, RamCounts, AtRest, NoOp
    <2>2. files["read"] = [r \in Roles |-> NoFile("read")]
      BY CatalogKeys DEF StoreInit
    <2>3. \A c \in Conversations : MarkIn(files["read"], c) = None
      BY <2>2, CatalogKeys, NothingOK DEF MarkIn, Base, IsNone
    <2> QED
      BY <2>1, <2>3 DEF MarksInv
  <1>2. MarksInv => MarksKept
    BY DEF MarksInv, MarksKept, DurableMark, MarkIn, Base, RamCounts
  <1> QED
    BY <1>1, <1>2, InitTypeInv, TypeStep, MarksStep, PTL DEF StoreSpec

-----------------------------------------------------------------------------
(* Losing power is not enough: without a refused operation, a torn write   *)
(* or a denied file nothing is given up                                    *)

\* No step pays for something that goes wrong.
NothingFails == troubles <= troubles'

Whole(f) == ~Damaged(f)

\* What the code gives up without a trouble: hashes of texts in conversations
\* the catalog files do not list, when no file of hashes exists.  They are
\* hashes of texts that nobody was told are stored, and nothing takes them for
\* known.
CalmInv ==
    /\ lost.rows = {} /\ lost.listed = {}
    /\ \A c \in Conversations : Whole(segment[c])
    /\ Whole(files["seen"].snapshot) /\ Whole(files["seen"].delta)
    /\ ~Exists(files["seen"].backup)
    /\ lost.hashes # {} => Exists(files["seen"].snapshot)
    /\ maint.phase = "RebuildSeen" =>
          ~Exists(files["seen"].snapshot) /\ ~Exists(files["seen"].delta)
    /\ \A m \in lost.hashes : ~Acked(m) /\ ~InSeen(m)
    /\ op.step = "list" => op.msg \notin lost.hashes

LEMMA Free ==
    ASSUME RestOK, NothingFails, NEW n \in Nat, Pay(n)
    PROVE  n = 0
  BY StoreAssumption DEF RestOK, NothingFails, Pay

\* An append that costs nothing did what it says.
LEMMA FreeAppend ==
    ASSUME NEW f, Whole(f), NEW with, NEW alone, NEW empty,
           NEW o \in AppendTo(f, with, alone, empty), o.cost = 0
    PROVE  /\ o.ok /\ ~o.weak /\ Whole(o.file)
           /\ o.file.slots = (IF Exists(f) THEN with ELSE alone)
  <1>1. ASSUME NEW price \in {0, 1}, NEW gaveUp \in BOOLEAN,
               o \in CreateAndAppend(alone, empty, price, gaveUp)
        PROVE  price = 0 /\ o = Outcome(File("Ready", alone), TRUE, 0, gaveUp)
    <2>1. CASE o \in {Outcome(File("Ready", alone), told,
                              IF told THEN price ELSE price + 1, gaveUp) :
                         told \in BOOLEAN}
      BY <2>1 DEF Outcome
    <2>2. CASE o \in {Outcome(File(s, empty), FALSE, price + 1, gaveUp) :
                         s \in JournalState \ {"Missing"}}
      BY <2>2 DEF Outcome
    <2> QED
      BY <1>1, <2>1, <2>2 DEF CreateAndAppend
  <1>2. \A left, told, gaveUp : o # Outcome(left, told, 1, gaveUp)
    BY DEF Outcome
  <1>3. \/ ~Exists(f) /\ o = Outcome(File("Ready", alone), TRUE, 0, FALSE)
        \/ f.state = "Ready" /\ o = Outcome(File("Ready", with), TRUE, 0, FALSE)
    BY <1>1, <1>2 DEF AppendTo, Whole
  <1> QED
    BY <1>3 DEF Outcome, File, Whole, Damaged, Exists

\* What a step that leaves the hashes alone owes.
LEMMA CalmSame ==
    ASSUME CalmInv,
           files'["seen"].snapshot = files["seen"].snapshot,
           files'["seen"].delta = files["seen"].delta,
           ~Exists(files'["seen"].backup),
           \A c \in Conversations : Whole(segment'[c]),
           \A m \in lost.hashes : Acked(m)' => Acked(m),
           lost'.rows \subseteq lost.rows, lost'.listed \subseteq lost.listed,
           lost'.hashes \subseteq lost.hashes, hot' \subseteq hot,
           op' = op \/ op'.step # "list",
           maint'.phase = "RebuildSeen" => maint.phase = "RebuildSeen"
    PROVE  CalmInv'
  <1>1. \A m : InSeen(m)' => InSeen(m)
    BY DEF InSeen
  <1>2. \A m \in lost'.hashes : ~Acked(m)' /\ ~InSeen(m)'
    BY <1>1 DEF CalmInv
  <1>3. op'.step = "list" => op'.msg \notin lost'.hashes
    BY DEF CalmInv
  <1> QED
    BY <1>2, <1>3 DEF CalmInv

LEMMA AppendRowCalm ==
    ASSUME TypeInv, CalmInv, NothingFails, NEW m \in Messages, AppendRow(m)
    PROVE  CalmInv'
  <1> DEFINE c == ConversationOf[m]
             f == segment[c]
  <1>1. /\ c \in Conversations /\ f \in RowFile /\ TidyRows(f) /\ Whole(f)
        /\ segment \in [Conversations -> RowFile]
    BY StoreAssumption DEF TypeInv, SegmentOK, CalmInv
  <1>2. UNCHANGED <<files, hot, fate, maint>>
    BY DEF AppendRow, memoryVars
  <1>3. lost' = lost /\ (\A x \in Conversations : Whole(segment'[x]))
        /\ op'.step # "list"
    <2>1. CASE op' = At("hash", c, m, Len(f.slots)) /\ UNCHANGED <<segment, lost, troubles>>
      BY <2>1 DEF CalmInv, At
    <2>2. ASSUME NEW o \in PutRow(f, m), Pay(o.cost),
                 segment' = [segment EXCEPT ![c] = o.file],
                 lost' = IF o.weak THEN GiveUp("rows", Rows(c)) ELSE lost,
                 op' = IF o.ok THEN At("hash", c, m, Len(f.slots) + 1) ELSE NoOp
          PROVE  lost' = lost /\ (\A x \in Conversations : Whole(segment'[x]))
                 /\ op'.step # "list"
      <3>1. o.cost \in Nat
        BY <1>1, <2>2, PutRowOutcome DEF RowLeaves, Priced
      <3>2. o.cost = 0
        BY <2>2, <3>1, Free DEF TypeInv
      <3>3. o \in RowIn(f, Len(f.slots), m)
        BY <1>1, <2>2 DEF PutRow, Whole, Damaged
      <3>4. ~o.weak /\ Whole(o.file)
        <4>1. CASE o = Outcome(f, FALSE, 0, FALSE)
          BY <1>1, <4>1 DEF Outcome
        <4>2. CASE o \in AppendTo(f, Append(f.slots, m), <<m>>, <<>>)
          BY <1>1, <3>2, <4>2, FreeAppend
        <4> QED
          BY <3>3, <4>1, <4>2 DEF RowIn
      <3> QED
        BY <1>1, <2>2, <3>4 DEF CalmInv, At, NoOp
    <2> QED
      BY <2>1, <2>2 DEF AppendRow
  <1>4. \A x \in lost.hashes : Acked(x)' => Acked(x)
    BY <1>2 DEF Acked
  <1> QED
    BY <1>2, <1>3, <1>4, CalmSame DEF CalmInv

LEMMA RememberHashCalm ==
    ASSUME TypeInv, CalmInv, NothingFails, RememberHash
    PROVE  CalmInv'
  <1> PICK m : m = op.msg
    OBVIOUS
  <1> DEFINE f == files["seen"].delta
  <1>1. /\ op.step = "hash" /\ m \in Messages /\ maint.phase = "Idle"
        /\ UNCHANGED <<segment, maint, fate>>
    BY DEF RememberHash, TypeInv, OpOK
  <1>2. \A x : Acked(x)' <=> Acked(x)
    BY <1>1 DEF Acked
  <1>3. CASE InSeen(m) /\ UNCHANGED <<files, hot, lost, troubles>>
             /\ op' = [op EXCEPT !.step = "list"]
    <2>1. m \notin lost.hashes /\ op'.msg = m
      BY <1>3 DEF CalmInv, TypeInv, OpOK
    <2>2. \A x : InSeen(x)' <=> InSeen(x)
      BY <1>3 DEF InSeen
    <2> QED
      BY <1>1, <1>2, <1>3, <2>1, <2>2 DEF CalmInv
  <1>4. ASSUME ~InSeen(m), NEW o \in PutSlotRepaired("seen", f, m, 1), Pay(o.cost),
               SetDelta("seen", o.file),
               lost' = [lost EXCEPT !.hashes =
                           (IF o.weak THEN @ \cup HasSlot(f) ELSE @)
                           \ (IF o.ok THEN {m} ELSE {})],
               hot' = (IF o.ok THEN hot \cup {m} ELSE hot),
               op' = (IF o.ok THEN [op EXCEPT !.step = "list"] ELSE NoOp)
        PROVE  CalmInv'
    <2>1. PutLeaves("seen", f, m, 1, o)
      BY <1>1, CatalogKeys, IsFile, PutSlotRepairedOutcome DEF TypeInv, Value
    <2>2. o.cost = 0
      BY <1>4, <2>1, Free DEF TypeInv, PutLeaves, Priced
    <2>3. o.ok /\ ~o.weak /\ Whole(o.file)
      <3>1. o \in AppendTo(f, Put(f.slots, m, 1), Only(f.slots, m, 1), Nothing("seen"))
        BY <1>4 DEF PutSlotRepaired, PutSlot, CalmInv, Whole, Damaged
      <3> QED
        BY <2>2, <3>1, FreeAppend DEF CalmInv
    <2>4. /\ files'["seen"].delta = o.file
          /\ files'["seen"].snapshot = files["seen"].snapshot
          /\ files'["seen"].backup = files["seen"].backup
      BY <1>4, <2>1, CatalogKeys, DeltaChange DEF TypeInv, PutLeaves
    <2>5. /\ lost'.hashes = lost.hashes \ {m} /\ lost'.rows = lost.rows
          /\ lost'.listed = lost.listed
          /\ hot' = hot \cup {m}
      BY <1>4, <2>3 DEF TypeInv, RestOK
    <2>6. ASSUME NEW n \in lost'.hashes
          PROVE  ~Acked(n)' /\ ~InSeen(n)'
      <3>1. n \in Messages /\ n # m /\ n \in lost.hashes
        BY <2>5, <2>6 DEF TypeInv, RestOK
      <3>2. ~Acked(n) /\ n \notin hot /\ f.slots[n] = None
            /\ files["seen"].snapshot.slots[n] = None
        BY <3>1 DEF CalmInv, InSeen
      <3>3. o.file.slots[n] = f.slots[n]
        BY <2>1, <2>3, <3>1, CatalogKeys DEF PutLeaves
      <3> QED
        BY <1>2, <2>4, <2>5, <3>1, <3>2, <3>3 DEF InSeen
    <2>7. op'.msg = m /\ m \notin lost'.hashes
      BY <1>4, <2>3, <2>5 DEF TypeInv, OpOK
    <2> QED
      BY <1>1, <2>3, <2>4, <2>5, <2>6, <2>7 DEF CalmInv
  <1> QED
    BY <1>3, <1>4 DEF RememberHash

LEMMA ListConversationCalm ==
    ASSUME TypeInv, CalmInv, ListConversation
    PROVE  CalmInv'
  <1>1. /\ op.step = "list" /\ op' = NoOp /\ op.msg \notin lost.hashes
        /\ UNCHANGED <<segment, hot, maint>>
        /\ fate' = [fate EXCEPT ![op.msg] = "acked"]
        /\ lost' = [lost EXCEPT !.listed = @ \ {op.conv}, !.rows = @ \ {op.msg}]
    BY DEF ListConversation, CalmInv
  <1>2. files'["seen"] = files["seen"]
    BY CatalogKeys DEF ListConversation, SetDelta, TypeInv, FilesOK
  <1>3. /\ lost'.hashes = lost.hashes /\ lost'.rows \subseteq lost.rows
        /\ lost'.listed \subseteq lost.listed
    BY <1>1 DEF TypeInv, RestOK
  <1>4. \A x \in lost.hashes : Acked(x)' => Acked(x)
    BY <1>1 DEF Acked, TypeInv, RestOK
  <1>5. op'.step # "list"
    BY <1>1 DEF NoOp
  <1> QED
    BY <1>1, <1>2, <1>3, <1>4, <1>5, CalmSame DEF CalmInv

LEMMA ClearCalm ==
    ASSUME TypeInv, CalmInv, NothingFails, NEW c \in Conversations, Clear(c)
    PROVE  CalmInv'
  <1>1. /\ UNCHANGED <<files, hot, maint>>
        /\ fate' = [m \in Messages |-> IF m \in Gone(c) THEN "cleared" ELSE fate[m]]
        /\ lost' = [lost EXCEPT !.rows = @ \ Gone(c), !.hashes = @ \ Gone(c)]
    BY DEF Clear, memoryVars
  <1>2. ~Pay(1)
    BY Free DEF TypeInv
  <1>3. segment' = [segment EXCEPT ![c] = NoRows] /\ op' = At("unlist", c, None, 0)
    BY <1>2 DEF Clear
  <1>4. Whole(NoRows)
    BY DEF NoRows, File, Whole, Damaged
  <1>5. \A x \in Conversations : Whole(segment'[x])
    BY <1>3, <1>4 DEF CalmInv, TypeInv, SegmentOK
  <1>6. /\ lost'.hashes \subseteq lost.hashes /\ lost'.rows \subseteq lost.rows
        /\ lost'.listed = lost.listed
    BY <1>1 DEF TypeInv, RestOK
  <1>7. \A x \in lost.hashes : Acked(x)' => Acked(x)
    BY <1>1 DEF Acked, TypeInv, RestOK
  <1>8. op'.step # "list"
    BY <1>3 DEF At
  <1> QED
    BY <1>1, <1>5, <1>6, <1>7, <1>8, CalmSame DEF CalmInv

\* A recovery that finds no backup moves nothing.
LEMMA FreeRecover ==
    ASSUME NEW f, DOMAIN f = Roles, ~Exists(f.backup), NEW none, ~Exists(none),
           NEW o \in RecoverFile(f, none), o.cost = 0
    PROVE  /\ o.file.snapshot = f.snapshot /\ o.file.delta = f.delta
           /\ ~Exists(o.file.backup)
  <1> DEFINE Good(g) == /\ g.snapshot = f.snapshot /\ g.delta = f.delta
                        /\ ~Exists(g.backup)
  <1>1. Good(f) /\ Good([f EXCEPT !.temp = none])
    BY DEF Roles
  <1>2. ASSUME NEW t \in {f.temp, none}, NEW b \in {f.backup, none},
               o = Outcome([f EXCEPT !.temp = t, !.backup = b], TRUE,
                           IF Exists(t) \/ Exists(b) THEN 1 ELSE 0, FALSE)
        PROVE  Good(o.file)
    <2>1. Good([f EXCEPT !.temp = t, !.backup = b])
      BY <1>2 DEF Roles
    <2>2. o.file = [f EXCEPT !.temp = t, !.backup = b]
      BY <1>2 DEF Outcome
    <2> QED
      BY <2>1, <2>2
  <1>3. CASE Exists(f.snapshot)
    <2>1. PICK t \in {f.temp, none}, b \in {f.backup, none} :
             o = Outcome([f EXCEPT !.temp = t, !.backup = b], TRUE,
                         IF Exists(t) \/ Exists(b) THEN 1 ELSE 0, FALSE)
      BY <1>3 DEF RecoverFile, Outcome
    <2>2. Good(o.file)
      BY <1>2, <2>1
    <2> QED
      BY <2>2
  <1>4. CASE ~Exists(f.snapshot)
    <2>1. o \in {Outcome([f EXCEPT !.temp = none], TRUE, 0, FALSE),
                 Outcome(f, TRUE, 1, FALSE)}
      BY <1>4 DEF RecoverFile, Outcome
    <2>2. o.file \in {f, [f EXCEPT !.temp = none]}
      BY <2>1 DEF Outcome
    <2>3. CASE o.file = f
      BY <2>3
    <2>4. CASE o.file = [f EXCEPT !.temp = none]
      BY <1>1, <2>4
    <2> QED
      BY <2>2, <2>3, <2>4
  <1> QED
    BY <1>3, <1>4

LEMMA RecoverCalm ==
    ASSUME TypeInv, CalmInv, NothingFails, Recover
    PROVE  CalmInv'
  <1> PICK p : p = maint.journal
    OBVIOUS
  <1>1. /\ p \in Journals /\ UNCHANGED <<segment, hot, fate, op, lost>>
        /\ maint'.phase # "RebuildSeen"
    BY PhaseIs DEF Recover, memoryVars, AtRest, TypeInv, MaintOK, Journals,
                   Projections
  <1>2. PICK o \in RecoverFile(files[p], NoFile(p)) :
           Pay(o.cost) /\ files' = [files EXCEPT ![p] = o.file]
    BY DEF Recover
  <1>3. /\ files'["seen"].snapshot = files["seen"].snapshot
        /\ files'["seen"].delta = files["seen"].delta
        /\ ~Exists(files'["seen"].backup)
    <2>1. CASE p # "seen"
      BY <1>1, <1>2, <2>1 DEF CalmInv, TypeInv, FilesOK
    <2>2. CASE p = "seen"
      <3> DEFINE f == files["seen"]
      <3>1. GoodFiles("seen", f) /\ DOMAIN f = Roles
        BY <1>1, <2>2 DEF TypeInv, FilesOK, GoodFiles
      <3>2. o.cost = 0
        <4>1. o.cost \in Nat
          BY <1>2, <2>2, <3>1, NothingOK, RecoverOutcome DEF Priced
        <4> QED
          BY <1>2, <4>1, Free DEF TypeInv
      <3>3. ~Exists(f.backup) /\ ~Exists(NoFile("seen"))
        BY NothingOK DEF CalmInv, IsNone
      <3>4. /\ o.file.snapshot = f.snapshot /\ o.file.delta = f.delta
            /\ ~Exists(o.file.backup)
        <4>1. o \in RecoverFile(f, NoFile("seen"))
          BY <1>2, <2>2
        <4> QED
          BY <3>1, <3>2, <3>3, <4>1, FreeRecover
      <3>5. files'["seen"] = o.file
        BY <1>2, <2>2, CatalogKeys DEF TypeInv, FilesOK
      <3> QED
        BY <3>4, <3>5
    <2> QED
      BY <2>1, <2>2
  <1>4. \A x \in lost.hashes : Acked(x)' => Acked(x)
    BY <1>1 DEF Acked
  <1> QED
    BY <1>1, <1>3, <1>4, CalmSame DEF CalmInv

LEMMA LookAtSeenCalm ==
    ASSUME TypeInv, CalmInv, NothingFails, LookAtSeen
    PROVE  CalmInv'
  <1>1. UNCHANGED <<segment, files, fate, op, lost>> /\ op.step = "idle"
    BY DEF LookAtSeen, diskVars, historyVars, TypeInv, OpOK
  <1> DEFINE seen == files["seen"]
             looked == {r \in {"snapshot", "delta"} : Exists(seen[r])}
  <1>2. /\ hot' = {m \in Messages : \E r \in looked : seen[r].slots[m] # None}
        /\ maint'.phase = "RebuildSeen" =>
              \/ \E r \in looked : Damaged(seen[r])
              \/ looked = {}
    <2>1. PICK denied \in Denied :
             LET seenLooked == {r \in {"snapshot", "delta"} \ denied : Exists(seen[r])}
                 rebuild == \/ \E r \in seenLooked : Damaged(seen[r])
                            \/ /\ seenLooked = {}
                               /\ \E c \in Conversations : Listed(c)
             IN /\ Pay(IF denied = {} THEN 0 ELSE 1)
                /\ hot' = {m \in Messages :
                              \E r \in seenLooked : seen[r].slots[m] # None}
                /\ maint' = [phase |-> IF rebuild THEN "RebuildSeen" ELSE "Reconcile",
                             journal |-> None, plan |-> {}, todo |-> Conversations]
      BY DEF LookAtSeen
    <2>2. denied = {}
      BY <2>1, Free DEF TypeInv
    <2>3. {r \in {"snapshot", "delta"} \ denied : Exists(seen[r])} = looked
      BY <2>2
    <2> QED
      BY <2>1, <2>3
  <1>3. maint'.phase = "RebuildSeen" =>
           ~Exists(seen.snapshot) /\ ~Exists(seen.delta)
    BY <1>2 DEF CalmInv, Whole
  <1>4. \A m \in lost.hashes : ~Acked(m)' /\ ~InSeen(m)'
    <2> SUFFICES ASSUME NEW m \in lost.hashes
                 PROVE  ~Acked(m)' /\ ~InSeen(m)'
      OBVIOUS
    <2>1. ~Acked(m) /\ seen.delta.slots[m] = None /\ seen.snapshot.slots[m] = None
      BY DEF CalmInv, InSeen
    <2> QED
      BY <1>1, <1>2, <2>1 DEF Acked, InSeen
  <1> QED
    BY <1>1, <1>3, <1>4 DEF CalmInv

LEMMA RebuildSeenCalm ==
    ASSUME TypeInv, HashesInv, CalmInv, NothingFails, RebuildSeen
    PROVE  CalmInv'
  <1> DEFINE f == files["seen"]
  <1>1. /\ UNCHANGED <<segment, op, fate>> /\ op.step = "idle"
        /\ ~Exists(f.snapshot) /\ ~Exists(f.delta) /\ ~Exists(f.backup)
        /\ lost.hashes = {}
    BY DEF RebuildSeen, TypeInv, OpOK, CalmInv
  <1>2. GoodFiles("seen", f) /\ DOMAIN f = Roles
    BY CatalogKeys DEF TypeInv, FilesOK, GoodFiles
  <1>3. \A m \in Messages : f.delta.slots[m] = None /\ f.backup.slots[m] = None
    BY <1>1, <1>2, CatalogKeys DEF GoodFiles, Tidy, Nothing, Exists, Roles
  <1>4. \A m \in Messages : ~Acked(m)
    BY <1>1, <1>3 DEF HashesInv, CalmInv, InFiles, Base
  <1>5. ~Pay(1)
    BY Free DEF TypeInv
  <1>6. PICK hashes \in {HashesOfListed} \cup Remnants(HashesOfListed) :
        LET whole == hashes = HashesOfListed
            temp == [f EXCEPT !.temp = File("Ready", hashes)]
        IN \E o \in ReplaceFile(temp, NoFile("seen")) :
           \E delta \in SeenDeltaAfter(o.ok) :
              /\ Pay(o.cost + (IF whole THEN 0 ELSE 1)
                       + (IF o.ok /\ Exists(delta) THEN 1 ELSE 0))
              /\ files' = [files EXCEPT !["seen"] = [o.file EXCEPT !.delta = delta]]
              /\ hot' = {m \in Messages : hashes[m] # None}
              /\ lost' = IF o.weak \/ ~whole THEN GiveUp("hashes", Messages)
                         ELSE IF o.ok
                         THEN GiveUp("hashes", {m \in Messages :
                                                  ~Listed(ConversationOf[m])})
                         ELSE lost
              /\ maint' = IF o.ok THEN Phase("Reconcile", None) ELSE AtRest
    BY <1>5 DEF RebuildSeen
  <1> DEFINE whole == hashes = HashesOfListed
             temp == [f EXCEPT !.temp = File("Ready", hashes)]
  <1>7. PICK o \in ReplaceFile(temp, NoFile("seen")) :
        \E delta \in SeenDeltaAfter(o.ok) :
              /\ Pay(o.cost + (IF whole THEN 0 ELSE 1)
                       + (IF o.ok /\ Exists(delta) THEN 1 ELSE 0))
              /\ files' = [files EXCEPT !["seen"] = [o.file EXCEPT !.delta = delta]]
              /\ hot' = {m \in Messages : hashes[m] # None}
              /\ lost' = IF o.weak \/ ~whole THEN GiveUp("hashes", Messages)
                         ELSE IF o.ok
                         THEN GiveUp("hashes", {m \in Messages :
                                                  ~Listed(ConversationOf[m])})
                         ELSE lost
              /\ maint' = IF o.ok THEN Phase("Reconcile", None) ELSE AtRest
    BY <1>6
  <1>8. PICK delta \in SeenDeltaAfter(o.ok) :
              /\ Pay(o.cost + (IF whole THEN 0 ELSE 1)
                       + (IF o.ok /\ Exists(delta) THEN 1 ELSE 0))
              /\ files' = [files EXCEPT !["seen"] = [o.file EXCEPT !.delta = delta]]
              /\ hot' = {m \in Messages : hashes[m] # None}
              /\ lost' = IF o.weak \/ ~whole THEN GiveUp("hashes", Messages)
                         ELSE IF o.ok
                         THEN GiveUp("hashes", {m \in Messages :
                                                  ~Listed(ConversationOf[m])})
                         ELSE lost
              /\ maint' = IF o.ok THEN Phase("Reconcile", None) ELSE AtRest
    BY <1>7
  <1>9. /\ File("Ready", hashes) \in SlotFile("seen")
        /\ Tidy("seen", File("Ready", hashes)) /\ Exists(File("Ready", hashes))
        /\ Whole(File("Ready", hashes)) /\ File("Ready", hashes).slots = hashes
    BY <1>6, CopiedHashes DEF File, SlotFile, Tidy, JournalState, Exists, Whole, Damaged
  <1>10. GoodFiles("seen", temp) /\ temp.temp = File("Ready", hashes)
         /\ DOMAIN temp = Roles /\ temp.snapshot = f.snapshot
    BY <1>2, <1>9 DEF GoodFiles, Roles
  <1>11. o.cost \in Nat
    BY <1>10, NothingOK, ReplaceOutcome DEF Priced
  <1>12. o.cost = 0 /\ whole
    <2> DEFINE price == o.cost + (IF whole THEN 0 ELSE 1)
                         + (IF o.ok /\ Exists(delta) THEN 1 ELSE 0)
    <2>1. price \in Nat /\ Pay(price)
      BY <1>8, <1>11
    <2> HIDE DEF price
    <2>2. price = 0
      BY <2>1, Free DEF TypeInv
    <2> USE DEF price
    <2> HIDE DEF whole
    <2> QED
      BY <1>11, <2>2
  <1>13. /\ o.ok /\ ~o.weak
         /\ o.file.snapshot = File("Ready", hashes)
         /\ o.file.backup = NoFile("seen") /\ DOMAIN o.file = Roles
    <2> DEFINE alone == [temp EXCEPT !.backup = NoFile("seen")]
               aside == [alone EXCEPT !.backup = temp.snapshot,
                                      !.snapshot = NoFile("seen")]
               installed == [aside EXCEPT !.snapshot = temp.temp,
                                          !.temp = NoFile("seen")]
               done == [installed EXCEPT !.backup = NoFile("seen")]
    <2>1. \A left, told, gaveUp : o # Outcome(left, told, 1, gaveUp)
      BY <1>12 DEF Outcome
    <2>2. o = Outcome(done, TRUE, 0, FALSE)
      <3>1. Exists(temp.temp)
        BY <1>9, <1>10
      <3>2. \/ o \in {Outcome(done, TRUE, 0, FALSE),
                     Outcome(installed, TRUE, 1, FALSE),
                     Outcome(temp, FALSE, 1, FALSE)}
            \/ \E left \in {alone, aside}, only \in BOOLEAN :
                  o = Outcome(left, FALSE, 1, only)
        <4> HIDE DEF temp
        <4> QED
          BY <1>7, <3>1 DEF ReplaceFile
      <3> HIDE DEF done, installed, temp, alone, aside
      <3> QED
        BY <2>1, <3>2
    <2>3. DOMAIN done = Roles /\ done.snapshot = File("Ready", hashes)
          /\ done.backup = NoFile("seen")
      BY <1>10 DEF Roles
    <2> HIDE DEF done
    <2> QED
      BY <2>2, <2>3 DEF Outcome
  <1>14. /\ files'["seen"].snapshot = File("Ready", hashes)
         /\ files'["seen"].backup = NoFile("seen")
         /\ files'["seen"].delta = delta
    BY <1>8, <1>13, CatalogKeys DEF TypeInv, FilesOK, Roles
  <1>15. delta \in {NoFile("seen"), f.delta}
    BY <1>8 DEF SeenDeltaAfter
  <1>16. /\ ~Exists(NoFile("seen")) /\ Whole(NoFile("seen"))
         /\ \A m \in Messages : NoFile("seen").slots[m] = None
    BY CatalogKeys DEF NoFile, File, Nothing, Exists, Whole, Damaged
  <1>17. /\ lost'.hashes = {m \in Messages : ~Listed(ConversationOf[m])}
         /\ lost'.rows = lost.rows /\ lost'.listed = lost.listed
    BY <1>1, <1>8, <1>12, <1>13 DEF GiveUp, TypeInv, RestOK
  <1>18. ASSUME NEW m \in lost'.hashes
         PROVE  ~Acked(m)' /\ ~InSeen(m)'
    <2>1. m \in Messages /\ ~Acked(m) /\ hashes[m] = None
      BY <1>4, <1>12, <1>17, <1>18 DEF HashesOfListed
    <2>2. m \notin hot' /\ delta.slots[m] = None
      BY <1>3, <1>8, <1>15, <1>16, <2>1
    <2> QED
      BY <1>1, <1>9, <1>14, <2>1, <2>2 DEF Acked, InSeen
  <1>19. maint'.phase # "RebuildSeen"
    BY <1>8, <1>13, PhaseIs DEF TypeInv
  <1> QED
    BY <1>1, <1>9, <1>14, <1>15, <1>16, <1>17, <1>18, <1>19 DEF CalmInv

LEMMA ReconcileConversationCalm ==
    ASSUME TypeInv, CalmInv, NothingFails, NEW c \in Conversations,
           ReconcileConversation(c)
    PROVE  CalmInv'
  <1> DEFINE f == segment[c]
  <1>1. /\ f \in RowFile /\ TidyRows(f) /\ Whole(f)
        /\ segment \in [Conversations -> RowFile]
    BY DEF TypeInv, SegmentOK, CalmInv
  <1>2. ~Pay(1)
    BY Free DEF TypeInv
  <1>3. /\ UNCHANGED <<files, hot, op, fate>>
        /\ maint'.phase # "RebuildSeen"
    <2>1. UNCHANGED <<files, hot, op, fate>>
      BY DEF ReconcileConversation
    <2>2. maint.phase = "Reconcile" /\ maint' = [maint EXCEPT !.todo = @ \ {c}]
      BY DEF ReconcileConversation
    <2> QED
      BY <2>1, <2>2 DEF TypeInv, MaintOK
  <1>4. \A x \in lost.hashes : Acked(x)' => Acked(x)
    BY <1>3 DEF Acked
  <1>5. ASSUME NEW o \in Inspected(f),
               segment' = [segment EXCEPT ![c] = o.file],
               lost' = [lost EXCEPT
                           !.rows = IF o.weak THEN @ \cup Rows(c) ELSE @,
                           !.listed = IF o.ok THEN @ ELSE @ \cup {c}]
        PROVE  CalmInv'
    <2>1. o = Outcome(f, f.state # "Incompatible", 0, FALSE)
          /\ f.state # "Incompatible"
      BY <1>1, <1>5 DEF Inspected, Whole, Damaged
    <2>2. o.file = f /\ o.ok /\ ~o.weak
      BY <2>1 DEF Outcome
    <2>3. /\ segment' = segment
          /\ lost'.rows = lost.rows /\ lost'.listed = lost.listed
          /\ lost'.hashes = lost.hashes
      BY <1>1, <1>5, <2>2 DEF TypeInv, RestOK
    <2> QED
      BY <1>3, <1>4, <2>3, CalmSame DEF CalmInv
  <1>6. CASE Pay(1)
    BY <1>2, <1>6
  <1> QED
    BY <1>5, <1>6 DEF ReconcileConversation

LEMMA CalmStep ==
    TypeInv /\ HashesInv /\ CalmInv
    /\ [StoreNext]_storeVars /\ [NothingFails]_storeVars => CalmInv'
  <1> SUFFICES ASSUME TypeInv, HashesInv, CalmInv, [StoreNext]_storeVars,
                      [NothingFails]_storeVars
               PROVE  CalmInv'
    OBVIOUS
  <1> DEFINE Quiet ==
         /\ files'["seen"] = files["seen"] /\ UNCHANGED <<segment, fate>>
         /\ lost'.rows = lost.rows /\ lost'.hashes = lost.hashes
         /\ lost'.listed \subseteq lost.listed
         /\ hot' \subseteq hot
         /\ op' = op \/ op'.step # "list"
         /\ maint'.phase = "RebuildSeen" => maint.phase = "RebuildSeen"
  <1>1. Quiet => CalmInv'
    BY CalmSame DEF CalmInv, Acked
  <1>2. \A p \in Projections : \A f :
           SetDelta(p, f) \/ SetTemp(p, f) \/ files' = [files EXCEPT ![p] = f]
              => files'["seen"] = files["seen"]
    BY CatalogKeys DEF SetDelta, SetTemp, TypeInv, FilesOK, Projections
  <1>3. CASE UNCHANGED storeVars
    BY <1>1, <1>3 DEF storeVars, diskVars, memoryVars, historyVars
  <1>4. SUFFICES ASSUME StoreNext, NothingFails PROVE CalmInv'
    BY <1>3
  <1>5. CASE Caller
    <2>1. ASSUME NEW c \in Conversations, MarkRead(c)
          PROVE  Quiet
      BY <1>2, <2>1, CatalogKeys DEF MarkRead, memoryVars, At, NoOp
    <2>2. CASE Relist
      <3>1. files'["seen"] = files["seen"]
        BY <1>2, <2>2, CatalogKeys DEF Relist
      <3> QED
        BY <1>1, <2>2, <3>1 DEF Relist, NoOp
    <2>3. CASE Unlist
      <3>1. files'["seen"] = files["seen"]
        BY <1>2, <2>3, CatalogKeys DEF Unlist
      <3> QED
        BY <1>1, <2>3, <3>1 DEF Unlist, memoryVars, historyVars, At
    <2>4. CASE Unmark
      <3>1. files'["seen"] = files["seen"]
        BY <1>2, <2>4, CatalogKeys DEF Unmark
      <3> QED
        BY <1>1, <2>4, <3>1 DEF Unmark, NoOp
    <2> QED
      BY <1>1, <1>4, <1>5, <2>1, <2>2, <2>3, <2>4, AppendRowCalm, RememberHashCalm,
         ListConversationCalm, ClearCalm DEF Caller
  <1>6. CASE Hydrate
    <2>1. CASE BeginHydration
      <3>1. /\ lost'.hashes = lost.hashes /\ lost'.rows = lost.rows
            /\ lost'.listed \subseteq lost.listed
        BY <2>1 DEF BeginHydration, TypeInv, RestOK
      <3>2. maint'.phase # "RebuildSeen"
        BY <2>1, PhaseIs DEF BeginHydration, TypeInv
      <3> QED
        BY <1>1, <2>1, <3>1, <3>2 DEF BeginHydration, diskVars
    <2>2. CASE Replay
      <3>1. maint'.phase # "RebuildSeen"
        BY <2>2, PhaseIs DEF Replay, TypeInv
      <3> QED
        BY <1>1, <2>2, <3>1 DEF Replay, diskVars
    <2>3. CASE FinishHydration
      <3>1. maint'.phase # "RebuildSeen"
        BY <2>3 DEF FinishHydration, AtRest
      <3> QED
        BY <1>1, <2>3, <3>1 DEF FinishHydration, diskVars, historyVars
    <2> QED
      BY <1>4, <1>6, <2>1, <2>2, <2>3, RecoverCalm, LookAtSeenCalm, RebuildSeenCalm,
         ReconcileConversationCalm DEF Hydrate
  <1>7. CASE BeginCompaction \/ Compact
    <2>1. UNCHANGED <<segment, fate, lost, hot, op>>
      BY <1>7 DEF BeginCompaction, Compact, Inspect, Create, WriteRecord, Replace,
                  RemoveDelta, diskVars, memoryVars, historyVars
    <2>2. /\ files'["seen"] = files["seen"]
          /\ maint'.phase = "RebuildSeen" => maint.phase = "RebuildSeen"
      <3>1. CASE BeginCompaction
        BY <3>1, PhaseIs DEF BeginCompaction, diskVars, TypeInv
      <3>2. CASE Inspect
        <4>1. \/ maint' = maint
              \/ \E plan : maint' = [NextOf(plan) EXCEPT !.plan = plan]
          BY <3>2 DEF Inspect
        <4>2. maint'.phase # "RebuildSeen"
          BY <3>2, <4>1 DEF Inspect, NextOf, Phase, AtRest, TypeInv, MaintOK
        <4> QED
          BY <3>2, <4>2 DEF Inspect, diskVars
      <3>3. CASE Create
        BY <1>2, <3>3 DEF Create, Phase, TypeInv, MaintOK
      <3>4. ASSUME NEW c \in Conversations, WriteRecord(c)
            PROVE  /\ files'["seen"] = files["seen"]
                   /\ maint'.phase = "RebuildSeen" => maint.phase = "RebuildSeen"
        BY <1>2, <3>4 DEF WriteRecord, TypeInv, MaintOK
      <3>5. CASE Replace
        BY <1>2, <3>5 DEF Replace, AfterReplace, Phase, TypeInv, MaintOK
      <3>6. CASE RemoveDelta
        <4>1. files'["seen"] = files["seen"]
          BY <1>2, <3>6 DEF RemoveDelta, TypeInv, MaintOK
        <4>2. \E q : maint' = [NextOf(q) EXCEPT !.plan = @ \ {"catalog", maint.journal}]
          BY <3>6 DEF RemoveDelta
        <4>3. maint'.phase # "RebuildSeen"
          BY <3>6, <4>2 DEF NextOf, Phase, AtRest, TypeInv, MaintOK
        <4> QED
          BY <4>1, <4>3
      <3> QED
        BY <1>7, <3>1, <3>2, <3>3, <3>4, <3>5, <3>6 DEF Compact
    <2> QED
      BY <1>1, <2>1, <2>2
  <1>8. CASE Stop
    BY <1>1, <1>8 DEF Stop, AtRest, diskVars, memoryVars, historyVars
  <1>9. CASE PowerLoss
    BY <1>1, <1>9 DEF PowerLoss, AtRest, NoOp, diskVars, historyVars
  <1> QED
    BY <1>4, <1>5, <1>6, <1>7, <1>8, <1>9 DEF StoreNext

\* Nothing is excused.
AckedIsWhole ==
    \A m \in Messages :
        Acked(m) => /\ m \in Rows(ConversationOf[m])
                    /\ ready => Listed(ConversationOf[m])
                    /\ InFiles(m)

(* As long as no operation on a file fails, is torn or is denied its file, *)
(* an acknowledged text is in its segment, listed, and known by its hash,  *)
(* without exception: the power may go between any two operations, also of *)
(* a hydration, a rebuild of the hashes or a compaction, as often as it    *)
(* likes.                                                                  *)
THEOREM PowerLossLosesNothing ==
    StoreSpec /\ [][NothingFails]_storeVars => []AckedIsWhole
  <1>1. StoreInit => CalmInv
    <2> SUFFICES ASSUME StoreInit PROVE CalmInv
      OBVIOUS
    <2>1. files["seen"] = [r \in Roles |-> NoFile("seen")]
      BY CatalogKeys DEF StoreInit
    <2>2. ~Exists(NoFile("seen")) /\ Whole(NoFile("seen")) /\ Whole(NoRows)
      BY DEF NoFile, NoRows, File, Exists, Whole, Damaged
    <2> QED
      BY <2>1, <2>2 DEF StoreInit, CalmInv, AtRest, NoOp, Roles
  <1>2. StoreInit => HashesInv
    BY DEF StoreInit, HashesInv, Acked, NoOp
  <1>3. StoreInit => RowsInv
    BY DEF StoreInit, RowsInv, Acked, NoOp
  <1>4. RowsInv /\ HashesInv /\ CalmInv => AckedIsWhole
    <2> SUFFICES ASSUME RowsInv, HashesInv, CalmInv, NEW m \in Messages, Acked(m)
                 PROVE  /\ m \in Rows(ConversationOf[m])
                        /\ ready => Listed(ConversationOf[m])
                        /\ InFiles(m)
      BY DEF AckedIsWhole
    <2>1. m \notin lost.rows /\ m \notin lost.hashes
          /\ ConversationOf[m] \notin lost.listed
      BY DEF CalmInv
    <2> QED
      BY <2>1 DEF RowsInv, HashesInv, Reconciled
  <1> QED
    BY <1>1, <1>2, <1>3, <1>4, InitTypeInv, TypeStep, RowsStep, HashesStep, CalmStep,
       PTL DEF StoreSpec
=============================================================================
