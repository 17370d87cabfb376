----------------------- MODULE IncomingDelivery_proofs -----------------------
(***************************************************************************)
(* What the path of a received text guarantees for any number of texts,    *)
(* any depth of its queues, and any number of faults, reboots and clears.  *)
(***************************************************************************)
EXTENDS IncomingDelivery, SequenceTheorems, FiniteSetTheorems, TLAPS

Durable(m) == IF m \in Lxmf THEN m \in seen ELSE m \in row(ConversationOf[m])

\* The window holds durable texts only: answering a duplicate of one of them
\* as accepted is right.
RecentIsDurable == \A m \in ToSet(recent) : Durable(m)

\* A deferred text has one place in its queue, and was not shown lately.
DeferredIsNew ==
  /\ IsInjective(deferred)
  /\ ToSet(deferred) \cap ToSet(recent) = {}

\* The inductive invariant.
IInv ==
  /\ TypeOK
  /\ RecentIsDurable
  /\ DeferredIsNew
  /\ AcceptedIsDurable
  /\ TakenIsAccountedFor

-----------------------------------------------------------------------------
(* Sequences *)

\* The elements of a sequence that grows by one.
LEMMA ToSetAppend ==
  ASSUME NEW S, NEW s \in Seq(S), NEW e \in S
  PROVE  /\ ToSet(Append(s, e)) = ToSet(s) \cup {e}
         /\ Append(s, e) \in Seq(S)
         /\ Len(Append(s, e)) = Len(s) + 1
         /\ IsInjective(s) /\ e \notin ToSet(s) => IsInjective(Append(s, e))
<1>1. /\ Append(s, e) \in Seq(S)
      /\ Len(Append(s, e)) = Len(s) + 1
      /\ \A i \in 1..Len(s) : Append(s, e)[i] = s[i]
      /\ Append(s, e)[Len(s) + 1] = e
  BY AppendProperties
<1>2. /\ DOMAIN s = 1..Len(s) /\ DOMAIN Append(s, e) = 1..(Len(s) + 1)
      /\ Len(s) \in Nat
  BY <1>1, LenProperties
<1>3. ToSet(Append(s, e)) = ToSet(s) \cup {e}
  BY <1>1, <1>2 DEF ToSet
<1>4. IsInjective(s) /\ e \notin ToSet(s) => IsInjective(Append(s, e))
  BY <1>1, <1>2 DEF IsInjective, ToSet
<1> QED
  BY <1>1, <1>3, <1>4

\* The elements of a sequence that loses its first.
LEMMA ToSetTail ==
  ASSUME NEW S, NEW s \in Seq(S), s # <<>>
  PROVE  /\ ToSet(s) = ToSet(Tail(s)) \cup {Head(s)}
         /\ Head(s) \in S
         /\ Tail(s) \in Seq(S)
         /\ Len(Tail(s)) = Len(s) - 1
         /\ IsInjective(s) => IsInjective(Tail(s)) /\ Head(s) \notin ToSet(Tail(s))
<1>1. /\ Head(s) \in S /\ Head(s) = s[1]
      /\ Tail(s) \in Seq(S)
      /\ Len(Tail(s)) = Len(s) - 1
      /\ \A i \in 1..Len(Tail(s)) : Tail(s)[i] = s[i + 1]
  BY HeadTailProperties
<1>2. /\ DOMAIN s = 1..Len(s) /\ DOMAIN Tail(s) = 1..(Len(s) - 1)
      /\ Len(s) \in Nat \ {0}
  BY <1>1, LenProperties, EmptySeq
<1>3. ToSet(s) = ToSet(Tail(s)) \cup {Head(s)}
  <2>1. ASSUME NEW i \in 1..Len(s) PROVE s[i] \in ToSet(Tail(s)) \cup {Head(s)}
    <3>1. CASE i = 1
      BY <1>1, <3>1
    <3>2. CASE i # 1
      <4>1. i - 1 \in DOMAIN Tail(s) /\ Tail(s)[i - 1] = s[i]
        BY <1>1, <1>2, <3>2
      <4> QED
        BY <4>1 DEF ToSet
    <3> QED
      BY <3>1, <3>2
  <2>2. ToSet(Tail(s)) \cup {Head(s)} \subseteq ToSet(s)
    BY <1>1, <1>2 DEF ToSet
  <2> QED
    BY <1>2, <2>1, <2>2 DEF ToSet
<1>4. IsInjective(s) => IsInjective(Tail(s)) /\ Head(s) \notin ToSet(Tail(s))
  BY <1>1, <1>2 DEF IsInjective, ToSet
<1> QED
  BY <1>1, <1>3, <1>4

\* The empty sequence.
LEMMA ToSetEmpty ==
  ToSet(<<>>) = {} /\ IsInjective(<<>>) /\ Len(<<>>) = 0 /\ \A S : <<>> \in Seq(S)
BY DEF ToSet, IsInjective

-----------------------------------------------------------------------------
(* The store and the window *)

\* An append, done or failed, writes the row and the hash of its text or leaves
\* them; done, it has written both.
LEMMA AppendShape ==
  ASSUME TypeOK, NEW m \in Messages, AppendSucceeds(m) \/ AppendFails(m)
  PROVE  /\ rows' \in {rows, WithRow(m)}
         /\ seen' \in {seen, WithHash(m)}
         /\ torn' \subseteq Conversations /\ hashesTorn' \in BOOLEAN
         /\ AppendSucceeds(m) => rows' = WithRow(m) /\ seen' = WithHash(m)
<1>1. ConversationOf[m] \in Conversations
  BY MessagesAssumption
<1>2. CASE AppendSucceeds(m)
  BY <1>2 DEF AppendSucceeds, WriteRow, WriteHash, damage, TypeOK
<1>3. CASE ~storeReady /\ UNCHANGED <<store, damage, faults>>
  BY <1>3 DEF AppendSucceeds, store, damage, TypeOK
<1>4. CASE AppendBlocked(m)
  <2>1. UNCHANGED damage /\ (UNCHANGED store \/ (WriteRow(m) /\ UNCHANGED seen))
    BY <1>4 DEF AppendBlocked
  <2>2. AppendSucceeds(m) => rows' = WithRow(m) /\ seen' = WithHash(m)
    BY DEF AppendSucceeds, WriteRow, WriteHash
  <2> QED
    BY <2>1, <2>2 DEF WriteRow, store, damage, TypeOK
<1>5. CASE AppendFaulty(m)
  <2>1. AppendSucceeds(m) => rows' = WithRow(m) /\ seen' = WithHash(m)
    BY DEF AppendSucceeds, WriteRow, WriteHash
  <2>2. CASE /\ UNCHANGED <<store, hashesTorn>>
             /\ torn' \in {torn, torn \cup {c \in {ConversationOf[m]} : WithRow(m) # rows}}
    BY <1>1, <2>1, <2>2 DEF store, TypeOK
  <2>3. CASE /\ WriteRow(m)
             /\ hashesTorn' \in {hashesTorn, hashesTorn \/ WithHash(m) # seen}
             /\ UNCHANGED <<seen, torn>>
    BY <2>1, <2>3 DEF WriteRow, TypeOK
  <2>4. CASE WriteRow(m) /\ WriteHash(m) /\ UNCHANGED damage
    BY <2>1, <2>4 DEF WriteRow, WriteHash, damage, TypeOK
  <2> QED
    BY <1>5, <2>2, <2>3, <2>4 DEF AppendFaulty
<1> QED
  BY <1>2, <1>3, <1>4, <1>5 DEF AppendFails

\* An append, done or failed, only adds to rows and hashes; done, it makes the
\* text durable.
LEMMA AppendEffects ==
  ASSUME TypeOK, NEW m \in Messages, AppendSucceeds(m) \/ AppendFails(m)
  PROVE  /\ rows' \in [Conversations -> Seq(Messages)]
         /\ seen' \subseteq Lxmf
         /\ seen \subseteq seen'
         /\ torn' \subseteq Conversations /\ hashesTorn' \in BOOLEAN
         /\ \A c \in Conversations : row(c) \subseteq row(c)'
         /\ AppendSucceeds(m) => m \in row(ConversationOf[m])' /\ Durable(m)'
<1> DEFINE c == ConversationOf[m]
<1>1. c \in Conversations /\ rows[c] \in Seq(Messages)
  BY MessagesAssumption DEF TypeOK
<1>2. /\ rows' \in {rows, WithRow(m)} /\ seen' \in {seen, WithHash(m)}
      /\ torn' \subseteq Conversations /\ hashesTorn' \in BOOLEAN
      /\ AppendSucceeds(m) => rows' = WithRow(m) /\ seen' = WithHash(m)
  BY AppendShape
<1>3. /\ seen' \subseteq Lxmf /\ seen \subseteq seen'
      /\ AppendSucceeds(m) /\ m \in Lxmf => m \in seen'
  BY <1>2 DEF WithHash, TypeOK
<1>4. CASE rows' = rows
  <2>1. AppendSucceeds(m) => m \in row(c)
    <3> SUFFICES ASSUME WithRow(m) = rows PROVE m \in row(c)
      BY <1>2, <1>4
    <3>1. [rows EXCEPT ![c] = Append(@, m)] # rows
      <4>1. Len(Append(rows[c], m)) = Len(rows[c]) + 1 /\ Len(rows[c]) \in Nat
        BY <1>1, AppendProperties, LenProperties
      <4> QED
        BY <1>1, <4>1 DEF TypeOK
    <3>2. rows[c] # <<>> /\ Last(rows[c]) = m
      BY <3>1 DEF WithRow
    <3>3. Len(rows[c]) \in DOMAIN rows[c]
      BY <1>1, <3>2, EmptySeq, LenProperties
    <3> QED
      BY <3>2, <3>3 DEF Last, row, ToSet
  <2> QED
    BY <1>1, <1>2, <1>3, <1>4, <2>1 DEF TypeOK, Durable, row
<1>5. CASE rows' = [rows EXCEPT ![c] = Append(@, m)]
  <2>1. rows'[c] = Append(rows[c], m) /\ \A d \in Conversations \ {c} : rows'[d] = rows[d]
    BY <1>1, <1>5 DEF TypeOK
  <2>2. ToSet(rows'[c]) = ToSet(rows[c]) \cup {m} /\ rows'[c] \in Seq(Messages)
    BY <1>1, <2>1, ToSetAppend
  <2> QED
    BY <1>1, <1>2, <1>3, <1>5, <2>1, <2>2 DEF TypeOK, Durable, row
<1> QED
  BY <1>2, <1>4, <1>5 DEF WithRow

\* What is durable stays durable when the store only grows.
LEMMA DurableGrows ==
  ASSUME seen \subseteq seen',
         \A c \in Conversations : row(c) \subseteq row(c)'
  PROVE  \A m \in Messages : Durable(m) => Durable(m)'
BY MessagesAssumption DEF Durable

\* Remembering a text overwrites at most the oldest one of the window.
LEMMA RememberEffects ==
  ASSUME TypeOK, NEW m \in Messages, RememberIncoming(m)
  PROVE  /\ recent' \in Seq(Messages)
         /\ Len(recent') <= RecentLimit
         /\ ToSet(recent') \subseteq ToSet(recent) \cup {m}
<1> DEFINE kept == IF Len(recent) < RecentLimit THEN recent ELSE Tail(recent)
<1>1. Len(recent) \in Nat /\ RecentLimit \in Nat \ {0}
  BY BoundsAssumption, LenProperties DEF TypeOK
<1>2. kept \in Seq(Messages) /\ ToSet(kept) \subseteq ToSet(recent) /\ Len(kept) < RecentLimit
  <2>1. CASE Len(recent) < RecentLimit
    BY <2>1 DEF TypeOK
  <2>2. CASE ~(Len(recent) < RecentLimit)
    <3>1. recent # <<>>
      BY <1>1, <2>2, ToSetEmpty
    <3> QED
      BY <1>1, <2>2, <3>1, ToSetTail DEF TypeOK
  <2> QED
    BY <2>1, <2>2
<1>3. recent' = Append(kept, m)
  BY DEF RememberIncoming
<1> HIDE DEF kept
<1>4. /\ Len(Append(kept, m)) = Len(kept) + 1 /\ Len(kept) \in Nat
      /\ ToSet(Append(kept, m)) = ToSet(kept) \cup {m}
      /\ Append(kept, m) \in Seq(Messages)
  BY <1>2, ToSetAppend, LenProperties
<1> QED
  BY <1>1, <1>2, <1>3, <1>4

-----------------------------------------------------------------------------
(* Steps *)

\* The depths are positive numbers.
LEMMA Depths ==
  /\ InboxDepth \in Nat \ {0} /\ DeferredDepth \in Nat \ {0}
  /\ RecentLimit \in Nat \ {0} /\ DrainBudget \in Nat \ {0}
  /\ 0 \in 0..DrainBudget /\ DrainBudget \in 0..DrainBudget
BY BoundsAssumption

\* Nothing has arrived.
LEMMA InitIInv == Init => IInv
<1> SUFFICES ASSUME Init PROVE IInv
  OBVIOUS
<1>1. TypeOK
  <2>1. torn \subseteq Conversations /\ hashesTorn \in BOOLEAN
    BY DEF Init
  <2> QED
    BY <2>1, ToSetEmpty, Depths DEF Init, TypeOK
<1> QED
  BY <1>1, ToSetEmpty DEF Init, IInv, RecentIsDurable, DeferredIsNew, AcceptedIsDurable,
     TakenIsAccountedFor

\* A step of the service: the store only grows, and at most the text m changes
\* its place.
StoreGrows ==
  /\ rows' \in [Conversations -> Seq(Messages)]
  /\ seen' \subseteq Lxmf
  /\ seen \subseteq seen'
  /\ \A c \in Conversations : row(c) \subseteq row(c)'

TextStep(m) ==
  /\ StoreGrows
  /\ torn' \subseteq Conversations /\ hashesTorn' \in BOOLEAN
  /\ inbox' \in Seq(Messages) /\ Len(inbox') <= InboxDepth
  /\ drained' \in 0..DrainBudget
  /\ storeReady' \in BOOLEAN
  /\ deferred' \in Seq(Messages) /\ Len(deferred') <= DeferredDepth
  /\ recent' \in Seq(Messages) /\ Len(recent') <= RecentLimit
  /\ shown' \in [Messages -> Nat]
  /\ taken' \subseteq taken \cup {m}
  /\ accepted' \subseteq accepted \cup {m}
  /\ refused \subseteq refused' /\ refused' \subseteq Messages
  /\ ToSet(deferred) \subseteq ToSet(deferred') \cup {m}
  /\ ToSet(recent') \subseteq ToSet(recent) \cup {m}
  /\ IsInjective(deferred') /\ ToSet(deferred') \cap ToSet(recent') = {}
  /\ m \in taken' =>
       m \in row(ConversationOf[m])' \cup seen' \cup ToSet(deferred') \cup refused'
  /\ Durable(m)' \/ (ToSet(recent') \subseteq ToSet(recent) /\ accepted' \subseteq accepted)

\* A step that moves one text keeps the invariant.
LEMMA TextStepKeepsIInv ==
  ASSUME IInv, NEW m \in Messages, TextStep(m)
  PROVE  IInv'
<1> USE DEF IInv, TextStep, StoreGrows
<1>1. TypeOK'
  BY DEF TypeOK
<1>2. ToSet(recent) \subseteq Messages
  BY LenProperties DEF TypeOK, ToSet
<1>3. \A x \in Messages : Durable(x) => Durable(x)'
  BY DurableGrows
<1>4. RecentIsDurable'
  BY <1>2, <1>3 DEF RecentIsDurable
<1>5. DeferredIsNew'
  BY DEF DeferredIsNew
<1>6. AcceptedIsDurable'
  BY <1>3 DEF AcceptedIsDurable, TypeOK, Durable
<1>7. TakenIsAccountedFor'
  BY MessagesAssumption DEF TakenIsAccountedFor, TypeOK
<1> QED
  BY <1>1, <1>4, <1>5, <1>6, <1>7

\* processIncoming begins: the oldest deferred text is stored and shown, or
\* stays where it is.
LEMMA RetryKeepsIInv ==
  ASSUME IInv, RetryDeferredIncoming
  PROVE  IInv'
<1> USE DEF IInv
<1>1. /\ drained' \in 0..DrainBudget
      /\ UNCHANGED <<inbox, storeReady, taken, refused, arrivals, reboots, clears>>
  BY Depths DEF RetryDeferredIncoming
<1>2. CASE UNCHANGED <<store, damage, deferred, recent, shown, accepted>>
  BY <1>1, <1>2 DEF damage, TypeOK, RecentIsDurable, DeferredIsNew, AcceptedIsDurable, Durable,
     TakenIsAccountedFor, store, row
<1>3. CASE /\ deferred # <<>>
           /\ AppendFails(Head(deferred))
           /\ UNCHANGED <<deferred, recent, shown, accepted>>
  <2>1. Head(deferred) \in Messages /\ Head(deferred) \in ToSet(deferred)
    BY <1>3, ToSetTail DEF TypeOK
  <2>2. StoreGrows /\ torn' \subseteq Conversations /\ hashesTorn' \in BOOLEAN
    BY <1>3, <2>1, AppendEffects DEF StoreGrows
  <2>3. TextStep(Head(deferred))
    BY <1>1, <1>3, <2>1, <2>2 DEF TextStep, TypeOK, DeferredIsNew
  <2> QED
    BY <2>1, <2>3, TextStepKeepsIInv
<1>4. CASE /\ deferred # <<>>
           /\ AppendSucceeds(Head(deferred))
           /\ CommitIncoming(Head(deferred))
           /\ deferred' = Tail(deferred)
  <2>1. PICK m : m = Head(deferred)
    OBVIOUS
  <2>2. /\ m \in Messages
        /\ ToSet(deferred) = ToSet(deferred') \cup {m}
        /\ deferred' \in Seq(Messages)
        /\ Len(deferred') = Len(deferred) - 1
        /\ IsInjective(deferred') /\ m \notin ToSet(deferred')
    BY <1>4, <2>1, ToSetTail DEF TypeOK, DeferredIsNew
  <2>3. Len(deferred') <= DeferredDepth
    BY <2>2, LenProperties, Depths DEF TypeOK
  <2>4. /\ StoreGrows /\ m \in row(ConversationOf[m])' /\ Durable(m)'
        /\ torn' \subseteq Conversations /\ hashesTorn' \in BOOLEAN
    BY <1>4, <2>1, <2>2, AppendEffects DEF StoreGrows
  <2>5. /\ recent' \in Seq(Messages) /\ Len(recent') <= RecentLimit
        /\ ToSet(recent') \subseteq ToSet(recent) \cup {m}
    BY <1>4, <2>1, <2>2, RememberEffects DEF CommitIncoming
  <2>6. accepted' = accepted \cup {m} /\ shown' \in [Messages -> Nat]
    BY <1>4, <2>1, <2>2 DEF CommitIncoming, TypeOK
  <2>7. TextStep(m)
    BY <1>1, <2>2, <2>3, <2>4, <2>5, <2>6 DEF TextStep, TypeOK, DeferredIsNew
  <2> QED
    BY <2>2, <2>7, TextStepKeepsIInv
<1> QED
  BY <1>2, <1>3, <1>4 DEF RetryDeferredIncoming

\* One text is taken from the adapter: a duplicate is durable already, a new
\* text becomes durable, is deferred, or is refused.
LEMMA DrainKeepsIInv ==
  ASSUME IInv, DrainIncoming
  PROVE  IInv'
<1> USE DEF IInv
<1>1. PICK m : m = Head(inbox)
  OBVIOUS
<1>2. /\ m \in Messages
      /\ inbox' \in Seq(Messages)
      /\ Len(inbox') = Len(inbox) - 1
  BY <1>1, ToSetTail DEF DrainIncoming, TypeOK
<1>3. Len(inbox') <= InboxDepth
  BY <1>2, LenProperties, Depths DEF TypeOK
<1>4. /\ drained' \in 0..DrainBudget
      /\ taken' = taken \cup {m}
      /\ storeReady' = storeReady
  <2>1. drained < DrainBudget /\ drained' = drained + 1
    BY DEF DrainIncoming
  <2>2. taken' = taken \cup {m} /\ storeReady' = storeReady
    BY <1>1 DEF DrainIncoming
  <2> QED
    BY <2>1, <2>2, Depths DEF TypeOK
<1>5. PICK answered :
        \/ /\ IsDuplicateIncoming(m, answered)
           /\ accepted' = accepted \cup {m}
           /\ UNCHANGED <<store, damage, faults, deferred, recent, shown, refused>>
        \/ /\ ~IsDuplicateIncoming(m, answered)
           /\ IsDeferredIncoming(m)
           /\ UNCHANGED <<store, damage, faults, deferred, recent, shown, answers>>
        \/ /\ ~IsDuplicateIncoming(m, answered)
           /\ ~IsDeferredIncoming(m)
           /\ \/ AppendSucceeds(m) /\ CommitIncoming(m) /\ UNCHANGED <<deferred, refused>>
              \/ AppendFails(m) /\ DeferOrRefuse(m) /\ UNCHANGED <<recent, shown>>
  BY <1>1 DEF DrainIncoming
<1>6. CASE /\ IsDuplicateIncoming(m, answered)
           /\ accepted' = accepted \cup {m}
           /\ UNCHANGED <<store, damage, faults, deferred, recent, shown, refused>>
  <2>1. Durable(m)
    BY <1>6 DEF IsDuplicateIncoming, RecentIsDurable, Durable
  <2>2. /\ StoreGrows /\ Durable(m)'
        /\ torn' \subseteq Conversations /\ hashesTorn' \in BOOLEAN
    BY <1>6, <2>1 DEF StoreGrows, store, damage, row, TypeOK, Durable
  <2>3. m \in row(ConversationOf[m])' \cup seen'
    BY <2>2 DEF Durable
  <2>4. TextStep(m)
    BY <1>2, <1>3, <1>4, <1>6, <2>2, <2>3 DEF TextStep, TypeOK, DeferredIsNew
  <2> QED
    BY <1>2, <2>4, TextStepKeepsIInv
<1>7. CASE /\ IsDeferredIncoming(m)
           /\ UNCHANGED <<store, damage, faults, deferred, recent, shown, answers>>
  <2>1. StoreGrows /\ torn' \subseteq Conversations /\ hashesTorn' \in BOOLEAN
    BY <1>7 DEF StoreGrows, store, damage, row, TypeOK
  <2>2. TextStep(m)
    BY <1>2, <1>3, <1>4, <1>7, <2>1 DEF TextStep, TypeOK, DeferredIsNew, IsDeferredIncoming,
       answers
  <2> QED
    BY <1>2, <2>2, TextStepKeepsIInv
<1>8. CASE /\ ~IsDeferredIncoming(m)
           /\ AppendSucceeds(m) /\ CommitIncoming(m) /\ UNCHANGED <<deferred, refused>>
  <2>1. /\ StoreGrows /\ m \in row(ConversationOf[m])' /\ Durable(m)'
        /\ torn' \subseteq Conversations /\ hashesTorn' \in BOOLEAN
    BY <1>2, <1>8, AppendEffects DEF StoreGrows
  <2>2. /\ recent' \in Seq(Messages) /\ Len(recent') <= RecentLimit
        /\ ToSet(recent') \subseteq ToSet(recent) \cup {m}
    BY <1>2, <1>8, RememberEffects DEF CommitIncoming
  <2>3. accepted' = accepted \cup {m} /\ shown' \in [Messages -> Nat]
    <3>1. accepted' = accepted \cup {m} /\ shown' = [shown EXCEPT ![m] = @ + 1]
      BY <1>8 DEF CommitIncoming
    <3> QED
      BY <1>2, <3>1 DEF TypeOK
  <2>4. TextStep(m)
    BY <1>2, <1>3, <1>4, <1>8, <2>1, <2>2, <2>3
       DEF TextStep, TypeOK, DeferredIsNew, IsDeferredIncoming
  <2> QED
    BY <1>2, <2>4, TextStepKeepsIInv
<1>9. CASE /\ ~IsDuplicateIncoming(m, answered)
           /\ ~IsDeferredIncoming(m)
           /\ AppendFails(m) /\ DeferOrRefuse(m) /\ UNCHANGED <<recent, shown>>
  <2>1. StoreGrows /\ torn' \subseteq Conversations /\ hashesTorn' \in BOOLEAN
    BY <1>2, <1>9, AppendEffects DEF StoreGrows
  <2>2. m \notin ToSet(recent) /\ m \notin ToSet(deferred)
    BY <1>9 DEF IsDuplicateIncoming, IsDeferredIncoming
  <2>3. CASE Len(deferred) < DeferredDepth
    <3>1. deferred' = Append(deferred, m) /\ UNCHANGED answers
      BY <1>9, <2>3 DEF DeferOrRefuse
    <3>2. /\ deferred' \in Seq(Messages)
          /\ Len(deferred') = Len(deferred) + 1
          /\ ToSet(deferred') = ToSet(deferred) \cup {m}
          /\ IsInjective(deferred')
      BY <1>2, <2>2, <3>1, ToSetAppend DEF TypeOK, DeferredIsNew
    <3>3. Len(deferred') <= DeferredDepth
      BY <2>3, <3>2, LenProperties, Depths DEF TypeOK
    <3>4. TextStep(m)
      BY <1>2, <1>3, <1>4, <1>9, <2>1, <2>2, <3>1, <3>2, <3>3
         DEF TextStep, TypeOK, DeferredIsNew, answers
    <3> QED
      BY <1>2, <3>4, TextStepKeepsIInv
  <2>4. CASE ~(Len(deferred) < DeferredDepth)
    <3>1. refused' = refused \cup {m} /\ UNCHANGED <<deferred, accepted>>
      BY <1>9, <2>4 DEF DeferOrRefuse
    <3>2. TextStep(m)
      BY <1>2, <1>3, <1>4, <1>9, <2>1, <3>1 DEF TextStep, TypeOK, DeferredIsNew
    <3> QED
      BY <1>2, <3>2, TextStepKeepsIInv
  <2> QED
    BY <2>3, <2>4
<1> QED
  BY <1>5, <1>6, <1>7, <1>8, <1>9

\* Clearing takes from the window and the queue what it takes from the store.
LEMMA ClearKeepsIInv ==
  ASSUME IInv, ClearAllMessages \/ \E c \in Conversations : ClearConversation(c)
  PROVE  IInv'
<1> USE DEF IInv
<1>1. CASE ClearAllMessages
  <2>1. TypeOK'
    <3>1. /\ rows' \in [Conversations -> Seq(Messages)] /\ seen' \subseteq Lxmf
          /\ torn' \subseteq Conversations /\ hashesTorn' \in BOOLEAN
      BY <1>1, ToSetEmpty DEF ClearAllMessages, TypeOK
    <3>2. deferred' = <<>> /\ recent' = <<>> /\ taken' = {} /\ accepted' = {}
      BY <1>1 DEF ClearAllMessages
    <3> QED
      BY <1>1, <3>1, <3>2, ToSetEmpty, Depths DEF ClearAllMessages, TypeOK
  <2> QED
    BY <1>1, <2>1, ToSetEmpty DEF ClearAllMessages, RecentIsDurable, DeferredIsNew,
       AcceptedIsDurable, TakenIsAccountedFor
<1>2. ASSUME NEW c \in Conversations, ClearConversation(c)
      PROVE  IInv'
  <2> DEFINE cleared == {m \in Messages : ConversationOf[m] = c} \cup ToSet(deferred)
  <2>1. TypeOK'
    <3>1. /\ rows' \in [Conversations -> Seq(Messages)]
          /\ torn' \subseteq Conversations /\ hashesTorn' = hashesTorn
      BY <1>2, ToSetEmpty DEF ClearConversation, TypeOK
    <3>2. /\ deferred' = <<>> /\ recent' = <<>>
          /\ taken' \subseteq taken /\ accepted' \subseteq accepted
          /\ UNCHANGED <<inbox, drained, seen, storeReady, refused, shown>>
      BY <1>2 DEF ClearConversation
    <3> QED
      BY <3>1, <3>2, ToSetEmpty, Depths DEF TypeOK
  <2>2. /\ deferred' = <<>> /\ recent' = <<>>
        /\ taken' = taken \ cleared /\ accepted' = accepted \ cleared
        /\ UNCHANGED <<seen, refused>>
    BY <1>2 DEF ClearConversation
  <2>3. \A m \in Messages \ cleared : row(ConversationOf[m])' = row(ConversationOf[m])
    BY <1>2, MessagesAssumption DEF ClearConversation, TypeOK, row
  <2>4. AcceptedIsDurable'
    BY <2>2, <2>3 DEF AcceptedIsDurable, TypeOK
  <2>5. TakenIsAccountedFor'
    BY <2>2, <2>3 DEF TakenIsAccountedFor, TypeOK
  <2> QED
    BY <2>1, <2>2, <2>4, <2>5, ToSetEmpty DEF RecentIsDurable, DeferredIsNew
<1> QED
  BY <1>1, <1>2

\* The adapter, the card and the power supply: the window and the queue are
\* lost in a reboot, rows and hashes are not.
LEMMA EnvironmentKeepsIInv ==
  ASSUME IInv,
         \/ EndDrain
         \/ \E m \in Messages : Arrive(m)
         \/ StoreAvailability
         \/ Reboot
         \/ UNCHANGED vars
  PROVE  IInv'
<1> USE DEF IInv
<1>1. CASE Reboot
  <2>1. TypeOK'
    <3>1. /\ inbox' = <<>> /\ deferred' = <<>> /\ recent' = <<>>
          /\ drained' = DrainBudget /\ taken' = {}
          /\ UNCHANGED <<rows, seen, accepted, refused, shown>>
      BY <1>1 DEF Reboot, store, answers
    <3>2. /\ storeReady' \in BOOLEAN
          /\ torn' \subseteq Conversations /\ hashesTorn' \in BOOLEAN
      BY <1>1 DEF Reboot, TypeOK
    <3> QED
      BY <3>1, <3>2, ToSetEmpty, Depths DEF TypeOK
  <2> QED
    BY <1>1, <2>1, ToSetEmpty DEF Reboot, store, answers, RecentIsDurable, DeferredIsNew,
       AcceptedIsDurable, TakenIsAccountedFor, row
<1>2. CASE \/ EndDrain
           \/ \E m \in Messages : Arrive(m)
           \/ StoreAvailability
           \/ UNCHANGED vars
  <2>1. UNCHANGED <<rows, seen, torn, hashesTorn, deferred, recent, taken, accepted, refused,
                    shown>>
    BY <1>2 DEF EndDrain, Arrive, StoreAvailability, vars, store, damage, answers
  <2>2. inbox' \in Seq(Messages) /\ Len(inbox') <= InboxDepth
    <3>1. ASSUME NEW m \in Messages, Arrive(m)
          PROVE  inbox' \in Seq(Messages) /\ Len(inbox') <= InboxDepth
      <4>1. inbox' \in Seq(Messages) /\ Len(inbox') = Len(inbox) + 1
        BY <3>1, ToSetAppend DEF Arrive, TypeOK
      <4> QED
        BY <3>1, <4>1, LenProperties, Depths DEF Arrive, TypeOK
    <3> QED
      BY <1>2, <3>1 DEF EndDrain, StoreAvailability, vars, TypeOK
  <2>3. drained' \in 0..DrainBudget /\ storeReady' \in BOOLEAN
    BY <1>2, Depths DEF EndDrain, Arrive, StoreAvailability, vars, TypeOK
  <2>4. TypeOK'
    BY <2>1, <2>2, <2>3 DEF TypeOK
  <2> QED
    BY <2>1, <2>4 DEF RecentIsDurable, DeferredIsNew, AcceptedIsDurable, TakenIsAccountedFor,
       row, Durable
<1> QED
  BY <1>1, <1>2

\* No step of the service, the store or the environment breaks the invariant.
LEMMA NextKeepsIInv == IInv /\ [Next]_vars => IInv'
BY RetryKeepsIInv, DrainKeepsIInv, ClearKeepsIInv, EnvironmentKeepsIInv DEF Next

-----------------------------------------------------------------------------

\* Window, queues, store and answers agree, through faults, clears and reboots.
THEOREM DeliveryInvariant == Spec => []IInv
<1> QED
  BY InitIInv, NextKeepsIInv, PTL DEF Spec

\* The queues and the window keep their types and their depths.
THEOREM TypeCorrect == Spec => []TypeOK
<1>1. IInv => TypeOK
  BY DEF IInv
<1> QED
  BY <1>1, DeliveryInvariant, PTL

\* A text is acknowledged to the network only when it is durable.
THEOREM AcceptedIsDurableHolds == Spec => []AcceptedIsDurable
<1>1. IInv => AcceptedIsDurable
  BY DEF IInv
<1> QED
  BY <1>1, DeliveryInvariant, PTL

\* No text taken from the adapter is lost.
THEOREM TakenIsAccountedForHolds == Spec => []TakenIsAccountedFor
<1>1. IInv => TakenIsAccountedFor
  BY DEF IInv
<1> QED
  BY <1>1, DeliveryInvariant, PTL

\* A step shows a text only when it is new to the window: the drain loop asks
\* the window, and a deferred text is never in it.
LEMMA ShownIsNew ==
  ASSUME IInv, [Next]_vars, NEW m \in Messages, shown'[m] > shown[m]
  PROVE  m \notin ToSet(recent)
<1> USE DEF IInv
<1>1. \A x \in Messages : ~(shown[x] > shown[x])
  BY DEF TypeOK
<1>2. \A x : CommitIncoming(x) /\ x # m => shown'[m] = shown[m]
  BY DEF CommitIncoming, TypeOK
<1>3. CASE RetryDeferredIncoming
  <2>1. deferred # <<>> /\ Head(deferred) = m
    BY <1>1, <1>2, <1>3 DEF RetryDeferredIncoming
  <2> QED
    BY <2>1, ToSetTail DEF TypeOK, DeferredIsNew
<1>4. CASE DrainIncoming
  BY <1>1, <1>2, <1>4 DEF DrainIncoming, IsDuplicateIncoming
<1> QED
  BY <1>1, <1>3, <1>4 DEF Next, EndDrain, ClearConversation, ClearAllMessages, Arrive,
     StoreAvailability, Reboot, vars

\* No text is shown again while it is among the last RecentLimit texts, whether
\* it arrives again, was deferred, or both.
THEOREM ShownOncePerWindowHolds == Spec => ShownOncePerWindow
<1>1. IInv /\ [Next]_vars => [\A m \in Messages : shown'[m] > shown[m] => m \notin ToSet(recent)]_vars
  BY ShownIsNew
<1> QED
  BY <1>1, DeliveryInvariant, PTL DEF Spec, ShownOncePerWindow

-----------------------------------------------------------------------------
(***************************************************************************)
(* Once, as long as nothing disturbs it.  A window once outgrown may look  *)
(* as if it had never been: it then holds as many texts as it can, and one *)
(* more than that was shown.                                               *)
(***************************************************************************)
Shown(m) == shown[m] > 0

\* More texts were shown than the window holds.
Outgrown ==
  \E w \in Seq(Messages) :
    IsInjective(w) /\ Len(w) > RecentLimit /\ \A i \in DOMAIN w : Shown(w[i])

\* All that was shown is in the window, and stands once in the store.
AllRecent ==
  /\ \A m \in Messages : Shown(m) => m \in ToSet(recent)
  /\ \A m \in Messages : shown[m] <= 1
  /\ \A c \in Conversations : IsInjective(rows[c]) /\ \A m \in row(c) : Shown(m)

Undisturbed == faults + reboots + clears = 0

OnceInv ==
  /\ faults \in Nat /\ reboots \in Nat /\ clears \in Nat
  /\ Undisturbed =>
       /\ ~hashesTorn
       /\ IsInjective(recent)
       /\ \A m \in ToSet(recent) : Shown(m)
       /\ Outgrown \/ AllRecent

\* A step that shows and stores nothing.
LEMMA QuietKeepsOnce ==
  ASSUME OnceInv,
         UNCHANGED <<rows, hashesTorn, recent, shown, faults, reboots, clears>>
  PROVE  OnceInv'
<1>1. Undisturbed' <=> Undisturbed
  BY DEF Undisturbed
<1>2. (\A m : Shown(m)' <=> Shown(m)) /\ (Outgrown' <=> Outgrown)
  BY DEF Shown, Outgrown
<1>3. AllRecent' <=> AllRecent
  BY DEF Shown, AllRecent, row
<1> QED
  BY <1>1, <1>2, <1>3 DEF OnceInv

\* A text that is new to the window is shown and stored: its row is new too,
\* unless the window was outgrown, and then it still is.
LEMMA CommitKeepsOnce ==
  ASSUME TypeOK, OnceInv, NEW m \in Messages, m \notin ToSet(recent),
         AppendSucceeds(m), CommitIncoming(m),
         UNCHANGED <<reboots, clears>>
  PROVE  OnceInv'
<1>1. faults' = faults /\ hashesTorn' = hashesTorn /\ (Undisturbed' <=> Undisturbed)
  BY DEF AppendSucceeds, damage, Undisturbed
<1> SUFFICES ASSUME Undisturbed
             PROVE  /\ IsInjective(recent')
                    /\ \A x \in ToSet(recent') : Shown(x)'
                    /\ Outgrown' \/ AllRecent'
  BY <1>1 DEF OnceInv
<1>2. /\ IsInjective(recent)
      /\ \A x \in ToSet(recent) : Shown(x)
      /\ Outgrown \/ AllRecent
  BY DEF OnceInv
<1>3. /\ recent \in Seq(Messages) /\ Len(recent) \in Nat /\ Len(recent) <= RecentLimit
      /\ RecentLimit \in Nat \ {0}
      /\ ToSet(recent) \subseteq Messages
  BY LenProperties, BoundsAssumption DEF TypeOK, ToSet
<1>4. /\ shown'[m] = shown[m] + 1
      /\ \A x \in Messages \ {m} : shown'[x] = shown[x]
      /\ \A x \in Messages : shown[x] \in Nat /\ shown'[x] \in Nat
  BY DEF CommitIncoming, TypeOK
<1>5. Shown(m)' /\ \A x \in Messages : Shown(x) => Shown(x)'
  BY <1>4 DEF Shown
<1> DEFINE kept == IF Len(recent) < RecentLimit THEN recent ELSE Tail(recent)
<1>6. recent' = Append(kept, m)
  BY DEF CommitIncoming, RememberIncoming
<1>7. /\ kept \in Seq(Messages) /\ IsInjective(kept)
      /\ ToSet(kept) \subseteq ToSet(recent)
      /\ Len(recent) < RecentLimit => ToSet(kept) = ToSet(recent)
  <2>1. CASE Len(recent) < RecentLimit
    BY <1>2, <1>3, <2>1
  <2>2. CASE ~(Len(recent) < RecentLimit)
    <3>1. recent # <<>>
      BY <1>3, <2>2, ToSetEmpty
    <3> QED
      BY <1>2, <1>3, <2>2, <3>1, ToSetTail
  <2> QED
    BY <2>1, <2>2
<1> HIDE DEF kept
<1>8. IsInjective(recent') /\ ToSet(recent') = ToSet(kept) \cup {m}
  BY <1>6, <1>7, ToSetAppend
<1>9. \A x \in ToSet(recent') : Shown(x)'
  BY <1>2, <1>3, <1>5, <1>7, <1>8
<1>10. CASE Outgrown
  <2>1. PICK w \in Seq(Messages) :
          IsInjective(w) /\ Len(w) > RecentLimit /\ \A i \in DOMAIN w : Shown(w[i])
    BY <1>10 DEF Outgrown
  <2>2. \A i \in DOMAIN w : w[i] \in Messages
    BY LenProperties
  <2>3. Outgrown'
    BY <1>5, <2>1, <2>2 DEF Outgrown
  <2> QED
    BY <1>8, <1>9, <2>3
<1>11. CASE Len(recent) = RecentLimit
  <2>1. PICK w : w = Append(recent, m)
    OBVIOUS
  <2>2. /\ w \in Seq(Messages) /\ IsInjective(w)
        /\ Len(w) = Len(recent) + 1
        /\ ToSet(w) = ToSet(recent) \cup {m}
    BY <1>2, <1>3, <2>1, ToSetAppend
  <2>3. \A x \in ToSet(w) : shown'[x] > 0
    BY <1>2, <1>3, <1>5, <2>2 DEF Shown
  <2>4. \A i \in DOMAIN w : shown'[w[i]] > 0
    BY <2>3 DEF ToSet
  <2>5. Len(w) > RecentLimit
    BY <1>3, <1>11, <2>2
  <2>6. Outgrown'
    BY <2>2, <2>4, <2>5 DEF Outgrown, Shown
  <2> QED
    BY <1>8, <1>9, <2>6
<1>12. CASE AllRecent /\ Len(recent) # RecentLimit
  <2>1. ToSet(recent') = ToSet(recent) \cup {m}
    BY <1>3, <1>7, <1>8, <1>12
  <2>2. shown[m] = 0
    BY <1>4, <1>12 DEF AllRecent, Shown
  <2>3. \A x \in Messages : Shown(x)' => x \in ToSet(recent')
    BY <1>4, <1>12, <2>1 DEF AllRecent, Shown
  <2>4. \A x \in Messages : shown'[x] <= 1
    BY <1>4, <1>12, <2>2 DEF AllRecent
  <2>5. ASSUME NEW c \in Conversations
        PROVE  IsInjective(rows'[c]) /\ \A x \in row(c)' : Shown(x)'
    <3>1. rows[c] \in Seq(Messages) /\ row(c) \subseteq Messages
      BY LenProperties DEF TypeOK, row, ToSet
    <3>2. IsInjective(rows[c]) /\ (\A x \in row(c) : Shown(x)) /\ m \notin row(c)
      BY <1>12, <2>2 DEF AllRecent, Shown
    <3>3. \/ rows'[c] = rows[c]
          \/ rows'[c] = Append(rows[c], m)
      BY <3>1 DEF AppendSucceeds, WriteRow, WithRow, TypeOK
    <3>4. CASE rows'[c] = rows[c]
      BY <1>5, <3>1, <3>2, <3>4 DEF row
    <3>5. CASE rows'[c] = Append(rows[c], m)
      <4>1. IsInjective(rows'[c]) /\ ToSet(rows'[c]) = ToSet(rows[c]) \cup {m}
        BY <3>1, <3>2, <3>5, ToSetAppend DEF row
      <4> QED
        BY <1>5, <3>1, <3>2, <4>1 DEF row
    <3> QED
      BY <3>3, <3>4, <3>5
  <2>6. AllRecent'
    BY <2>3, <2>4, <2>5 DEF AllRecent
  <2> QED
    BY <1>8, <1>9, <2>6
<1> QED
  BY <1>2, <1>10, <1>11, <1>12

\* Nothing was shown.
LEMMA InitOnce == Init => OnceInv
<1> SUFFICES ASSUME Init PROVE OnceInv
  OBVIOUS
<1>1. /\ recent = <<>> /\ \A m \in Messages : shown[m] = 0
      /\ \A c \in Conversations : rows[c] = <<>>
      /\ faults = 0 /\ reboots = 0 /\ clears = 0 /\ ~hashesTorn
  BY DEF Init
<1>2. AllRecent
  BY <1>1, ToSetEmpty DEF AllRecent, Shown, row
<1> QED
  BY <1>1, <1>2, ToSetEmpty DEF OnceInv

\* Every step keeps it: what is shown is new to the window (ShownIsNew's
\* argument), and what fails, clears or reboots leaves nothing to keep.
LEMMA NextKeepsOnce ==
  ASSUME IInv, OnceInv, [Next]_vars
  PROVE  OnceInv'
<1> USE DEF IInv
<1>1. faults \in Nat /\ reboots \in Nat /\ clears \in Nat
  BY DEF OnceInv
<1>2. ASSUME NEW m \in Messages, AppendFails(m), UNCHANGED <<recent, shown, reboots, clears>>
      PROVE  OnceInv'
  <2>1. CASE UNCHANGED <<store, damage, faults>>
    BY <1>1, <1>2, <2>1, QuietKeepsOnce DEF store, damage
  <2>2. CASE faults' = faults + 1
    BY <1>1, <1>2, <2>2 DEF OnceInv, Undisturbed
  <2>3. CASE ~HashPossible(m) /\ UNCHANGED faults
    BY <1>1, <1>2, <2>3 DEF OnceInv, Undisturbed, HashPossible
  <2> QED
    BY <1>2, <2>1, <2>2, <2>3 DEF AppendFails, AppendBlocked, AppendFaulty
<1>3. CASE RetryDeferredIncoming
  <2>1. CASE UNCHANGED <<store, damage, faults, deferred, recent, shown, accepted>>
    BY <1>1, <1>3, <2>1, QuietKeepsOnce DEF RetryDeferredIncoming, store, damage
  <2>2. CASE deferred # <<>>
    <3>1. Head(deferred) \in Messages /\ Head(deferred) \notin ToSet(recent)
      BY <2>2, ToSetTail DEF TypeOK, DeferredIsNew
    <3> QED
      BY <1>2, <1>3, <2>1, <3>1, CommitKeepsOnce DEF RetryDeferredIncoming
  <2> QED
    BY <1>3, <2>1, <2>2 DEF RetryDeferredIncoming
<1>4. CASE DrainIncoming
  <2>1. PICK m : m = Head(inbox)
    OBVIOUS
  <2>2. m \in Messages /\ UNCHANGED <<reboots, clears>>
    BY <1>4, <2>1, ToSetTail DEF DrainIncoming, TypeOK
  <2>3. \/ UNCHANGED <<store, damage, faults, recent, shown>>
        \/ m \notin ToSet(recent) /\ AppendSucceeds(m) /\ CommitIncoming(m)
        \/ AppendFails(m) /\ UNCHANGED <<recent, shown>>
    BY <1>4, <2>1 DEF DrainIncoming, IsDuplicateIncoming
  <2>4. CASE UNCHANGED <<store, damage, faults, recent, shown>>
    BY <1>1, <2>2, <2>4, QuietKeepsOnce DEF store, damage
  <2> QED
    BY <1>2, <2>2, <2>3, <2>4, CommitKeepsOnce
<1>5. CASE EndDrain \/ (\E m \in Messages : Arrive(m)) \/ StoreAvailability \/ UNCHANGED vars
  BY <1>1, <1>5, QuietKeepsOnce
     DEF EndDrain, Arrive, StoreAvailability, vars, store, damage, environment
<1>6. CASE (\E c \in Conversations : ClearConversation(c)) \/ ClearAllMessages \/ Reboot
  <2>1. /\ faults' = faults
        /\ \/ reboots' = reboots + 1 /\ clears' = clears
           \/ clears' = clears + 1 /\ reboots' = reboots
    BY <1>6 DEF ClearConversation, ClearAllMessages, Reboot
  <2> QED
    BY <1>1, <2>1 DEF OnceInv, Undisturbed
<1> QED
  BY <1>3, <1>4, <1>5, <1>6 DEF Next

\* A window of RecentLimit places cannot hold one text more.
LEMMA WindowIsSmall ==
  ASSUME TypeOK, Outgrown
  PROVE  \E m \in Messages : Shown(m) /\ m \notin ToSet(recent)
<1> SUFFICES ASSUME \A m \in Messages : Shown(m) => m \in ToSet(recent)
             PROVE  FALSE
  OBVIOUS
<1>1. PICK w \in Seq(Messages) :
        IsInjective(w) /\ Len(w) > RecentLimit /\ \A i \in DOMAIN w : Shown(w[i])
  BY DEF Outgrown
<1>2. /\ Len(w) \in Nat /\ DOMAIN w = 1..Len(w) /\ \A i \in DOMAIN w : w[i] \in Messages
      /\ Len(recent) \in Nat /\ DOMAIN recent = 1..Len(recent)
      /\ Len(recent) <= RecentLimit /\ RecentLimit \in Nat
  BY LenProperties, BoundsAssumption DEF TypeOK
<1> DEFINE place == [i \in 1..Len(w) |-> CHOOSE j \in 1..Len(recent) : recent[j] = w[i]]
<1>3. \A i \in 1..Len(w) : \E j \in 1..Len(recent) : recent[j] = w[i]
  BY <1>1, <1>2 DEF ToSet
<1>4. place \in [1..Len(w) -> 1..Len(recent)]
      /\ \A i \in 1..Len(w) : recent[place[i]] = w[i]
  BY <1>3
<1>5. \A n \in Nat : IsFiniteSet(1..n) /\ Cardinality(1..n) = n
  <2> TAKE n \in Nat
  <2>1. IsFiniteSet(1..n) /\ Cardinality(1..n) = IF 1 > n THEN 0 ELSE n - 1 + 1
    BY FS_Interval
  <2> QED
    BY <2>1
<1> HIDE DEF place
<1>6. PICK i \in 1..Len(w), j \in 1..Len(w) : i # j /\ place[i] = place[j]
  <2> DEFINE S == 1..Len(w)
             T == 1..Len(recent)
  <2>1. IsFiniteSet(S) /\ IsFiniteSet(T) /\ Cardinality(T) < Cardinality(S)
    BY <1>1, <1>2, <1>5
  <2>2. place \in [S -> T]
    BY <1>4
  <2> HIDE DEF S, T
  <2>3. \E x, y \in S : x # y /\ place[x] = place[y]
    BY <2>1, <2>2, FS_PigeonHole
  <2> QED
    BY <2>3 DEF S
<1>7. w[i] = w[j]
  BY <1>4, <1>6
<1> QED
  BY <1>1, <1>2, <1>6, <1>7 DEF IsInjective

\* While nothing fails, nothing is cleared, no reboot intervenes and the window
\* is not outgrown, a text is shown once and has one row.
THEOREM OnceWhileUndisturbedHolds == Spec => []OnceWhileUndisturbed
<1>1. IInv /\ OnceInv => OnceWhileUndisturbed
  <2> SUFFICES ASSUME IInv, OnceInv, Undisturbed,
                      \A m \in Messages : Shown(m) => m \in ToSet(recent),
                      NEW m \in Messages
               PROVE  /\ shown[m] <= 1
                      /\ Cardinality({i \in DOMAIN rows[ConversationOf[m]] :
                                        rows[ConversationOf[m]][i] = m}) <= 1
    BY DEF OnceWhileUndisturbed, Undisturbed, Shown
  <2>1. AllRecent
    BY WindowIsSmall DEF OnceInv, IInv
  <2> DEFINE copies == {i \in DOMAIN rows[ConversationOf[m]] : rows[ConversationOf[m]][i] = m}
  <2>2. \A i, j \in copies : i = j
    BY <2>1, MessagesAssumption DEF AllRecent, IsInjective
  <2>3. copies = {} \/ \E i : copies = {i}
    BY <2>2
  <2> HIDE DEF copies
  <2>4. Cardinality(copies) \in {0, 1}
    BY <2>3, FS_EmptySet, FS_Singleton
  <2> QED
    BY <2>1, <2>4 DEF AllRecent, copies
<1> QED
  BY <1>1, InitOnce, NextKeepsOnce, InitIInv, NextKeepsIInv, PTL DEF Spec

-----------------------------------------------------------------------------
(* The store this path supposes *)

HasRow(m) == m \in row(ConversationOf[m])

\* An append adds the row of its text, and its hash, and nothing else.
LEMMA AppendAdds ==
  ASSUME TypeOK, NEW m \in Messages, AppendSucceeds(m) \/ AppendFails(m)
  PROVE  /\ \A x \in Messages : HasRow(x)' => HasRow(x) \/ x = m
         /\ seen' \subseteq seen \cup ({m} \cap Lxmf)
<1>1. PICK c : c = ConversationOf[m]
  OBVIOUS
<1>2. c \in Conversations /\ rows[c] \in Seq(Messages)
  BY <1>1, MessagesAssumption DEF TypeOK
<1>3. seen' \subseteq seen \cup ({m} \cap Lxmf)
  BY AppendShape DEF WithHash
<1>4. rows' = rows \/ rows' = [rows EXCEPT ![c] = Append(@, m)]
  BY <1>1, AppendShape DEF WithRow
<1>5. CASE rows' = rows
  BY <1>3, <1>5 DEF HasRow, row
<1>6. CASE rows' = [rows EXCEPT ![c] = Append(@, m)]
  <2>1. rows'[c] = Append(rows[c], m) /\ \A d \in Conversations \ {c} : rows'[d] = rows[d]
    BY <1>2, <1>6 DEF TypeOK
  <2>2. ToSet(rows'[c]) = ToSet(rows[c]) \cup {m}
    BY <1>2, <2>1, ToSetAppend
  <2>3. ASSUME NEW x \in Messages, HasRow(x)'
        PROVE  HasRow(x) \/ x = m
    <3>1. x \in ToSet(rows'[ConversationOf[x]]) /\ ConversationOf[x] \in Conversations
      BY <2>3, MessagesAssumption DEF HasRow, row
    <3> QED
      BY <2>1, <2>2, <3>1 DEF HasRow, row
  <2> QED
    BY <1>3, <2>3
<1> QED
  BY <1>4, <1>5, <1>6

\* A step that offers m to the store, and may acknowledge it.
LEMMA OfferRefines ==
  ASSUME IInv, IInv', NEW m \in Messages, StoreGrows,
         \A x \in Messages : HasRow(x)' => HasRow(x) \/ x = m,
         seen' \subseteq seen \cup ({m} \cap Lxmf),
         accepted' \in {accepted, accepted \cup {m}}
  PROVE  Contract!Next
<1> DEFINE R == {x \in Messages : HasRow(x)}
           A == {x \in accepted : HasRow(x)}
<1>1. R \subseteq R' /\ R' \subseteq R \cup {m}
  BY MessagesAssumption DEF StoreGrows, HasRow
<1>2. A' \in {A, A \cup {m}}
  <2>1. accepted \subseteq Messages
    BY DEF IInv, TypeOK
  <2>2. A' \subseteq A \cup {m} /\ A \subseteq A'
    BY <1>1, <2>1
  <2> QED
    BY <2>2
<1>3. m \in A' => m \in R' /\ (m \in Lxmf => m \in seen')
  BY DEF IInv, AcceptedIsDurable
<1>4. Contract!Offer(m)
  BY <1>1, <1>2, <1>3 DEF Contract!Offer, Contract!Durable, HasRow, StoreGrows
<1> QED
  BY <1>4 DEF Contract!Next

\* A step that leaves the store and the acknowledgements alone.
LEMMA SameRefines ==
  ASSUME UNCHANGED <<rows, seen, accepted>>
  PROVE  UNCHANGED Contract!textStore
BY DEF Contract!textStore, row

\* The texts of a conversation are cleared, and those that wait for the store.
LEMMA ClearRefines ==
  ASSUME IInv, ClearAllMessages \/ \E c \in Conversations : ClearConversation(c)
  PROVE  Contract!Next
<1>1. CASE ClearAllMessages
  <2>1. accepted' = {} /\ ((rows' = rows /\ seen' = seen)
           \/ (rows' = [c \in Conversations |-> <<>>] /\ seen' = {}))
    BY <1>1 DEF ClearAllMessages
  <2>2. \A x \in Messages : HasRow(x)' => HasRow(x)
    BY <2>1, ToSetEmpty, MessagesAssumption DEF HasRow, row
  <2>3. seen \subseteq Messages
    BY MessagesAssumption DEF IInv, TypeOK
  <2>4. seen' = seen \/ seen' = seen \ Messages
    BY <2>1, <2>3
  <2>5. {x \in accepted' : HasRow(x)'} = {x \in accepted : HasRow(x)} \ Messages
    BY <2>1 DEF IInv, TypeOK
  <2>6. Contract!Clear(Messages)
    BY <2>2, <2>4, <2>5 DEF Contract!Clear, HasRow
  <2> QED
    BY <2>6 DEF Contract!Next
<1>2. ASSUME NEW c \in Conversations, ClearConversation(c)
      PROVE  Contract!Next
  <2>1. PICK M : M = {m \in Messages : ConversationOf[m] = c} \cup ToSet(deferred)
    OBVIOUS
  <2>2. M \subseteq Messages
    BY <2>1, LenProperties DEF IInv, TypeOK, ToSet
  <2>3. accepted' = accepted \ M /\ seen' = seen
    BY <1>2, <2>1 DEF ClearConversation
  <2>4. ASSUME NEW x \in Messages
        PROVE  (HasRow(x)' => HasRow(x)) /\ (HasRow(x) /\ x \notin M => HasRow(x)')
    <3>1. CASE rows' = rows
      BY <3>1 DEF HasRow, row
    <3>2. CASE rows' = [rows EXCEPT ![c] = <<>>]
      BY <2>1, <3>2, ToSetEmpty, MessagesAssumption DEF HasRow, row, IInv, TypeOK
    <3> QED
      BY <1>2, <3>1, <3>2 DEF ClearConversation
  <2>5. {x \in accepted' : HasRow(x)'} = {x \in accepted : HasRow(x)} \ M
    BY <2>3, <2>4 DEF IInv, TypeOK
  <2>6. Contract!Clear(M)
    BY <2>3, <2>4, <2>5 DEF Contract!Clear, HasRow
  <2> QED
    BY <2>2, <2>6 DEF Contract!Next
<1> QED
  BY <1>1, <1>2

LEMMA InitRefines == Init => Contract!Init
BY ToSetEmpty, MessagesAssumption DEF Init, Contract!Init, row

\* Each step of the path is a step of the store's contract, or none.
LEMMA NextRefines ==
  ASSUME IInv, [Next]_vars
  PROVE  Contract!Next \/ UNCHANGED Contract!textStore
<1>1. IInv'
  BY NextKeepsIInv
<1>2. ASSUME NEW m \in Messages, AppendSucceeds(m) \/ AppendFails(m),
             accepted' \in {accepted, accepted \cup {m}}
      PROVE  Contract!Next
  <2>1. StoreGrows
    BY <1>2, AppendEffects DEF StoreGrows, IInv
  <2> QED
    BY <1>1, <1>2, <2>1, AppendAdds, OfferRefines DEF IInv
<1>3. CASE RetryDeferredIncoming
  <2>1. CASE UNCHANGED <<store, damage, faults, deferred, recent, shown, accepted>>
    BY <2>1, SameRefines DEF store
  <2>2. CASE deferred # <<>>
    <3>1. Head(deferred) \in Messages
      BY <2>2, ToSetTail DEF IInv, TypeOK
    <3> QED
      BY <1>2, <1>3, <2>1, <3>1 DEF RetryDeferredIncoming, CommitIncoming
  <2> QED
    BY <1>3, <2>1, <2>2 DEF RetryDeferredIncoming
<1>4. CASE DrainIncoming
  <2>1. PICK m : m = Head(inbox)
    OBVIOUS
  <2>2. m \in Messages
    BY <1>4, <2>1, ToSetTail DEF DrainIncoming, IInv, TypeOK
  <2>3. \/ accepted' = accepted \cup {m} /\ UNCHANGED store
        \/ UNCHANGED <<store, accepted>>
        \/ /\ AppendSucceeds(m) \/ AppendFails(m)
           /\ accepted' \in {accepted, accepted \cup {m}}
    BY <1>4, <2>1 DEF DrainIncoming, CommitIncoming, DeferOrRefuse, answers
  <2>4. CASE accepted' = accepted \cup {m} /\ UNCHANGED store
    <3>1. StoreGrows /\ \A x \in Messages : HasRow(x)' => HasRow(x)
      BY <2>4 DEF StoreGrows, store, row, HasRow, IInv, TypeOK
    <3> QED
      BY <1>1, <2>2, <2>4, <3>1, OfferRefines DEF store
  <2> QED
    BY <1>2, <2>2, <2>3, <2>4, SameRefines DEF store
<1>5. CASE EndDrain \/ (\E m \in Messages : Arrive(m)) \/ StoreAvailability \/ Reboot
           \/ UNCHANGED vars
  BY <1>5, SameRefines DEF EndDrain, Arrive, StoreAvailability, Reboot, vars, store, answers
<1> QED
  BY <1>3, <1>4, <1>5, ClearRefines DEF Next

\* Of its store the path supposes what TextStore says with nothing lost, and
\* gives no acknowledgement TextStore does not allow.
THEOREM IncomingImplementsTextStore == Spec => TextStoreSpec
<1> QED
  BY InitRefines, NextRefines, DeliveryInvariant, PTL DEF Spec, TextStoreSpec, Contract!Spec

=============================================================================
