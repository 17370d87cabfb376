------------------------------ MODULE TextStore ------------------------------
(***************************************************************************)
(* What the path of a received text and the SD store promise each other:   *)
(* IChatStore::appendIncomingDurably answers TRUE only when the row of the *)
(* text and its deduplication identity are durable, a text is acknowledged *)
(* to the network only then, and neither row nor hash goes away but        *)
(* through a clear, through a rebuild that finds no row, or as a loss the  *)
(* implementation names.                                                   *)
(*                                                                         *)
(* IncomingDelivery implements this with nothing lost; the files of        *)
(* SdStore implement it at every step of an operation on them, through     *)
(* power losses, hydrations and compactions, with the losses they record.  *)
(***************************************************************************)
CONSTANTS
    Texts,
    Hashed      \* those with a deduplication identity, an LXMF hash

VARIABLES
    rows,       \* texts with a row
    hashes,     \* texts whose hash is kept
    acked,      \* texts acknowledged to the network, and not cleared since
    lost        \* texts given up

textStore == <<rows, hashes, acked, lost>>

Durable(m) == m \in rows /\ (m \in Hashed => m \in hashes)

Init == rows = {} /\ hashes = {} /\ acked = {} /\ lost = {}

\* appendIncomingDurably(m), or a part of it: the row, the hash, the answer.
\* A failing part may give up other texts; m itself may be recovered.
Offer(m) ==
    /\ rows \ lost' \subseteq rows' /\ rows' \subseteq rows \cup {m}
    /\ hashes \ lost' \subseteq hashes'
    /\ hashes' \subseteq hashes \cup ({m} \cap Hashed)
    /\ acked' \in {acked, acked \cup {m}}
    /\ m \in acked' => Durable(m)' \/ m \in lost'
    /\ lost \ lost' \subseteq {m}

\* clearConversation, clearAll: the texts M are nobody's concern any more,
\* whether their rows and hashes could be removed or not.
Clear(M) ==
    /\ rows \ M \subseteq rows' /\ rows' \subseteq rows
    /\ hashes' \in {hashes, hashes \ M}
    /\ acked' = acked \ M
    /\ lost \ M \subseteq lost' /\ lost' \subseteq lost

\* Hydration: a damaged journal is repaired, and the hashes may be derived
\* from the rows again.
Rebuild ==
    /\ rows \ lost' \subseteq rows' /\ rows' \subseteq rows
    /\ (hashes \cap rows) \ lost' \subseteq hashes'
    /\ hashes' \subseteq hashes \cup (rows \cap Hashed)
    /\ lost \subseteq lost'
    /\ UNCHANGED acked

Next ==
    \/ \E m \in Texts : Offer(m)
    \/ \E M \in SUBSET Texts : Clear(M)
    \/ Rebuild

Spec == Init /\ [][Next]_textStore

\* An acknowledged text is durable until it is cleared, unless it was given up.
AckedIsDurable == \A m \in acked \ lost : Durable(m)

=============================================================================
