----------------------------- MODULE MCSdStore -----------------------------
(***************************************************************************)
(* Instances of SdStore for TLC.                                           *)
(***************************************************************************)
EXTENDS SdStore, TLC

CONSTANTS m1, m2, c1

\* Two messages of one conversation: the second's append meets the first's
\* row.  Nothing tells them apart.
MCConversationOf == [m \in Messages |-> c1]
MCSymmetry == Permutations(Messages)

=============================================================================
