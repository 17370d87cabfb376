------------------------- MODULE MCIncomingDelivery -------------------------
(***************************************************************************)
(* Instances of IncomingDelivery for TLC.                                  *)
(***************************************************************************)
EXTENDS IncomingDelivery

\* Two LXMF texts of one conversation and a radio text of another.
MCMessages == {"a", "b", "r"}
MCLxmf == {"a", "b"}
MCConversations == {"lxmf", "radio"}
MCConversationOf == [m \in MCMessages |-> IF m \in MCLxmf THEN "lxmf" ELSE "radio"]

=============================================================================
