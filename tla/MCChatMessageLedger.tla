------------------------- MODULE MCChatMessageLedger -------------------------
(***************************************************************************)
(* Instances of ChatMessageLedger for TLC.                                 *)
(***************************************************************************)
EXTENDS ChatMessageLedger

\* Two messages numbered alike by two protocols, in one conversation each.
MCKeys == {<<1, "meshtastic">>, <<1, "lxmf">>}
MCConversations == {"meshtastic", "lxmf"}
MCConversationOf == [k \in MCKeys |-> k[2]]

\* Either message will do: nothing else tells the two apart.
MCHalfStorable == {<<1, "lxmf">>}

=============================================================================
