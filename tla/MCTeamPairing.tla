--------------------------- MODULE MCTeamPairing ---------------------------
(***************************************************************************)
(* Instances of TeamPairing for TLC.                                       *)
(***************************************************************************)
EXTENDS TeamPairing

\* Two keys of one team, as after a rotation, and a key of another team.
MCTeamOf == [red1 |-> "red", red2 |-> "red", blue1 |-> "blue"]

=============================================================================
