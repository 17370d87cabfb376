----------------------------- MODULE MCLxstCall -----------------------------
(* LxstCall for TLC: two devices that may dial each other at the same time. *)
EXTENDS LxstCall

MCDevice == {"ann", "ben"}
MCLink == {"ab", "ba"}
MCFrom == [l \in MCLink |-> IF l = "ab" THEN "ann" ELSE "ben"]
MCTo == [l \in MCLink |-> IF l = "ab" THEN "ben" ELSE "ann"]
=============================================================================
