---------------------------- MODULE CallOwnership ----------------------------
(***************************************************************************)
(* What a device's call runtime promises, whichever task reaches it: at    *)
(* most one call at a time, microphone and speaker only with the user's    *)
(* consent to that very call, and a call that ends takes both with it.     *)
(*                                                                         *)
(* CallRuntime, the locked state of reticulum_call_runtime.cpp with its    *)
(* tasks, implements this; so does the runtime that LxstCall keeps for     *)
(* each device of a telephone network.                                     *)
(***************************************************************************)
CONSTANTS
    Link,       \* the link ids calls are made on
    NoCall      \* nobody is calling

VARIABLES
    owner,      \* the link of the call in hand
    consent,    \* the user dialled it or answered it
    talking     \* microphone and speaker belong to it

ownership == <<owner, consent, talking>>

Init ==
    /\ owner = NoCall
    /\ consent = FALSE
    /\ talking = FALSE

\* A call comes in.
Ring(l) ==
    /\ owner = NoCall
    /\ owner' = l
    /\ UNCHANGED <<consent, talking>>

\* The user makes a call.
Dial(l) ==
    /\ owner = NoCall
    /\ owner' = l
    /\ consent' = TRUE
    /\ UNCHANGED talking

\* The user answers; the media may start in the same step.
Answer ==
    /\ owner # NoCall
    /\ ~consent
    /\ consent' = TRUE
    /\ talking' \in BOOLEAN
    /\ UNCHANGED owner

Talk ==
    /\ consent
    /\ talking' = TRUE
    /\ UNCHANGED <<owner, consent>>

End ==
    /\ owner' = NoCall
    /\ consent' = FALSE
    /\ talking' = FALSE

Next == (\E l \in Link : Ring(l) \/ Dial(l)) \/ Answer \/ Talk \/ End

Spec == Init /\ [][Next]_ownership
=============================================================================
