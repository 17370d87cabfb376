---------------------------- MODULE OutboxStatus ----------------------------
(***************************************************************************)
(* What the chat delivery core promises about the status of an outgoing    *)
(* message: a message is announced Queued or Failed when it is sent, then  *)
(* moves only along the transitions ChatOutboxService::shouldApplyStatus   *)
(* admits, or from Failed back to Queued when the user asks for a resend.  *)
(* ChatMessageLedger is shown to implement this specification for the      *)
(* messages whose bookkeeping it keeps whole.                              *)
(***************************************************************************)
CONSTANT Messages   \* the outgoing messages

VARIABLE status     \* the last status announced for a message, or NoStatus

Statuses == {"Queued", "Sent", "Delivered", "Failed"}

NoStatus == "none"

\* ChatOutboxService::shouldApplyStatus on a message this node sent.
ShouldApplyStatus(current, next) ==
  \/ current = next
  \/ /\ current # "Delivered"
     /\ ~(current = "Sent" /\ next \in {"Queued", "Failed"})
     /\ ~(current = "Failed" /\ next \in {"Queued", "Sent"})

-----------------------------------------------------------------------------

Init == status = [m \in Messages |-> NoStatus]

\* Nothing is remembered of m: any status may be the first one announced.
Announce(m, s) ==
  /\ status[m] = NoStatus
  /\ status' = [status EXCEPT ![m] = s]

\* A send result, a receipt or a timeout is reported for m.
Report(m, s) ==
  /\ status[m] \in Statuses
  /\ ShouldApplyStatus(status[m], s)
  /\ status' = [status EXCEPT ![m] = s]

\* The user resends a failed message.
Retry(m) ==
  /\ status[m] = "Failed"
  /\ status' = [status EXCEPT ![m] = "Queued"]

\* The device reboots, or the user clears the conversation of the messages M.
Forget(M) ==
  status' = [m \in Messages |-> IF m \in M THEN NoStatus ELSE status[m]]

Next ==
  \/ \E M \in SUBSET Messages : Forget(M)
  \/ \E m \in Messages, s \in Statuses : Announce(m, s) \/ Report(m, s)
  \/ \E m \in Messages : Retry(m)

Spec == Init /\ [][Next]_status

=============================================================================
