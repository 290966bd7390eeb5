------------------------ MODULE NotificationDelivery ------------------------
(***************************************************************************)
(* What the notification subsystem promises about one delivery, whatever   *)
(* its workers do: it is attempted one attempt at a time, every attempt    *)
(* gets one final record, a delivered one stays delivered, and a dead one  *)
(* comes back only through the operator, a bounded number of times.        *)
(* NotificationOutbox implements it.                                       *)
(***************************************************************************)
EXTENDS Naturals

CONSTANT MaxRedrives

VARIABLES
  status,      \* PENDING, SENDING, RETRY_WAIT, DELIVERED or DEAD
  attempts,    \* attempts begun
  record,      \* the attempts with their result: a set of pairs
  redrives

vars == <<status, attempts, record, redrives>>

Init ==
  /\ status = "PENDING"
  /\ attempts = 0
  /\ record = {}
  /\ redrives = 0

\* A new attempt begins; the one a worker abandoned is written off first.
Attempt ==
  /\ status \in {"PENDING", "RETRY_WAIT", "SENDING"}
  /\ status' = "SENDING"
  /\ attempts' = attempts + 1
  /\ record' = record \cup (IF status = "SENDING" THEN {<<attempts, "LEASE_EXPIRED">>} ELSE {})
  /\ UNCHANGED redrives

\* The attempt under way, and no other, ends.
Settle(to, result) ==
  /\ status = "SENDING"
  /\ status' = to
  /\ record' = record \cup {<<attempts, result>>}
  /\ UNCHANGED <<attempts, redrives>>

Redrive ==
  /\ status = "DEAD"
  /\ redrives < MaxRedrives
  /\ status' = "PENDING"
  /\ redrives' = redrives + 1
  /\ UNCHANGED <<attempts, record>>

Next ==
  \/ Attempt
  \/ Settle("DELIVERED", "DELIVERED")
  \/ Settle("RETRY_WAIT", "FAILED_RETRYABLE")
  \/ Settle("DEAD", "FAILED_FINAL")
  \/ Redrive

Spec == Init /\ [][Next]_vars
=============================================================================
