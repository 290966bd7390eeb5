------------------------- MODULE NotificationOutbox -------------------------
(***************************************************************************)
(* The transactional outbox of one notification: its OutboxEvent and       *)
(* NotificationDelivery rows, the workers that claim the event under a     *)
(* lease, deliver outside any transaction and then settle it, and the      *)
(* operator who redrives a dead delivery and configures the recipient.     *)
(*                                                                         *)
(* Events are independent of each other, so one is enough.  A transaction  *)
(* that locks two rows is two steps, because between them it waits for the *)
(* second lock; its writes become visible with the second step.  A worker  *)
(* may crash, or outlive its lease, between any two steps.                 *)
(***************************************************************************)
EXTENDS Naturals, FiniteSets

CONSTANTS
  Adapters,     \* among "FEISHU" and "LOCAL_TEST"
  Workers,      \* worker processes
  Operator,     \* the holder of the locks of a redrive transaction
  NoOne,        \* an unlocked row
  MaxAttempts,  \* settings.max_attempts
  MaxRedrives,  \* 3 in the code
  MaxFaults     \* bound of the model: crashes, and leases outlived by a live worker

ASSUME AdapterAssumption == Adapters \subseteq {"FEISHU", "LOCAL_TEST"}
ASSUME LimitAssumption   == MaxAttempts \in Nat \ {0} /\ MaxRedrives \in Nat /\ MaxFaults \in Nat
ASSUME HolderAssumption  == Operator \notin Workers /\ NoOne \notin Workers \cup {Operator}

VARIABLES
  adapter,       \* settings.adapter, the same for every process
  event,         \* the OutboxEvent row
  delivery,      \* the NotificationDelivery row
  ledger,        \* NotificationAttempt rows: pairs of attempt_number and status
  receipt,       \* the receipt row of the dedupe_key exists
  endpoint,      \* the recipient's NotificationEndpoint is ACTIVE
  eventLock,     \* who holds the row lock of the event
  deliveryLock,  \* who holds the row lock of the delivery across a step
  pc,            \* where each worker is
  claimed,       \* the ClaimedEvent each worker holds
  faults         \* faults so far

rows  == <<event, delivery, ledger>>
locks == <<eventLock, deliveryLock>>
vars  == <<adapter, rows, receipt, endpoint, locks, pc, claimed, faults>>

AttemptStatus == {"DELIVERED", "FAILED_RETRYABLE", "FAILED_FINAL", "LEASE_EXPIRED"}

TypeOK ==
  /\ adapter \in Adapters
  /\ event \in [status : {"PENDING", "PROCESSING", "SENT", "FAILED"}, attempts : Nat,
                token : Nat, lease : {"NONE", "LIVE", "EXPIRED"},
                next : {"NONE", "LATER", "DUE"}]
  /\ delivery \in [status : {"PENDING", "SENDING", "DELIVERED", "RETRY_WAIT", "DEAD"},
                   attempts : Nat, offset : Nat, redrives : 0..MaxRedrives,
                   error : {"NONE", "RETRYABLE", "FINAL"}]
  /\ ledger \subseteq (Nat \X AttemptStatus)
  /\ receipt \in BOOLEAN
  /\ endpoint \in BOOLEAN
  /\ eventLock \in Workers \cup {NoOne}
  /\ deliveryLock \in {Operator, NoOne}
  /\ pc \in [Workers -> {"idle", "claim", "deliver", "send", "record", "insert",
                         "succeed", "fail", "failFinal"}]
  /\ claimed \in [Workers -> [token : Nat, attempt : Nat, cycle : Nat]]
  /\ faults \in 0..MaxFaults

\* The rows as create_pass_outcome_bundle commits them with the Outcome.
Init ==
  /\ adapter \in Adapters
  /\ event = [status |-> "PENDING", attempts |-> 0, token |-> 0, lease |-> "NONE", next |-> "DUE"]
  /\ delivery = [status |-> "PENDING", attempts |-> 0, offset |-> 0, redrives |-> 0, error |-> "NONE"]
  /\ ledger = {}
  /\ receipt = FALSE
  /\ endpoint = (adapter = "LOCAL_TEST")
  /\ eventLock = NoOne
  /\ deliveryLock = NoOne
  /\ pc = [w \in Workers |-> "idle"]
  /\ claimed = [w \in Workers |-> [token |-> 0, attempt |-> 0, cycle |-> 0]]
  /\ faults = 0

-----------------------------------------------------------------------------
(* Helpers. *)

\* An attempt has one row in the ledger; the unique key lets no second one in.
RecordAttemptOnce(number, status) ==
  ledger' = IF \E a \in ledger : a[1] = number THEN ledger
            ELSE ledger \cup {<<number, status>>}

\* Mutant: a crashed worker's event is never claimed again.
EligibleIfWaiting ==
  /\ event.status \in {"PENDING", "FAILED"} /\ event.next = "DUE"
  /\ adapter = "FEISHU" => endpoint

\* claim_next: due, or left in PROCESSING beyond its lease; with the FEISHU
\* adapter also somebody to deliver to.
Eligible ==
  /\ \/ event.status \in {"PENDING", "FAILED"} /\ event.next = "DUE"
     \/ event.status = "PROCESSING" /\ event.lease = "EXPIRED"
  /\ adapter = "FEISHU" => endpoint

\* Mutant: attempts before a redrive count against the new cycle.
CycleAttemptOfAll(attempt) == attempt

\* The attempts since the last redrive.
CycleAttempt(attempt) == attempt - delivery.offset

\* Mutant: any worker settles an event in PROCESSING.
OwnsLeaseByStatus(w) == event.status = "PROCESSING"

\* The WHERE clause of the finalize transactions.
OwnsLease(w) == event.status = "PROCESSING" /\ event.token = claimed[w].token

\* finalize_failure: is_final
IsFinal(w) == pc[w] = "failFinal" \/ claimed[w].cycle >= MaxAttempts

Goto(w, label) == pc' = [pc EXCEPT ![w] = label]

-----------------------------------------------------------------------------
(* A worker: process_batch, forever. *)

\* claim_next: SELECT ... FOR UPDATE SKIP LOCKED
ClaimLockEvent(w) ==
  /\ pc[w] = "idle"
  /\ eventLock = NoOne
  /\ Eligible
  /\ eventLock' = w
  /\ Goto(w, "claim")
  /\ UNCHANGED <<adapter, rows, receipt, endpoint, deliveryLock, claimed, faults>>

\* claim_next: notification_for_update, the writes and the commit.  The lock token
\* is a fresh uuid; the number of its attempt names it here.
Claim(w) ==
  /\ pc[w] = "claim"
  /\ deliveryLock = NoOne
  /\ LET number == event.attempts + 1
     IN  /\ event' = [status |-> "PROCESSING", attempts |-> number, token |-> number,
                      lease |-> "LIVE", next |-> "NONE"]
         /\ delivery' = [delivery EXCEPT !.status = "SENDING", !.attempts = number, !.error = "NONE"]
         /\ claimed' = [claimed EXCEPT ![w] =
              [token |-> number, attempt |-> number, cycle |-> CycleAttempt(number)]]
  /\ IF event.status = "PROCESSING"
     THEN RecordAttemptOnce(event.attempts, "LEASE_EXPIRED")
     ELSE UNCHANGED ledger
  /\ eventLock' = NoOne
  /\ Goto(w, "deliver")
  /\ UNCHANGED <<adapter, receipt, endpoint, deliveryLock, faults>>

\* The first reads of deliver_local_notification and deliver_feishu_notification.
Deliver(w) ==
  /\ pc[w] = "deliver"
  /\ \/ receipt /\ Goto(w, "succeed")
     \/ ~ receipt /\ adapter = "FEISHU" /\ endpoint /\ Goto(w, "send")
     \/ ~ receipt /\ adapter = "FEISHU" /\ ~ endpoint /\ Goto(w, "failFinal")
     \/ ~ receipt /\ adapter = "LOCAL_TEST" /\ \E label \in {"insert", "fail"} : Goto(w, label)
  /\ UNCHANGED <<adapter, rows, receipt, endpoint, locks, claimed, faults>>

\* deliver_feishu: the provider accepts, or the call fails, retryably (the answer
\* to an accepted message may be lost too) or for good.
Send(w) ==
  /\ pc[w] = "send"
  /\ \E label \in {"record", "fail", "failFinal"} : Goto(w, label)
  /\ UNCHANGED <<adapter, rows, receipt, endpoint, locks, claimed, faults>>

\* The check before the insert of the receipt.
Record(w) ==
  /\ pc[w] = "record"
  /\ Goto(w, IF receipt THEN "succeed" ELSE "insert")
  /\ UNCHANGED <<adapter, rows, receipt, endpoint, locks, claimed, faults>>

\* The insert; the unique dedupe_key makes the loser of a race raise an
\* IntegrityError nobody catches, and its process ends.
InsertReceipt(w) ==
  /\ pc[w] = "insert"
  /\ receipt' = TRUE
  /\ Goto(w, IF receipt THEN "idle" ELSE "succeed")
  /\ UNCHANGED <<adapter, rows, endpoint, locks, claimed, faults>>

Finalizing(w) == pc[w] \in {"succeed", "fail", "failFinal"}

\* finalize_*: SELECT ... WHERE PROCESSING AND lock_token = ... FOR UPDATE
FinalizeLockEvent(w) ==
  /\ Finalizing(w)
  /\ OwnsLease(w)
  /\ eventLock = NoOne
  /\ eventLock' = w
  /\ UNCHANGED <<adapter, rows, receipt, endpoint, deliveryLock, pc, claimed, faults>>

\* finalize_*: the event is no longer this worker's, return False.
LoseLease(w) ==
  /\ Finalizing(w)
  /\ ~ OwnsLease(w)
  /\ Goto(w, "idle")
  /\ UNCHANGED <<adapter, rows, receipt, endpoint, locks, claimed, faults>>

FinalizeSuccess(w) ==
  /\ pc[w] = "succeed"
  /\ eventLock = w
  /\ deliveryLock = NoOne
  /\ event' = [event EXCEPT !.status = "SENT", !.token = 0, !.lease = "NONE", !.next = "NONE"]
  /\ delivery' = [delivery EXCEPT !.status = "DELIVERED", !.error = "NONE"]
  /\ RecordAttemptOnce(claimed[w].attempt, "DELIVERED")
  /\ eventLock' = NoOne
  /\ Goto(w, "idle")
  /\ UNCHANGED <<adapter, receipt, endpoint, deliveryLock, claimed, faults>>

FinalizeFailure(w) ==
  /\ pc[w] \in {"fail", "failFinal"}
  /\ eventLock = w
  /\ deliveryLock = NoOne
  /\ event' = [event EXCEPT !.status = "FAILED", !.token = 0, !.lease = "NONE",
                            !.next = IF IsFinal(w) THEN "NONE" ELSE "LATER"]
  /\ delivery' = [delivery EXCEPT !.status = IF IsFinal(w) THEN "DEAD" ELSE "RETRY_WAIT",
                                  !.error = IF pc[w] = "fail" THEN "RETRYABLE" ELSE "FINAL"]
  /\ RecordAttemptOnce(claimed[w].attempt, IF IsFinal(w) THEN "FAILED_FINAL" ELSE "FAILED_RETRYABLE")
  /\ eventLock' = NoOne
  /\ Goto(w, "idle")
  /\ UNCHANGED <<adapter, receipt, endpoint, deliveryLock, claimed, faults>>

-----------------------------------------------------------------------------
(* The operator. *)

\* Mutant: the delivery's state is not looked at before the second lock is taken.
RedriveableUnchecked == delivery.redrives < MaxRedrives

\* redrive_notification_delivery, the checks made on the locked delivery.
Redriveable ==
  /\ delivery.status = "DEAD"
  /\ delivery.redrives < MaxRedrives
  /\ adapter = "FEISHU" => ~ receipt /\ endpoint

RedriveLockDelivery ==
  /\ deliveryLock = NoOne
  /\ Redriveable
  /\ deliveryLock' = Operator
  /\ UNCHANGED <<adapter, rows, receipt, endpoint, eventLock, pc, claimed, faults>>

\* Mutant: the event keeps its state and is not due.
RedrivenEventUntouched == event

\* The event is due at once and nobody's.
RedrivenEvent ==
  [event EXCEPT !.status = "PENDING", !.token = 0, !.lease = "NONE", !.next = "DUE"]

\* The event lock, the check of its status, and both rows back to PENDING.
Redrive ==
  /\ deliveryLock = Operator
  /\ eventLock = NoOne
  /\ IF event.status = "FAILED"
     THEN /\ event' = RedrivenEvent
          /\ delivery' = [delivery EXCEPT !.status = "PENDING", !.offset = event.attempts,
                                          !.redrives = @ + 1, !.error = "NONE"]
     ELSE UNCHANGED <<event, delivery>>
  /\ deliveryLock' = NoOne
  /\ UNCHANGED <<adapter, ledger, receipt, endpoint, eventLock, pc, claimed, faults>>

\* configure_notification_endpoint and revoke_notification_endpoint
ChangeEndpoint ==
  /\ adapter = "FEISHU"
  /\ endpoint' = ~ endpoint
  /\ UNCHANGED <<adapter, rows, receipt, locks, pc, claimed, faults>>

-----------------------------------------------------------------------------
(* Time and failures. *)

RetryFallsDue ==
  /\ event.next = "LATER"
  /\ event' = [event EXCEPT !.next = "DUE"]
  /\ UNCHANGED <<adapter, delivery, ledger, receipt, endpoint, locks, pc, claimed, faults>>

\* A worker is still busy with the attempt the lease was given for.
HolderAlive == \E w \in Workers : pc[w] \notin {"idle", "claim"} /\ claimed[w].token = event.token

\* locked_at falls behind lease_cutoff after a crash ...
LeaseElapses ==
  /\ event.lease = "LIVE"
  /\ ~ HolderAlive
  /\ event' = [event EXCEPT !.lease = "EXPIRED"]
  /\ UNCHANGED <<adapter, delivery, ledger, receipt, endpoint, locks, pc, claimed, faults>>

\* ... or while a slow worker is still at it.
LeaseOutlived ==
  /\ event.lease = "LIVE"
  /\ HolderAlive
  /\ faults < MaxFaults
  /\ faults' = faults + 1
  /\ event' = [event EXCEPT !.lease = "EXPIRED"]
  /\ UNCHANGED <<adapter, delivery, ledger, receipt, endpoint, locks, pc, claimed>>

\* The process dies: its transaction is rolled back, its restart begins idle.
Crash(w) ==
  /\ pc[w] # "idle"
  /\ faults < MaxFaults
  /\ faults' = faults + 1
  /\ Goto(w, "idle")
  /\ eventLock' = IF eventLock = w THEN NoOne ELSE eventLock
  /\ UNCHANGED <<adapter, rows, receipt, endpoint, deliveryLock, claimed>>

WorkerStep(w) ==
  \/ ClaimLockEvent(w) \/ Claim(w)
  \/ Deliver(w) \/ Send(w) \/ Record(w) \/ InsertReceipt(w)
  \/ FinalizeLockEvent(w) \/ LoseLease(w) \/ FinalizeSuccess(w) \/ FinalizeFailure(w)

Next ==
  \/ \E w \in Workers : WorkerStep(w) \/ Crash(w)
  \/ RedriveLockDelivery \/ Redrive \/ ChangeEndpoint
  \/ RetryFallsDue \/ LeaseElapses \/ LeaseOutlived

\* Each worker process loops for ever and is restarted when it dies, a transaction
\* that has its locks commits, and the clock advances.  Nobody has to redrive.
Fairness ==
  /\ \A w \in Workers : WF_vars(WorkerStep(w))
  /\ WF_vars(Redrive)
  /\ WF_vars(RetryFallsDue)
  /\ WF_vars(LeaseElapses)

Spec == Init /\ [][Next]_vars /\ Fairness

-----------------------------------------------------------------------------
(* Safety. *)

\* The two rows and the attempts tell one story although three transactions write
\* them: same attempts, matching statuses, and a next attempt, a lease and a token
\* exactly when the status calls for them (the check constraints of both tables);
\* and every attempt but the one under way has exactly one result, whoever wrote it:
\* a worker that lost its lease settles neither its own attempt nor another's.
\* (All rows are typed.)
RowsAgree ==
  /\ TypeOK
  /\ event.attempts = delivery.attempts
  /\ delivery.offset <= delivery.attempts
  /\ delivery.status = "PENDING" <=> event.status = "PENDING"
  /\ delivery.status = "SENDING" <=> event.status = "PROCESSING"
  /\ delivery.status = "DELIVERED" <=> event.status = "SENT"
  /\ delivery.status = "RETRY_WAIT" <=> event.status = "FAILED" /\ event.next # "NONE"
  /\ delivery.status = "DEAD" <=> event.status = "FAILED" /\ event.next = "NONE"
  /\ delivery.status \in {"SENDING", "RETRY_WAIT", "DEAD"} => delivery.attempts > delivery.offset
  /\ event.status = "PROCESSING" <=> event.lease # "NONE"
  /\ event.token = IF event.status = "PROCESSING" THEN event.attempts ELSE 0
  /\ {a[1] : a \in ledger} = {n \in 1..event.attempts : event.status = "PROCESSING" => n < event.attempts}
  /\ \A a, b \in ledger : a[1] = b[1] => a = b

\* A settled notification has earned its status.  DELIVERED rests on the receipt, also
\* when another worker delivered it; DEAD needs a final error or all the attempts of the
\* current cycle, earlier cycles do not count; and no cycle fails more often than
\* MaxAttempts, only lost leases come on top.
SettledIsEarned ==
  /\ delivery.status = "DELIVERED" => receipt
  /\ delivery.status = "DEAD" =>
       delivery.error = "FINAL" \/ delivery.attempts - delivery.offset >= MaxAttempts
  /\ Cardinality({a \in ledger : a[1] > delivery.offset /\ a[2] \in {"FAILED_RETRYABLE", "FAILED_FINAL"}})
       <= MaxAttempts

\* The workers lock event then delivery, the redrive delivery then event: the
\* status checks are all that keeps the two from waiting for each other.
NoCircularWait == ~ (deliveryLock = Operator /\ eventLock # NoOne)

-----------------------------------------------------------------------------
(* Liveness and implementation. *)

Settled == delivery.status \in {"DELIVERED", "DEAD"}

\* Once the recipient is configured for good, finitely many faults cannot keep the
\* notification from being delivered or declared dead, for good.
EventuallySettled == <>[] endpoint => <>[] Settled

Promise == INSTANCE NotificationDelivery WITH
  status <- delivery.status, attempts <- delivery.attempts,
  record <- ledger, redrives <- delivery.redrives

\* Workers that crash, stall and race implement one orderly delivery.
ImplementsDelivery == Promise!Spec

=============================================================================
