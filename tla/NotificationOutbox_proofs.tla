--------------------- MODULE NotificationOutbox_proofs ---------------------
(***************************************************************************)
(* Proofs about NotificationOutbox for every number of workers, attempts,  *)
(* redrives and faults: the rows of event, delivery and ledger tell one    *)
(* story, a settled notification has earned its status, workers and        *)
(* operator never wait for each other, and all of them together implement  *)
(* NotificationDelivery.                                                   *)
(***************************************************************************)
EXTENDS NotificationOutbox, Functions, FiniteSetTheorems, TLAPS

-----------------------------------------------------------------------------
(* The inductive invariant. *)

\* The rows of event and delivery, as RowsAgree puts them.
StatusesMatch ==
  /\ event.attempts = delivery.attempts
  /\ delivery.offset <= delivery.attempts
  /\ delivery.status = "PENDING" <=> event.status = "PENDING"
  /\ delivery.status = "SENDING" <=> event.status = "PROCESSING"
  /\ delivery.status = "DELIVERED" <=> event.status = "SENT"
  /\ delivery.status = "RETRY_WAIT" <=> event.status = "FAILED" /\ event.next # "NONE"
  /\ delivery.status = "DEAD" <=> event.status = "FAILED" /\ event.next = "NONE"
  /\ delivery.status \in {"SENDING", "RETRY_WAIT", "DEAD"} => delivery.attempts > delivery.offset
  /\ event.status = "PROCESSING" <=> event.lease # "NONE"
  /\ event.token = IF event.status = "PROCESSING" THEN event.attempts ELSE 0

\* The attempts that have their result.
Recorded(n) == \E a \in ledger : a[1] = n

\* Every attempt but the one under way has one result, as RowsAgree puts it.
LedgerComplete ==
  /\ \A n \in Nat : Recorded(n) <=>
       n \in 1..event.attempts /\ (event.status = "PROCESSING" => n < event.attempts)
  /\ \A a, b \in ledger : a[1] = b[1] => a = b

\* An event that may be claimed, whoever its recipient is.
Claimable ==
  \/ event.status \in {"PENDING", "FAILED"} /\ event.next = "DUE"
  \/ event.status = "PROCESSING" /\ event.lease = "EXPIRED"

\* What a row lock guarantees while it is held: a worker has it to claim an event that
\* stays claimable, or to settle one that stays its own; the operator has it to redrive a
\* delivery that stays dead.
LocksAgree ==
  /\ \A w \in Workers : eventLock = w => pc[w] = "claim" \/ (Finalizing(w) /\ OwnsLease(w))
  /\ \A w \in Workers : pc[w] = "claim" => eventLock = w /\ Claimable
  /\ deliveryLock = Operator => delivery.status = "DEAD" /\ delivery.redrives < MaxRedrives

Busy(w) == pc[w] \notin {"idle", "claim"}

\* A busy worker holds a claim of the past or the present one, and the present one counts
\* the attempts of the present cycle.  Who is about to report success has its receipt.
ClaimsAgree ==
  \A w \in Workers :
    /\ Busy(w) => /\ claimed[w].token = claimed[w].attempt
                  /\ claimed[w].token \in 1..event.attempts
    /\ Busy(w) /\ OwnsLease(w) => claimed[w].cycle = event.attempts - delivery.offset
    /\ pc[w] = "succeed" => receipt

\* What the failures of the present cycle say, and how a delivery was settled.
FailuresAreCounted ==
  \A a \in ledger : a[1] > delivery.offset =>
    /\ a[2] = "FAILED_RETRYABLE" => a[1] < delivery.offset + MaxAttempts
    /\ a[2] = "FAILED_FINAL" => delivery.status = "DEAD" /\ a[1] = delivery.attempts

SettledRightly ==
  /\ delivery.status = "DELIVERED" => receipt
  /\ delivery.status = "DEAD" =>
       delivery.error = "FINAL" \/ delivery.attempts - delivery.offset >= MaxAttempts

IInv ==
  /\ TypeOK /\ StatusesMatch /\ LedgerComplete
  /\ LocksAgree /\ ClaimsAgree
  /\ FailuresAreCounted /\ SettledRightly

\* IInv says in parts what RowsAgree says in one.
LEMMA InvRows == IInv => RowsAgree
<1> SUFFICES ASSUME IInv PROVE RowsAgree
  OBVIOUS
<1> DEFINE Due == {n \in 1..event.attempts : event.status = "PROCESSING" => n < event.attempts}
<1>1. \A a \in ledger : a[1] \in Nat
  BY DEF IInv, TypeOK
<1>2. event.attempts \in Nat
  BY DEF IInv, TypeOK
<1>3. \A n \in Nat : Recorded(n) <=> n \in Due
  BY <1>2 DEF IInv, LedgerComplete
<1>4. {a[1] : a \in ledger} = Due
  BY <1>1, <1>2, <1>3 DEF Recorded
<1> QED
  BY <1>4 DEF IInv, StatusesMatch, LedgerComplete, RowsAgree

\* At the start nothing was attempted.
LEMMA InitInv == Init => IInv
<1> SUFFICES ASSUME Init PROVE IInv
  OBVIOUS
<1> USE DEF Init
<1>1. TypeOK
  <2>1. /\ adapter \in Adapters /\ ledger = {} /\ eventLock = NoOne /\ deliveryLock = NoOne /\ faults \in 0..MaxFaults
    BY LimitAssumption
  <2>2. endpoint \in BOOLEAN /\ receipt \in BOOLEAN
    BY Zenon
  <2>3. /\ pc \in [Workers -> {"idle", "claim", "deliver", "send", "record", "insert",
                               "succeed", "fail", "failFinal"}]
        /\ claimed \in [Workers -> [token : Nat, attempt : Nat, cycle : Nat]]
    OBVIOUS
  <2>4. /\ event \in [status : {"PENDING", "PROCESSING", "SENT", "FAILED"}, attempts : Nat,
                      token : Nat, lease : {"NONE", "LIVE", "EXPIRED"},
                      next : {"NONE", "LATER", "DUE"}]
        /\ delivery \in [status : {"PENDING", "SENDING", "DELIVERED", "RETRY_WAIT", "DEAD"},
                         attempts : Nat, offset : Nat, redrives : 0..MaxRedrives,
                         error : {"NONE", "RETRYABLE", "FINAL"}]
    BY LimitAssumption
  <2> QED
    BY <2>1, <2>2, <2>3, <2>4 DEF TypeOK
<1>2. StatusesMatch /\ LedgerComplete
  BY DEF StatusesMatch, LedgerComplete, Recorded
<1>3. LocksAgree
  BY HolderAssumption DEF LocksAgree
<1>4. ClaimsAgree
  BY DEF ClaimsAgree, Busy
<1>5. FailuresAreCounted /\ SettledRightly
  BY DEF FailuresAreCounted, SettledRightly
<1> QED
  BY <1>1, <1>2, <1>3, <1>4, <1>5 DEF IInv

-----------------------------------------------------------------------------
(* The ledger. *)

\* The attempt under way is not recorded yet, so its record is written.
LEMMA RecordIsNew ==
  ASSUME IInv, event.status = "PROCESSING", NEW result, RecordAttemptOnce(event.attempts, result)
  PROVE  /\ \A a \in ledger : a[1] \in Nat /\ a[1] # event.attempts
         /\ ledger' = ledger \cup {<<event.attempts, result>>}
<1>1. event.attempts \in Nat /\ \A a \in ledger : a[1] \in Nat
  BY DEF IInv, TypeOK
<1>2. ~ Recorded(event.attempts)
  BY <1>1 DEF IInv, LedgerComplete
<1> QED
  BY <1>1, <1>2 DEF RecordAttemptOnce, Recorded

\* With the record of the attempt under way the ledger is complete again, whether the
\* attempt ended or the next one began.
LEMMA RecordCompletes ==
  ASSUME IInv, event.status = "PROCESSING", NEW result, RecordAttemptOnce(event.attempts, result),
         \/ event'.status # "PROCESSING" /\ event'.attempts = event.attempts
         \/ event'.status = "PROCESSING" /\ event'.attempts = event.attempts + 1
  PROVE  LedgerComplete'
<1> DEFINE m == event.attempts
           new == <<m, result>>
<1>1. m \in Nat /\ m >= 1
  BY DEF IInv, TypeOK, StatusesMatch
<1>2. (\A a \in ledger : a[1] # m) /\ ledger' = ledger \cup {new} /\ new[1] = m
  BY RecordIsNew
<1>3. ASSUME NEW n \in Nat
      PROVE  Recorded(n)' <=>
               n \in 1..event'.attempts /\ (event'.status = "PROCESSING" => n < event'.attempts)
  <2>1. Recorded(n)' <=> Recorded(n) \/ n = m
    BY <1>2 DEF Recorded
  <2>2. Recorded(n) <=> n \in 1..m /\ n < m
    BY DEF IInv, LedgerComplete
  <2> QED
    BY <1>1, <2>1, <2>2
<1>4. \A a, b \in ledger' : a[1] = b[1] => a = b
  BY <1>2 DEF IInv, LedgerComplete
<1> QED
  BY <1>3, <1>4 DEF LedgerComplete

\* A ledger nobody writes stays complete while the event is neither claimed nor settled, or
\* is claimed from rest.
LEMMA LedgerFrame ==
  ASSUME IInv, ledger' = ledger,
         \/ /\ event'.attempts = event.attempts
            /\ event'.status = "PROCESSING" <=> event.status = "PROCESSING"
         \/ /\ event'.attempts = event.attempts + 1
            /\ event.status # "PROCESSING" /\ event'.status = "PROCESSING"
  PROVE  LedgerComplete'
<1>1. event.attempts \in Nat
  BY DEF IInv, TypeOK
<1>2. \A n \in Nat : Recorded(n)' <=> Recorded(n)
  BY DEF Recorded
<1> QED
  BY <1>1, <1>2 DEF IInv, LedgerComplete

-----------------------------------------------------------------------------
(* What the commands that write the rows do. *)

\* A worker that holds the row lock to settle the event holds its present attempt.
LEMMA SettlerOwns ==
  ASSUME IInv, NEW w \in Workers, eventLock = w, Finalizing(w)
  PROVE  /\ event.status = "PROCESSING" /\ delivery.status = "SENDING"
         /\ claimed[w].attempt = event.attempts
         /\ claimed[w].cycle = event.attempts - delivery.offset
         /\ Busy(w) /\ event.lease # "NONE"
<1>1. Busy(w) /\ OwnsLease(w)
  BY DEF IInv, LocksAgree, Finalizing, Busy
<1>2. event.status = "PROCESSING" /\ event.token = event.attempts
  BY <1>1 DEF OwnsLease, IInv, StatusesMatch
<1> QED
  BY <1>1, <1>2 DEF IInv, ClaimsAgree, OwnsLease, StatusesMatch

\* A claim begins the next attempt, and writes off the one a lost worker left behind.
LEMMA ClaimMoves ==
  ASSUME IInv, NEW w \in Workers, Claim(w)
  PROVE  /\ eventLock = w /\ Claimable /\ deliveryLock = NoOne
         /\ event' = [status |-> "PROCESSING", attempts |-> event.attempts + 1,
                      token |-> event.attempts + 1, lease |-> "LIVE", next |-> "NONE"]
         /\ delivery' = [delivery EXCEPT !.status = "SENDING", !.attempts = event.attempts + 1,
                                         !.error = "NONE"]
         /\ claimed' = [claimed EXCEPT ![w] = [token |-> event.attempts + 1,
                          attempt |-> event.attempts + 1,
                          cycle |-> CycleAttempt(event.attempts + 1)]]
         /\ event.status = "PROCESSING" => RecordAttemptOnce(event.attempts, "LEASE_EXPIRED")
         /\ event.status # "PROCESSING" => ledger' = ledger
         /\ pc' = [pc EXCEPT ![w] = "deliver"] /\ eventLock' = NoOne
         /\ UNCHANGED <<adapter, receipt, endpoint, deliveryLock, faults>>
<1>1. pc[w] = "claim"
  BY DEF Claim
<1>2. eventLock = w /\ Claimable
  BY <1>1 DEF IInv, LocksAgree
<1>3. event' = [status |-> "PROCESSING", attempts |-> event.attempts + 1,
                token |-> event.attempts + 1, lease |-> "LIVE", next |-> "NONE"]
  BY DEF Claim
<1>4. delivery' = [delivery EXCEPT !.status = "SENDING", !.attempts = event.attempts + 1,
                                   !.error = "NONE"]
  BY DEF Claim
<1>5. claimed' = [claimed EXCEPT ![w] = [token |-> event.attempts + 1,
                    attempt |-> event.attempts + 1,
                    cycle |-> CycleAttempt(event.attempts + 1)]]
  BY DEF Claim
<1> QED
  BY <1>2, <1>3, <1>4, <1>5 DEF Claim, Goto

\* How the two finalizing transactions settle the attempt under way.
SettleTo(to, result, next, error) ==
  /\ event' = [event EXCEPT !.status = IF to = "DELIVERED" THEN "SENT" ELSE "FAILED",
                            !.token = 0, !.lease = "NONE", !.next = next]
  /\ delivery' = [delivery EXCEPT !.status = to, !.error = error]
  /\ RecordAttemptOnce(event.attempts, result)
  /\ \/ <<to, result, next, error>> = <<"DELIVERED", "DELIVERED", "NONE", "NONE">> /\ receipt
     \/ /\ <<to, result, next, error>> = <<"RETRY_WAIT", "FAILED_RETRYABLE", "LATER", "RETRYABLE">>
        /\ event.attempts - delivery.offset < MaxAttempts
     \/ /\ <<to, result, next>> = <<"DEAD", "FAILED_FINAL", "NONE">>
        /\ error \in {"RETRYABLE", "FINAL"}
        /\ error = "FINAL" \/ event.attempts - delivery.offset >= MaxAttempts

\* finalize_success and finalize_failure: the worker that holds both rows settles its claim.
LEMMA SettleMoves ==
  ASSUME IInv, NEW w \in Workers, FinalizeSuccess(w) \/ FinalizeFailure(w)
  PROVE  /\ eventLock = w /\ Finalizing(w) /\ deliveryLock = NoOne
         /\ \E to \in {"DELIVERED", "RETRY_WAIT", "DEAD"}, result \in AttemptStatus,
               next \in {"NONE", "LATER"}, error \in {"NONE", "RETRYABLE", "FINAL"} :
              SettleTo(to, result, next, error)
         /\ pc' = [pc EXCEPT ![w] = "idle"] /\ eventLock' = NoOne
         /\ UNCHANGED <<adapter, receipt, endpoint, deliveryLock, claimed, faults>>
<1>1. eventLock = w /\ Finalizing(w)
  BY DEF FinalizeSuccess, FinalizeFailure, Finalizing
<1>2. /\ claimed[w].attempt = event.attempts
      /\ claimed[w].cycle = event.attempts - delivery.offset
      /\ delivery.attempts \in Nat /\ delivery.offset \in Nat /\ event.attempts \in Nat
  BY <1>1, SettlerOwns DEF IInv, TypeOK
<1>3. delivery \in [status : {"PENDING", "SENDING", "DELIVERED", "RETRY_WAIT", "DEAD"},
                    attempts : Nat, offset : Nat, redrives : 0..MaxRedrives,
                    error : {"NONE", "RETRYABLE", "FINAL"}]
  BY DEF IInv, TypeOK
<1>4. CASE FinalizeSuccess(w)
  <2>1. receipt
    BY <1>4 DEF FinalizeSuccess, IInv, ClaimsAgree
  <2>2. SettleTo("DELIVERED", "DELIVERED", "NONE", "NONE")
    BY <1>2, <1>3, <1>4, <2>1 DEF FinalizeSuccess, SettleTo
  <2> QED
    BY <1>1, <1>4, <2>2 DEF FinalizeSuccess, Goto, AttemptStatus
<1>5. CASE FinalizeFailure(w)
  <2>1. CASE IsFinal(w)
    <3>1. \E error \in {"RETRYABLE", "FINAL"} : SettleTo("DEAD", "FAILED_FINAL", "NONE", error)
      BY <1>2, <1>3, <1>5, <2>1 DEF FinalizeFailure, SettleTo, IsFinal
    <3> QED
      BY <1>1, <1>5, <3>1 DEF FinalizeFailure, Goto, AttemptStatus
  <2>2. CASE ~ IsFinal(w)
    <3>1. event.attempts - delivery.offset < MaxAttempts
      BY <1>2, <2>2, LimitAssumption DEF IsFinal
    <3>2. SettleTo("RETRY_WAIT", "FAILED_RETRYABLE", "LATER", "RETRYABLE")
      <4>1. pc[w] = "fail"
        BY <1>5, <2>2 DEF FinalizeFailure, IsFinal
      <4> QED
        BY <1>2, <1>5, <2>2, <3>1, <4>1 DEF FinalizeFailure, SettleTo
    <3> QED
      BY <1>1, <1>5, <3>2 DEF FinalizeFailure, Goto, AttemptStatus
  <2> QED
    BY <2>1, <2>2
<1> QED
  BY <1>4, <1>5

\* The operator who holds the dead delivery finds its event failed, so the redrive is done.
LEMMA RedriveMoves ==
  ASSUME IInv, Redrive
  PROVE  /\ delivery.status = "DEAD" /\ event.status = "FAILED" /\ delivery.redrives < MaxRedrives
         /\ event' = RedrivenEvent
         /\ delivery' = [delivery EXCEPT !.status = "PENDING", !.offset = event.attempts,
                                         !.redrives = @ + 1, !.error = "NONE"]
         /\ eventLock = NoOne /\ deliveryLock' = NoOne
         /\ UNCHANGED <<adapter, ledger, receipt, endpoint, eventLock, pc, claimed, faults>>
  BY DEF Redrive, IInv, LocksAgree, StatusesMatch

\* The commands that leave all the rows alone.
Silent(w) ==
  \/ ClaimLockEvent(w) \/ Deliver(w) \/ Send(w) \/ Record(w) \/ InsertReceipt(w)
  \/ FinalizeLockEvent(w) \/ LoseLease(w) \/ Crash(w)

\* Time: the steps that only let the next attempt fall due or the lease elapse.
Elapse == RetryFallsDue \/ LeaseElapses \/ LeaseOutlived

\* Time changes the lease or the next attempt, and no other row.
LEMMA ElapseMoves ==
  ASSUME IInv, Elapse
  PROVE  /\ \/ event.next = "LATER" /\ event' = [event EXCEPT !.next = "DUE"]
            \/ event.lease = "LIVE" /\ event' = [event EXCEPT !.lease = "EXPIRED"]
         /\ faults' \in 0..MaxFaults
         /\ UNCHANGED <<adapter, delivery, ledger, receipt, endpoint, locks, pc, claimed>>
  BY LimitAssumption DEF Elapse, RetryFallsDue, LeaseElapses, LeaseOutlived, IInv, TypeOK

\* The kinds of steps.
LEMMA StepKinds ==
  ASSUME [Next]_vars
  PROVE  \/ \E w \in Workers : Silent(w) \/ Claim(w) \/ FinalizeSuccess(w) \/ FinalizeFailure(w)
         \/ RedriveLockDelivery \/ Redrive \/ ChangeEndpoint \/ Elapse
         \/ UNCHANGED vars
  BY DEF Next, WorkerStep, Silent, Elapse

Labels == {"idle", "claim", "deliver", "send", "record", "insert", "succeed", "fail", "failFinal"}

\* A silent step moves one worker and changes the row lock in three ways: taken to claim,
\* taken to settle, or let go by a worker that holds no more.
LEMMA SilentMoves ==
  ASSUME IInv, NEW w \in Workers, Silent(w)
  PROVE  /\ UNCHANGED <<adapter, event, delivery, ledger, deliveryLock, claimed>>
         /\ faults' \in 0..MaxFaults
         /\ \E label \in Labels :
              /\ pc' = [pc EXCEPT ![w] = label]
              /\ label \notin {"idle", "claim"} => Busy(w)
              /\ \/ label = "claim" /\ eventLock = NoOne /\ eventLock' = w /\ Claimable
                 \/ /\ label = pc[w] /\ eventLock = NoOne /\ eventLock' = w
                    /\ Finalizing(w) /\ OwnsLease(w)
                 \/ /\ label # "claim" /\ eventLock' # w
                    /\ eventLock' = eventLock \/ (eventLock = w /\ eventLock' = NoOne)
<1>0. /\ pc \in [Workers -> Labels] /\ faults \in 0..MaxFaults
      /\ w # NoOne
      /\ eventLock = w => pc[w] = "claim" \/ (Finalizing(w) /\ OwnsLease(w))
  BY HolderAssumption DEF IInv, TypeOK, Labels, LocksAgree
<1>1. CASE ClaimLockEvent(w)
  BY <1>0, <1>1 DEF ClaimLockEvent, Goto, Labels, Eligible, Claimable, rows
<1>2. CASE Deliver(w) \/ Send(w) \/ Record(w) \/ InsertReceipt(w)
  <2>1. \E label \in {"succeed", "send", "record", "failFinal", "insert", "fail", "idle"} :
          pc' = [pc EXCEPT ![w] = label]
    BY <1>2 DEF Deliver, Send, Record, InsertReceipt, Goto
  <2>2. /\ pc[w] \in {"deliver", "send", "record", "insert"}
        /\ UNCHANGED <<adapter, event, delivery, ledger, eventLock, deliveryLock, claimed, faults>>
    BY <1>2 DEF Deliver, Send, Record, InsertReceipt, rows, locks
  <2> QED
    BY <1>0, <2>1, <2>2 DEF Labels, Busy, Finalizing
<1>3. CASE FinalizeLockEvent(w)
  <2>1. pc' = [pc EXCEPT ![w] = pc[w]]
    BY <1>0, <1>3 DEF FinalizeLockEvent
  <2> QED
    BY <1>0, <1>3, <2>1 DEF FinalizeLockEvent, Labels, Busy, Finalizing, rows
<1>4. CASE LoseLease(w)
  <2>1. /\ eventLock # w
        /\ UNCHANGED <<adapter, event, delivery, ledger, eventLock, deliveryLock, claimed, faults>>
        /\ pc' = [pc EXCEPT ![w] = "idle"]
    BY <1>0, <1>4 DEF LoseLease, Goto, Finalizing, rows, locks
  <2> QED
    BY <1>0, <2>1 DEF Labels
<1>5. CASE Crash(w)
  <2>1. /\ faults' \in 0..MaxFaults
        /\ eventLock' = IF eventLock = w THEN NoOne ELSE eventLock
        /\ UNCHANGED <<adapter, event, delivery, ledger, deliveryLock, claimed>>
        /\ pc' = [pc EXCEPT ![w] = "idle"]
    BY <1>0, <1>5, LimitAssumption DEF Crash, Goto, rows
  <2> QED
    BY <1>0, <2>1 DEF Labels
<1> QED
  BY <1>1, <1>2, <1>3, <1>4, <1>5 DEF Silent

-----------------------------------------------------------------------------
(* Every step keeps every part of the invariant. *)

EventRows ==
  [status : {"PENDING", "PROCESSING", "SENT", "FAILED"}, attempts : Nat, token : Nat,
   lease : {"NONE", "LIVE", "EXPIRED"}, next : {"NONE", "LATER", "DUE"}]
DeliveryRows ==
  [status : {"PENDING", "SENDING", "DELIVERED", "RETRY_WAIT", "DEAD"}, attempts : Nat,
   offset : Nat, redrives : 0..MaxRedrives, error : {"NONE", "RETRYABLE", "FINAL"}]

\* Rows that are updated stay rows.
LEMMA RowsTyped ==
  ASSUME NEW e \in EventRows, NEW d \in DeliveryRows, NEW n \in Nat,
         NEW status \in {"PENDING", "SENDING", "DELIVERED", "RETRY_WAIT", "DEAD"},
         NEW error \in {"NONE", "RETRYABLE", "FINAL"}, NEW next \in {"NONE", "LATER", "DUE"},
         NEW eventStatus \in {"PENDING", "PROCESSING", "SENT", "FAILED"}
  PROVE  /\ [e EXCEPT !.status = eventStatus, !.token = 0, !.lease = "NONE", !.next = next] \in EventRows
         /\ [e EXCEPT !.next = "DUE"] \in EventRows
         /\ [e EXCEPT !.lease = "EXPIRED"] \in EventRows
         /\ [d EXCEPT !.status = status, !.attempts = n, !.error = error] \in DeliveryRows
         /\ [d EXCEPT !.status = status, !.error = error] \in DeliveryRows
         /\ d.redrives < MaxRedrives =>
              [d EXCEPT !.status = status, !.offset = n, !.redrives = @ + 1, !.error = error] \in DeliveryRows
<1> USE DEF EventRows, DeliveryRows
<1>1. /\ [e EXCEPT !.status = eventStatus, !.token = 0, !.lease = "NONE", !.next = next] \in EventRows
      /\ [e EXCEPT !.next = "DUE"] \in EventRows
      /\ [e EXCEPT !.lease = "EXPIRED"] \in EventRows
  OBVIOUS
<1>2. /\ [d EXCEPT !.status = status, !.attempts = n, !.error = error] \in DeliveryRows
      /\ [d EXCEPT !.status = status, !.error = error] \in DeliveryRows
  OBVIOUS
<1>3. ASSUME d.redrives < MaxRedrives
      PROVE  [d EXCEPT !.status = status, !.offset = n, !.redrives = @ + 1, !.error = error] \in DeliveryRows
  <2>1. d.redrives + 1 \in 0..MaxRedrives
    BY <1>3, LimitAssumption
  <2> QED
    BY <2>1
<1> QED
  BY <1>1, <1>2, <1>3

\* The receipt, once inserted, stays, and who reports success has seen or inserted it.
LEMMA ReceiptStays ==
  ASSUME IInv, [Next]_vars
  PROVE  /\ receipt' \in BOOLEAN /\ endpoint' \in BOOLEAN
         /\ receipt => receipt'
         /\ \A w \in Workers : pc'[w] = "succeed" => receipt'
<1> DEFINE Stays == /\ receipt' \in BOOLEAN /\ endpoint' \in BOOLEAN
                    /\ receipt => receipt'
                    /\ \A w \in Workers : pc'[w] = "succeed" => receipt'
<1>0. /\ pc \in [Workers -> Labels] /\ receipt \in BOOLEAN /\ endpoint \in BOOLEAN
      /\ \A w \in Workers : pc[w] = "succeed" => receipt
  BY Zenon DEF IInv, TypeOK, Labels, ClaimsAgree
<1>1. ASSUME NEW w \in Workers, NEW label, pc' = [pc EXCEPT ![w] = label],
             label = "succeed" => receipt', receipt' \in BOOLEAN, receipt => receipt',
             endpoint' = endpoint
      PROVE  Stays
  <2>1. \A x \in Workers : pc'[x] = "succeed" => pc[x] = "succeed" \/ label = "succeed"
    BY <1>0, <1>1
  <2> QED
    BY <1>0, <1>1, <2>1, Zenon
<1>2. ASSUME NEW w \in Workers, Silent(w) PROVE Stays
  <2>1. CASE Deliver(w)
    BY <1>0, <1>1, <2>1, Zenon DEF Deliver, Goto
  <2>2. CASE Send(w)
    BY <1>0, <1>1, <2>2, Zenon DEF Send, Goto
  <2>3. CASE Record(w)
    BY <1>0, <1>1, <2>3, Zenon DEF Record, Goto
  <2>4. CASE InsertReceipt(w)
    BY <1>0, <1>1, <2>4, Zenon DEF InsertReceipt, Goto
  <2>5. CASE FinalizeLockEvent(w)
    BY <1>0, <2>5, Zenon DEF FinalizeLockEvent
  <2>6. CASE ClaimLockEvent(w) \/ LoseLease(w) \/ Crash(w)
    BY <1>0, <1>1, <2>6, Zenon DEF ClaimLockEvent, LoseLease, Crash, Goto
  <2> QED
    BY <1>2, <2>1, <2>2, <2>3, <2>4, <2>5, <2>6 DEF Silent
<1>3. ASSUME NEW w \in Workers, Claim(w) \/ FinalizeSuccess(w) \/ FinalizeFailure(w) PROVE Stays
  BY <1>0, <1>1, <1>3, Zenon DEF Claim, FinalizeSuccess, FinalizeFailure, Goto
<1>4. CASE RedriveLockDelivery \/ Redrive \/ ChangeEndpoint \/ Elapse \/ UNCHANGED vars
  BY <1>0, <1>4, Zenon DEF RedriveLockDelivery, Redrive, ChangeEndpoint, Elapse, RetryFallsDue,
    LeaseElapses, LeaseOutlived, vars
<1> QED
  BY <1>2, <1>3, <1>4, StepKinds

\* Every step writes well-typed rows.
LEMMA NextTyped ==
  ASSUME IInv, [Next]_vars
  PROVE  TypeOK'
<1>0. /\ adapter \in Adapters /\ event \in EventRows /\ delivery \in DeliveryRows
      /\ ledger \subseteq Nat \X AttemptStatus
      /\ eventLock \in Workers \cup {NoOne} /\ deliveryLock \in {Operator, NoOne}
      /\ pc \in [Workers -> Labels]
      /\ claimed \in [Workers -> [token : Nat, attempt : Nat, cycle : Nat]]
      /\ faults \in 0..MaxFaults
      /\ event.attempts \in Nat /\ delivery.offset \in Nat
      /\ delivery.offset <= event.attempts
  BY DEF IInv, TypeOK, EventRows, DeliveryRows, Labels, StatusesMatch
<1> DEFINE Typed == /\ event' \in EventRows /\ delivery' \in DeliveryRows
                    /\ ledger' \subseteq Nat \X AttemptStatus
                    /\ adapter' \in Adapters
                    /\ eventLock' \in Workers \cup {NoOne} /\ deliveryLock' \in {Operator, NoOne}
                    /\ pc' \in [Workers -> Labels]
                    /\ claimed' \in [Workers -> [token : Nat, attempt : Nat, cycle : Nat]]
                    /\ faults' \in 0..MaxFaults
<1>1. ASSUME NEW w \in Workers, Silent(w) PROVE Typed
  BY <1>0, <1>1, SilentMoves
<1>2. ASSUME NEW w \in Workers, Claim(w) PROVE Typed
  <2>1. event' \in EventRows
    <3>1. event' = [status |-> "PROCESSING", attempts |-> event.attempts + 1,
                    token |-> event.attempts + 1, lease |-> "LIVE", next |-> "NONE"]
      BY <1>2, ClaimMoves
    <3> QED
      BY <1>0, <3>1 DEF EventRows
  <2>2. delivery' \in DeliveryRows
    <3>1. delivery' = [delivery EXCEPT !.status = "SENDING", !.attempts = event.attempts + 1,
                                       !.error = "NONE"]
      BY <1>2, ClaimMoves
    <3>2. event.attempts + 1 \in Nat
      BY <1>0
    <3> QED
      BY <1>0, <3>1, <3>2, RowsTyped
  <2>3. ledger' \subseteq Nat \X AttemptStatus
    BY <1>0, <1>2, ClaimMoves DEF RecordAttemptOnce, AttemptStatus
  <2>4. claimed' \in [Workers -> [token : Nat, attempt : Nat, cycle : Nat]]
    <3>1. CycleAttempt(event.attempts + 1) \in Nat
      BY <1>0 DEF CycleAttempt
    <3> QED
      BY <1>0, <1>2, <3>1, ClaimMoves
  <2>5. /\ pc' = [pc EXCEPT ![w] = "deliver"] /\ eventLock' = NoOne
        /\ UNCHANGED <<adapter, deliveryLock, faults>>
    BY <1>2, ClaimMoves
  <2> QED
    BY <1>0, <2>1, <2>2, <2>3, <2>4, <2>5 DEF Labels
<1>3. ASSUME NEW w \in Workers, FinalizeSuccess(w) \/ FinalizeFailure(w) PROVE Typed
  <2>1. PICK to \in {"DELIVERED", "RETRY_WAIT", "DEAD"}, result \in AttemptStatus,
             next \in {"NONE", "LATER"}, error \in {"NONE", "RETRYABLE", "FINAL"} :
               SettleTo(to, result, next, error)
    BY <1>3, SettleMoves
  <2>2. event' \in EventRows /\ delivery' \in DeliveryRows
    BY <1>0, <2>1, RowsTyped DEF SettleTo
  <2>3. ledger' \subseteq Nat \X AttemptStatus
    BY <1>0, <2>1 DEF SettleTo, RecordAttemptOnce
  <2>4. /\ pc' = [pc EXCEPT ![w] = "idle"] /\ eventLock' = NoOne
        /\ UNCHANGED <<adapter, deliveryLock, claimed, faults>>
    BY <1>3, SettleMoves
  <2> QED
    BY <1>0, <2>2, <2>3, <2>4 DEF Labels
<1>4. ASSUME Redrive PROVE Typed
  <2>1. /\ delivery.redrives < MaxRedrives /\ event' = RedrivenEvent
        /\ delivery' = [delivery EXCEPT !.status = "PENDING", !.offset = event.attempts,
                                        !.redrives = @ + 1, !.error = "NONE"]
        /\ deliveryLock' = NoOne
        /\ UNCHANGED <<adapter, ledger, eventLock, pc, claimed, faults>>
    BY <1>4, RedriveMoves
  <2>2. event' \in EventRows
    BY <1>0, <2>1, RowsTyped DEF RedrivenEvent
  <2>3. delivery' \in DeliveryRows
    BY <1>0, <2>1, RowsTyped
  <2> QED
    BY <1>0, <2>1, <2>2, <2>3
<1>5. ASSUME RedriveLockDelivery \/ ChangeEndpoint PROVE Typed
  <2>1. /\ deliveryLock' \in {deliveryLock, Operator}
        /\ UNCHANGED <<adapter, event, delivery, ledger, eventLock, pc, claimed, faults>>
    BY <1>5 DEF RedriveLockDelivery, ChangeEndpoint, rows, locks
  <2> QED
    BY <1>0, <2>1
<1>6. ASSUME Elapse PROVE Typed
  <2>1. /\ event' \in {[event EXCEPT !.next = "DUE"], [event EXCEPT !.lease = "EXPIRED"]}
        /\ faults' \in 0..MaxFaults
        /\ UNCHANGED <<adapter, delivery, ledger, eventLock, deliveryLock, pc, claimed>>
    BY <1>6, ElapseMoves DEF locks
  <2>2. event' \in EventRows
    BY <1>0, <2>1, RowsTyped
  <2> QED
    BY <1>0, <2>1, <2>2
<1>7. ASSUME UNCHANGED vars PROVE Typed
  <2>1. UNCHANGED <<adapter, event, delivery, ledger, eventLock, deliveryLock, pc, claimed, faults>>
    BY <1>7 DEF vars, rows, locks
  <2> QED
    BY <1>0, <2>1
<1>8. Typed
  BY <1>1, <1>2, <1>3, <1>4, <1>5, <1>6, <1>7, StepKinds
<1>9. receipt' \in BOOLEAN /\ endpoint' \in BOOLEAN
  BY ReceiptStays
<1> QED
  BY <1>8, <1>9, Zenon DEF TypeOK, EventRows, DeliveryRows, Labels

\* What a settled attempt leaves of both rows.
LEMMA SettledRows ==
  ASSUME IInv, NEW w \in Workers, FinalizeSuccess(w) \/ FinalizeFailure(w)
  PROVE  /\ event.status = "PROCESSING" /\ event'.status # "PROCESSING"
         /\ event'.attempts = event.attempts /\ event'.token = 0 /\ event'.lease = "NONE"
         /\ delivery'.attempts = delivery.attempts /\ delivery'.offset = delivery.offset
         /\ delivery'.redrives = delivery.redrives
         /\ \E result \in AttemptStatus :
              /\ RecordAttemptOnce(event.attempts, result)
              /\ \/ /\ delivery'.status = "DELIVERED" /\ event'.status = "SENT" /\ receipt
                    /\ result = "DELIVERED"
                 \/ /\ delivery'.status = "RETRY_WAIT" /\ event'.status = "FAILED"
                    /\ event'.next = "LATER" /\ result = "FAILED_RETRYABLE"
                    /\ event.attempts - delivery.offset < MaxAttempts
                 \/ /\ delivery'.status = "DEAD" /\ event'.status = "FAILED" /\ event'.next = "NONE"
                    /\ result = "FAILED_FINAL"
                    /\ \/ delivery'.error = "FINAL"
                       \/ event.attempts - delivery.offset >= MaxAttempts
<1>1. PICK to \in {"DELIVERED", "RETRY_WAIT", "DEAD"}, result \in AttemptStatus,
           next \in {"NONE", "LATER"}, error \in {"NONE", "RETRYABLE", "FINAL"} :
             SettleTo(to, result, next, error)
  BY SettleMoves
<1>2. event \in EventRows /\ delivery \in DeliveryRows
  BY DEF IInv, TypeOK, EventRows, DeliveryRows
<1>3. event.status = "PROCESSING"
  BY SettleMoves, SettlerOwns
<1>4. /\ event'.status = (IF to = "DELIVERED" THEN "SENT" ELSE "FAILED")
      /\ event'.attempts = event.attempts
      /\ event'.token = 0 /\ event'.lease = "NONE" /\ event'.next = next
  BY <1>1, <1>2 DEF SettleTo, EventRows
<1>5. /\ delivery'.status = to /\ delivery'.error = error
      /\ delivery'.attempts = delivery.attempts /\ delivery'.offset = delivery.offset
      /\ delivery'.redrives = delivery.redrives
  BY <1>1, <1>2 DEF SettleTo, DeliveryRows
<1> QED
  BY <1>1, <1>3, <1>4, <1>5 DEF SettleTo

\* The same of a claim and of a redrive.
LEMMA ClaimedRows ==
  ASSUME IInv, NEW w \in Workers, Claim(w)
  PROVE  /\ event'.status = "PROCESSING" /\ event'.lease = "LIVE" /\ event'.next = "NONE"
         /\ event'.attempts = event.attempts + 1 /\ event'.token = event.attempts + 1
         /\ delivery'.status = "SENDING" /\ delivery'.attempts = event.attempts + 1
         /\ delivery'.offset = delivery.offset
<1>1. event' = [status |-> "PROCESSING", attempts |-> event.attempts + 1,
                token |-> event.attempts + 1, lease |-> "LIVE", next |-> "NONE"]
  BY ClaimMoves
<1>2. delivery' = [delivery EXCEPT !.status = "SENDING", !.attempts = event.attempts + 1,
                                   !.error = "NONE"]
  BY ClaimMoves
<1>3. delivery \in DeliveryRows
  BY DEF IInv, TypeOK, DeliveryRows
<1> QED
  BY <1>1, <1>2, <1>3 DEF DeliveryRows

\* A redrive takes a dead delivery, and counts its attempts from here.
LEMMA RedrivenRows ==
  ASSUME IInv, Redrive
  PROVE  /\ event.status = "FAILED" /\ delivery.status = "DEAD"
         /\ event'.status = "PENDING" /\ event'.token = 0 /\ event'.lease = "NONE"
         /\ event'.attempts = event.attempts
         /\ delivery'.status = "PENDING" /\ delivery'.attempts = delivery.attempts
         /\ delivery'.offset = event.attempts
<1>1. /\ event.status = "FAILED" /\ delivery.status = "DEAD" /\ event' = RedrivenEvent
      /\ delivery' = [delivery EXCEPT !.status = "PENDING", !.offset = event.attempts,
                                      !.redrives = @ + 1, !.error = "NONE"]
  BY RedriveMoves
<1>2. event \in EventRows /\ delivery \in DeliveryRows
  BY DEF IInv, TypeOK, EventRows, DeliveryRows
<1>3. event'.status = "PENDING" /\ event'.token = 0 /\ event'.lease = "NONE" /\ event'.attempts = event.attempts
  BY <1>1, <1>2 DEF RedrivenEvent, EventRows
<1>4. /\ delivery'.status = "PENDING" /\ delivery'.attempts = delivery.attempts
      /\ delivery'.offset = event.attempts
  BY <1>1, <1>2 DEF DeliveryRows
<1> QED
  BY <1>1, <1>3, <1>4

\* Time touches one column of the event.
LEMMA ElapsedRows ==
  ASSUME IInv, Elapse
  PROVE  /\ event'.status = event.status /\ event'.attempts = event.attempts
         /\ event'.token = event.token
         /\ \/ event.next = "LATER" /\ event'.next = "DUE" /\ event'.lease = event.lease
            \/ event.lease = "LIVE" /\ event'.lease = "EXPIRED" /\ event'.next = event.next
         /\ UNCHANGED <<delivery, ledger, receipt, eventLock, deliveryLock, pc, claimed>>
<1>1. event \in EventRows
  BY DEF IInv, TypeOK, EventRows
<1>2. /\ \/ event.next = "LATER" /\ event' = [event EXCEPT !.next = "DUE"]
         \/ event.lease = "LIVE" /\ event' = [event EXCEPT !.lease = "EXPIRED"]
      /\ UNCHANGED <<delivery, ledger, receipt, eventLock, deliveryLock, pc, claimed>>
  BY ElapseMoves DEF locks
<1>3. CASE event.next = "LATER" /\ event' = [event EXCEPT !.next = "DUE"]
  BY <1>1, <1>2, <1>3 DEF EventRows
<1>4. CASE event.lease = "LIVE" /\ event' = [event EXCEPT !.lease = "EXPIRED"]
  BY <1>1, <1>2, <1>4 DEF EventRows
<1> QED
  BY <1>2, <1>3, <1>4

\* The rows move together in the transactions that write them.
LEMMA NextStatuses ==
  ASSUME IInv, [Next]_vars
  PROVE  StatusesMatch'
<1> USE DEF StatusesMatch
<1>0. StatusesMatch /\ event.attempts \in Nat /\ delivery.offset \in Nat
  BY DEF IInv, TypeOK
<1>1. ASSUME NEW w \in Workers, Silent(w) PROVE StatusesMatch'
  BY <1>0, <1>1, SilentMoves
<1>2. ASSUME NEW w \in Workers, Claim(w) PROVE StatusesMatch'
  BY <1>0, <1>2, ClaimedRows
<1>3. ASSUME NEW w \in Workers, FinalizeSuccess(w) \/ FinalizeFailure(w) PROVE StatusesMatch'
  BY <1>0, <1>3, SettledRows
<1>4. ASSUME Redrive PROVE StatusesMatch'
  BY <1>0, <1>4, RedrivenRows
<1>5. ASSUME RedriveLockDelivery \/ ChangeEndpoint \/ UNCHANGED vars PROVE StatusesMatch'
  BY <1>0, <1>5 DEF RedriveLockDelivery, ChangeEndpoint, vars, rows
<1>6. ASSUME Elapse PROVE StatusesMatch'
  BY <1>0, <1>6, ElapsedRows
<1> QED
  BY <1>1, <1>2, <1>3, <1>4, <1>5, <1>6, StepKinds

\* Every attempt that ends, or is given up, gets its one record.
LEMMA NextLedger ==
  ASSUME IInv, [Next]_vars
  PROVE  LedgerComplete'
<1>1. ASSUME NEW w \in Workers, Silent(w) PROVE LedgerComplete'
  BY <1>1, SilentMoves, LedgerFrame
<1>2. ASSUME NEW w \in Workers, Claim(w) PROVE LedgerComplete'
  <2>1. CASE event.status = "PROCESSING"
    BY <1>2, <2>1, ClaimMoves, ClaimedRows, RecordCompletes
  <2>2. CASE event.status # "PROCESSING"
    BY <1>2, <2>2, ClaimMoves, ClaimedRows, LedgerFrame
  <2> QED
    BY <2>1, <2>2
<1>3. ASSUME NEW w \in Workers, FinalizeSuccess(w) \/ FinalizeFailure(w) PROVE LedgerComplete'
  BY <1>3, SettledRows, RecordCompletes
<1>4. ASSUME Redrive PROVE LedgerComplete'
  <2>1. ledger' = ledger
    BY <1>4, RedriveMoves
  <2> QED
    BY <1>4, <2>1, RedrivenRows, LedgerFrame
<1>5. ASSUME RedriveLockDelivery \/ ChangeEndpoint \/ UNCHANGED vars PROVE LedgerComplete'
  <2>1. event' = event /\ ledger' = ledger
    BY <1>5 DEF RedriveLockDelivery, ChangeEndpoint, vars, rows
  <2> QED
    BY <2>1, LedgerFrame
<1>6. ASSUME Elapse PROVE LedgerComplete'
  BY <1>6, ElapsedRows, LedgerFrame
<1> QED
  BY <1>1, <1>2, <1>3, <1>4, <1>5, <1>6, StepKinds

\* What a held row lock guarantees is kept by everybody else: who does not hold the event
\* only lets its lease elapse.
LEMMA NextLocks ==
  ASSUME IInv, [Next]_vars
  PROVE  LocksAgree'
<1> USE DEF LocksAgree
<1>0. /\ LocksAgree /\ pc \in [Workers -> Labels]
      /\ NoOne \notin Workers /\ Operator # NoOne
  BY HolderAssumption DEF IInv, TypeOK, Labels
<1>1. ASSUME NEW w \in Workers, Silent(w) PROVE LocksAgree'
  <2>1. UNCHANGED <<event, delivery, deliveryLock, claimed>>
    BY <1>1, SilentMoves
  <2>2. PICK label \in Labels :
          /\ pc' = [pc EXCEPT ![w] = label]
          /\ \/ label = "claim" /\ eventLock = NoOne /\ eventLock' = w /\ Claimable
             \/ /\ label = pc[w] /\ eventLock = NoOne /\ eventLock' = w
                /\ Finalizing(w) /\ OwnsLease(w)
             \/ /\ label # "claim" /\ eventLock' # w
                /\ eventLock' = eventLock \/ (eventLock = w /\ eventLock' = NoOne)
    BY <1>1, SilentMoves
  <2>3. pc'[w] = label /\ \A x \in Workers \ {w} : pc'[x] = pc[x]
    BY <1>0, <2>2
  <2> QED
    BY <1>0, <2>1, <2>2, <2>3 DEF Finalizing, OwnsLease, Claimable
<1>2. ASSUME NEW w \in Workers, Claim(w) PROVE LocksAgree'
  <2>1. /\ eventLock = w /\ eventLock' = NoOne /\ deliveryLock' = NoOne
        /\ pc' = [pc EXCEPT ![w] = "deliver"]
    BY <1>2, ClaimMoves
  <2> QED
    BY <1>0, <2>1
<1>3. ASSUME NEW w \in Workers, FinalizeSuccess(w) \/ FinalizeFailure(w) PROVE LocksAgree'
  <2>1. /\ eventLock = w /\ eventLock' = NoOne /\ deliveryLock' = NoOne
        /\ pc' = [pc EXCEPT ![w] = "idle"]
    BY <1>3, SettleMoves
  <2> QED
    BY <1>0, <2>1
<1>4. ASSUME Redrive PROVE LocksAgree'
  <2>1. /\ eventLock = NoOne /\ eventLock' = NoOne /\ deliveryLock' = NoOne
        /\ pc' = pc
    BY <1>4, RedriveMoves
  <2> QED
    BY <1>0, <2>1
<1>5. ASSUME RedriveLockDelivery \/ ChangeEndpoint \/ UNCHANGED vars PROVE LocksAgree'
  <2>1. /\ UNCHANGED <<event, delivery, eventLock, pc, claimed>>
        /\ \/ deliveryLock' = deliveryLock
           \/ delivery.status = "DEAD" /\ delivery.redrives < MaxRedrives
    BY <1>5 DEF RedriveLockDelivery, Redriveable, ChangeEndpoint, vars, rows, locks
  <2> QED
    BY <1>0, <2>1 DEF Finalizing, OwnsLease, Claimable
<1>6. ASSUME Elapse PROVE LocksAgree'
  <2>1. Claimable => Claimable'
    BY <1>6, ElapsedRows DEF Claimable, IInv, StatusesMatch
  <2> QED
    BY <1>0, <1>6, <2>1, ElapsedRows DEF Finalizing, OwnsLease
<1> QED
  BY <1>1, <1>2, <1>3, <1>4, <1>5, <1>6, StepKinds

\* A claim makes every other worker's claim one of the past.
LEMMA NextClaims ==
  ASSUME IInv, [Next]_vars
  PROVE  ClaimsAgree'
<1> DEFINE Held == \A x \in Workers :
             /\ Busy(x) => /\ claimed[x].token = claimed[x].attempt
                           /\ claimed[x].token \in 1..event.attempts
             /\ Busy(x) /\ OwnsLease(x) => claimed[x].cycle = event.attempts - delivery.offset
<1>0. /\ Held /\ pc \in [Workers -> Labels]
      /\ event.attempts \in Nat /\ delivery.offset \in Nat
      /\ claimed \in [Workers -> [token : Nat, attempt : Nat, cycle : Nat]]
  BY DEF IInv, TypeOK, Labels, ClaimsAgree
<1> USE DEF Busy, OwnsLease
<1>1. ASSUME NEW w \in Workers, Silent(w) PROVE Held'
  <2>1. UNCHANGED <<event, delivery, claimed>>
    BY <1>1, SilentMoves
  <2>2. PICK label \in Labels :
          pc' = [pc EXCEPT ![w] = label] /\ (label \notin {"idle", "claim"} => Busy(w))
    BY <1>1, SilentMoves
  <2>3. \A x \in Workers : Busy(x)' => Busy(x)
    BY <1>0, <2>2
  <2> QED
    BY <1>0, <2>1, <2>3
<1>2. ASSUME NEW w \in Workers, Claim(w) PROVE Held'
  <2>1. /\ pc' = [pc EXCEPT ![w] = "deliver"]
        /\ claimed' = [claimed EXCEPT ![w] = [token |-> event.attempts + 1,
                         attempt |-> event.attempts + 1,
                         cycle |-> CycleAttempt(event.attempts + 1)]]
    BY <1>2, ClaimMoves
  <2>2. /\ event'.attempts = event.attempts + 1 /\ event'.token = event.attempts + 1
        /\ delivery'.offset = delivery.offset
    BY <1>2, ClaimedRows
  <2>3. /\ claimed'[w].token = event.attempts + 1
        /\ claimed'[w].attempt = event.attempts + 1
        /\ claimed'[w].cycle = (event.attempts + 1) - delivery.offset
    <3>1. claimed'[w] = [token |-> event.attempts + 1, attempt |-> event.attempts + 1,
                         cycle |-> CycleAttempt(event.attempts + 1)]
      BY <1>0, <2>1
    <3>2. claimed'[w].cycle = CycleAttempt(event.attempts + 1)
      BY <3>1
    <3> QED
      BY <1>0, <3>1, <3>2 DEF CycleAttempt
  <2>4. \A x \in Workers \ {w} : pc'[x] = pc[x] /\ claimed'[x] = claimed[x] /\ claimed[x].token \in Nat
    BY <1>0, <2>1
  <2>5. /\ claimed'[w].token \in 1..event'.attempts
        /\ claimed'[w].cycle = event'.attempts - delivery'.offset
    BY <1>0, <2>2, <2>3
  <2>6. ASSUME NEW x \in Workers \ {w}, Busy(x)'
        PROVE  /\ claimed'[x].token = claimed'[x].attempt
               /\ claimed'[x].token \in 1..event'.attempts
               /\ ~ OwnsLease(x)'
    BY <1>0, <2>2, <2>4, <2>6
  <2> QED
    BY <2>3, <2>5, <2>6
<1>3. ASSUME NEW w \in Workers, FinalizeSuccess(w) \/ FinalizeFailure(w) PROVE Held'
  <2>1. pc' = [pc EXCEPT ![w] = "idle"] /\ claimed' = claimed
    BY <1>3, SettleMoves
  <2>2. event'.status # "PROCESSING" /\ event'.attempts = event.attempts
    BY <1>3, SettledRows
  <2> QED
    BY <1>0, <2>1, <2>2
<1>4. ASSUME Redrive PROVE Held'
  <2>1. pc' = pc /\ claimed' = claimed
    BY <1>4, RedriveMoves
  <2> QED
    BY <1>0, <1>4, <2>1, RedrivenRows
<1>5. ASSUME RedriveLockDelivery \/ ChangeEndpoint \/ UNCHANGED vars PROVE Held'
  <2>1. UNCHANGED <<event, delivery, pc, claimed>>
    BY <1>5 DEF RedriveLockDelivery, ChangeEndpoint, vars, rows
  <2> QED
    BY <1>0, <2>1
<1>6. ASSUME Elapse PROVE Held'
  BY <1>0, <1>6, ElapsedRows
<1>7. Held'
  BY <1>1, <1>2, <1>3, <1>4, <1>5, <1>6, StepKinds
<1>8. \A w \in Workers : pc'[w] = "succeed" => receipt'
  BY ReceiptStays
<1> QED
  BY <1>7, <1>8, Zenon DEF ClaimsAgree

\* The failures of a cycle are counted by the claims, and a final one ends the cycle.
LEMMA NextFailures ==
  ASSUME IInv, [Next]_vars
  PROVE  FailuresAreCounted'
<1> USE DEF FailuresAreCounted
<1>0. /\ FailuresAreCounted
      /\ event.attempts \in Nat /\ delivery.offset \in Nat /\ delivery.attempts = event.attempts
      /\ \A a \in ledger : a[1] \in Nat
      /\ MaxAttempts \in Nat
  BY LimitAssumption DEF IInv, TypeOK, StatusesMatch
<1>1. ASSUME NEW w \in Workers, Silent(w) PROVE FailuresAreCounted'
  BY <1>0, <1>1, SilentMoves
<1>2. ASSUME NEW w \in Workers, Claim(w) PROVE FailuresAreCounted'
  <2>1. delivery.status # "DEAD"
    BY <1>2, ClaimMoves DEF Claimable, IInv, StatusesMatch
  <2>2. \A a \in ledger' : a \in ledger \/ a[2] = "LEASE_EXPIRED"
    <3>1. CASE event.status = "PROCESSING"
      BY <1>2, <3>1, ClaimMoves, RecordIsNew
    <3>2. CASE event.status # "PROCESSING"
      BY <1>2, <3>2, ClaimMoves
    <3> QED
      BY <3>1, <3>2
  <2>3. delivery'.offset = delivery.offset
    BY <1>2, ClaimedRows
  <2> QED
    BY <1>0, <2>1, <2>2, <2>3
<1>3. ASSUME NEW w \in Workers, FinalizeSuccess(w) \/ FinalizeFailure(w) PROVE FailuresAreCounted'
  <2>1. /\ delivery'.offset = delivery.offset /\ delivery'.attempts = delivery.attempts
        /\ event.status = "PROCESSING"
    BY <1>3, SettledRows
  <2>2. delivery.status # "DEAD"
    BY <2>1 DEF IInv, StatusesMatch
  <2>3. PICK result \in AttemptStatus :
          /\ RecordAttemptOnce(event.attempts, result)
          /\ result = "FAILED_RETRYABLE" => event.attempts - delivery.offset < MaxAttempts
          /\ result = "FAILED_FINAL" => delivery'.status = "DEAD"
    BY <1>3, SettledRows
  <2>4. ledger' = ledger \cup {<<event.attempts, result>>}
    BY <2>1, <2>3, RecordIsNew
  <2> QED
    BY <1>0, <2>1, <2>2, <2>3, <2>4
<1>4. ASSUME Redrive PROVE FailuresAreCounted'
  <2>1. ledger' = ledger /\ delivery'.offset = event.attempts
    BY <1>4, RedriveMoves, RedrivenRows
  <2>2. \A a \in ledger : a[1] <= event.attempts
    BY <1>0 DEF IInv, LedgerComplete, Recorded
  <2> QED
    BY <1>0, <2>1, <2>2
<1>5. ASSUME RedriveLockDelivery \/ ChangeEndpoint \/ UNCHANGED vars PROVE FailuresAreCounted'
  BY <1>0, <1>5 DEF RedriveLockDelivery, ChangeEndpoint, vars, rows
<1>6. ASSUME Elapse PROVE FailuresAreCounted'
  BY <1>0, <1>6, ElapsedRows
<1> QED
  BY <1>1, <1>2, <1>3, <1>4, <1>5, <1>6, StepKinds

\* A delivery is settled by the worker that has its result.
LEMMA NextSettled ==
  ASSUME IInv, [Next]_vars
  PROVE  SettledRightly'
<1> DEFINE Dead == delivery.status = "DEAD" =>
             delivery.error = "FINAL" \/ delivery.attempts - delivery.offset >= MaxAttempts
           Delivered == delivery.status = "DELIVERED" => receipt
<1>0. Delivered /\ Dead
  BY DEF IInv, SettledRightly
<1>1. ASSUME delivery' = delivery PROVE SettledRightly'
  <2>1. Dead'
    BY <1>0, <1>1
  <2>2. Delivered'
    BY <1>0, <1>1, ReceiptStays, Zenon
  <2> QED
    BY <2>1, <2>2, Zenon DEF SettledRightly
<1>2. ASSUME NEW w \in Workers, Silent(w) PROVE delivery' = delivery
  BY <1>2, SilentMoves
<1>3. ASSUME NEW w \in Workers, Claim(w) PROVE SettledRightly'
  BY <1>3, ClaimedRows DEF SettledRightly
<1>4. ASSUME NEW w \in Workers, FinalizeSuccess(w) \/ FinalizeFailure(w) PROVE SettledRightly'
  <2>1. /\ delivery'.status = "DELIVERED" => receipt
        /\ delivery'.status = "DEAD" =>
             delivery'.error = "FINAL" \/ event.attempts - delivery.offset >= MaxAttempts
        /\ delivery'.attempts = event.attempts /\ delivery'.offset = delivery.offset
    BY <1>4, SettledRows DEF IInv, StatusesMatch
  <2>2. Dead'
    BY <2>1
  <2>3. Delivered'
    BY <2>1, ReceiptStays, Zenon
  <2> QED
    BY <2>2, <2>3, Zenon DEF SettledRightly
<1>5. ASSUME Redrive PROVE SettledRightly'
  BY <1>5, RedrivenRows DEF SettledRightly
<1>6. ASSUME RedriveLockDelivery \/ ChangeEndpoint \/ UNCHANGED vars PROVE delivery' = delivery
  BY <1>6 DEF RedriveLockDelivery, ChangeEndpoint, vars, rows
<1>7. ASSUME Elapse PROVE delivery' = delivery
  BY <1>7, ElapsedRows
<1> QED
  BY <1>1, <1>2, <1>3, <1>4, <1>5, <1>6, <1>7, StepKinds

\* The strengthened invariant: the rows and what the locks and the claims say of them.
THEOREM InductiveInvariant == Spec => []IInv
<1>1. Init => IInv
  BY InitInv
<1>2. IInv /\ [Next]_vars => IInv'
  BY NextTyped, NextStatuses, NextLedger, NextLocks, NextClaims, NextFailures, NextSettled DEF IInv
<1> QED
  BY <1>1, <1>2, PTL DEF Spec

\* However workers crash, stall and race, the rows of event, delivery and ledger tell one
\* story and every attempt has one result.
THEOREM RowsTellOneStory == Spec => []RowsAgree
  BY InvRows, InductiveInvariant, PTL

\* The workers, who lock event then delivery, and the operator, who locks delivery then
\* event, never hold one each.
THEOREM NoDeadlock == Spec => []NoCircularWait
<1>1. IInv => NoCircularWait
  <2> SUFFICES ASSUME IInv, deliveryLock = Operator, eventLock # NoOne PROVE FALSE
    BY DEF NoCircularWait
  <2>1. PICK w \in Workers : eventLock = w
    BY DEF IInv, TypeOK
  <2>2. event.status = "FAILED" /\ event.next = "NONE"
    BY DEF IInv, LocksAgree, StatusesMatch
  <2>3. CASE pc[w] = "claim"
    BY <2>2, <2>3 DEF IInv, LocksAgree, Claimable
  <2>4. CASE pc[w] # "claim"
    BY <2>1, <2>2, <2>4 DEF IInv, LocksAgree, OwnsLease
  <2> QED
    BY <2>3, <2>4
<1> QED
  BY <1>1, InductiveInvariant, PTL

\* No cycle fails more often than MaxAttempts: its failures have different numbers, the
\* retryable ones below the limit and the final one the last.
LEMMA FailuresAreFew ==
  ASSUME IInv
  PROVE  Cardinality({a \in ledger : a[1] > delivery.offset /\ a[2] \in {"FAILED_RETRYABLE", "FAILED_FINAL"}})
           <= MaxAttempts
<1> DEFINE F == {a \in ledger : a[1] > delivery.offset /\ a[2] \in {"FAILED_RETRYABLE", "FAILED_FINAL"}}
           low == delivery.offset
           T == ((low + 1)..(low + MaxAttempts - 1)) \cup {delivery.attempts}
           number == [a \in F |-> a[1]]
<1>0. /\ low \in Nat /\ delivery.attempts \in Nat /\ MaxAttempts \in Nat \ {0}
      /\ \A a \in ledger : a[1] \in Nat
  BY LimitAssumption DEF IInv, TypeOK
<1>1. \A a \in F : a[1] \in T
  BY <1>0 DEF IInv, FailuresAreCounted
<1>2. \A a, b \in F : a[1] = b[1] => a = b
  BY DEF IInv, LedgerComplete
<1>3. IsFiniteSet(T) /\ Cardinality(T) <= MaxAttempts
  <2> DEFINE I == (low + 1)..(low + MaxAttempts - 1)
  <2>1. IsFiniteSet(I) /\ Cardinality(I) = MaxAttempts - 1
    <3>1. low + 1 \in Int /\ low + MaxAttempts - 1 \in Int
      BY <1>0
    <3>2. /\ IsFiniteSet(I)
          /\ Cardinality(I) = IF low + 1 > low + MaxAttempts - 1 THEN 0
                              ELSE (low + MaxAttempts - 1) - (low + 1) + 1
      BY <3>1, FS_Interval
    <3> QED
      BY <1>0, <3>2
  <2>2. /\ IsFiniteSet(I \cup {delivery.attempts})
        /\ \/ Cardinality(I \cup {delivery.attempts}) = Cardinality(I)
           \/ Cardinality(I \cup {delivery.attempts}) = Cardinality(I) + 1
    BY <2>1, FS_AddElement
  <2> QED
    BY <1>0, <2>1, <2>2
<1> HIDE DEF T, F
<1>4. number \in Injection(F, T)
  BY <1>1, <1>2 DEF Injection, IsInjective
<1>5. IsFiniteSet(F) /\ Cardinality(F) <= Cardinality(T)
  BY <1>3, <1>4, FS_Injection
<1>6. Cardinality(F) \in Nat /\ Cardinality(T) \in Nat
  BY <1>3, <1>5, FS_CardinalityType
<1> QED
  BY <1>0, <1>3, <1>5, <1>6 DEF F

\* A DELIVERED notification has its receipt, a DEAD one a final error or all its attempts.
THEOREM SettledEarned == Spec => []SettledIsEarned
<1>1. IInv => SettledIsEarned
  BY FailuresAreFew DEF IInv, SettledRightly, SettledIsEarned
<1> QED
  BY <1>1, InductiveInvariant, PTL

-----------------------------------------------------------------------------
(* Implementation of NotificationDelivery. *)

\* Every transaction that writes the rows is a step of the orderly delivery.
LEMMA NextPromise == IInv /\ [Next]_vars => [Promise!Next]_(Promise!vars)
<1> SUFFICES ASSUME IInv, [Next]_vars
             PROVE  \/ Promise!Next
                    \/ UNCHANGED <<delivery.status, delivery.attempts, ledger, delivery.redrives>>
  BY DEF Promise!vars
<1>0. delivery \in DeliveryRows /\ delivery.attempts = event.attempts
  BY DEF IInv, TypeOK, DeliveryRows, StatusesMatch
<1>1. ASSUME NEW w \in Workers, Claim(w) PROVE Promise!Attempt
  <2>1. /\ delivery.status \in {"PENDING", "RETRY_WAIT", "SENDING"}
        /\ delivery.status = "SENDING" <=> event.status = "PROCESSING"
    BY <1>1, ClaimMoves DEF Claimable, IInv, StatusesMatch
  <2>2. ledger' = ledger \cup (IF delivery.status = "SENDING"
                               THEN {<<delivery.attempts, "LEASE_EXPIRED">>} ELSE {})
    <3>1. CASE event.status = "PROCESSING"
      BY <1>0, <1>1, <2>1, <3>1, ClaimMoves, RecordIsNew
    <3>2. CASE event.status # "PROCESSING"
      BY <1>1, <2>1, <3>2, ClaimMoves
    <3> QED
      BY <3>1, <3>2
  <2>3. delivery' = [delivery EXCEPT !.status = "SENDING", !.attempts = event.attempts + 1,
                                     !.error = "NONE"]
    BY <1>1, ClaimMoves
  <2>4. /\ delivery'.status = "SENDING" /\ delivery'.attempts = delivery.attempts + 1
        /\ delivery'.redrives = delivery.redrives
    BY <1>0, <2>3 DEF DeliveryRows
  <2> QED
    BY <2>1, <2>2, <2>4 DEF Promise!Attempt
<1>2. ASSUME NEW w \in Workers, FinalizeSuccess(w) \/ FinalizeFailure(w) PROVE Promise!Next
  <2>1. /\ event.status = "PROCESSING" /\ delivery'.attempts = delivery.attempts
        /\ delivery'.redrives = delivery.redrives
    BY <1>2, SettledRows
  <2>2. delivery.status = "SENDING"
    BY <2>1 DEF IInv, StatusesMatch
  <2>3. PICK result \in AttemptStatus :
          /\ RecordAttemptOnce(event.attempts, result)
          /\ <<delivery'.status, result>> \in
               {<<"DELIVERED", "DELIVERED">>, <<"RETRY_WAIT", "FAILED_RETRYABLE">>,
                <<"DEAD", "FAILED_FINAL">>}
    BY <1>2, SettledRows
  <2>4. ledger' = ledger \cup {<<delivery.attempts, result>>}
    BY <1>0, <2>1, <2>3, RecordIsNew
  <2>5. Promise!Settle(delivery'.status, result)
    BY <2>1, <2>2, <2>4 DEF Promise!Settle
  <2> QED
    BY <2>3, <2>5 DEF Promise!Next
<1>3. ASSUME Redrive PROVE Promise!Redrive
  <2>1. /\ delivery.status = "DEAD" /\ delivery.redrives < MaxRedrives /\ ledger' = ledger
        /\ delivery' = [delivery EXCEPT !.status = "PENDING", !.offset = event.attempts,
                                        !.redrives = @ + 1, !.error = "NONE"]
    BY <1>3, RedriveMoves
  <2>2. /\ delivery'.status = "PENDING" /\ delivery'.redrives = delivery.redrives + 1
        /\ delivery'.attempts = delivery.attempts
    BY <1>0, <2>1 DEF DeliveryRows
  <2> QED
    BY <2>1, <2>2 DEF Promise!Redrive
<1>4. ASSUME NEW w \in Workers, Silent(w) PROVE UNCHANGED <<delivery, ledger>>
  BY <1>4, SilentMoves
<1>5. ASSUME RedriveLockDelivery \/ ChangeEndpoint \/ UNCHANGED vars PROVE UNCHANGED <<delivery, ledger>>
  BY <1>5 DEF RedriveLockDelivery, ChangeEndpoint, vars, rows
<1>6. ASSUME Elapse PROVE UNCHANGED <<delivery, ledger>>
  BY <1>6, ElapsedRows
<1> QED
  BY <1>1, <1>2, <1>3, <1>4, <1>5, <1>6, StepKinds DEF Promise!Next

\* Workers that crash, stall and race, in any number, implement one orderly delivery.
THEOREM DeliveryHolds == Spec => ImplementsDelivery
<1>1. Init => Promise!Init
  BY DEF Init, Promise!Init
<1>2. IInv /\ [Next]_vars => [Promise!Next]_(Promise!vars)
  BY NextPromise
<1> QED
  BY <1>1, <1>2, InductiveInvariant, PTL DEF Spec, ImplementsDelivery, Promise!Spec
=============================================================================
