--------------------------- MODULE WorkerQueueProofs ---------------------------
(***************************************************************************)
(* The type invariant of the worker queue, one lemma for each group of its *)
(* operations.  The proofs about WorkerFleet and GuardedWriteback cite     *)
(* these instead of the operations' definitions.                           *)
(***************************************************************************)
EXTENDS WorkerQueue, TLAPS

\* Giving up a lease (Released) yields a row again.
LEMMA ReleasedType ==
  ASSUME NEW row \in Row, NEW status \in Statuses, NEW error \in Codes,
         NEW outcome \in Outcomes
  PROVE  Released(row, status, error, outcome) \in Row
BY DEF Released, Row

\* Granting a lease (Leased) yields a row again.
LEMMA LeasedType ==
  ASSUME NEW row \in Row, NEW w \in Workers, NEW n \in Nat
  PROVE  Leased(row, w, n) \in Row
<1>1. "leased" \in Statuses /\ "none" \in Codes /\ "none" \in Outcomes
  BY DEF Statuses, Codes, Outcomes
<1>2. row.attempts + 1 \in Nat
  BY DEF Row
<1> QED BY <1>1, <1>2 DEF Leased, Row

\* The columns of a row that the queue operations read.
LEMMA RowFields ==
  ASSUME NEW row \in Row
  PROVE  /\ row.attempts \in Nat /\ row.budget \in Nat /\ row.lease \in Nat
         /\ row.error \in Codes /\ row.outcome \in Outcomes
         /\ row.status \in Statuses
BY DEF Row

\* The empty queue of a new store satisfies the type invariant.
LEMMA QueueInitType == QueueInit => QueueTypeOK
BY QueueAssumption DEF QueueInit, QueueTypeOK, Row, NoRow, States, Statuses, Codes, Outcomes

\* The calls of store clients: enqueueWorkerProposal, cancelWorkerItem,
\* requeueDeadLetter and discardDeadLetter.
LEMMA CallsType ==
  ASSUME QueueTypeOK,
         \/ \E op \in CallOps, p \in Proposals : BeginCall(op, p)
         \/ AbandonCall
         \/ CommitEnqueue
         \/ CommitCancel
         \/ \E b \in BOOLEAN : CommitRequeue(b)
         \/ \E p \in Proposals : DiscardDeadLetter(p)
  PROVE  QueueTypeOK'
<1> USE DEF QueueTypeOK
<1>1. ASSUME NEW op \in CallOps, NEW p \in Proposals, BeginCall(op, p)
      PROVE  QueueTypeOK'
  <2>1. MovesProposal(op, p) \in BOOLEAN
    BY DEF MovesProposal
  <2>2. call' \in [op : CallOps, p : Proposals, moves : BOOLEAN]
    BY <1>1, <2>1 DEF BeginCall
  <2> QED BY <1>1, <2>2 DEF BeginCall
<1>2. CASE AbandonCall
  BY <1>2 DEF AbandonCall
<1>3. call # NoCall => call.p \in Proposals
  OBVIOUS
<1>4. CASE CommitEnqueue
  <2>1. call.p \in Proposals
    BY <1>3, <1>4 DEF CommitEnqueue, NoCall
  <2>2. [NoRow EXCEPT !.status = "queued", !.budget = MaxAttempts] \in Row
    BY QueueAssumption DEF NoRow, Row, Statuses, Codes, Outcomes
  <2> QED BY <1>4, <2>1, <2>2 DEF CommitEnqueue
<1>5. CASE CommitCancel
  <2>1. call.p \in Proposals
    BY <1>3, <1>5 DEF CommitCancel, NoCall
  <2>2. Released(queue[call.p], "cancelled", queue[call.p].error, "cancelled") \in Row
    BY <2>1, ReleasedType, RowFields DEF Statuses, Outcomes
  <2> QED BY <1>5, <2>1, <2>2 DEF CommitCancel, States
<1>6. ASSUME NEW b \in BOOLEAN, CommitRequeue(b)
      PROVE  QueueTypeOK'
  <2>1. call.p \in Proposals
    BY <1>3, <1>6 DEF CommitRequeue, NoCall
  <2>2. [NoRow EXCEPT !.status = "queued", !.budget = RetryBudget] \in Row
    BY QueueAssumption DEF NoRow, Row, Statuses, Codes, Outcomes
  <2> QED BY <1>6, <2>1, <2>2 DEF CommitRequeue, States
<1>7. ASSUME NEW p \in Proposals, DiscardDeadLetter(p)
      PROVE  QueueTypeOK'
  <2>1. Released(queue[p], "discarded", queue[p].error, "discarded") \in Row
    BY ReleasedType, RowFields DEF Statuses, Outcomes
  <2> QED BY <1>7, <2>1 DEF DiscardDeadLetter
<1> QED BY <1>1, <1>2, <1>4, <1>5, <1>6, <1>7

\* claimWorkerItem, granting a lease or blocking an aged row.
LEMMA ClaimType ==
  ASSUME QueueTypeOK, NEW w \in Workers, NEW p \in Proposals,
         ClaimWorkerItem(w, p) \/ BlockQueuedWorkerItem(p)
  PROVE  QueueTypeOK'
<1> USE DEF QueueTypeOK
<1>1. CASE ClaimWorkerItem(w, p)
  <2>1. Leased(queue[p], w, issued[p] + 1) \in Row
    BY LeasedType
  <2> QED BY <1>1, <2>1 DEF ClaimWorkerItem, States
<1>2. CASE BlockQueuedWorkerItem(p)
  <2>1. Released(queue[p], "blocked", "fatal", "none") \in Row
    BY ReleasedType DEF Statuses, Codes, Outcomes
  <2> QED BY <1>2, <2>1 DEF BlockQueuedWorkerItem
<1> QED BY <1>1, <1>2

\* The operations of a worker that presents a lease.
LEMMA LeaseHolderType ==
  ASSUME QueueTypeOK, NEW w, NEW p \in Proposals, NEW n,
         \/ RenewWorkerLease(w, p, n)
         \/ \E out \in Outcomes : CompleteWorkerItem(w, p, n, out)
         \/ \E code \in Codes : RetryWorkerItem(w, p, n, code)
         \/ \E status \in Statuses \cap Outcomes, code \in Codes :
              ParkWorkerItem(w, p, n, status, code)
  PROVE  QueueTypeOK'
<1> USE DEF QueueTypeOK
<1>1. CASE RenewWorkerLease(w, p, n)
  <2>1. [queue[p] EXCEPT !.live = TRUE] \in Row
    BY DEF Row
  <2> QED BY <1>1, <2>1 DEF RenewWorkerLease
<1>2. ASSUME NEW out \in Outcomes, CompleteWorkerItem(w, p, n, out)
      PROVE  QueueTypeOK'
  <2>1. Released(queue[p], "completed", "none", out) \in Row
    BY ReleasedType DEF Statuses, Codes
  <2> QED BY <1>2, <2>1 DEF CompleteWorkerItem
<1>3. ASSUME NEW code \in Codes, RetryWorkerItem(w, p, n, code)
      PROVE  QueueTypeOK'
  <2>1. RetryStatus(queue[p]) \in Statuses
    BY DEF RetryStatus, Statuses
  <2>2. Released(queue[p], RetryStatus(queue[p]), code, "none") \in Row
    BY <2>1, ReleasedType DEF Outcomes
  <2> QED BY <1>3, <2>2 DEF RetryWorkerItem
<1>4. ASSUME NEW status \in Statuses \cap Outcomes, NEW code \in Codes,
             ParkWorkerItem(w, p, n, status, code)
      PROVE  QueueTypeOK'
  <2>1. Released(queue[p], status, code, status) \in Row
    BY ReleasedType
  <2> QED BY <1>4, <2>1 DEF ParkWorkerItem
<1> QED BY <1>1, <1>2, <1>3, <1>4

\* The passage of time.
LEMMA TimeType ==
  ASSUME QueueTypeOK, NEW p \in Proposals,
         LeaseExpires(p) \/ ProposalAges(p) \/ RateWindowPasses(p)
  PROVE  QueueTypeOK'
<1> USE DEF QueueTypeOK
<1>1. CASE LeaseExpires(p)
  <2>1. [queue[p] EXCEPT !.live = FALSE] \in Row
    BY DEF Row
  <2> QED BY <1>1, <2>1 DEF LeaseExpires
<1>2. CASE ProposalAges(p)
  BY <1>2 DEF ProposalAges
<1>3. CASE RateWindowPasses(p)
  BY <1>3 DEF RateWindowPasses
<1> QED BY <1>1, <1>2, <1>3
=============================================================================
