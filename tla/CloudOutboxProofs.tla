-------------------------- MODULE CloudOutboxProofs --------------------------
(***************************************************************************)
(* CloudOutbox for every number of proposals, events and synchronizers:    *)
(* types, AcknowledgedWasTaken and InOrder.                                *)
(***************************************************************************)
EXTENDS CloudOutbox, TLAPS

----------------------------------------------------------------------------
(* Types *)

\* An event is a pair of a proposal and a number.
LEMMA EventPair ==
    ASSUME NEW e \in Events
    PROVE  e[1] \in Proposals /\ e[2] \in Nat /\ e = <<e[1], e[2]>>
<1>1. PICK p \in Proposals : e \in {p} \X (0 .. Last[p])
  BY DEF Events
<1> QED BY <1>1, OutboxAssumption

\* A synchronizer that is idle has the type of one.
LEMMA IdleType == Idle \in Sync
BY DEF Idle, Sync, Outcomes, CloudStates

\* Storing a synchronizer keeps the types.
LEMMA GoesType ==
    ASSUME TypeOK, NEW s \in Syncs, NEW x \in Sync, Goes(s, x)
    PROVE  sync' \in [Syncs -> Sync]
BY DEF TypeOK, Goes

\* Rows: what enqueueing, a repair, a lease or a change of status stores.
LEMMA RowTypes ==
    ASSUME NEW r \in Row
    PROVE  /\ \A x \in Statuses, o \in Syncs \cup {NoOwner}, b \in BOOLEAN, d \in BOOLEAN :
                [r EXCEPT !.status = x, !.owner = o, !.live = b, !.due = d] \in Row
           /\ \A x \in Statuses, o \in Syncs \cup {NoOwner}, b \in BOOLEAN :
                [r EXCEPT !.status = x, !.owner = o, !.live = b] \in Row
           /\ \A x \in Statuses, o \in Syncs \cup {NoOwner} :
                [r EXCEPT !.status = x, !.owner = o] \in Row
           /\ \A x \in Statuses : [r EXCEPT !.status = x] \in Row
           /\ \A b \in BOOLEAN : [r EXCEPT !.live = b] \in Row
           /\ \A d \in BOOLEAN : [r EXCEPT !.due = d] \in Row
BY DEF Row

\* A new row.
LEMMA NewRowType ==
    [status |-> "pending", owner |-> NoOwner, live |-> FALSE, due |-> TRUE, attempts |-> 0]
      \in Row
BY OutboxAssumption DEF Row, Statuses

\* Giving up an expired lease.
LEMMA ReclaimedType ==
    ASSUME TypeOK, NEW e \in Events
    PROVE  /\ Reclaimed(e) \in Row
           /\ outbox[e].status = "none" <=> Reclaimed(e).status = "none"
           /\ \A x \in Sent : Reclaimed(e).status = x => outbox[e].status = x
<1>1. outbox[e] \in Row
  BY DEF TypeOK
<1>2. CASE outbox[e].status = "leased" /\ ~outbox[e].live
  <2>1. Reclaimed(e) = [outbox[e] EXCEPT !.status = "pending", !.owner = NoOwner]
    BY <1>2 DEF Reclaimed
  <2>2. Reclaimed(e) \in Row
    <3>1. "pending" \in Statuses
      BY DEF Statuses
    <3> QED BY <1>1, <2>1, <3>1 DEF Row
  <2>3. Reclaimed(e).status = "pending"
    BY <1>1, <2>1 DEF Row
  <2> QED BY <1>2, <2>2, <2>3 DEF Sent
<1>3. CASE ~(outbox[e].status = "leased" /\ ~outbox[e].live)
  BY <1>1, <1>3 DEF Reclaimed
<1> QED BY <1>2, <1>3

\* What recordCloudGovernanceEvent stores.
LEMMA RecordType ==
    ASSUME TypeOK, NEW p \in Proposals, NEW id \in CloudStates \cup {"queued", "receipt"},
           NEW state \in CloudStates
    PROVE  /\ Recorded(p, id, state) \in [Proposals -> Governance]
           /\ Projected(p, state) \in [Proposals -> CloudStates]
<1>1. governance[p] \in Governance
  BY DEF TypeOK
<1>2. [known |-> governance[p].known \cup {id}, latest |-> state] \in Governance
  BY <1>1 DEF Governance
<1> QED BY <1>2 DEF TypeOK, Recorded, Projected

\* The steps of a synchronizer keep its type.
LEMMA SyncStep ==
    ASSUME TypeOK, NEW s \in Syncs, Step(s) \/ StatusFails(s) \/ Crash(s)
    PROVE  sync' \in [Syncs -> Sync]
<1> DEFINE y == sync[s]
<1>a. y \in Sync
  BY DEF TypeOK
<1>b. Onward(s) \in Sync
  BY <1>a, IdleType DEF Onward, Idle, Sync, Outcomes, CloudStates
<1>c. \A todo \in SUBSET Proposals : Remaining(todo) \in Sync
  BY IdleType DEF Remaining, Idle, Sync, Outcomes, CloudStates
<1>1. CASE Claim(s)
  <2> DEFINE batch == {e \in Events : Candidate(e)}
  <2>1. Goes(s, [Idle EXCEPT !.at = IF batch = {} THEN "list" ELSE "deliver",
                             !.claimed = batch])
    BY <1>1 DEF Claim
  <2>2. [Idle EXCEPT !.at = IF batch = {} THEN "list" ELSE "deliver",
                     !.claimed = batch] \in Sync
    BY DEF Idle, Sync, Outcomes, CloudStates
  <2> QED BY <2>1, <2>2, GoesType
<1>2. ASSUME NEW e \in Events, NEW outcome \in Outcomes \ {"unsent"}, NEW taken \in BOOLEAN,
             Deliver(s, e, outcome, taken)
      PROVE  sync' \in [Syncs -> Sync]
  <2>1. cloud'[e[1]] \in CloudStates
    BY <1>2, EventPair DEF Deliver, TypeOK, CloudStates
  <2> DEFINE at == IF outcome # "ok" THEN "fail"
                   ELSE IF e[2] = 0 THEN "govern" ELSE "acknowledge"
             answer == IF outcome = "ok" THEN cloud'[e[1]] ELSE "none"
             x == [y EXCEPT !.at = at, !.claimed = @ \ {e}, !.current = {e},
                            !.outcome = outcome, !.answer = answer]
  <2>2. Goes(s, x)
    BY <1>2 DEF Deliver
  <2>3. at \in {"fail", "govern", "acknowledge"} /\ answer \in CloudStates
    BY <2>1 DEF CloudStates
  <2> HIDE DEF at, answer
  <2>4. x \in Sync
    BY <1>a, <2>3 DEF Sync
  <2> QED BY <2>2, <2>4, GoesType
<1>3. ASSUME NEW e \in y.current, Goes(s, IF Known(e[1], "receipt")
                    THEN [sync[s] EXCEPT !.at = "fail", !.outcome = "fatal"]
                    ELSE [sync[s] EXCEPT !.at = "acknowledge"])
      PROVE  sync' \in [Syncs -> Sync]
  <2>1. /\ [y EXCEPT !.at = "fail", !.outcome = "fatal"] \in Sync
        /\ [y EXCEPT !.at = "acknowledge"] \in Sync
    BY <1>a DEF Sync, Outcomes
  <2> QED BY <1>3, <2>1, GoesType
<1>4. CASE Acknowledge(s)
  <2>1. [y EXCEPT !.at = "fail", !.outcome = "fatal"] \in Sync
    BY <1>a DEF Sync, Outcomes
  <2>2. Goes(s, Onward(s)) \/ Goes(s, [y EXCEPT !.at = "fail", !.outcome = "fatal"])
    BY <1>4 DEF Acknowledge
  <2> QED BY <1>b, <2>1, <2>2, GoesType
<1>5. CASE Fail(s)
  <2>1. PICK e \in y.current :
           Goes(s, IF Owns(s, e)
                   THEN [y EXCEPT !.at = "failing",
                                  !.exhausted = (outbox[e].attempts >= MaxAttempts)]
                   ELSE Idle)
    BY <1>5 DEF Fail
  <2> DEFINE exhausted == outbox[e].attempts >= MaxAttempts
  <2>2. exhausted \in BOOLEAN
    OBVIOUS
  <2> HIDE DEF exhausted
  <2>3. [y EXCEPT !.at = "failing", !.exhausted = exhausted] \in Sync
    BY <1>a, <2>2 DEF Sync
  <2> QED BY <2>1, <2>3, IdleType, GoesType DEF exhausted
<1>6. CASE FailWrite(s)
  BY <1>b, <1>6, IdleType, GoesType DEF FailWrite
<1>7. CASE List(s)
  <2>1. {p \in Proposals : outbox[<<p, 0>>].status = "acknowledged"} \in SUBSET Proposals
    OBVIOUS
  <2> QED BY <1>c, <1>7, <2>1, GoesType DEF List
<1>8. ASSUME NEW p \in Proposals, Inspect(s, p) PROVE sync' \in [Syncs -> Sync]
  <2>1. cloud[p] \in CloudStates /\ y.todo \ {p} \in SUBSET Proposals
    BY <1>a DEF TypeOK, Sync
  <2>2. [y EXCEPT !.at = "record", !.answer = cloud[p]] \in Sync
    BY <1>a, <2>1 DEF Sync
  <2>3. \/ Goes(s, Remaining(y.todo \ {p}))
        \/ Goes(s, [y EXCEPT !.at = "record", !.answer = cloud[p]])
    BY <1>8 DEF Inspect, Skipped
  <2> QED BY <1>c, <2>1, <2>2, <2>3, GoesType
<1>9. ASSUME NEW p \in Proposals, RecordState(s, p) PROVE sync' \in [Syncs -> Sync]
  <2>1. y.todo \ {p} \in SUBSET Proposals
    BY <1>a DEF Sync
  <2>2. Goes(s, Remaining({})) \/ Goes(s, Remaining(y.todo \ {p}))
    BY <1>9 DEF RecordState, Skipped
  <2> QED BY <1>c, <2>1, <2>2, GoesType
<1>10. CASE StatusFails(s)
  BY <1>c, <1>10, GoesType DEF StatusFails
<1>11. CASE Crash(s)
  BY <1>11, IdleType, GoesType DEF Crash
<1> QED BY <1>1, <1>2, <1>3, <1>4, <1>5, <1>6, <1>7, <1>8, <1>9, <1>10, <1>11 DEF Step, Govern

\* What a claim stores.
LEMMA LeasedType ==
    ASSUME TypeOK, NEW s \in Syncs, NEW e \in Events
    PROVE  [status |-> "leased", owner |-> s, live |-> TRUE, due |-> TRUE,
            attempts |-> IF outbox[e].attempts < MaxAttempts
                         THEN outbox[e].attempts + 1 ELSE MaxAttempts] \in Row
<1>1. outbox[e] \in Row
  BY DEF TypeOK
<1>2. (IF outbox[e].attempts < MaxAttempts THEN outbox[e].attempts + 1 ELSE MaxAttempts)
        \in 0 .. MaxAttempts
  <2>1. outbox[e].attempts \in 0 .. MaxAttempts
    BY <1>1 DEF Row
  <2> QED BY <2>1, OutboxAssumption
<1> QED BY <1>2 DEF Row, Statuses

\* Every step keeps the types of the outbox.
LEMMA RowStep ==
    ASSUME TypeOK, [Next]_vars
    PROVE  outbox' \in [Events -> Row]
<1>0. \A e \in Events : outbox[e] \in Row
  BY DEF TypeOK
<1>1. ASSUME NEW e \in Events, outbox' = Enqueued(e) PROVE outbox' \in [Events -> Row]
  <2> DEFINE r == IF outbox[e].status = "none"
                  THEN [status |-> "pending", owner |-> NoOwner, live |-> FALSE,
                        due |-> TRUE, attempts |-> 0]
                  ELSE outbox[e]
  <2>1. r \in Row
    BY <1>0, NewRowType
  <2>2. outbox' = [outbox EXCEPT ![e] = r]
    BY <1>1 DEF Enqueued, TypeOK
  <2> HIDE DEF r
  <2> QED BY <2>1, <2>2 DEF TypeOK
<1>2. ASSUME NEW e \in Events, NEW r \in Row, outbox' = [outbox EXCEPT ![e] = r]
      PROVE  outbox' \in [Events -> Row]
  BY <1>2 DEF TypeOK
<1>3. ASSUME NEW s \in Syncs, Claim(s) PROVE outbox' \in [Events -> Row]
  <2>1. \A e \in Events : outbox'[e] \in Row
    <3> SUFFICES ASSUME NEW e \in Events PROVE outbox'[e] \in Row
      OBVIOUS
    <3>1. \/ outbox'[e] = [status |-> "leased", owner |-> s, live |-> TRUE, due |-> TRUE,
                           attempts |-> IF outbox[e].attempts < MaxAttempts
                                        THEN outbox[e].attempts + 1 ELSE MaxAttempts]
          \/ outbox'[e] = Reclaimed(e)
      BY <1>3 DEF Claim
    <3> QED BY <3>1, LeasedType, ReclaimedType
  <2>2. DOMAIN outbox' = Events /\ outbox' = [e \in Events |-> outbox'[e]]
    BY <1>3 DEF Claim
  <2> QED BY <2>1, <2>2
<1>4. ASSUME NEW s \in Syncs, Acknowledge(s) PROVE outbox' \in [Events -> Row]
  <2>1. PICK e \in Events : \/ outbox' = outbox
                            \/ outbox' = [outbox EXCEPT ![e] =
                                 [@ EXCEPT !.status = "acknowledged", !.owner = NoOwner,
                                           !.live = FALSE]]
    BY <1>4 DEF Acknowledge, TypeOK, Sync
  <2>2. [outbox[e] EXCEPT !.status = "acknowledged", !.owner = NoOwner, !.live = FALSE] \in Row
    BY <1>0, RowTypes DEF Statuses
  <2> QED BY <1>2, <2>1, <2>2 DEF TypeOK
<1>5. ASSUME NEW s \in Syncs, FailWrite(s) PROVE outbox' \in [Events -> Row]
  <2>1. FailedStatus(s) \in Statuses
    BY DEF FailedStatus, Statuses
  <2>2. PICK e \in Events : \/ outbox' = outbox
                            \/ outbox' = [outbox EXCEPT ![e] =
                                 [@ EXCEPT !.status = FailedStatus(s), !.owner = NoOwner,
                                           !.live = FALSE, !.due = FALSE]]
    BY <1>5 DEF FailWrite, TypeOK, Sync
  <2> DEFINE r == [outbox[e] EXCEPT !.status = FailedStatus(s), !.owner = NoOwner,
                                    !.live = FALSE, !.due = FALSE]
  <2>3. r \in Row
    BY <1>0, <2>1, RowTypes
  <2>4. outbox' = outbox \/ outbox' = [outbox EXCEPT ![e] = r]
    BY <2>2 DEF TypeOK
  <2> HIDE DEF r
  <2> QED BY <1>2, <2>3, <2>4 DEF TypeOK
<1>6. ASSUME NEW s \in Syncs, NEW e \in Events, Compact(s, e) PROVE outbox' \in [Events -> Row]
  <2>1. [outbox[e] EXCEPT !.status = "compacted"] \in Row
    BY <1>0, RowTypes DEF Statuses
  <2>2. outbox' = [outbox EXCEPT ![e] = [outbox[e] EXCEPT !.status = "compacted"]]
    BY <1>6 DEF Compact, TypeOK
  <2> QED BY <1>2, <2>1, <2>2
<1>7. ASSUME NEW e \in Events, LeaseExpires(e) \/ BecomesDue(e)
      PROVE  outbox' \in [Events -> Row]
  <2>1. [outbox[e] EXCEPT !.live = FALSE] \in Row /\ [outbox[e] EXCEPT !.due = TRUE] \in Row
    BY <1>0, RowTypes
  <2>2. \/ outbox' = [outbox EXCEPT ![e] = [outbox[e] EXCEPT !.live = FALSE]]
        \/ outbox' = [outbox EXCEPT ![e] = [outbox[e] EXCEPT !.due = TRUE]]
    BY <1>7 DEF LeaseExpires, BecomesDue, TypeOK
  <2> QED BY <1>2, <2>1, <2>2
<1>8. ASSUME NEW e \in Events, Requeue(e) PROVE outbox' \in [Events -> Row]
  <2> DEFINE r == IF outbox[e].status = "compacted" THEN outbox[e]
                  ELSE [status |-> "pending", owner |-> NoOwner, live |-> FALSE,
                        due |-> TRUE, attempts |-> 0]
  <2>1. r \in Row
    BY <1>0, NewRowType
  <2>2. outbox' = [outbox EXCEPT ![e] = r]
    BY <1>8 DEF Requeue, TypeOK
  <2> HIDE DEF r
  <2> QED BY <1>2, <2>1, <2>2
<1>9. CASE UNCHANGED outbox
  BY <1>9 DEF TypeOK
<1>10. ASSUME NEW s \in Syncs, Step(s) PROVE outbox' \in [Events -> Row]
  <2>1. Claim(s) \/ Acknowledge(s) \/ FailWrite(s) \/ UNCHANGED outbox
    BY <1>10 DEF Step, Deliver, Govern, Fail, List, Inspect, RecordState
  <2> QED BY <1>3, <1>4, <1>5, <1>9, <2>1
<1>11. ASSUME NEW e \in Events, Enqueue(e) \/ EnqueueResult(e) PROVE outbox' \in [Events -> Row]
  BY <1>1, <1>11 DEF Enqueue, EnqueueResult
<1>12. \/ \E e \in Events : Enqueue(e) \/ EnqueueResult(e)
       \/ \E e \in Events : Requeue(e) \/ LeaseExpires(e) \/ BecomesDue(e)
       \/ \E s \in Syncs : Step(s) \/ \E e \in Events : Compact(s, e)
       \/ UNCHANGED outbox
  BY DEF Next, ReadRetry, StatusFails, Crash, CloudDecides, vars
<1> QED BY <1>6, <1>7, <1>8, <1>9, <1>10, <1>11, <1>12

\* Only the commands of operators count as retries.
LEMMA RetriesMove ==
    ASSUME [Next]_vars
    PROVE  \/ \E e \in Events : ReadRetry(e) \/ Requeue(e)
           \/ UNCHANGED retries
<1>1. ASSUME NEW s \in Syncs, Step(s) PROVE UNCHANGED retries
  BY <1>1 DEF Step, Claim, Deliver, Govern, Acknowledge, Fail, FailWrite, List, Inspect,
              RecordState
<1> QED BY <1>1 DEF Next, Enqueue, EnqueueResult, LeaseExpires, BecomesDue, CloudDecides,
                    StatusFails, Crash, Compact, vars

\* Every step keeps the types of the other variables.
LEMMA TypeStep ==
    ASSUME TypeOK, [Next]_vars
    PROVE  TypeOK'
<1>1. sync' \in [Syncs -> Sync]
  <2>1. CASE UNCHANGED sync
    BY <2>1 DEF TypeOK
  <2> QED BY <2>1, SyncStep
          DEF Next, Enqueue, EnqueueResult, ReadRetry, Requeue, LeaseExpires, BecomesDue, CloudDecides,
              Compact, vars
<1>2. governance' \in [Proposals -> Governance] /\ local' \in [Proposals -> CloudStates]
  <2>1. CASE UNCHANGED <<governance, local>>
    BY <2>1 DEF TypeOK
  <2>2. ASSUME NEW e \in Events, Enqueue(e)
        PROVE  governance' \in [Proposals -> Governance] /\ local' \in [Proposals -> CloudStates]
    <3>1. e[1] \in Proposals
      BY EventPair
    <3>2. Recorded(e[1], "queued", "none") \in [Proposals -> Governance]
      BY <3>1, RecordType DEF CloudStates
    <3> QED BY <2>2, <3>2 DEF Enqueue, TypeOK
  <2>3. ASSUME NEW s \in Syncs, Govern(s)
        PROVE  governance' \in [Proposals -> Governance] /\ local' \in [Proposals -> CloudStates]
    <3>1. PICK e \in Events : /\ governance' = Recorded(e[1], "receipt", sync[s].answer)
                              /\ local' = Projected(e[1], sync[s].answer)
      BY <2>3 DEF Govern, TypeOK, Sync
    <3>2. e[1] \in Proposals /\ sync[s].answer \in CloudStates
      BY EventPair DEF TypeOK, Sync
    <3> QED BY <3>1, <3>2, RecordType
  <2>4. ASSUME NEW s \in Syncs, NEW p \in Proposals, RecordState(s, p)
        PROVE  governance' \in [Proposals -> Governance] /\ local' \in [Proposals -> CloudStates]
    <3>1. sync[s].answer \in CloudStates
      BY DEF TypeOK, Sync
    <3> QED BY <2>4, <3>1, RecordType DEF RecordState
  <2>5. ASSUME NEW s \in Syncs, Step(s)
        PROVE  governance' \in [Proposals -> Governance] /\ local' \in [Proposals -> CloudStates]
    <3>1. \/ Govern(s) \/ \E p \in Proposals : RecordState(s, p)
          \/ UNCHANGED <<governance, local>>
      BY <2>5 DEF Step, Claim, Deliver, Acknowledge, Fail, FailWrite, List, Inspect
    <3> QED BY <2>1, <2>3, <2>4, <3>1
  <2>6. \/ \E e \in Events : Enqueue(e)
        \/ \E s \in Syncs : Step(s)
        \/ UNCHANGED <<governance, local>>
    BY DEF Next, EnqueueResult, ReadRetry, Requeue, LeaseExpires, BecomesDue, CloudDecides, StatusFails,
           Crash, Compact, vars
  <2> QED BY <2>1, <2>2, <2>5, <2>6
<1>3. cloud' \in [Proposals -> CloudStates] /\ received' \subseteq Events
  <2>1. CASE UNCHANGED <<cloud, received>>
    BY <2>1 DEF TypeOK
  <2>2. ASSUME NEW s \in Syncs, NEW e \in Events, NEW outcome, NEW taken,
               Deliver(s, e, outcome, taken)
        PROVE  cloud' \in [Proposals -> CloudStates] /\ received' \subseteq Events
    BY <2>2 DEF Deliver, TypeOK, CloudStates
  <2>3. ASSUME NEW p \in Proposals, NEW decision \in CloudStates, CloudDecides(p, decision)
        PROVE  cloud' \in [Proposals -> CloudStates] /\ received' \subseteq Events
    BY <2>3 DEF CloudDecides, TypeOK
  <2> QED BY <2>1, <2>2, <2>3
          DEF Next, Step, Enqueue, EnqueueResult, ReadRetry, Requeue, LeaseExpires, BecomesDue, Claim,
              Govern, Acknowledge, Fail, FailWrite, List, Inspect, RecordState, StatusFails,
              Crash, Compact, vars
<1>4. faults' \in 0 .. MaxFaults /\ repairs' \in 0 .. MaxRepairs
  <2>1. ASSUME NEW s \in Syncs, Step(s)
        PROVE  /\ faults' = faults \/ (faults < MaxFaults /\ faults' = faults + 1)
               /\ repairs' = repairs
    <3>1. \/ UNCHANGED <<faults, repairs>>
          \/ \E e \in Events, outcome \in Outcomes, taken \in BOOLEAN :
               Deliver(s, e, outcome, taken)
      BY <2>1 DEF Step, Claim, Govern, Acknowledge, Fail, FailWrite, List, Inspect, RecordState
    <3> QED BY <3>1 DEF Deliver
  <2>2. /\ faults' = faults \/ (faults < MaxFaults /\ faults' = faults + 1)
        /\ repairs' = repairs \/ (repairs < MaxRepairs /\ repairs' = repairs + 1)
    BY <2>1 DEF Next, Enqueue, EnqueueResult, ReadRetry, Requeue, LeaseExpires, BecomesDue, CloudDecides,
                StatusFails, Crash, Compact, vars
  <2> QED BY <2>2, OutboxAssumption DEF TypeOK
<1>5. retries' \in [Events -> Nat]
  <2>1. ASSUME NEW e \in Events, ReadRetry(e) PROVE retries' \in [Events -> Nat]
    BY <2>1 DEF ReadRetry, TypeOK
  <2>2. ASSUME NEW e \in Events, Requeue(e) PROVE retries' \in [Events -> Nat]
    <3>1. retries[e] - 1 \in Nat
      BY <2>2 DEF Requeue, TypeOK
    <3> QED BY <2>2, <3>1 DEF Requeue, TypeOK
  <2>3. CASE UNCHANGED retries
    BY <2>3 DEF TypeOK
  <2> QED BY <2>1, <2>2, <2>3, RetriesMove
<1> QED BY <1>1, <1>2, <1>3, <1>4, <1>5, RowStep DEF TypeOK

\* The initial state is well typed.
LEMMA InitType == Init => TypeOK
<1> SUFFICES ASSUME Init PROVE TypeOK
  OBVIOUS
<1>1. NoRow \in Row
  BY OutboxAssumption DEF NoRow, Row, Statuses
<1>2. [known |-> {}, latest |-> "none"] \in Governance /\ "pending_review" \in CloudStates
  BY DEF Governance, CloudStates
<1> QED BY <1>1, <1>2, IdleType, OutboxAssumption DEF Init, TypeOK, CloudStates

\* The rows of the outbox, the governance events and the synchronizers keep
\* their types.
THEOREM OutboxTypes == Spec => []TypeOK
<1>1. Init => TypeOK
  BY InitType
<1>2. TypeOK /\ [Next]_vars => TypeOK'
  BY TypeStep
<1> QED BY <1>1, <1>2, PTL DEF Spec

----------------------------------------------------------------------------
(* What was acknowledged was taken, and in order *)

\* f has to be taken before e.
Before(f, e) == Earlier(f, e) /\ (e \in Results => f[2] = 0)

\* Activities are enqueued after what precedes them, and a result when Cloud
\* knows its proposal, which it does when it has taken its event.
Queued ==
    /\ \A e, f \in Events :
         outbox[e].status # "none" /\ Earlier(f, e) /\ e \notin Results =>
             outbox[f].status # "none"
    /\ \A e \in Results : outbox[e].status # "none" => cloud[e[1]] # "none"
    /\ \A f \in Events : f[2] = 0 /\ cloud[f[1]] # "none" => f \in received

\* What a synchronizer has claimed has a row and may be sent, and what it is about to
\* acknowledge was taken.
Held ==
    \A s \in Syncs :
        /\ \A e \in sync[s].claimed \cup sync[s].current : outbox[e].status # "none"
        /\ \A e \in sync[s].claimed, f \in Events : Before(f, e) => f \in received
        /\ sync[s].at \in {"govern", "acknowledge"} => sync[s].current \subseteq received

\* What an operator is about to retry has a row, or had one.
Retried == \A e \in Events : retries[e] > 0 => outbox[e].status # "none"

OutboxInv == TypeOK /\ AcknowledgedWasTaken /\ InOrder /\ Queued /\ Held /\ Retried

\* How a row changes: it is created by an enqueueing, and called sent by its
\* acknowledgement.
LEMMA RowMoves ==
    ASSUME TypeOK, Held, Retried, [Next]_vars, NEW e \in Events
    PROVE  /\ outbox[e].status # "none" => outbox'[e].status # "none"
           /\ outbox[e].status = "none" /\ outbox'[e].status # "none" =>
                Enqueue(e) \/ EnqueueResult(e)
           /\ outbox'[e].status \in Sent =>
                \/ outbox[e].status \in Sent
                \/ \E s \in Syncs : Acknowledge(s) /\ e \in sync[s].current
<1> DEFINE Moves(old, new) == /\ old # "none" => new # "none"
                              /\ old = "none" => new = "none"
                              /\ new \in Sent => old \in Sent
<1>0. \A f \in Events : outbox[f] \in Row
  BY DEF TypeOK
<1> SUFFICES \/ Moves(outbox[e].status, outbox'[e].status)
             \/ /\ outbox'[e].status = "pending" /\ outbox[e].status = "none"
                /\ Enqueue(e) \/ EnqueueResult(e)
             \/ /\ outbox[e].status = "leased" /\ outbox'[e].status # "none"
                /\ \E s \in Syncs : Acknowledge(s) /\ e \in sync[s].current
  BY DEF Sent
<1>1. CASE outbox'[e] = outbox[e]
  BY <1>1
<1>2. ASSUME NEW f \in Events, Enqueue(f) \/ EnqueueResult(f), outbox'[e] # outbox[e]
      PROVE  /\ outbox'[e].status = "pending" /\ outbox[e].status = "none"
             /\ Enqueue(e) \/ EnqueueResult(e)
  <2>1. outbox' = Enqueued(f) /\ outbox[f].status = "none"
    BY <1>2 DEF Enqueue, EnqueueResult
  <2>2. e = f /\ outbox'[e].status = "pending"
    BY <1>2, <2>1 DEF Enqueued, TypeOK
  <2> QED BY <1>2, <2>1, <2>2
<1>3. ASSUME NEW f \in Events, Requeue(f) PROVE Moves(outbox[e].status, outbox'[e].status)
  <2>1. outbox'[e] = outbox[e] \/ (e = f /\ outbox'[e].status = "pending")
    BY <1>3 DEF Requeue, TypeOK
  <2>2. outbox[f].status # "none"
    BY <1>3 DEF Requeue, Retried
  <2> QED BY <2>1, <2>2 DEF Sent
<1>4. ASSUME NEW f \in Events, LeaseExpires(f) \/ BecomesDue(f)
      PROVE  Moves(outbox[e].status, outbox'[e].status)
  <2>1. outbox'[e].status = outbox[e].status
    BY <1>0, <1>4 DEF LeaseExpires, BecomesDue, TypeOK, Row
  <2> QED BY <2>1
<1>5. ASSUME NEW s \in Syncs, Claim(s) PROVE Moves(outbox[e].status, outbox'[e].status)
  <2>1. CASE Candidate(e)
    <3>1. outbox'[e].status = "leased"
      BY <1>5, <2>1 DEF Claim
    <3>2. outbox[e].status # "none"
      BY <2>1, ReclaimedType DEF Candidate
    <3> QED BY <3>1, <3>2 DEF Sent
  <2>2. CASE ~Candidate(e)
    <3>1. outbox'[e] = Reclaimed(e)
      BY <1>5, <2>2 DEF Claim
    <3> QED BY <3>1, ReclaimedType DEF Sent
  <2> QED BY <2>1, <2>2
<1>6. ASSUME NEW s \in Syncs, Acknowledge(s), outbox'[e] # outbox[e]
      PROVE  /\ outbox[e].status = "leased" /\ outbox'[e].status # "none"
             /\ e \in sync[s].current
  <2>1. PICK f \in sync[s].current :
           /\ Owns(s, f)
           /\ outbox' = [outbox EXCEPT ![f] =
                [@ EXCEPT !.status = "acknowledged", !.owner = NoOwner, !.live = FALSE]]
    BY <1>6 DEF Acknowledge
  <2>2. e = f /\ outbox'[e] = [outbox[e] EXCEPT !.status = "acknowledged", !.owner = NoOwner,
                                                !.live = FALSE]
    BY <1>6, <2>1 DEF TypeOK
  <2>3. outbox'[e].status = "acknowledged"
    BY <1>0, <2>2 DEF Row
  <2> QED BY <2>1, <2>2, <2>3 DEF Owns
<1>7. ASSUME NEW s \in Syncs, FailWrite(s) PROVE Moves(outbox[e].status, outbox'[e].status)
  <2>1. PICK f \in sync[s].current :
           \/ outbox' = outbox
           \/ outbox' = [outbox EXCEPT ![f] =
                [@ EXCEPT !.status = FailedStatus(s), !.owner = NoOwner,
                          !.live = FALSE, !.due = FALSE]]
    BY <1>7 DEF FailWrite
  <2>2. outbox'[e] = outbox[e] \/ outbox'[e] = [outbox[e] EXCEPT !.status = FailedStatus(s),
                         !.owner = NoOwner, !.live = FALSE, !.due = FALSE]
    BY <2>1 DEF TypeOK
  <2>3. CASE outbox'[e] = outbox[e]
    BY <2>3
  <2>4. CASE outbox'[e] # outbox[e]
    <3>1. outbox[e].status # "none"
      <4>1. e = f
        BY <2>1, <2>4 DEF TypeOK
      <4> QED BY <4>1 DEF Held
    <3>2. outbox'[e].status = FailedStatus(s)
      BY <1>0, <2>2, <2>4 DEF Row
    <3> QED BY <3>1, <3>2 DEF FailedStatus, Sent
  <2> QED BY <2>3, <2>4
<1>8. ASSUME NEW s \in Syncs, NEW f \in Events, Compact(s, f)
      PROVE  Moves(outbox[e].status, outbox'[e].status)
  <2>1. \/ outbox'[e] = outbox[e]
        \/ /\ outbox[e].status = "acknowledged"
           /\ outbox'[e] = [outbox[e] EXCEPT !.status = "compacted"]
    BY <1>8 DEF Compact, TypeOK
  <2>2. [outbox[e] EXCEPT !.status = "compacted"].status = "compacted"
    BY <1>0 DEF Row
  <2> QED BY <2>1, <2>2 DEF Sent
<1>9. \/ \E f \in Events : Enqueue(f) \/ EnqueueResult(f)
      \/ \E f \in Events : Requeue(f)
      \/ \E f \in Events : LeaseExpires(f) \/ BecomesDue(f)
      \/ \E s \in Syncs : Claim(s)
      \/ \E s \in Syncs : Acknowledge(s)
      \/ \E s \in Syncs : FailWrite(s)
      \/ \E s \in Syncs, f \in Events : Compact(s, f)
      \/ outbox' = outbox
  <2>1. ASSUME NEW s \in Syncs, Step(s)
        PROVE  Claim(s) \/ Acknowledge(s) \/ FailWrite(s) \/ outbox' = outbox
    BY <2>1 DEF Step, Deliver, Govern, Fail, List, Inspect, RecordState
  <2> QED BY <2>1 DEF Next, ReadRetry, CloudDecides, StatusFails, Crash, vars
<1> QED BY <1>1, <1>2, <1>3, <1>4, <1>5, <1>6, <1>7, <1>8, <1>9

\* Cloud never forgets an event or a proposal, and a new event was sent by a
\* synchronizer that had claimed it.
LEMMA CloudMoves ==
    ASSUME TypeOK, [Next]_vars
    PROVE  /\ received \subseteq received'
           /\ \A e \in received' \ received : \E s \in Syncs : e \in sync[s].claimed
           /\ \A p \in Proposals :
                /\ cloud[p] # "none" => cloud'[p] # "none"
                /\ cloud[p] = "none" /\ cloud'[p] # "none" =>
                     \E e \in received' : e[1] = p /\ e[2] = 0
<1>1. CASE UNCHANGED <<cloud, received>>
  BY <1>1
<1>2. ASSUME NEW s \in Syncs, NEW e \in Events, NEW outcome, NEW taken,
             Deliver(s, e, outcome, taken)
      PROVE  /\ received \subseteq received'
             /\ \A f \in received' \ received : f \in sync[s].claimed
             /\ \A p \in Proposals :
                  /\ cloud[p] # "none" => cloud'[p] # "none"
                  /\ cloud[p] = "none" /\ cloud'[p] # "none" =>
                       \E f \in received' : f[1] = p /\ f[2] = 0
  <2>1. /\ received \subseteq received'
        /\ \A f \in received' \ received : f \in sync[s].claimed
    BY <1>2 DEF Deliver
  <2>2. ASSUME NEW p \in Proposals, cloud'[p] # cloud[p]
        PROVE  cloud[p] = "none" /\ e \in received' /\ e[1] = p /\ e[2] = 0
    BY <1>2, <2>2 DEF Deliver, TypeOK
  <2> QED BY <2>1, <2>2
<1>3. ASSUME NEW p \in Proposals, NEW decision \in CloudStates, CloudDecides(p, decision)
      PROVE  /\ received' = received
             /\ \A q \in Proposals : (cloud[q] = "none") <=> (cloud'[q] = "none")
  BY <1>3 DEF CloudDecides, TypeOK
<1>4. \/ UNCHANGED <<cloud, received>>
      \/ \E s \in Syncs, e \in Events, outcome \in Outcomes, taken \in BOOLEAN :
           Deliver(s, e, outcome, taken)
      \/ \E p \in Proposals, decision \in CloudStates : CloudDecides(p, decision)
  <2>1. ASSUME NEW s \in Syncs, Step(s)
        PROVE  \/ UNCHANGED <<cloud, received>>
               \/ \E e \in Events, outcome \in Outcomes, taken \in BOOLEAN :
                    Deliver(s, e, outcome, taken)
    BY <2>1 DEF Step, Claim, Govern, Acknowledge, Fail, FailWrite, List, Inspect, RecordState
  <2> QED BY <2>1 DEF Next, Enqueue, EnqueueResult, ReadRetry, Requeue, LeaseExpires, BecomesDue,
                      StatusFails, Crash, Compact, vars
<1> QED BY <1>1, <1>2, <1>3, <1>4

\* What a claim takes has a row, and all that has to be sent before it was
\* taken by Cloud.
LEMMA ClaimReady ==
    ASSUME OutboxInv, NEW e \in Events, Candidate(e)
    PROVE  \A f \in Events : Before(f, e) => f \in received
<1>1. outbox[e].status # "none"
  BY ReclaimedType DEF OutboxInv, Candidate
<1> SUFFICES ASSUME NEW f \in Events, Before(f, e) PROVE f \in received
  OBVIOUS
<1>2. e[1] \in Proposals /\ f[1] = e[1]
  BY EventPair DEF Before, Earlier
<1>3. CASE e \in Results
  BY <1>1, <1>2, <1>3 DEF Before, OutboxInv, Queued
<1>4. CASE e \notin Results
  <2>1. outbox[f].status # "none"
    BY <1>1, <1>4 DEF Before, OutboxInv, Queued
  <2>2. Reclaimed(f).status \in {"none", "acknowledged", "compacted"}
    BY DEF Before, Candidate
  <2>3. Reclaimed(f).status # "none"
    BY <2>1, ReclaimedType DEF OutboxInv
  <2>4. outbox[f].status \in Sent
    BY <2>2, <2>3, ReclaimedType DEF OutboxInv, Sent
  <2> QED BY <2>4 DEF OutboxInv, AcknowledgedWasTaken
<1> QED BY <1>3, <1>4

\* A synchronizer claims, or goes on with what it has claimed.
LEMMA SyncMoves ==
    ASSUME OutboxInv, [Next]_vars, NEW s \in Syncs
    PROVE  \/ sync'[s] = sync[s]
           \/ /\ Claim(s) /\ sync'[s].current = {} /\ sync'[s].at \in {"list", "deliver"}
              /\ sync'[s].claimed = {e \in Events : Candidate(e)}
           \/ /\ sync'[s].claimed \subseteq sync[s].claimed
              /\ sync'[s].current \subseteq sync[s].claimed \cup sync[s].current
              /\ sync'[s].at \in {"govern", "acknowledge"} => sync'[s].current \subseteq received'
<1> DEFINE y == sync[s]
           On(x) == /\ x.claimed \subseteq y.claimed
                    /\ x.current \subseteq y.claimed \cup y.current
                    /\ x.at \in {"govern", "acknowledge"} => x.current \subseteq received'
<1>a. y \in Sync /\ sync \in [Syncs -> Sync]
  BY DEF OutboxInv, TypeOK
<1>b. received \subseteq received'
  BY CloudMoves DEF OutboxInv
<1>c. ASSUME NEW t \in Syncs, NEW x, Goes(t, x) PROVE IF t = s THEN sync'[s] = x ELSE sync'[s] = y
  BY <1>a, <1>c DEF Goes
<1>d. On(Idle) /\ On(Onward(s)) /\ \A todo : On(Remaining(todo))
  BY DEF Idle, Onward, Remaining
<1>1. CASE Claim(s)
  <2> DEFINE batch == {e \in Events : Candidate(e)}
             x == [Idle EXCEPT !.at = IF batch = {} THEN "list" ELSE "deliver",
                               !.claimed = batch]
  <2>1. Goes(s, x)
    BY <1>1 DEF Claim
  <2>2. x.current = {} /\ x.at \in {"list", "deliver"} /\ x.claimed = batch
    BY DEF Idle
  <2> HIDE DEF x
  <2>3. sync'[s] = x
    BY <1>c, <2>1
  <2> QED BY <1>1, <2>2, <2>3
<1>2. ASSUME NEW e \in Events, NEW outcome, NEW taken, Deliver(s, e, outcome, taken)
      PROVE  On(sync'[s])
  <2> DEFINE at == IF outcome # "ok" THEN "fail"
                   ELSE IF e[2] = 0 THEN "govern" ELSE "acknowledge"
             answer == IF outcome = "ok" THEN cloud'[e[1]] ELSE "none"
             x == [y EXCEPT !.at = at, !.claimed = @ \ {e}, !.current = {e},
                            !.outcome = outcome, !.answer = answer]
  <2>1. Goes(s, x) /\ e \in y.claimed /\ (outcome = "ok" => e \in received')
    BY <1>2 DEF Deliver
  <2>2. at \in {"govern", "acknowledge"} => e \in received'
    BY <2>1
  <2> HIDE DEF at, answer
  <2>3. x.at = at /\ x.claimed = y.claimed \ {e} /\ x.current = {e}
    BY <1>a DEF Sync
  <2> HIDE DEF x
  <2>4. sync'[s] = x
    BY <1>c, <2>1
  <2>5. On(x)
    BY <2>1, <2>2, <2>3
  <2> HIDE DEF On
  <2> QED BY <2>4, <2>5
<1>3. ASSUME Govern(s) PROVE On(sync'[s])
  <2>1. y.at = "govern" /\ y.current \subseteq received
    BY <1>3 DEF Govern, OutboxInv, Held
  <2>2. /\ On([y EXCEPT !.at = "fail", !.outcome = "fatal"])
        /\ On([y EXCEPT !.at = "acknowledge"])
    BY <1>a, <1>b, <2>1 DEF Sync
  <2> DEFINE failed == [y EXCEPT !.at = "fail", !.outcome = "fatal"]
             done == [y EXCEPT !.at = "acknowledge"]
  <2>3. Goes(s, failed) \/ Goes(s, done)
    BY <1>3 DEF Govern
  <2>4. On(failed) /\ On(done)
    BY <2>2
  <2> HIDE DEF On, failed, done
  <2>5. sync'[s] = failed \/ sync'[s] = done
    BY <1>c, <2>3
  <2> QED BY <2>4, <2>5
<1>4. ASSUME Acknowledge(s) PROVE On(sync'[s])
  <2> DEFINE failed == [y EXCEPT !.at = "fail", !.outcome = "fatal"]
  <2>1. On(failed)
    BY <1>a DEF Sync
  <2>2. Goes(s, Onward(s)) \/ Goes(s, failed)
    BY <1>4 DEF Acknowledge
  <2> HIDE DEF On, failed
  <2>3. sync'[s] = Onward(s) \/ sync'[s] = failed
    BY <1>c, <2>2
  <2> QED BY <1>d, <2>1, <2>3
<1>5. ASSUME Fail(s) PROVE On(sync'[s])
  <2>1. PICK e \in y.current :
           Goes(s, IF Owns(s, e)
                   THEN [y EXCEPT !.at = "failing",
                                  !.exhausted = (outbox[e].attempts >= MaxAttempts)]
                   ELSE Idle)
    BY <1>5 DEF Fail
  <2> DEFINE x == [y EXCEPT !.at = "failing",
                            !.exhausted = (outbox[e].attempts >= MaxAttempts)]
  <2>2. On(x)
    BY <1>a DEF Sync
  <2> HIDE DEF On
  <2>3. Goes(s, x) \/ Goes(s, Idle)
    BY <2>1
  <2> HIDE DEF x
  <2>4. sync'[s] = x \/ sync'[s] = Idle
    BY <1>c, <2>3
  <2> QED BY <1>d, <2>2, <2>4
<1>6. ASSUME NEW p \in Proposals, Inspect(s, p) PROVE On(sync'[s])
  <2> DEFINE x == [y EXCEPT !.at = "record", !.answer = cloud[p]]
  <2>1. On(x)
    BY <1>a DEF Sync
  <2>2. Goes(s, Remaining(y.todo \ {p})) \/ Goes(s, x)
    BY <1>6 DEF Inspect, Skipped
  <2> HIDE DEF On, x
  <2>3. sync'[s] = Remaining(y.todo \ {p}) \/ sync'[s] = x
    BY <1>c, <2>2
  <2> QED BY <1>d, <2>1, <2>3
<1>7. ASSUME \/ FailWrite(s) \/ List(s) \/ StatusFails(s) \/ Crash(s)
             \/ \E p \in Proposals : RecordState(s, p)
      PROVE  On(sync'[s])
  <2>1. Goes(s, Onward(s)) \/ Goes(s, Idle) \/ \E todo : Goes(s, Remaining(todo))
    BY <1>7 DEF FailWrite, List, StatusFails, Crash, RecordState, Skipped
  <2> HIDE DEF On
  <2>2. sync'[s] = Onward(s) \/ sync'[s] = Idle \/ \E todo : sync'[s] = Remaining(todo)
    BY <1>c, <2>1
  <2> QED BY <1>d, <2>2
<1>8. ASSUME NEW t \in Syncs, t # s, Step(t) \/ StatusFails(t) \/ Crash(t)
      PROVE  sync'[s] = sync[s]
  <2>1. \E x : Goes(t, x)
    BY <1>8 DEF Step, Claim, Deliver, Govern, Acknowledge, Fail, FailWrite, List, Inspect,
                RecordState, StatusFails, Crash
  <2> QED BY <1>8, <1>c, <2>1
<1>9. \/ sync' = sync
      \/ \E t \in Syncs : Step(t) \/ StatusFails(t) \/ Crash(t)
  BY DEF Next, Enqueue, EnqueueResult, ReadRetry, Requeue, LeaseExpires, BecomesDue, CloudDecides,
         Compact, vars
<1>10. Step(s) \/ StatusFails(s) \/ Crash(s) => Claim(s) \/ On(sync'[s])
  <2> HIDE DEF On
  <2> QED BY <1>2, <1>3, <1>4, <1>5, <1>6, <1>7 DEF Step
<1> QED BY <1>1, <1>8, <1>9, <1>10

\* What is held stays ready to be sent, and acknowledgements stay true.
LEMMA HeldStep ==
    ASSUME OutboxInv, [Next]_vars
    PROVE  Held'
<1> SUFFICES ASSUME NEW s \in Syncs
             PROVE  /\ \A e \in sync'[s].claimed \cup sync'[s].current : outbox'[e].status # "none"
                    /\ \A e \in sync'[s].claimed, f \in Events : Before(f, e) => f \in received'
                    /\ sync'[s].at \in {"govern", "acknowledge"} =>
                         sync'[s].current \subseteq received'
  BY DEF Held, Before, Earlier
<1>0. /\ sync[s] \in Sync
      /\ received \subseteq received'
      /\ \A e \in Events : outbox[e].status # "none" => outbox'[e].status # "none"
  BY CloudMoves, RowMoves DEF OutboxInv, TypeOK
<1>1. CASE sync'[s] = sync[s]
  BY <1>0, <1>1 DEF OutboxInv, Held, Sync
<1>2. CASE /\ Claim(s) /\ sync'[s].current = {} /\ sync'[s].at \in {"list", "deliver"}
           /\ sync'[s].claimed = {e \in Events : Candidate(e)}
  <2>1. \A e \in Events : Candidate(e) => outbox[e].status # "none"
    BY ReclaimedType DEF OutboxInv, Candidate
  <2> QED BY <1>0, <1>2, <2>1, ClaimReady
<1>3. CASE /\ sync'[s].claimed \subseteq sync[s].claimed
           /\ sync'[s].current \subseteq sync[s].claimed \cup sync[s].current
           /\ sync'[s].at \in {"govern", "acknowledge"} => sync'[s].current \subseteq received'
  BY <1>0, <1>3 DEF OutboxInv, Held, Sync
<1> QED BY <1>1, <1>2, <1>3, SyncMoves

\* Rows are created in order, and results after their proposal was taken.
LEMMA QueuedStep ==
    ASSUME OutboxInv, [Next]_vars
    PROVE  Queued'
<1>0. TypeOK /\ Held /\ Retried /\ Queued
  BY DEF OutboxInv
<1>1. ASSUME NEW e \in Events, NEW f \in Events,
             outbox'[e].status # "none", Earlier(f, e), e \notin Results
      PROVE  outbox'[f].status # "none"
  <2>1. outbox[f].status # "none"
    <3>1. CASE outbox[e].status # "none"
      BY <1>0, <1>1, <3>1 DEF Queued
    <3>2. CASE outbox[e].status = "none"
      <4>1. Enqueue(e)
        BY <1>0, <1>1, <3>2, RowMoves DEF EnqueueResult
      <4>2. f \notin Results
        BY <1>1, OutboxAssumption
      <4> QED BY <1>1, <4>1, <4>2 DEF Enqueue
    <3> QED BY <3>1, <3>2
  <2> QED BY <1>0, <2>1, RowMoves
<1>2. ASSUME NEW e \in Results, outbox'[e].status # "none" PROVE cloud'[e[1]] # "none"
  <2>1. e \in Events /\ e[1] \in Proposals
    BY EventPair, OutboxAssumption
  <2>2. cloud[e[1]] # "none"
    <3>1. CASE outbox[e].status # "none"
      BY <1>0, <3>1 DEF Queued
    <3>2. CASE outbox[e].status = "none"
      <4>1. EnqueueResult(e)
        BY <1>0, <1>2, <2>1, <3>2, RowMoves DEF Enqueue
      <4> QED BY <4>1 DEF EnqueueResult
    <3> QED BY <3>1, <3>2
  <2> QED BY <1>0, <2>1, <2>2, CloudMoves
<1>3. ASSUME NEW f \in Events, f[2] = 0, cloud'[f[1]] # "none" PROVE f \in received'
  <2>0. f[1] \in Proposals /\ f = <<f[1], f[2]>>
    BY EventPair
  <2>1. CASE cloud[f[1]] # "none"
    BY <1>0, <1>3, <2>1, CloudMoves DEF Queued
  <2>2. CASE cloud[f[1]] = "none"
    <3>1. PICK e \in received' : e[1] = f[1] /\ e[2] = 0
      BY <1>0, <1>3, <2>0, <2>2, CloudMoves
    <3>2. e \in Events
      BY <1>0, TypeStep DEF TypeOK
    <3>3. e = <<e[1], e[2]>>
      BY <3>2, EventPair
    <3> QED BY <1>3, <2>0, <3>1, <3>3
  <2> QED BY <2>1, <2>2
<1> QED BY <1>1, <1>2, <1>3 DEF Queued, Earlier

\* A retry command is under way only for what has a row.
LEMMA RetriedStep ==
    ASSUME OutboxInv, [Next]_vars
    PROVE  Retried'
<1> SUFFICES ASSUME NEW e \in Events, retries'[e] > 0 PROVE outbox'[e].status # "none"
  BY DEF Retried
<1>0. TypeOK /\ Held /\ Retried
  BY DEF OutboxInv
<1>1. CASE outbox[e].status # "none"
  BY <1>0, <1>1, RowMoves
<1>2. ASSUME outbox[e].status = "none" PROVE FALSE
  <2>1. retries[e] = 0
    BY <1>0, <1>2 DEF Retried, TypeOK
  <2>2. retries'[e] = 0
    <3>1. ASSUME NEW f \in Events, ReadRetry(f) PROVE retries'[e] = 0
      BY <1>0, <1>2, <2>1, <3>1 DEF ReadRetry, TypeOK
    <3>2. ASSUME NEW f \in Events, Requeue(f) PROVE retries'[e] = 0
      BY <1>0, <2>1, <3>2 DEF Requeue, TypeOK
    <3> QED BY <2>1, <3>1, <3>2, RetriesMove
  <2> QED BY <2>2
<1> QED BY <1>1, <1>2

\* The invariant is inductive.
LEMMA OutboxStep ==
    ASSUME OutboxInv, [Next]_vars
    PROVE  OutboxInv'
<1>0. TypeOK /\ Held /\ Retried
  BY DEF OutboxInv
<1>1. AcknowledgedWasTaken'
  <2> SUFFICES ASSUME NEW e \in Events, outbox'[e].status \in Sent PROVE e \in received'
    BY DEF AcknowledgedWasTaken, Sent
  <2>1. CASE outbox[e].status \in Sent
    BY <1>0, <2>1, CloudMoves DEF OutboxInv, AcknowledgedWasTaken
  <2>2. ASSUME NEW s \in Syncs, Acknowledge(s), e \in sync[s].current PROVE e \in received'
    <3>1. e \in received
      BY <2>2 DEF Acknowledge, OutboxInv, Held
    <3> QED BY <1>0, <3>1, CloudMoves
  <2> QED BY <1>0, <2>1, <2>2, RowMoves
<1>2. InOrder'
  <2> SUFFICES ASSUME NEW e \in received', NEW f \in Events,
                      Earlier(f, e), e \in Results => f[2] = 0
               PROVE  f \in received'
    BY DEF InOrder, Earlier
  <2>1. CASE e \in received
    BY <1>0, <2>1, CloudMoves DEF OutboxInv, InOrder
  <2>2. CASE e \notin received
    <3>1. PICK s \in Syncs : e \in sync[s].claimed
      BY <1>0, <2>2, CloudMoves
    <3> QED BY <1>0, <3>1, CloudMoves DEF Held, Before
  <2> QED BY <2>1, <2>2
<1> QED BY <1>0, <1>1, <1>2, TypeStep, HeldStep, QueuedStep, RetriedStep DEF OutboxInv

\* The invariant holds initially.
LEMMA OutboxInit == Init => OutboxInv
<1> SUFFICES ASSUME Init PROVE OutboxInv
  OBVIOUS
<1>1. \A e \in Events : outbox[e].status = "none"
  BY DEF Init, NoRow
<1>2. \A e \in Events : e[1] \in Proposals
  BY EventPair
<1>3. AcknowledgedWasTaken /\ InOrder
  BY <1>1 DEF Init, AcknowledgedWasTaken, InOrder, Sent
<1>4. Queued
  BY <1>1, <1>2, OutboxAssumption DEF Init, Queued
<1>5. Held
  BY DEF Init, Held, Idle
<1>6. Retried
  BY DEF Init, Retried
<1> QED BY <1>3, <1>4, <1>5, <1>6, InitType DEF OutboxInv

\* What the outbox calls acknowledged was taken by Cloud, for any number of
\* proposals, events and synchronizers, and wherever they die.
THEOREM AcknowledgementsAreTrue == Spec => []AcknowledgedWasTaken
<1>1. OutboxInv /\ [Next]_vars => OutboxInv'
  BY OutboxStep
<1>2. OutboxInv => AcknowledgedWasTaken
  BY DEF OutboxInv
<1> QED BY <1>1, <1>2, OutboxInit, PTL DEF Spec

\* Cloud takes the events of a proposal in their order.
THEOREM EventsInOrder == Spec => []InOrder
<1>1. OutboxInv /\ [Next]_vars => OutboxInv'
  BY OutboxStep
<1>2. OutboxInv => InOrder
  BY DEF OutboxInv
<1> QED BY <1>1, <1>2, OutboxInit, PTL DEF Spec
=============================================================================
