------------------------- MODULE ProposalLedgerProofs -------------------------
(***************************************************************************)
(* Proofs about ProposalLedger, for every number of clients, reviewers and *)
(* proposals and every quorum.                                             *)
(***************************************************************************)
EXTENDS ProposalLedger, FiniteSetTheorems, TLAPS

-----------------------------------------------------------------------------
(***************************************************************************)
(* Types.                                                                  *)
(***************************************************************************)

\* A client that does something does it to a proposal.
Sound == \A c \in Clients : session[c].op # "none" => session[c].p \in Proposals

TypeInv == TypeOK /\ Sound

\* The empty session is a session.
LEMMA SessionType ==
  /\ NoSession \in Session
  /\ NoSession.op = "none"
BY DEF NoSession, Session, Ops, Approvers, States

\* Beginning an operation keeps the types.
LEMMA BeginsType ==
  ASSUME TypeInv, NEW c \in Clients, NEW op \in Ops, NEW p \in Proposals,
         NEW by \in Approvers, Begins(c, op, p, by)
  PROVE  TypeInv'
<1> DEFINE s == [op |-> op, p |-> p, by |-> by, seen |-> state[p], proof |-> 0, day |-> 0]
<1>1. state[p] \in States
  BY DEF TypeInv, TypeOK
<1>2. s \in Session /\ s.p = p
  BY <1>1 DEF Session
<1>3. session' = [session EXCEPT ![c] = s]
  BY DEF Begins
<1> HIDE DEF s
<1>4. session' \in [Clients -> Session]
  BY <1>2, <1>3 DEF TypeInv, TypeOK
<1>5. TypeOK'
  BY <1>4 DEF TypeInv, TypeOK, Begins
<1>6. Sound'
  BY <1>2, <1>3 DEF TypeInv, TypeOK, Sound
<1> QED BY <1>5, <1>6 DEF TypeInv

\* Ending a session leaves sessions, and only those of other clients.
LEMMA EndsType ==
  ASSUME TypeInv, NEW c \in Clients, Ends(c)
  PROVE  /\ session' \in [Clients -> Session]
         /\ Sound'
BY SessionType DEF Ends, TypeInv, TypeOK, Sound

\* Every step keeps the types.
LEMMA TypeStep ==
  ASSUME TypeInv, [Next]_vars
  PROVE  TypeInv'
<1> USE LedgerAssumption DEF TypeInv
<1>1. ASSUME NEW c \in Clients, NEW p \in Proposals, BeginCreate(c, p) PROVE TypeInv'
  BY <1>1, BeginsType DEF BeginCreate, Ops, Approvers
<1>2. ASSUME NEW c \in Clients, NEW p \in Reviewed, Begin(c, p) PROVE TypeInv'
  <2>1. p \in Proposals
    OBVIOUS
  <2>2. ASSUME NEW r \in Reviewers, BeginReview(c, p, r) PROVE TypeInv'
    BY <2>1, <2>2, BeginsType DEF BeginReview, Ops, Approvers
  <2>3. ASSUME NEW r \in Reviewers, BeginReject(c, p, r) PROVE TypeInv'
    BY <2>1, <2>3, BeginsType DEF BeginReject, Ops, Approvers
  <2>4. CASE BeginJob(c, p)
    BY <2>1, <2>4, BeginsType DEF BeginJob, Ops, Approvers
  <2>5. CASE BeginQueueMove(c, p)
    BY <2>1, <2>5, BeginsType DEF BeginQueueMove, Ops, Approvers
  <2> QED BY <1>2, <2>2, <2>3, <2>4, <2>5 DEF Begin
<1>3. ASSUME NEW c \in Clients, Commit(c) PROVE TypeInv'
  <2>1. session[c] \in Session
    BY DEF TypeOK
  <2>2. CASE CommitCreate(c)
    <3>1. session[c].p \in Proposals
      BY <2>2 DEF CommitCreate, Doing, Sound
    <3>2. state' \in [Proposals -> States]
      BY <2>2, <3>1 DEF CommitCreate, TypeOK, States
    <3>3. session' \in [Clients -> Session] /\ Sound'
      <4>1. CASE Ends(c)
        BY <4>1, EndsType
      <4>2. CASE session' = [session EXCEPT ![c].op = "check"]
        BY <2>1, <3>1, <4>2 DEF TypeOK, Session, Ops, Sound
      <4> QED BY <2>2, <4>1, <4>2 DEF CommitCreate
    <3> QED BY <2>2, <3>2, <3>3 DEF CommitCreate, TypeOK
  <2>3. ASSUME NEW result \in ProofResults, CheckFreshness(c, result) PROVE TypeInv'
    <3>1. session[c].p \in Proposals
      BY <2>3 DEF CheckFreshness, Doing, Sound
    <3>2. state' \in [Proposals -> States]
      BY <2>3, <3>1 DEF CheckFreshness, StateAfterProof, TypeOK, States
    <3>3. proofs[session[c].p] \in Seq(ProofResults)
      BY <3>1 DEF TypeOK
    <3>4. proofs' \in [Proposals -> Seq(ProofResults)]
      BY <2>3, <3>1, <3>3 DEF CheckFreshness, TypeOK
    <3>5. session' \in [Clients -> Session] /\ Sound'
      <4>1. CASE Ends(c)
        BY <4>1, EndsType
      <4>2. CASE session' = [session EXCEPT ![c].op = "approve", ![c].day = day,
                                            ![c].proof = Len(proofs[session[c].p]) + 1]
        <5>1. Len(proofs[session[c].p]) + 1 \in Nat
          BY <3>3
        <5> QED BY <2>1, <3>1, <4>2, <5>1 DEF TypeOK, Session, Ops, Sound
      <4> QED BY <2>3, <4>1, <4>2 DEF CheckFreshness
    <3> QED BY <2>3, <3>2, <3>4, <3>5 DEF CheckFreshness, TypeOK
  <2>4. CASE PresentProof(c)
    <3>1. session[c].p \in Proposals
      BY <2>4 DEF PresentProof, Doing, Sound
    <3>2. PICK n \in Nat : session' = [session EXCEPT ![c].op = "approve", ![c].day = day, ![c].proof = n]
      <4>1. proofs[session[c].p] \in Seq(ProofResults)
        BY <3>1 DEF TypeOK
      <4>2. Len(proofs[session[c].p]) \in Nat
        BY <4>1
      <4> QED BY <2>4, <4>2 DEF PresentProof
    <3>3. session' \in [Clients -> Session] /\ Sound'
      BY <2>1, <3>1, <3>2 DEF TypeOK, Session, Ops, Sound
    <3> QED BY <2>4, <3>3 DEF PresentProof, TypeOK
  <2>5. ASSUME NEW p \in Proposals, NEW by \in Approvers, NEW status \in {"approved", "rejected"},
               NEW n \in Nat, NEW d \in Nat, Record(p, by, status, n, d)
        PROVE  decisions' \in [Proposals -> SUBSET Decision]
    BY <2>5 DEF Record, TypeOK, Decision
  <2>6. CASE ApproveProposal(c)
    <3>1. session[c].p \in Proposals
      BY <2>6 DEF ApproveProposal, Doing, Sound
    <3>2. state' \in [Proposals -> States]
      BY <2>6, <3>1 DEF ApproveProposal, TypeOK, States
    <3>3. decisions' \in [Proposals -> SUBSET Decision]
      BY <2>1, <2>5, <2>6, <3>1 DEF ApproveProposal, Session, Approvers
    <3>4. session' \in [Clients -> Session] /\ Sound'
      BY <2>6, EndsType DEF ApproveProposal
    <3> QED BY <2>6, <3>2, <3>3, <3>4 DEF ApproveProposal, TypeOK
  <2>7. CASE ApproveProposalByPolicy(c)
    <3>1. session[c].p \in Proposals
      BY <2>7 DEF ApproveProposalByPolicy, Doing, Sound
    <3>2. state' \in [Proposals -> States]
      BY <2>7, <3>1 DEF ApproveProposalByPolicy, TypeOK, States
    <3>3. PICK d \in session[c].day .. day : Record(session[c].p, Policy, "approved", session[c].proof, d)
      BY <2>7 DEF ApproveProposalByPolicy
    <3>4. d \in Nat /\ session[c].proof \in Nat
      BY <2>1, <3>3 DEF Session, TypeOK
    <3>5. decisions' \in [Proposals -> SUBSET Decision]
      BY <2>5, <3>1, <3>3, <3>4 DEF Approvers
    <3>6. session' \in [Clients -> Session] /\ Sound'
      BY <2>7, EndsType DEF ApproveProposalByPolicy
    <3> QED BY <2>7, <3>2, <3>5, <3>6 DEF ApproveProposalByPolicy, TypeOK
  <2>8. CASE RejectProposal(c)
    <3>1. session[c].p \in Proposals
      BY <2>8 DEF RejectProposal, Doing, Sound
    <3>2. state' \in [Proposals -> States]
      BY <2>8, <3>1 DEF RejectProposal, TypeOK, States
    <3>a. session[c].by \in Approvers /\ session[c].day \in Nat
      BY <2>1 DEF Session
    <3>b. Record(session[c].p, session[c].by, "rejected", 0, session[c].day)
      BY <2>8 DEF RejectProposal
    <3>3. decisions' \in [Proposals -> SUBSET Decision]
      BY <2>5, <3>1, <3>a, <3>b
    <3>4. session' \in [Clients -> Session] /\ Sound'
      BY <2>8, EndsType DEF RejectProposal
    <3> QED BY <2>8, <3>2, <3>3, <3>4 DEF RejectProposal, TypeOK
  <2>9. CASE CreateJob(c)
    <3>1. session[c].p \in Proposals
      BY <2>9 DEF CreateJob, Doing, Sound
    <3>2. state' \in [Proposals -> States] /\ jobs' \subseteq Proposals
      BY <2>9, <3>1 DEF CreateJob, TypeOK, States
    <3>3. session' \in [Clients -> Session] /\ Sound'
      <4>1. PICK op \in {"verify", "execute"} : session' = [session EXCEPT ![c].op = op]
        BY <2>9 DEF CreateJob
      <4>2. [session[c] EXCEPT !.op = op] \in Session
        BY <2>1 DEF Session, Ops
      <4> QED BY <2>1, <3>1, <4>1, <4>2 DEF TypeOK, Sound, Session
    <3> QED BY <2>9, <3>2, <3>3 DEF CreateJob, TypeOK
  <2>10. CASE Verify(c)
    <3>1. session[c].p \in Proposals
      BY <2>10 DEF Verify, Doing, Sound
    <3>2. session' \in [Clients -> Session] /\ Sound'
      BY <2>1, <2>10, <3>1 DEF Verify, TypeOK, Session, Ops, Sound
    <3> QED BY <2>10, <3>2 DEF Verify, TypeOK
  <2>11. ASSUME NEW out \in Receipts, RecordReceipt(c, out) PROVE TypeInv'
    <3>1. session[c].p \in Proposals
      BY <2>11 DEF RecordReceipt, Doing, Sound
    <3>2. state' \in [Proposals -> States]
      BY <2>11, <3>1 DEF RecordReceipt, TypeOK, States, Receipts
    <3>3. session' \in [Clients -> Session] /\ Sound'
      BY <2>11, EndsType DEF RecordReceipt
    <3> QED BY <2>11, <3>2, <3>3 DEF RecordReceipt, TypeOK
  <2>12. CASE CommitQueueMove(c)
    <3>1. session[c].p \in Proposals
      BY <2>12 DEF CommitQueueMove, Sound
    <3>2. state' \in [Proposals -> States]
      BY <2>12, <3>1 DEF CommitQueueMove, TypeOK, States
    <3>3. session' \in [Clients -> Session] /\ Sound'
      BY <2>12, EndsType DEF CommitQueueMove
    <3> QED BY <2>12, <3>2, <3>3 DEF CommitQueueMove, TypeOK
  <2>13. CASE Abandon(c)
    <3>1. session' \in [Clients -> Session] /\ Sound'
      BY <2>13, EndsType DEF Abandon
    <3> QED BY <2>13, <3>1 DEF Abandon, TypeOK
  <2> QED BY <1>3, <2>2, <2>3, <2>4, <2>6, <2>7, <2>8, <2>9, <2>10, <2>11, <2>12, <2>13 DEF Commit
<1>4. ASSUME NEW p \in Proposals, ClaimFailed(p) PROVE TypeInv'
  BY <1>4 DEF ClaimFailed, TypeOK, States, Sound
<1>5. ASSUME NEW p \in Proposals, NEW out \in Receipts, Reconcile(p, out) PROVE TypeInv'
  BY <1>5 DEF Reconcile, TypeOK, States, Receipts, Sound
<1>6. CASE NextDay
  BY <1>6 DEF NextDay, TypeOK, Sound
<1>7. CASE UNCHANGED vars
  BY <1>7 DEF vars, TypeOK, Sound
<1> QED BY <1>1, <1>2, <1>3, <1>4, <1>5, <1>6, <1>7 DEF Next

\* The type invariant of the ledger: states, decisions, proofs and sessions
\* keep to what the store's columns and the clients can hold.
THEOREM LedgerTypeCorrect == Spec => []TypeOK
<1>1. Init => TypeInv
  <2> QED BY SessionType DEF Init, TypeInv, TypeOK, Sound, States
<1>2. TypeInv /\ [Next]_vars => TypeInv'
  BY TypeStep
<1>3. TypeInv => TypeOK
  BY DEF TypeInv
<1> QED BY <1>1, <1>2, <1>3, PTL DEF Spec

-----------------------------------------------------------------------------
(***************************************************************************)
(* What a step may do to the decisions and to the proofs.                  *)
(***************************************************************************)

Decides(c) == ApproveProposal(c) \/ ApproveProposalByPolicy(c) \/ RejectProposal(c)

\* Only the three decision methods write approvals rows.
LEMMA OnlyDecisionsDecide ==
  ASSUME [Next]_vars
  PROVE  UNCHANGED decisions \/ \E c \in Clients : Decides(c)
<1>1. ASSUME NEW c \in Clients, Commit(c) PROVE UNCHANGED decisions \/ Decides(c)
  BY <1>1 DEF Commit, Decides, CommitCreate, CheckFreshness, PresentProof, CreateJob, Verify,
              RecordReceipt, CommitQueueMove, Abandon
<1>2. ASSUME NEW c \in Clients, NEW p, Begin(c, p) PROVE UNCHANGED decisions
  BY <1>2 DEF Begin, BeginReview, BeginReject, BeginJob, BeginQueueMove, Begins
<1>3. ASSUME NEW c \in Clients, NEW p, BeginCreate(c, p) PROVE UNCHANGED decisions
  BY <1>3 DEF BeginCreate, Begins
<1> QED BY <1>1, <1>2, <1>3 DEF Next, vars, ClaimFailed, Reconcile, NextDay

\* Only a freshness check writes proofs.
LEMMA OnlyChecksProve ==
  ASSUME [Next]_vars
  PROVE  UNCHANGED proofs \/ \E c \in Clients, result \in ProofResults : CheckFreshness(c, result)
<1>1. ASSUME NEW c \in Clients, Commit(c)
      PROVE  UNCHANGED proofs \/ \E result \in ProofResults : CheckFreshness(c, result)
  BY <1>1 DEF Commit, CommitCreate, PresentProof, ApproveProposal, ApproveProposalByPolicy,
              RejectProposal, CreateJob, Verify, RecordReceipt, CommitQueueMove, Abandon
<1>2. ASSUME NEW c \in Clients, NEW p, Begin(c, p) PROVE UNCHANGED proofs
  BY <1>2 DEF Begin, BeginReview, BeginReject, BeginJob, BeginQueueMove, Begins
<1>3. ASSUME NEW c \in Clients, NEW p, BeginCreate(c, p) PROVE UNCHANGED proofs
  BY <1>3 DEF BeginCreate, Begins
<1> QED BY <1>1, <1>2, <1>3 DEF Next, vars, ClaimFailed, Reconcile, NextDay

\* A decision adds one row, whose columns are known.
LEMMA DecidesRecords ==
  ASSUME TypeInv, NEW c \in Clients, Decides(c)
  PROVE  /\ session[c].p \in Proposals
         /\ \E row \in Decision :
              /\ decisions' = [decisions EXCEPT ![session[c].p] = @ \cup {row}]
              /\ \/ row.status = "rejected" /\ RejectProposal(c)
                 \/ /\ row.status = "approved"
                    /\ row.by = session[c].by
                    /\ row.proof = session[c].proof
                    /\ ApproveProposal(c) \/ ApproveProposalByPolicy(c)
<1> DEFINE p == session[c].p
           Row(by, status, n, d) == [by |-> by, status |-> status, proof |-> n, day |-> d]
<1>1. session[c] \in Session /\ p \in Proposals
  BY DEF Decides, ApproveProposal, ApproveProposalByPolicy, RejectProposal, Doing, TypeInv, TypeOK, Sound
<1>2. session[c].by \in Approvers /\ session[c].proof \in Nat /\ session[c].day \in Nat
  BY <1>1 DEF Session
<1>3. CASE ApproveProposal(c)
  <2>1. Row(session[c].by, "approved", session[c].proof, session[c].day) \in Decision
    BY <1>2 DEF Decision
  <2>2. decisions' = [decisions EXCEPT ![p] =
                        @ \cup {Row(session[c].by, "approved", session[c].proof, session[c].day)}]
    BY <1>3 DEF ApproveProposal, Record
  <2> QED BY <1>1, <1>3, <2>1, <2>2
<1>4. CASE ApproveProposalByPolicy(c)
  <2>1. PICK d \in session[c].day .. day : Record(p, Policy, "approved", session[c].proof, d)
    BY <1>4 DEF ApproveProposalByPolicy
  <2>2. d \in Nat /\ session[c].by = Policy
    BY <1>2, <1>4 DEF TypeInv, TypeOK, ApproveProposalByPolicy
  <2>3. Row(Policy, "approved", session[c].proof, d) \in Decision
    BY <1>2, <2>2 DEF Decision, Approvers
  <2>4. decisions' = [decisions EXCEPT ![p] = @ \cup {Row(Policy, "approved", session[c].proof, d)}]
    BY <2>1 DEF Record
  <2> QED BY <1>1, <1>4, <2>2, <2>3, <2>4
<1>5. CASE RejectProposal(c)
  <2>1. Row(session[c].by, "rejected", 0, session[c].day) \in Decision
    BY <1>2 DEF Decision
  <2>2. decisions' = [decisions EXCEPT ![p] = @ \cup {Row(session[c].by, "rejected", 0, session[c].day)}]
    BY <1>5 DEF RejectProposal, Record
  <2> QED BY <1>1, <1>5, <2>1, <2>2
<1> QED BY <1>3, <1>4, <1>5 DEF Decides

\* Decisions are never withdrawn.
LEMMA DecisionsGrow ==
  ASSUME TypeInv, [Next]_vars, NEW p \in Proposals
  PROVE  decisions[p] \subseteq decisions'[p]
<1>1. CASE UNCHANGED decisions
  BY <1>1
<1>2. ASSUME NEW c \in Clients, Decides(c) PROVE decisions[p] \subseteq decisions'[p]
  <2>1. PICK row \in Decision : decisions' = [decisions EXCEPT ![session[c].p] = @ \cup {row}]
    BY <1>2, DecidesRecords
  <2> QED BY <2>1 DEF TypeInv, TypeOK
<1> QED BY <1>1, <1>2, OnlyDecisionsDecide

-----------------------------------------------------------------------------
(***************************************************************************)
(* Quorum.                                                                 *)
(***************************************************************************)

Cleared == {p \in Proposals : Authorized(p)}

\* The policy approves only where one approval is enough.
PolicyAlone == \A p \in Proposals : Policy \in ApprovedBy(p) => Required[p] = 1

\* What holds of the clients in the middle of an operation: a job or a
\* requeue rests on a state read when the quorum was there, an execution on
\* a job.
InFlight ==
  \A c \in Clients :
    /\ session[c].op \in {"job", "requeue"} => session[c].p \in Cleared
    /\ session[c].op \in {"verify", "execute"} => session[c].p \in jobs

Released ==
  /\ \A p \in Proposals : state[p] \in ReleasedStates => p \in Cleared
  /\ jobs \subseteq Cleared

QInv == TypeInv /\ PolicyAlone /\ InFlight /\ Released

\* What is authorized stays authorized.
LEMMA ClearedGrows ==
  ASSUME TypeInv, [Next]_vars
  PROVE  Cleared \subseteq Cleared'
<1> SUFFICES ASSUME NEW p \in Proposals, Authorized(p) PROVE Authorized(p)'
  BY DEF Cleared
<1>1. ApprovedBy(p) \subseteq ApprovedBy(p)'
  BY DecisionsGrow DEF ApprovedBy
<1> DEFINE S == ApprovedBy(p) \cap Reviewers
           T == ApprovedBy(p)' \cap Reviewers
<1>2. IsFiniteSet(T) /\ S \in SUBSET T
  BY <1>1, LedgerAssumption, FS_Subset
<1>3. IsFiniteSet(S) /\ Cardinality(S) <= Cardinality(T)
  BY <1>2, FS_Subset
<1>4. Cardinality(S) \in Nat /\ Cardinality(T) \in Nat /\ Required[p] \in Nat
  BY <1>2, <1>3, FS_CardinalityType, LedgerAssumption
<1>5. CASE Cardinality(S) >= Required[p]
  <2>1. Cardinality(T) >= Required[p]
    BY <1>3, <1>4, <1>5
  <2> QED BY <2>1 DEF Authorized
<1>6. CASE Required[p] = 1 /\ Policy \in ApprovedBy(p)
  BY <1>1, <1>6 DEF Authorized
<1> QED BY <1>5, <1>6 DEF Authorized

\* How a recorded approval changes the set of approvers.
LEMMA ApproversAfter ==
  ASSUME TypeInv, NEW q \in Proposals, NEW row \in Decision,
         decisions' = [decisions EXCEPT ![q] = @ \cup {row}]
  PROVE  /\ \A p \in Proposals : p # q => ApprovedBy(p)' = ApprovedBy(p)
         /\ row.status = "rejected" => ApprovedBy(q)' = ApprovedBy(q)
         /\ row.status = "approved" => ApprovedBy(q)' = ApprovedBy(q) \cup {row.by}
<1>1. decisions'[q] = decisions[q] \cup {row}
  BY DEF TypeInv, TypeOK
<1>2. \A p \in Proposals : p # q => decisions'[p] = decisions[p]
  BY DEF TypeInv, TypeOK
<1> QED BY <1>1, <1>2 DEF ApprovedBy

\* The policy's restraint is kept.
LEMMA PolicyAloneStep ==
  ASSUME TypeInv, PolicyAlone, [Next]_vars
  PROVE  PolicyAlone'
<1>1. CASE UNCHANGED decisions
  BY <1>1 DEF PolicyAlone, ApprovedBy
<1>2. ASSUME NEW c \in Clients, Decides(c) PROVE PolicyAlone'
  <2>1. PICK q \in Proposals : q = session[c].p
    BY <1>2, DecidesRecords
  <2>2. PICK row \in Decision :
              /\ decisions' = [decisions EXCEPT ![q] = @ \cup {row}]
              /\ \/ row.status = "rejected" /\ RejectProposal(c)
                 \/ /\ row.status = "approved"
                    /\ row.by = session[c].by
                    /\ ApproveProposal(c) \/ ApproveProposalByPolicy(c)
    BY <1>2, <2>1, DecidesRecords
  <2>3. /\ \A p \in Proposals : p # q => ApprovedBy(p)' = ApprovedBy(p)
        /\ row.status = "rejected" => ApprovedBy(q)' = ApprovedBy(q)
        /\ row.status = "approved" => ApprovedBy(q)' = ApprovedBy(q) \cup {row.by}
    BY <2>2, ApproversAfter
  <2>4. row.by = Policy /\ row.status = "approved" => Required[q] = 1
    BY <2>1, <2>2, LedgerAssumption DEF ApproveProposal, ApproveProposalByPolicy, QuorumDeferred
  <2> QED BY <2>2, <2>3, <2>4 DEF PolicyAlone
<1> QED BY <1>1, <1>2, OnlyDecisionsDecide

\* An approval that completes the quorum clears the proposal.
LEMMA ApprovalClears ==
  ASSUME QInv, NEW c \in Clients, NEW q \in Proposals, q = session[c].p,
         \/ ApproveProposal(c) /\ Cardinality(ApprovedBy(q) \cup {session[c].by}) >= Required[q]
         \/ ApproveProposalByPolicy(c)
  PROVE  q \in Cleared'
<1>1. PICK row \in Decision :
            /\ decisions' = [decisions EXCEPT ![q] = @ \cup {row}]
            /\ row.status = "approved"
            /\ row.by = session[c].by
  <2>1. ~RejectProposal(c)
    BY DEF ApproveProposal, ApproveProposalByPolicy, RejectProposal, Doing
  <2>2. Decides(c)
    BY DEF Decides
  <2> QED BY <2>1, <2>2, DecidesRecords DEF QInv
<1>2. ApprovedBy(q)' = ApprovedBy(q) \cup {session[c].by}
  BY <1>1, ApproversAfter DEF QInv
<1>3. Required[q] \in Nat \ {0}
  BY LedgerAssumption
<1>4. CASE ApproveProposalByPolicy(c)
  <2>1. Required[q] = 1 /\ session[c].by = Policy
    BY <1>3, <1>4 DEF ApproveProposalByPolicy, QuorumDeferred
  <2> QED BY <1>2, <2>1 DEF Cleared, Authorized
<1>5. CASE ApproveProposal(c) /\ Cardinality(ApprovedBy(q) \cup {session[c].by}) >= Required[q]
  <2>1. CASE Policy \in ApprovedBy(q)
    <3>1. Required[q] = 1
      BY <2>1 DEF QInv, PolicyAlone
    <3> QED BY <1>2, <2>1, <3>1 DEF Cleared, Authorized
  <2>2. CASE Policy \notin ApprovedBy(q)
    <3>1. decisions[q] \subseteq Decision
      BY DEF QInv, TypeInv, TypeOK
    <3>2. \A e \in decisions[q] : e.by \in Reviewers \cup {Policy}
      BY <3>1 DEF Decision, Approvers
    <3>3. ApprovedBy(q) \subseteq Reviewers
      BY <2>2, <3>2 DEF ApprovedBy
    <3>4. session[c].by \in Reviewers
      BY <1>5 DEF ApproveProposal
    <3>5. ApprovedBy(q)' \cap Reviewers = ApprovedBy(q) \cup {session[c].by}
      BY <1>2, <3>3, <3>4
    <3>6. Cardinality(ApprovedBy(q)' \cap Reviewers) >= Required[q]
      BY <1>5, <3>5
    <3> QED BY <3>6 DEF Cleared, Authorized
  <2> QED BY <2>1, <2>2
<1> QED BY <1>4, <1>5

\* Beginning an operation keeps the invariant: what a job or a requeue reads
\* is a released state.
LEMMA BeginsKeepsQuorum ==
  ASSUME QInv, Cleared \subseteq Cleared', NEW c \in Clients, NEW op \in Ops, NEW p \in Proposals,
         NEW by, Begins(c, op, p, by),
         op \notin {"verify", "execute"},
         op \in {"job", "requeue"} => state[p] \in ReleasedStates
  PROVE  InFlight' /\ Released'
<1> DEFINE s == [op |-> op, p |-> p, by |-> by, seen |-> state[p], proof |-> 0, day |-> 0]
<1>1. s.op = op /\ s.p = p
  OBVIOUS
<1>2. session' = [session EXCEPT ![c] = s]
  BY DEF Begins
<1> HIDE DEF s
<1>3. InFlight'
  BY <1>1, <1>2 DEF QInv, InFlight, Released, Begins, TypeInv, TypeOK
<1>4. Released'
  BY DEF QInv, Released, Begins
<1> QED BY <1>3, <1>4

\* A step that ends c's session, or moves it to an operation that needs no
\* clearance, keeps InFlight if jobs only grow.
LEMMA InFlightFrame ==
  ASSUME QInv, TypeInv', Cleared \subseteq Cleared', jobs \subseteq jobs', NEW c \in Clients,
         \A x \in Clients \ {c} : session'[x] = session[x],
         session'[c].op \in {"none", "check", "approve"}
  PROVE  InFlight'
<1> QED BY DEF QInv, InFlight, TypeInv, TypeOK

\* The frame of Ends.
LEMMA EndsFrame ==
  ASSUME TypeInv, NEW c \in Clients, Ends(c)
  PROVE  /\ \A x \in Clients \ {c} : session'[x] = session[x]
         /\ session'[c].op = "none"
BY SessionType DEF Ends, TypeInv, TypeOK

\* Every step keeps the quorum invariant.
LEMMA QuorumStep ==
  ASSUME QInv, [Next]_vars
  PROVE  QInv'
<1>a. TypeInv' /\ PolicyAlone' /\ Cleared \subseteq Cleared'
  BY TypeStep, PolicyAloneStep, ClearedGrows DEF QInv
<1>1. ASSUME NEW c \in Clients, NEW p \in Proposals, BeginCreate(c, p) PROVE InFlight' /\ Released'
  BY <1>1, <1>a, BeginsKeepsQuorum DEF BeginCreate, Ops
<1>2. ASSUME NEW c \in Clients, NEW p \in Reviewed, Begin(c, p) PROVE InFlight' /\ Released'
  <2>1. p \in Proposals
    BY LedgerAssumption
  <2>2. ASSUME NEW r \in Reviewers, BeginReview(c, p, r) PROVE InFlight' /\ Released'
    BY <1>a, <2>1, <2>2, BeginsKeepsQuorum DEF BeginReview, Ops
  <2>3. ASSUME NEW r \in Reviewers, BeginReject(c, p, r) PROVE InFlight' /\ Released'
    BY <1>a, <2>1, <2>3, BeginsKeepsQuorum DEF BeginReject, Ops
  <2>4. CASE BeginJob(c, p)
    BY <1>a, <2>1, <2>4, BeginsKeepsQuorum DEF BeginJob, Ops, ReleasedStates
  <2>5. CASE BeginQueueMove(c, p)
    BY <1>a, <2>1, <2>5, BeginsKeepsQuorum DEF BeginQueueMove, Ops, ReleasedStates
  <2> QED BY <1>2, <2>2, <2>3, <2>4, <2>5 DEF Begin
<1>3. ASSUME NEW c \in Clients, Commit(c) PROVE InFlight' /\ Released'
  <2> DEFINE p == session[c].p
  <2>1. session[c] \in Session /\ (p \in Proposals \/ session[c].op = "none")
    BY DEF QInv, TypeInv, TypeOK, Sound
  <2>2. CASE CommitCreate(c)
    <3>1. /\ \A x \in Clients \ {c} : session'[x] = session[x]
          /\ session'[c].op \in {"none", "check"}
      BY <2>1, <2>2, EndsFrame DEF QInv, CommitCreate, TypeInv, TypeOK, Session
    <3>2. InFlight'
      BY <1>a, <2>2, <3>1, InFlightFrame DEF CommitCreate
    <3>3. Released'
      BY <1>a, <2>1, <2>2 DEF QInv, Released, CommitCreate, Doing, TypeInv, TypeOK, ReleasedStates
    <3> QED BY <3>2, <3>3
  <2>3. ASSUME NEW result \in ProofResults, CheckFreshness(c, result) PROVE InFlight' /\ Released'
    <3>1. /\ \A x \in Clients \ {c} : session'[x] = session[x]
          /\ session'[c].op \in {"none", "approve"}
      BY <2>1, <2>3, EndsFrame DEF QInv, CheckFreshness, TypeInv, TypeOK, Session
    <3>2. InFlight'
      BY <1>a, <2>3, <3>1, InFlightFrame DEF CheckFreshness
    <3>3. Released'
      BY <1>a, <2>1, <2>3
      DEF QInv, Released, CheckFreshness, StateAfterProof, Doing, TypeInv, TypeOK, ReleasedStates
    <3> QED BY <3>2, <3>3
  <2>4. CASE PresentProof(c)
    <3>1. /\ \A x \in Clients \ {c} : session'[x] = session[x]
          /\ session'[c].op = "approve"
      BY <2>1, <2>4 DEF QInv, PresentProof, TypeInv, TypeOK, Session
    <3>2. InFlight'
      BY <1>a, <2>4, <3>1, InFlightFrame DEF PresentProof
    <3>3. Released'
      BY <1>a, <2>4 DEF QInv, Released, PresentProof
    <3> QED BY <3>2, <3>3
  <2>5. CASE ApproveProposal(c)
    <3>1. PICK q \in Proposals : q = p
      BY <2>1, <2>5 DEF ApproveProposal, Doing
    <3>2. InFlight'
      BY <1>a, <2>5, EndsFrame, InFlightFrame DEF QInv, ApproveProposal
    <3>3. CASE Cardinality(ApprovedBy(q) \cup {session[c].by}) >= Required[q]
      <4>1. q \in Cleared'
        BY <2>5, <3>1, <3>3, ApprovalClears
      <4> QED BY <1>a, <2>5, <3>1, <3>2, <4>1 DEF QInv, Released, ApproveProposal, TypeInv, TypeOK
    <3>4. CASE ~(Cardinality(ApprovedBy(q) \cup {session[c].by}) >= Required[q])
      <4>1. state' = [state EXCEPT ![q] = state[q]]
        BY <2>5, <3>1, <3>4 DEF ApproveProposal
      <4> QED BY <1>a, <2>5, <3>2, <4>1 DEF QInv, Released, ApproveProposal, TypeInv, TypeOK
    <3> QED BY <3>3, <3>4
  <2>6. CASE ApproveProposalByPolicy(c)
    <3>1. PICK q \in Proposals : q = p
      BY <2>1, <2>6 DEF ApproveProposalByPolicy, Doing
    <3>2. q \in Cleared'
      BY <2>6, <3>1, ApprovalClears
    <3>3. InFlight'
      BY <1>a, <2>6, EndsFrame, InFlightFrame DEF QInv, ApproveProposalByPolicy
    <3> QED BY <1>a, <2>6, <3>1, <3>2, <3>3 DEF QInv, Released, ApproveProposalByPolicy, TypeInv, TypeOK
  <2>7. CASE RejectProposal(c)
    <3>1. InFlight'
      BY <1>a, <2>7, EndsFrame, InFlightFrame DEF QInv, RejectProposal
    <3>2. Released'
      BY <1>a, <2>1, <2>7 DEF QInv, Released, RejectProposal, Doing, TypeInv, TypeOK, ReleasedStates
    <3> QED BY <3>1, <3>2
  <2>8. CASE CreateJob(c)
    <3>1. p \in Cleared /\ p \in Proposals
      BY <2>1, <2>8 DEF QInv, InFlight, CreateJob, Doing
    <3>2. PICK op \in {"verify", "execute"} : session' = [session EXCEPT ![c].op = op]
      BY <2>8 DEF CreateJob
    <3>3. session'[c].op = op /\ session'[c].p = p /\ \A x \in Clients \ {c} : session'[x] = session[x]
      BY <2>1, <3>2 DEF QInv, TypeInv, TypeOK, Session
    <3>4. p \in jobs' /\ jobs \subseteq jobs'
      BY <2>8 DEF CreateJob
    <3>5. InFlight'
      BY <1>a, <3>2, <3>3, <3>4 DEF QInv, InFlight
    <3>6. Released'
      BY <1>a, <2>8, <3>1 DEF QInv, Released, CreateJob, TypeInv, TypeOK
    <3> QED BY <3>5, <3>6
  <2>9. CASE Verify(c)
    <3>1. p \in jobs
      BY <2>9 DEF QInv, InFlight, Verify, Doing
    <3>2. session'[c].op = "execute" /\ session'[c].p = p /\ \A x \in Clients \ {c} : session'[x] = session[x]
      BY <2>1, <2>9 DEF QInv, Verify, TypeInv, TypeOK, Session
    <3>3. InFlight'
      BY <1>a, <2>9, <3>1, <3>2 DEF QInv, InFlight, Verify
    <3>4. Released'
      BY <1>a, <2>9 DEF QInv, Released, Verify
    <3> QED BY <3>3, <3>4
  <2>10. ASSUME NEW out \in Receipts, RecordReceipt(c, out) PROVE InFlight' /\ Released'
    <3>1. p \in jobs
      BY <2>10 DEF QInv, InFlight, RecordReceipt, Doing
    <3>2. InFlight'
      BY <1>a, <2>10, EndsFrame, InFlightFrame DEF QInv, RecordReceipt
    <3>3. Released'
      BY <1>a, <2>10, <3>1 DEF QInv, Released, RecordReceipt, TypeInv, TypeOK
    <3> QED BY <3>2, <3>3
  <2>11. CASE CommitQueueMove(c)
    <3>1. InFlight'
      BY <1>a, <2>11, EndsFrame, InFlightFrame DEF QInv, CommitQueueMove
    <3>2. Doing(c, "cancel") \/ p \in Cleared
      BY <2>11 DEF QInv, InFlight, CommitQueueMove, Doing
    <3>3. Released'
      BY <1>a, <2>1, <2>11, <3>2 DEF QInv, Released, CommitQueueMove, Doing, TypeInv, TypeOK, ReleasedStates
    <3> QED BY <3>1, <3>3
  <2>12. CASE Abandon(c)
    <3>1. InFlight'
      BY <1>a, <2>12, EndsFrame, InFlightFrame DEF QInv, Abandon
    <3> QED BY <1>a, <2>12, <3>1 DEF QInv, Released, Abandon
  <2> QED BY <1>3, <2>2, <2>3, <2>4, <2>5, <2>6, <2>7, <2>8, <2>9, <2>10, <2>11, <2>12 DEF Commit
<1>4. ASSUME NEW p \in Proposals, ClaimFailed(p) PROVE InFlight' /\ Released'
  BY <1>a, <1>4 DEF QInv, ClaimFailed, InFlight, Released, TypeInv, TypeOK, ReleasedStates
<1>5. ASSUME NEW p \in Proposals, NEW out \in Receipts, Reconcile(p, out) PROVE InFlight' /\ Released'
  BY <1>a, <1>5 DEF QInv, Reconcile, InFlight, Released, TypeInv, TypeOK
<1>6. CASE NextDay
  BY <1>a, <1>6 DEF QInv, NextDay, InFlight, Released
<1>7. CASE UNCHANGED vars
  BY <1>a, <1>7 DEF QInv, vars, InFlight, Released
<1> QED BY <1>a, <1>1, <1>2, <1>3, <1>4, <1>5, <1>6, <1>7 DEF Next, QInv

\* No proposal reaches a state in which it may be executed, and no execution
\* is prepared, before the required number of distinct reviewers approved it
\* or the policy did where one approval suffices, for every quorum and any
\* number of concurrent clients working from stale reads.
THEOREM QuorumHolds == Spec => []QuorumBeforeExecution
<1>1. Init => QInv
  <2>1. Init => TypeInv
    BY SessionType DEF Init, TypeInv, TypeOK, Sound, States
  <2>2. Init => PolicyAlone
    BY DEF Init, PolicyAlone, ApprovedBy
  <2>3. Init => InFlight
    BY SessionType DEF Init, InFlight
  <2>4. Init => Released
    BY DEF Init, Released, ReleasedStates
  <2> QED BY <2>1, <2>2, <2>3, <2>4 DEF QInv
<1>2. QInv /\ [Next]_vars => QInv'
  BY QuorumStep
<1>3. QInv => QuorumBeforeExecution
  BY DEF QInv, Released, Cleared, QuorumBeforeExecution
<1> QED BY <1>1, <1>2, <1>3, PTL DEF Spec

-----------------------------------------------------------------------------
(***************************************************************************)
(* Freshness proofs.                                                       *)
(***************************************************************************)

\* Recorded proofs are never changed.
LEMMA ProofsGrow ==
  ASSUME TypeInv, [Next]_vars, NEW p \in Proposals, NEW i \in DOMAIN proofs[p]
  PROVE  i \in DOMAIN proofs'[p] /\ proofs'[p][i] = proofs[p][i]
<1>1. CASE UNCHANGED proofs
  BY <1>1
<1>2. ASSUME NEW c \in Clients, NEW result \in ProofResults, CheckFreshness(c, result)
      PROVE  i \in DOMAIN proofs'[p] /\ proofs'[p][i] = proofs[p][i]
  <2>1. proofs[p] \in Seq(ProofResults)
    BY DEF TypeInv, TypeOK
  <2>2. proofs'[p] = proofs[p] \/ proofs'[p] = Append(proofs[p], result)
    BY <1>2 DEF CheckFreshness, TypeInv, TypeOK
  <2> QED BY <2>1, <2>2
<1> QED BY <1>1, <1>2, OnlyChecksProve

\* An approval at n is an approval under the latest proof, fresh and unused.
LEMMA ApprovalNeedsProof ==
  ASSUME TypeInv, Freshness, NEW p \in Proposals, NEW n, AssertApprovalFreshness(p, n)
  PROVE  /\ n \in DOMAIN proofs[p] /\ proofs[p][n] = "fresh"
         /\ \A d \in decisions[p] : d.status = "approved" => d.proof # n
<1>1. proofs[p] \in Seq(ProofResults)
  BY DEF TypeInv, TypeOK
<1>2. n = Len(proofs[p]) /\ proofs[p] # << >> /\ proofs[p][Len(proofs[p])] = "fresh"
  BY DEF AssertApprovalFreshness, LatestProofIsFresh
<1>3. Len(proofs[p]) \in DOMAIN proofs[p]
  BY <1>1, <1>2
<1> QED BY <1>2, <1>3 DEF AssertApprovalFreshness, ProofUsed

\* Every step keeps the approvals and their proofs in step.
LEMMA ProofStep ==
  ASSUME TypeInv, ProofAuthorizesOnce, [Next]_vars
  PROVE  ProofAuthorizesOnce'
<1> SUFFICES ASSUME Freshness, NEW p \in Proposals,
                    NEW d \in decisions'[p], NEW e \in decisions'[p],
                    d.status = "approved", e.status = "approved"
             PROVE  /\ d.proof \in DOMAIN proofs'[p] /\ proofs'[p][d.proof] = "fresh"
                    /\ d.proof = e.proof => d = e
  BY DEF ProofAuthorizesOnce
<1>1. ASSUME NEW f \in decisions[p], f.status = "approved"
      PROVE  f.proof \in DOMAIN proofs'[p] /\ proofs'[p][f.proof] = "fresh"
  <2>1. f.proof \in DOMAIN proofs[p] /\ proofs[p][f.proof] = "fresh"
    BY <1>1 DEF ProofAuthorizesOnce
  <2> QED BY <2>1, ProofsGrow
<1>2. CASE UNCHANGED decisions
  BY <1>1, <1>2 DEF ProofAuthorizesOnce
<1>3. ASSUME NEW c \in Clients, Decides(c)
      PROVE  /\ d.proof \in DOMAIN proofs'[p] /\ proofs'[p][d.proof] = "fresh"
             /\ d.proof = e.proof => d = e
  <2>1. PICK q \in Proposals : q = session[c].p
    BY <1>3, DecidesRecords
  <2>2. PICK row \in Decision :
              /\ decisions' = [decisions EXCEPT ![q] = @ \cup {row}]
              /\ \/ row.status = "rejected"
                 \/ /\ row.status = "approved"
                    /\ row.proof = session[c].proof
                    /\ ApproveProposal(c) \/ ApproveProposalByPolicy(c)
    BY <1>3, <2>1, DecidesRecords
  <2>3. decisions'[p] = decisions[p] \cup {row} \/ decisions'[p] = decisions[p]
    BY <2>2 DEF TypeInv, TypeOK
  <2>4. CASE row.status = "rejected" \/ p # q
    <3>1. d \in decisions[p] /\ e \in decisions[p]
      BY <2>2, <2>3, <2>4 DEF TypeInv, TypeOK
    <3> QED BY <1>1, <3>1 DEF ProofAuthorizesOnce
  <2>5. CASE row.status = "approved" /\ p = q
    <3>1. AssertApprovalFreshness(p, row.proof)
      BY <2>1, <2>2, <2>5 DEF ApproveProposal, ApproveProposalByPolicy
    <3>2. /\ row.proof \in DOMAIN proofs[p] /\ proofs[p][row.proof] = "fresh"
          /\ \A f \in decisions[p] : f.status = "approved" => f.proof # row.proof
      BY <3>1, ApprovalNeedsProof
    <3>3. row.proof \in DOMAIN proofs'[p] /\ proofs'[p][row.proof] = "fresh"
      BY <3>2, ProofsGrow
    <3>4. d.proof \in DOMAIN proofs'[p] /\ proofs'[p][d.proof] = "fresh"
      BY <1>1, <2>3, <3>3
    <3>5. d.proof = e.proof => d = e
      BY <2>3, <3>2 DEF ProofAuthorizesOnce
    <3> QED BY <3>4, <3>5
  <2> QED BY <2>2, <2>4, <2>5
<1> QED BY <1>2, <1>3, OnlyDecisionsDecide

\* Every approval, human or policy, rests on a recorded proof that found the
\* source fresh, and no proof carries two approvals, for any number of
\* reviewers and proofs.
THEOREM ProofsAuthorizeOnce == Spec => []ProofAuthorizesOnce
<1>1. Init => TypeInv /\ ProofAuthorizesOnce
  BY SessionType DEF Init, TypeInv, TypeOK, Sound, States, ProofAuthorizesOnce
<1>2. TypeInv /\ ProofAuthorizesOnce /\ [Next]_vars => (TypeInv /\ ProofAuthorizesOnce)'
  BY TypeStep, ProofStep
<1> QED BY <1>1, <1>2, PTL DEF Spec

-----------------------------------------------------------------------------
(***************************************************************************)
(* Rejections and stale proofs.                                            *)
(***************************************************************************)

\* What a client works on, except to create it, exists.
Present ==
  \A c \in Clients, p \in Proposals :
    session[c].p = p /\ session[c].op \notin {"none", "create"} => state[p] # "absent"

\* A stopped proposal is out of review.
Halted == \A p \in Proposals : Stopped(p) => state[p] \notin {"absent", "pending_review"}

StopInv == TypeInv /\ Present /\ Halted

\* No step brings a proposal back into review or removes it.
LEMMA StateMoves ==
  ASSUME TypeInv, [Next]_vars, NEW p \in Proposals
  PROVE  /\ state[p] # "absent" => state'[p] # "absent"
         /\ state[p] \notin {"absent", "pending_review"} => state'[p] \notin {"absent", "pending_review"}
<1> DEFINE G == /\ state[p] # "absent" => state'[p] # "absent"
                /\ state[p] \notin {"absent", "pending_review"}
                     => state'[p] \notin {"absent", "pending_review"}
<1>1. CASE UNCHANGED state
  BY <1>1
<1>2. ASSUME NEW c \in Clients, Commit(c) PROVE UNCHANGED state \/ G
  <2>1. ASSUME NEW result \in ProofResults, CheckFreshness(c, result) PROVE G
    BY <2>1 DEF CheckFreshness, StateAfterProof, TypeInv, TypeOK
  <2>2. ASSUME NEW out \in Receipts, RecordReceipt(c, out) PROVE G
    BY <2>2 DEF RecordReceipt, Receipts, TypeInv, TypeOK
  <2>3. CASE ApproveProposal(c)
    BY <2>3 DEF ApproveProposal, TypeInv, TypeOK
  <2>4. CASE CommitCreate(c) \/ CreateJob(c) \/ CommitQueueMove(c) \/ RejectProposal(c)
    BY <2>4 DEF CommitCreate, CreateJob, CommitQueueMove, RejectProposal, TypeInv, TypeOK
  <2>5. CASE ApproveProposalByPolicy(c)
    BY <2>5 DEF ApproveProposalByPolicy, TypeInv, TypeOK
  <2>6. CASE PresentProof(c) \/ Verify(c) \/ Abandon(c)
    BY <2>6 DEF PresentProof, Verify, Abandon
  <2> HIDE DEF G
  <2> QED BY <1>2, <2>1, <2>2, <2>3, <2>4, <2>5, <2>6 DEF Commit
<1>3. ASSUME NEW c \in Clients, NEW q, Begin(c, q) PROVE UNCHANGED state
  BY <1>3 DEF Begin, BeginReview, BeginReject, BeginJob, BeginQueueMove, Begins
<1>4. ASSUME NEW c \in Clients, NEW q, BeginCreate(c, q) PROVE UNCHANGED state
  BY <1>4 DEF BeginCreate, Begins
<1>5. ASSUME NEW q \in Proposals, ClaimFailed(q) PROVE G
  BY <1>5 DEF ClaimFailed, TypeInv, TypeOK
<1>6. ASSUME NEW q \in Proposals, NEW out \in Receipts, Reconcile(q, out) PROVE G
  BY <1>6 DEF Reconcile, Receipts, TypeInv, TypeOK
<1>7. CASE NextDay \/ UNCHANGED vars
  BY <1>7 DEF NextDay, vars
<1> HIDE DEF G
<1>8. UNCHANGED state \/ G
  BY <1>2, <1>3, <1>4, <1>5, <1>6, <1>7 DEF Next, NextDay, vars
<1> QED BY <1>1, <1>8 DEF G

\* A client that is not creating got its proposal from a state that existed.
LEMMA PresentStep ==
  ASSUME TypeInv, Present, [Next]_vars
  PROVE  Present'
<1> SUFFICES ASSUME NEW x \in Clients, NEW p \in Proposals,
                    session'[x].p = p, session'[x].op \notin {"none", "create"}
             PROVE  state'[p] # "absent"
  BY DEF Present
<1>a. state[p] # "absent" => state'[p] # "absent"
  BY StateMoves
<1>b. CASE session'[x].p = session[x].p /\ session[x].op \notin {"none", "create"}
  BY <1>a, <1>b DEF Present
<1>1. ASSUME NEW c \in Clients, NEW op, NEW q \in Proposals, NEW by, Begins(c, op, q, by),
             op = "create" \/ state[q] # "absent"
      PROVE  state'[p] # "absent"
  <2> DEFINE s == [op |-> op, p |-> q, by |-> by, seen |-> state[q], proof |-> 0, day |-> 0]
  <2>1. s.op = op /\ s.p = q
    OBVIOUS
  <2>2. session' = [session EXCEPT ![c] = s]
    BY <1>1 DEF Begins
  <2> HIDE DEF s
  <2> QED BY <1>1, <1>a, <1>b, <2>1, <2>2 DEF TypeInv, TypeOK
<1>2. ASSUME NEW c \in Clients, Ends(c) PROVE state'[p] # "absent"
  BY <1>2, <1>b, EndsFrame
<1>3. ASSUME NEW c \in Clients, Commit(c) PROVE state'[p] # "absent"
  <2>1. session[c] \in Session
    BY DEF TypeInv, TypeOK
  <2>2. CASE CommitCreate(c)
    <3>1. CASE Ends(c)
      BY <1>2, <3>1
    <3>2. CASE session' = [session EXCEPT ![c].op = "check"]
      BY <1>b, <2>1, <2>2, <3>2 DEF CommitCreate, TypeInv, TypeOK, Session
    <3> QED BY <2>2, <3>1, <3>2 DEF CommitCreate
  <2>3. ASSUME NEW result \in ProofResults, CheckFreshness(c, result) PROVE state'[p] # "absent"
    <3>1. CASE Ends(c)
      BY <1>2, <3>1
    <3>2. CASE session' = [session EXCEPT ![c].op = "approve", ![c].day = day,
                                          ![c].proof = Len(proofs[session[c].p]) + 1]
      BY <1>b, <2>1, <2>3, <3>2 DEF CheckFreshness, Doing, TypeInv, TypeOK, Session
    <3> QED BY <2>3, <3>1, <3>2 DEF CheckFreshness
  <2>4. CASE PresentProof(c)
    BY <1>b, <2>1, <2>4 DEF PresentProof, Doing, TypeInv, TypeOK, Session
  <2>5. CASE CreateJob(c)
    <3>1. PICK op \in {"verify", "execute"} : session' = [session EXCEPT ![c].op = op]
      BY <2>5 DEF CreateJob
    <3> QED BY <1>b, <2>1, <2>5, <3>1 DEF CreateJob, Doing, TypeInv, TypeOK, Session
  <2>6. CASE Verify(c)
    BY <1>b, <2>1, <2>6 DEF Verify, Doing, TypeInv, TypeOK, Session
  <2>7. CASE Ends(c)
    BY <1>2, <2>7
  <2> QED BY <1>3, <2>2, <2>3, <2>4, <2>5, <2>6, <2>7
          DEF Commit, ApproveProposal, ApproveProposalByPolicy, RejectProposal, RecordReceipt,
              CommitQueueMove, Abandon
<1>4. ASSUME NEW c \in Clients, NEW q \in Proposals, BeginCreate(c, q) PROVE state'[p] # "absent"
  BY <1>1, <1>4 DEF BeginCreate
<1>5. ASSUME NEW c \in Clients, NEW q \in Reviewed, Begin(c, q) PROVE state'[p] # "absent"
  <2>1. q \in Proposals
    BY LedgerAssumption
  <2>2. \E op, by : Begins(c, op, q, by) /\ state[q] # "absent"
    BY <1>5 DEF Begin, BeginReview, BeginReject, BeginJob, BeginQueueMove
  <2> QED BY <1>1, <2>1, <2>2
<1>6. CASE UNCHANGED session
  BY <1>b, <1>6
<1> QED BY <1>3, <1>4, <1>5, <1>6 DEF Next, ClaimFailed, Reconcile, NextDay, vars

\* What stops a proposal takes it out of review, for good.
LEMMA HaltedStep ==
  ASSUME StopInv, [Next]_vars
  PROVE  Halted'
<1> SUFFICES ASSUME NEW p \in Proposals, Stopped(p)'
             PROVE  state'[p] \notin {"absent", "pending_review"}
  BY DEF Halted
<1>1. CASE Stopped(p)
  BY <1>1, StateMoves DEF StopInv, Halted
<1>2. ASSUME ~Stopped(p), NEW d \in decisions'[p], d.status = "rejected"
      PROVE  state'[p] \notin {"absent", "pending_review"}
  <2>1. d \notin decisions[p]
    BY <1>2 DEF Stopped
  <2>2. PICK c \in Clients : Decides(c)
    BY <2>1, OnlyDecisionsDecide
  <2>3. PICK q \in Proposals : q = session[c].p
    BY <2>2, DecidesRecords DEF StopInv
  <2>4. PICK row \in Decision :
              /\ decisions' = [decisions EXCEPT ![q] = @ \cup {row}]
              /\ \/ row.status = "rejected" /\ RejectProposal(c)
                 \/ row.status = "approved"
    BY <2>2, <2>3, DecidesRecords DEF StopInv
  <2>5. p = q /\ d = row
    BY <2>1, <2>4 DEF StopInv, TypeInv, TypeOK
  <2>6. RejectProposal(c)
    BY <1>2, <2>4, <2>5
  <2> QED BY <2>3, <2>5, <2>6 DEF RejectProposal, StopInv, TypeInv, TypeOK
<1>3. ASSUME ~Stopped(p), NEW i \in DOMAIN proofs'[p], proofs'[p][i] = "stale"
      PROVE  state'[p] \notin {"absent", "pending_review"}
  <2>1. proofs'[p] # proofs[p]
    BY <1>3 DEF Stopped
  <2>2. PICK c \in Clients, result \in ProofResults : CheckFreshness(c, result)
    BY <2>1, OnlyChecksProve
  <2>3. p = session[c].p /\ proofs'[p] = Append(proofs[p], result)
    BY <2>1, <2>2 DEF CheckFreshness, StopInv, TypeInv, TypeOK
  <2>4. proofs[p] \in Seq(ProofResults)
    BY DEF StopInv, TypeInv, TypeOK
  <2>5. result = "stale"
    <3>1. CASE i \in DOMAIN proofs[p]
      BY <1>3, <2>3, <2>4, <3>1 DEF Stopped
    <3>2. CASE i \notin DOMAIN proofs[p]
      BY <1>3, <2>3, <2>4, <3>2
    <3> QED BY <3>1, <3>2
  <2>6. state[p] # "absent"
    BY <2>2, <2>3 DEF CheckFreshness, Doing, StopInv, Present
  <2>7. state'[p] = StateAfterProof(p, result)
    BY <2>2, <2>3 DEF CheckFreshness, StopInv, TypeInv, TypeOK
  <2> QED BY <2>5, <2>6, <2>7 DEF StateAfterProof, ActiveStates
<1> QED BY <1>1, <1>2, <1>3 DEF Stopped

\* An approval needs a proposal in review, so none follows a stop.
LEMMA NoApprovalStep ==
  ASSUME StopInv, [Next]_vars, NEW p \in Proposals, Stopped(p)
  PROVE  ApprovedBy(p)' = ApprovedBy(p)
<1>1. CASE UNCHANGED decisions
  BY <1>1 DEF ApprovedBy
<1>2. ASSUME NEW c \in Clients, Decides(c) PROVE ApprovedBy(p)' = ApprovedBy(p)
  <2>1. PICK q \in Proposals : q = session[c].p
    BY <1>2, DecidesRecords DEF StopInv
  <2>2. PICK row \in Decision :
              /\ decisions' = [decisions EXCEPT ![q] = @ \cup {row}]
              /\ \/ row.status = "rejected"
                 \/ row.status = "approved" /\ (ApproveProposal(c) \/ ApproveProposalByPolicy(c))
    BY <1>2, <2>1, DecidesRecords DEF StopInv
  <2>3. /\ \A r \in Proposals : r # q => ApprovedBy(r)' = ApprovedBy(r)
        /\ row.status = "rejected" => ApprovedBy(q)' = ApprovedBy(q)
    BY <2>2, ApproversAfter DEF StopInv
  <2>4. row.status = "approved" => p # q
    BY <2>1, <2>2 DEF ApproveProposal, ApproveProposalByPolicy, StopInv, Halted
  <2> QED BY <2>2, <2>3, <2>4
<1> QED BY <1>1, <1>2, OnlyDecisionsDecide

\* Once a proposal was rejected or its source found changed, no approval is
\* ever added to it, whatever check an approving client has already passed.
THEOREM StopIsFinal == Spec => NoApprovalAfterStop
<1>1. Init => StopInv
  <2>1. Init => TypeInv
    BY SessionType DEF Init, TypeInv, TypeOK, Sound, States
  <2>2. Init => Present
    BY SessionType DEF Init, Present
  <2>3. Init => Halted
    BY DEF Init, Halted, Stopped
  <2> QED BY <2>1, <2>2, <2>3 DEF StopInv
<1>2. StopInv /\ [Next]_vars => StopInv'
  BY TypeStep, PresentStep, HaltedStep DEF StopInv
<1>3. StopInv /\ [Next]_vars
        => [\A p \in Proposals : Stopped(p) => ApprovedBy(p)' = ApprovedBy(p)]_vars
  BY NoApprovalStep
<1> QED BY <1>1, <1>2, <1>3, PTL DEF Spec, NoApprovalAfterStop

-----------------------------------------------------------------------------
(***************************************************************************)
(* A settled rejection is terminal.                                        *)
(***************************************************************************)

\* An execution under way has a job.
Prepared ==
  \A c \in Clients : session[c].op \in {"verify", "execute"} => session[c].p \in jobs

\* Only CreateJob lets a session go on to its execution, and it adds the job.
LEMMA PreparedStep ==
  ASSUME TypeInv, Prepared, [Next]_vars
  PROVE  Prepared'
<1> SUFFICES ASSUME NEW b \in Clients, session'[b].op \in {"verify", "execute"}
             PROVE  session'[b].p \in jobs'
  BY DEF Prepared
<1>a. jobs \subseteq jobs'
  BY DEF Next, Begin, BeginCreate, BeginReview, BeginReject, BeginJob, BeginQueueMove, Begins,
         Commit, CommitCreate, CheckFreshness, PresentProof, ApproveProposal,
         ApproveProposalByPolicy, RejectProposal, CreateJob, Verify, RecordReceipt,
         CommitQueueMove, Abandon, ClaimFailed, Reconcile, NextDay, vars
<1>b. session'[b] = session[b] => session'[b].p \in jobs'
  BY <1>a DEF Prepared
<1>1. ASSUME NEW c \in Clients, NEW q \in Proposals, NEW op, NEW by, Begins(c, op, q, by),
             op \notin {"verify", "execute"}
      PROVE  session'[b].p \in jobs'
  <2> DEFINE s == [op |-> op, p |-> q, by |-> by, seen |-> state[q], proof |-> 0, day |-> 0]
  <2>1. session' = [session EXCEPT ![c] = s]
    BY <1>1 DEF Begins
  <2>2. s.op \notin {"verify", "execute"}
    BY <1>1
  <2> HIDE DEF s
  <2>3. b # c
    BY <2>1, <2>2 DEF TypeInv, TypeOK
  <2> QED BY <1>b, <2>1, <2>3
<1>2. ASSUME NEW c \in Clients, Ends(c) PROVE session'[b].p \in jobs'
  <2>1. session' = [session EXCEPT ![c] = NoSession] /\ NoSession.op = "none"
    BY <1>2 DEF Ends, NoSession
  <2>2. b # c
    BY <2>1 DEF TypeInv, TypeOK
  <2> QED BY <1>b, <2>1, <2>2
<1>3. ASSUME NEW c \in Clients, Commit(c) PROVE session'[b].p \in jobs'
  <2>1. CASE CommitCreate(c)
    BY <1>b, <1>2, <2>1 DEF CommitCreate, TypeInv, TypeOK, Session
  <2>2. CASE \E result \in ProofResults : CheckFreshness(c, result)
    BY <1>b, <1>2, <2>2 DEF CheckFreshness, TypeInv, TypeOK, Session
  <2>3. CASE PresentProof(c)
    BY <1>b, <2>3 DEF PresentProof, TypeInv, TypeOK, Session
  <2>4. CASE CreateJob(c)
    <3>1. PICK op \in {"verify", "execute"} : session' = [session EXCEPT ![c].op = op]
      BY <2>4 DEF CreateJob
    <3>2. jobs' = jobs \cup {session[c].p}
      BY <2>4 DEF CreateJob
    <3> QED BY <1>b, <3>1, <3>2 DEF TypeInv, TypeOK, Session
  <2>5. CASE Verify(c)
    BY <1>a, <1>b, <2>5 DEF Verify, Doing, Prepared, TypeInv, TypeOK, Session
  <2>6. CASE Ends(c)
    BY <1>2, <2>6
  <2> QED BY <1>3, <2>1, <2>2, <2>3, <2>4, <2>5, <2>6
          DEF Commit, ApproveProposal, ApproveProposalByPolicy, RejectProposal, RecordReceipt,
              CommitQueueMove, Abandon
<1>4. ASSUME NEW c \in Clients, NEW q \in Proposals, BeginCreate(c, q)
      PROVE  session'[b].p \in jobs'
  BY <1>1, <1>4 DEF BeginCreate
<1>5. ASSUME NEW c \in Clients, NEW q \in Reviewed, Begin(c, q) PROVE session'[b].p \in jobs'
  <2>1. q \in Proposals
    BY LedgerAssumption
  <2> QED BY <1>1, <1>5, <2>1 DEF Begin, BeginReview, BeginReject, BeginJob, BeginQueueMove
<1>6. CASE UNCHANGED session
  BY <1>b, <1>6
<1> QED BY <1>3, <1>4, <1>5, <1>6 DEF Next, ClaimFailed, Reconcile, NextDay, vars

\* No step moves a proposal whose rejection has settled, and none starts to.
LEMMA SettledStep ==
  ASSUME TypeInv, Prepared, [Next]_vars, NEW p \in Proposals, RejectedForGood(p)
  PROVE  RejectedForGood(p)'
<1> DEFINE Writing(x) == x.p = p /\ x.op \in {"job", "cancel", "requeue"}
<1>a. /\ state[p] = "rejected" /\ p \notin jobs
      /\ \A c \in Clients : ~Writing(session[c])
      /\ \A c \in Clients : session[c].op \in {"verify", "execute"} => session[c].p # p
  BY DEF RejectedForGood, Prepared
<1> SUFFICES state'[p] = "rejected" /\ p \notin jobs' /\ \A c \in Clients : ~Writing(session'[c])
  BY DEF RejectedForGood
<1> HIDE DEF RejectedForGood
<1>1. state'[p] = "rejected" /\ p \notin jobs'
  <2>1. ASSUME NEW c \in Clients, Commit(c) PROVE state'[p] = "rejected" /\ p \notin jobs'
    <3>1. CASE \E result \in ProofResults : CheckFreshness(c, result)
      BY <1>a, <3>1 DEF CheckFreshness, StateAfterProof, ActiveStates, TypeInv, TypeOK
    <3>2. CASE CommitCreate(c) \/ PresentProof(c) \/ Verify(c) \/ Abandon(c) \/ RejectProposal(c)
      BY <1>a, <3>2 DEF CommitCreate, PresentProof, Verify, Abandon, RejectProposal, TypeInv, TypeOK
    <3>3. CASE ApproveProposal(c) \/ ApproveProposalByPolicy(c)
      BY <1>a, <3>3 DEF ApproveProposal, ApproveProposalByPolicy, TypeInv, TypeOK
    <3>4. CASE CreateJob(c)
      BY <1>a, <3>4 DEF CreateJob, Doing, TypeInv, TypeOK
    <3>5. CASE (\E out \in Receipts : RecordReceipt(c, out)) \/ CommitQueueMove(c)
      BY <1>a, <3>5 DEF RecordReceipt, CommitQueueMove, Doing, TypeInv, TypeOK
    <3> QED BY <2>1, <3>1, <3>2, <3>3, <3>4, <3>5 DEF Commit
  <2>2. CASE UNCHANGED <<state, jobs>>
    BY <1>a, <2>2
  <2> QED BY <1>a, <2>1, <2>2
          DEF Next, Begin, BeginCreate, BeginReview, BeginReject, BeginJob, BeginQueueMove,
              Begins, ClaimFailed, Reconcile, NextDay, vars, TypeInv, TypeOK
<1>2. ASSUME NEW b \in Clients PROVE ~Writing(session'[b])
  <2>a. session'[b] = session[b] => ~Writing(session'[b])
    BY <1>a
  <2>1. ASSUME NEW c \in Clients, NEW q \in Proposals, NEW op, NEW by, Begins(c, op, q, by),
               op \in {"job", "cancel", "requeue"} => state[q] # "rejected"
        PROVE  ~Writing(session'[b])
    <3> DEFINE s == [op |-> op, p |-> q, by |-> by, seen |-> state[q], proof |-> 0, day |-> 0]
    <3>1. session' = [session EXCEPT ![c] = s]
      BY <2>1 DEF Begins
    <3>2. ~Writing(s)
      BY <1>a, <2>1
    <3> HIDE DEF s, Writing
    <3> QED BY <2>a, <3>1, <3>2 DEF TypeInv, TypeOK
  <2>2. ASSUME NEW c \in Clients, Ends(c) PROVE ~Writing(session'[b])
    <3>1. session' = [session EXCEPT ![c] = NoSession] /\ ~Writing(NoSession)
      BY <2>2 DEF Ends, NoSession
    <3> HIDE DEF Writing
    <3> QED BY <2>a, <3>1 DEF TypeInv, TypeOK
  <2>3. ASSUME NEW c \in Clients, Commit(c) PROVE ~Writing(session'[b])
    <3>1. CASE CommitCreate(c)
      BY <2>a, <2>2, <3>1 DEF CommitCreate, TypeInv, TypeOK, Session
    <3>2. CASE \E result \in ProofResults : CheckFreshness(c, result)
      BY <2>a, <2>2, <3>2 DEF CheckFreshness, TypeInv, TypeOK, Session
    <3>3. CASE PresentProof(c)
      BY <2>a, <3>3 DEF PresentProof, TypeInv, TypeOK, Session
    <3>4. CASE CreateJob(c)
      BY <2>a, <3>4 DEF CreateJob, TypeInv, TypeOK, Session
    <3>5. CASE Verify(c)
      BY <2>a, <3>5 DEF Verify, TypeInv, TypeOK, Session
    <3>6. CASE Ends(c)
      BY <2>2, <3>6
    <3> QED BY <2>3, <3>1, <3>2, <3>3, <3>4, <3>5, <3>6
            DEF Commit, ApproveProposal, ApproveProposalByPolicy, RejectProposal, RecordReceipt,
                CommitQueueMove, Abandon
  <2>4. ASSUME NEW c \in Clients, NEW q \in Proposals, BeginCreate(c, q)
        PROVE  ~Writing(session'[b])
    BY <2>1, <2>4 DEF BeginCreate
  <2>5. ASSUME NEW c \in Clients, NEW q \in Reviewed, Begin(c, q) PROVE ~Writing(session'[b])
    <3>1. q \in Proposals
      BY LedgerAssumption
    <3> QED BY <2>1, <2>5, <3>1 DEF Begin, BeginReview, BeginReject, BeginJob, BeginQueueMove
  <2>6. CASE UNCHANGED session
    BY <2>a, <2>6
  <2> QED BY <2>3, <2>4, <2>5, <2>6 DEF Next, ClaimFailed, Reconcile, NextDay, vars
<1> QED BY <1>1, <1>2

\* A rejection that no job, cancellation or requeue in progress can overwrite
\* is never overwritten, whatever reviews and proofs go on.
THEOREM RejectionIsFinal == Spec => RejectionSettles
<1>1. Init => TypeInv /\ Prepared
  <2>1. Init => TypeInv
    BY SessionType DEF Init, TypeInv, TypeOK, Sound, States
  <2>2. Init => Prepared
    BY DEF Init, Prepared, NoSession
  <2> QED BY <2>1, <2>2
<1>2. TypeInv /\ Prepared /\ [Next]_vars => (TypeInv /\ Prepared)'
  BY TypeStep, PreparedStep
<1>3. TypeInv /\ Prepared /\ [Next]_vars
        => [\A p \in Proposals : RejectedForGood(p) => RejectedForGood(p)']_vars
  BY SettledStep
<1> QED BY <1>1, <1>2, <1>3, PTL DEF Spec, RejectionSettles

-----------------------------------------------------------------------------
(***************************************************************************)
(* The daily limits of the policy.                                         *)
(***************************************************************************)

\* The limits hold on every day, those to come included.
LimitsInv ==
  \A d \in Nat :
    Cardinality(AutoApproved(d)) <= CountLimit /\ Total(AutoApproved(d)) <= TotalLimit

\* The amounts of the proposals in S, one by one.
Units(S) == UNION {{q} \X (1 .. Amount[q]) : q \in S}

\* They are finitely many.
LEMMA UnitsFinite ==
  ASSUME NEW S \in SUBSET Proposals
  PROVE  /\ IsFiniteSet(S) /\ Cardinality(S) \in Nat
         /\ IsFiniteSet(Units(S)) /\ Total(S) \in Nat
<1> DEFINE T == {{q} \X (1 .. Amount[q]) : q \in S}
           units == [q \in S |-> {q} \X (1 .. Amount[q])]
<1>1. IsFiniteSet(S) /\ Cardinality(S) \in Nat
  BY LedgerAssumption, FS_Subset, FS_CardinalityType DEF LedgerAssumption
<1>2. units \in Surjection(S, T)
  BY DEF Surjection
<1>3. IsFiniteSet(T)
  BY <1>1, <1>2, FS_Surjection
<1>4. ASSUME NEW q \in S PROVE IsFiniteSet({q} \X (1 .. Amount[q]))
  <2>1. Amount[q] \in Int
    BY LedgerAssumption DEF LedgerAssumption
  <2>2. IsFiniteSet(1 .. Amount[q])
    BY <2>1, FS_Interval
  <2>3. IsFiniteSet({q})
    BY FS_Singleton
  <2> QED BY <2>2, <2>3, FS_Product
<1>5. \A x \in T : IsFiniteSet(x)
  BY <1>4
<1> HIDE DEF T
<1>6. IsFiniteSet(UNION T)
  BY <1>3, <1>5, FS_UNION
<1>7. IsFiniteSet(Units(S))
  BY <1>6 DEF Units, T
<1>8. Total(S) \in Nat
  BY <1>7, FS_CardinalityType DEF Units, Total
<1> QED BY <1>1, <1>7, <1>8

\* One more proposal adds one to the number and at most its amount to the total.
LEMMA TotalAdd ==
  ASSUME NEW S \in SUBSET Proposals, NEW p \in Proposals
  PROVE  /\ Cardinality(S \cup {p}) <= Cardinality(S) + 1
         /\ Total(S \cup {p}) <= Total(S) + Amount[p]
<1> DEFINE own == {p} \X (1 .. Amount[p])
<1>1. /\ IsFiniteSet(S) /\ Cardinality(S) \in Nat
      /\ IsFiniteSet(Units(S)) /\ Cardinality(Units(S)) \in Nat
  BY UnitsFinite DEF Units, Total
<1>2. Cardinality(S \cup {p}) <= Cardinality(S) + 1
  <2>1. Cardinality(S \cup {p}) = IF p \in S THEN Cardinality(S) ELSE Cardinality(S) + 1
    BY <1>1, FS_AddElement
  <2> QED BY <1>1, <2>1
<1>3. IsFiniteSet(own) /\ Cardinality(own) = Amount[p] /\ Amount[p] \in Nat
  <2>1. Amount[p] \in Nat
    BY LedgerAssumption DEF LedgerAssumption
  <2>2. IsFiniteSet(1 .. Amount[p]) /\ Cardinality(1 .. Amount[p]) = Amount[p]
    BY <2>1, FS_Interval
  <2>3. IsFiniteSet({p}) /\ Cardinality({p}) = 1
    BY FS_Singleton
  <2>4. IsFiniteSet(own) /\ Cardinality(own) = 1 * Amount[p]
    BY <2>2, <2>3, FS_Product
  <2> QED BY <2>1, <2>4
<1>4. Units(S \cup {p}) = Units(S) \cup own
  BY DEF Units
<1> HIDE DEF own
<1>5. Cardinality(Units(S) \cup own)
        = Cardinality(Units(S)) + Amount[p] - Cardinality(Units(S) \cap own)
  BY <1>1, <1>3, FS_Union
<1>6. Cardinality(Units(S) \cap own) \in Nat
  BY <1>1, FS_Intersection, FS_CardinalityType
<1>7. Cardinality(Units(S) \cup own) <= Cardinality(Units(S)) + Amount[p]
  BY <1>1, <1>3, <1>5, <1>6
<1> QED BY <1>2, <1>4, <1>7 DEF Units, Total

\* The policy approves in one action only, which counts what it approves.
LEMMA LimitsStep ==
  ASSUME TypeInv, LimitsInv, [Next]_vars
  PROVE  LimitsInv'
<1> SUFFICES ASSUME NEW d \in Nat
             PROVE  /\ Cardinality(AutoApproved(d)') <= CountLimit
                    /\ Total(AutoApproved(d)') <= TotalLimit
  BY DEF LimitsInv, Total
<1>1. Cardinality(AutoApproved(d)) <= CountLimit /\ Total(AutoApproved(d)) <= TotalLimit
  BY DEF LimitsInv
<1>2. ASSUME AutoApproved(d)' = AutoApproved(d)
      PROVE  /\ Cardinality(AutoApproved(d)') <= CountLimit
             /\ Total(AutoApproved(d)') <= TotalLimit
  BY <1>1, <1>2
<1>3. ASSUME NEW p \in Proposals, NEW row,
             decisions' = [decisions EXCEPT ![p] = @ \cup {row}]
      PROVE  AutoApproved(d)' =
               IF row.by = Policy /\ row.status = "approved" /\ row.day = d
                 THEN AutoApproved(d) \cup {p} ELSE AutoApproved(d)
  <2>1. /\ decisions'[p] = decisions[p] \cup {row}
        /\ \A q \in Proposals : q # p => decisions'[q] = decisions[q]
    BY <1>3 DEF TypeInv, TypeOK
  <2> QED BY <2>1 DEF AutoApproved
<1>4. ASSUME NEW c \in Clients, ApproveProposalByPolicy(c)
      PROVE  /\ Cardinality(AutoApproved(d)') <= CountLimit
             /\ Total(AutoApproved(d)') <= TotalLimit
  <2> DEFINE p == session[c].p
  <2>1. p \in Proposals
    BY <1>4, DecidesRecords DEF Decides
  <2>2. PICK e \in session[c].day .. day :
          /\ WithinLimits(p, e)
          /\ Record(p, Policy, "approved", session[c].proof, e)
    BY <1>4 DEF ApproveProposalByPolicy
  <2> DEFINE row == [by |-> Policy, status |-> "approved", proof |-> session[c].proof,
                     day |-> e]
  <2>3. decisions' = [decisions EXCEPT ![p] = @ \cup {row}]
    BY <2>2 DEF Record
  <2>4. AutoApproved(d)' = IF e = d THEN AutoApproved(d) \cup {p} ELSE AutoApproved(d)
    <3>1. row.by = Policy /\ row.status = "approved" /\ row.day = e
      OBVIOUS
    <3> HIDE DEF row, p
    <3>2. AutoApproved(d)' =
            IF row.by = Policy /\ row.status = "approved" /\ row.day = d
              THEN AutoApproved(d) \cup {p} ELSE AutoApproved(d)
      BY <2>1, <2>3, <1>3
    <3> QED BY <3>1, <3>2
  <2>5. CASE e = d
    <3>1. AutoApproved(d) \in SUBSET Proposals
      BY DEF AutoApproved
    <3>2. /\ Cardinality(AutoApproved(d)) + 1 <= CountLimit
          /\ Total(AutoApproved(d)) + Amount[p] <= TotalLimit
      BY <2>2, <2>5 DEF WithinLimits
    <3> HIDE DEF p
    <3>3. /\ Cardinality(AutoApproved(d) \cup {p}) <= Cardinality(AutoApproved(d)) + 1
          /\ Total(AutoApproved(d) \cup {p}) <= Total(AutoApproved(d)) + Amount[p]
      BY <2>1, <3>1, TotalAdd
    <3>4. /\ AutoApproved(d) \cup {p} \in SUBSET Proposals
          /\ Amount[p] \in Nat /\ CountLimit \in Nat /\ TotalLimit \in Nat
      BY <2>1, <3>1, LedgerAssumption DEF LedgerAssumption
    <3>5. /\ Cardinality(AutoApproved(d)) \in Nat /\ Total(AutoApproved(d)) \in Nat
          /\ Cardinality(AutoApproved(d) \cup {p}) \in Nat
          /\ Total(AutoApproved(d) \cup {p}) \in Nat
      BY <3>1, <3>4, UnitsFinite
    <3>6. /\ Cardinality(AutoApproved(d) \cup {p}) <= CountLimit
          /\ Total(AutoApproved(d) \cup {p}) <= TotalLimit
      BY <3>2, <3>3, <3>4, <3>5
    <3> QED BY <2>4, <2>5, <3>6
  <2>6. CASE e # d
    BY <1>2, <2>4, <2>6
  <2> QED BY <2>5, <2>6
<1>5. ASSUME NEW c \in Clients, ApproveProposal(c) \/ RejectProposal(c)
      PROVE  AutoApproved(d)' = AutoApproved(d)
  <2> DEFINE p == session[c].p
  <2>1. p \in Proposals
    BY <1>5, DecidesRecords DEF Decides
  <2>2. PICK row : /\ decisions' = [decisions EXCEPT ![p] = @ \cup {row}]
                   /\ ~(row.by = Policy /\ row.status = "approved")
    <3>1. CASE ApproveProposal(c)
      <4> DEFINE row == [by |-> session[c].by, status |-> "approved",
                         proof |-> session[c].proof, day |-> session[c].day]
      <4>1. decisions' = [decisions EXCEPT ![p] = @ \cup {row}] /\ row.by # Policy
        BY <3>1, LedgerAssumption DEF ApproveProposal, Record, LedgerAssumption
      <4> QED BY <4>1
    <3>2. CASE RejectProposal(c)
      <4> DEFINE row == [by |-> session[c].by, status |-> "rejected",
                         proof |-> 0, day |-> session[c].day]
      <4>1. decisions' = [decisions EXCEPT ![p] = @ \cup {row}] /\ row.status = "rejected"
        BY <3>2 DEF RejectProposal, Record
      <4> QED BY <4>1
    <3> QED BY <1>5, <3>1, <3>2
  <2> HIDE DEF p
  <2> QED BY <2>1, <2>2, <1>3
<1>6. CASE UNCHANGED decisions
  BY <1>6, <1>2 DEF AutoApproved
<1> QED BY <1>2, <1>4, <1>5, <1>6, OnlyDecisionsDecide DEF Decides

\* On no day does the policy approve more proposals, or a higher total, than
\* its limits, whatever the number of servers, the limits and the amounts, and
\* however far apart a call reads the clock and commits.
THEOREM PolicyStaysWithinLimits == Spec => []PolicyDailyLimit
<1>1. Init => TypeInv /\ LimitsInv
  <2>1. Init => TypeInv
    BY SessionType DEF Init, TypeInv, TypeOK, Sound, States
  <2>2. ASSUME Init PROVE LimitsInv
    <3> SUFFICES ASSUME NEW d \in Nat
                 PROVE  /\ Cardinality(AutoApproved(d)) <= CountLimit
                        /\ Total(AutoApproved(d)) <= TotalLimit
      BY DEF LimitsInv
    <3>1. AutoApproved(d) = {}
      BY <2>2 DEF Init, AutoApproved
    <3>2. UNION {{q} \X (1 .. Amount[q]) : q \in {}} = {}
      OBVIOUS
    <3>3. Cardinality({}) = 0 /\ Total({}) = 0
      BY <3>2, FS_EmptySet DEF Total
    <3>4. CountLimit \in Nat /\ TotalLimit \in Nat
      BY LedgerAssumption DEF LedgerAssumption
    <3> QED BY <3>1, <3>3, <3>4
  <2> QED BY <2>1, <2>2
<1>2. TypeInv /\ LimitsInv /\ [Next]_vars => (TypeInv /\ LimitsInv)'
  BY TypeStep, LimitsStep
<1>3. TypeInv /\ LimitsInv => PolicyDailyLimit
  BY DEF TypeInv, TypeOK, LimitsInv, PolicyDailyLimit
<1> QED BY <1>1, <1>2, <1>3, PTL DEF Spec
=============================================================================
