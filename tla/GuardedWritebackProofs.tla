------------------------ MODULE GuardedWritebackProofs ------------------------
(***************************************************************************)
(* Guarded writeback, for any number of proposals, processes and rows:     *)
(* type correctness, at-most-once mutation, one winner per version, honest *)
(* ledger claims, the refinement of WorkerFleet, and what one step may     *)
(* make of a queue row with the retry budget, the fencing of leases and    *)
(* the truth of conflicts that follow from it.                             *)
(***************************************************************************)
EXTENDS GuardedWriteback, WorkerQueueProofs

\* What a process's program counter says about its other fields.
Sound(s) ==
  /\ s.pc \notin {"idle", "poll"} => s.p \in Proposals
  /\ s.pc = "complete" => s.res # "none"
  /\ s.pc \in {"mark", "mutate", "complete"} => Authority = "runner_ledger"

TypeInv ==
  /\ TypeOK
  /\ \A x \in Processes : Sound(proc[x])
  /\ \A p \in Proposals : intent[p].status = "absent" => intent[p] = NoIntent

-----------------------------------------------------------------------------
(***************************************************************************)
(* How a step changes one process.                                         *)
(***************************************************************************)

\* The record of an idle process is well typed and sound.
LEMMA IdleType == Idle \in Process /\ Sound(Idle)
BY DEF Idle, Process, Pcs, States, Results, Codes, Sound

\* A step that rewrites the record of one process.
LEMMA ProcStep ==
  ASSUME TypeInv, NEW x \in Processes, NEW s \in Process, Sound(s),
         proc' = [proc EXCEPT ![x] = s]
  PROVE  proc' \in [Processes -> Process] /\ \A y \in Processes : Sound(proc'[y])
<1>1. \A y \in Processes : proc'[y] = IF y = x THEN s ELSE proc[y]
  BY DEF TypeInv, TypeOK
<1> QED BY <1>1 DEF TypeInv, TypeOK

\* The fields of a process.
LEMMA ProcFields ==
  ASSUME TypeInv, NEW x \in Processes
  PROVE  /\ proc[x] \in Process /\ Sound(proc[x])
         /\ proc[x].pc \in Pcs /\ proc[x].lease \in Nat /\ proc[x].attempt \in Nat
         /\ proc[x].res \in Results /\ proc[x].code \in Codes
         /\ proc[x].sawMutated \in BOOLEAN
BY DEF TypeInv, TypeOK, Process

\* Moving to another step of the turn keeps the process well typed.
LEMMA GotoStep ==
  ASSUME TypeInv, NEW x \in Processes, NEW pc \in Pcs, Goto(x, pc),
         Sound([proc[x] EXCEPT !.pc = pc])
  PROVE  proc' \in [Processes -> Process] /\ \A y \in Processes : Sound(proc'[y])
<1>1. [proc[x] EXCEPT !.pc = pc] \in Process
  BY ProcFields DEF Process
<1>2. proc' = [proc EXCEPT ![x] = [proc[x] EXCEPT !.pc = pc]]
  BY DEF Goto, TypeInv, TypeOK
<1> QED BY <1>1, <1>2, ProcStep

\* So does storing the adapter's result.
LEMMA WithResultStep ==
  ASSUME TypeInv, NEW x \in Processes, NEW pc \in {"complete", "receipt", "finish"},
         NEW res \in Results \ {"none"}, NEW code \in Codes,
         proc[x].pc \notin {"idle", "poll"},
         pc = "complete" => proc[x].pc = "mutate",
         WithResult(x, pc, res, code)
  PROVE  proc' \in [Processes -> Process] /\ \A y \in Processes : Sound(proc'[y])
<1> DEFINE s == [proc[x] EXCEPT !.pc = pc, !.res = res, !.code = code]
<1>1. s \in Process
  BY ProcFields DEF Process, Pcs
<1>2. Sound(s)
  BY ProcFields DEF Sound, Process
<1>3. proc' = [proc EXCEPT ![x] = s]
  BY DEF WithResult, TypeInv, TypeOK
<1> QED BY <1>1, <1>2, <1>3, ProcStep

\* So does an exception that leaves applyProposal.
LEMMA ThrowStep ==
  ASSUME TypeInv, NEW x \in Processes, NEW code \in Codes,
         proc[x].pc \notin {"idle", "poll"}, Throw(x, code)
  PROVE  proc' \in [Processes -> Process] /\ \A y \in Processes : Sound(proc'[y])
<1>1. CASE x \in Workers
  <2>1. "failed" \in Results \ {"none"}
    BY DEF Results
  <2> QED BY <1>1, <2>1, WithResultStep DEF Throw
<1>2. CASE x \notin Workers
  BY <1>2, IdleType, ProcStep DEF Throw
<1> QED BY <1>1, <1>2

\* The common frame: a step that changes only the queue and the processes.
LEMMA FrameStep ==
  ASSUME TypeInv, QueueTypeOK', proc' \in [Processes -> Process],
         \A y \in Processes : Sound(proc'[y]),
         UNCHANGED <<gate, sourceVars, ledgerVars, recon>>
  PROVE  TypeInv'
BY DEF TypeInv, TypeOK, sourceVars, ledgerVars, Sound

\* A step that leaves the queue alone keeps its type.
LEMMA SameQueueType == TypeInv /\ UNCHANGED queueVars => QueueTypeOK'
BY DEF TypeInv, TypeOK, QueueTypeOK, queueVars

-----------------------------------------------------------------------------
(***************************************************************************)
(* Type correctness of each action.                                        *)
(***************************************************************************)

\* The initial state: an empty ledger and idle processes.
LEMMA InitType == Init => TypeInv
<1> SUFFICES ASSUME Init PROVE TypeInv
  OBVIOUS
<1>1. QueueTypeOK
  BY QueueInitType DEF Init
<1>2. proc \in [Processes -> Process] /\ \A x \in Processes : Sound(proc[x])
  BY IdleType DEF Init
<1>3. intent \in [Proposals -> [status : IntentStatuses \cup {"absent"}, attempt : Nat, code : Codes]]
  BY DEF Init, NoIntent, Codes
<1>4. receipts \in [Proposals -> Seq(Receipt)]
  BY DEF Init
<1> QED BY <1>1, <1>2, <1>3, <1>4 DEF Init, TypeInv, TypeOK, ReviewedVersion, Results

\* workerRun's gate read and claim transaction preserve the type invariant.
LEMMA WorkerTurnType ==
  ASSUME TypeInv, NEW w \in Workers, Poll(w) \/ ClaimTurn(w)
  PROVE  TypeInv'
<1> w \in Processes
  BY DEF Processes
<1> QueueTypeOK
  BY DEF TypeInv, TypeOK
<1>1. CASE Poll(w)
  <2>1. Sound([proc[w] EXCEPT !.pc = "poll"]) /\ "poll" \in Pcs
    BY ProcFields DEF Sound, Process, Pcs
  <2> QED BY <1>1, <2>1, GotoStep, SameQueueType, FrameStep DEF Poll
<1>2. ASSUME NEW p \in Proposals, Claim(w, p) PROVE TypeInv'
  <2> DEFINE s == [Idle EXCEPT !.pc = "claimed", !.p = p, !.lease = issued[p] + 1,
                               !.attempt = queue[p].attempts + 1]
  <2>1. issued[p] + 1 \in Nat /\ queue[p].attempts + 1 \in Nat
    BY RowFields DEF QueueTypeOK
  <2>2. s \in Process /\ Sound(s)
    BY <2>1 DEF Idle, Process, Pcs, States, Results, Codes, Sound
  <2>3. QueueTypeOK'
    BY <1>2, ClaimType DEF Claim
  <2> QED BY <1>2, <2>2, <2>3, ProcStep, FrameStep DEF Claim
<1>3. CASE ClaimNothing(w)
  <2>1. QueueTypeOK'
    BY <1>3, ClaimType, SameQueueType DEF ClaimNothing
  <2>2. Sound([proc[w] EXCEPT !.pc = "idle"]) /\ "idle" \in Pcs
    BY ProcFields DEF Sound, Process, Pcs
  <2> QED BY <1>3, <2>1, <2>2, GotoStep, FrameStep DEF ClaimNothing
<1> QED BY <1>1, <1>2, <1>3 DEF ClaimTurn

\* The supervised checks and the lease renewal preserve it.
LEMMA PreflightType ==
  ASSUME TypeInv, NEW w \in Workers, Preflight(w) \/ ReadClock(w) \/ Renew(w)
  PROVE  TypeInv'
<1> w \in Processes
  BY DEF Processes
<1> QueueTypeOK
  BY DEF TypeInv, TypeOK
<1> {"fatal", "held"} \subseteq Codes /\ {"read", "renew", "renewing"} \subseteq Pcs
  BY DEF Codes, Pcs
<1>1. CASE Preflight(w)
  <2>1. proc[w].pc = "claimed"
    BY <1>1 DEF Preflight, At
  <2>2. Sound([proc[w] EXCEPT !.pc = "read"]) /\ Sound([proc[w] EXCEPT !.pc = "renew"])
    BY <2>1, ProcFields DEF Sound, Process
  <2>3. \/ Goto(w, "read") \/ Goto(w, "renew") \/ Throw(w, "fatal") \/ Throw(w, "held")
    BY <1>1, QueueAssumption DEF Preflight
  <2>4. proc' \in [Processes -> Process] /\ \A y \in Processes : Sound(proc'[y])
    BY <2>1, <2>2, <2>3, GotoStep, ThrowStep
  <2> QED BY <1>1, <2>4, SameQueueType, FrameStep DEF Preflight
<1>2. CASE Renew(w)
  <2>1. proc[w].pc = "renewing" /\ proc[w].p \in Proposals
    BY <1>2, ProcFields DEF Renew, At, Sound
  <2>2. Sound([proc[w] EXCEPT !.pc = "read"])
    BY <2>1, ProcFields DEF Sound, Process
  <2>3. QueueTypeOK'
    BY <1>2, <2>1, LeaseHolderType, SameQueueType DEF Renew
  <2>4. proc' \in [Processes -> Process] /\ \A y \in Processes : Sound(proc'[y])
    BY <1>2, <2>1, <2>2, GotoStep, ThrowStep DEF Renew
  <2> QED BY <1>2, <2>3, <2>4, FrameStep DEF Renew
<1>3. CASE ReadClock(w)
  <2>1. proc[w].pc = "renew"
    BY <1>3 DEF ReadClock, At
  <2>2. Sound([proc[w] EXCEPT !.pc = "renewing"])
    BY <2>1, ProcFields DEF Sound, Process
  <2>3. proc' \in [Processes -> Process] /\ \A y \in Processes : Sound(proc'[y])
    BY <1>3, <2>1, <2>2, GotoStep, ThrowStep DEF ReadClock
  <2> QED BY <1>3, <2>3, SameQueueType, FrameStep DEF ReadClock
<1> QED BY <1>1, <1>2, <1>3

\* Creating and verifying the job, and the read before a receipt, preserve it.
LEMMA JobType ==
  ASSUME TypeInv, NEW x \in Processes,
         \/ ReadProposal(x) \/ CreateJob(x) \/ Verify(x)
         \/ ConnectionFails(x) \/ ReadForReceipt(x)
  PROVE  TypeInv'
<1> QueueTypeOK
  BY DEF TypeInv, TypeOK
<1> {"fatal", "exec"} \subseteq Codes /\ {"job", "verify", "apply", "record"} \subseteq Pcs
  BY DEF Codes, Pcs
<1>1. CASE ReadProposal(x)
  <2> DEFINE s == [proc[x] EXCEPT !.pc = "job", !.seen = pstate[proc[x].p]]
  <2>1. proc[x].pc = "read" /\ proc[x].p \in Proposals
    BY <1>1, ProcFields DEF ReadProposal, At, Sound
  <2>2. s \in Process /\ Sound(s)
    BY <2>1, ProcFields DEF Sound, Process, QueueTypeOK
  <2>3. proc' = [proc EXCEPT ![x] = s] \/ Throw(x, "fatal")
    BY <1>1 DEF ReadProposal, TypeInv, TypeOK
  <2>4. proc' \in [Processes -> Process] /\ \A y \in Processes : Sound(proc'[y])
    BY <2>1, <2>2, <2>3, ProcStep, ThrowStep
  <2> QED BY <1>1, <2>4, SameQueueType, FrameStep DEF ReadProposal
<1>2. CASE CreateJob(x)
  <2> DEFINE s == [proc[x] EXCEPT !.pc = "verify", !.seen = Idle.seen]
  <2>1. proc[x].pc = "job" /\ proc[x].p \in Proposals
    BY <1>2, ProcFields DEF CreateJob, At, Sound
  <2>2. s \in Process /\ Sound(s)
    BY <2>1, ProcFields DEF Sound, Process, Idle, States
  <2>3. proc' = [proc EXCEPT ![x] = s]
    BY <1>2 DEF CreateJob, TypeInv, TypeOK
  <2>4. QueueTypeOK'
    BY <1>2, <2>1 DEF CreateJob, QueueTypeOK, States
  <2>5. proc' \in [Processes -> Process] /\ \A y \in Processes : Sound(proc'[y])
    BY <2>2, <2>3, ProcStep
  <2> QED BY <1>2, <2>4, <2>5, FrameStep DEF CreateJob
<1>3. CASE Verify(x)
  <2>1. proc[x].pc = "verify" /\ proc[x].p \in Proposals
    BY <1>3, ProcFields DEF Verify, At, Sound
  <2>2. Sound([proc[x] EXCEPT !.pc = "apply"])
    BY <2>1, ProcFields DEF Sound, Process
  <2>3. proc' \in [Processes -> Process] /\ \A y \in Processes : Sound(proc'[y])
    BY <1>3, <2>1, <2>2, GotoStep, ThrowStep DEF Verify
  <2> QED BY <1>3, <2>3, SameQueueType, FrameStep DEF Verify
<1>4. CASE ReadForReceipt(x)
  <2> DEFINE s == [proc[x] EXCEPT !.pc = "record", !.sawMutated = mutated[proc[x].p]]
  <2>1. proc[x].pc = "receipt" /\ proc[x].p \in Proposals
    BY <1>4, ProcFields DEF ReadForReceipt, At, Sound
  <2>2. mutated[proc[x].p] \in BOOLEAN
    BY <2>1 DEF TypeInv, TypeOK
  <2>3. s \in Process
    BY <2>2, ProcFields DEF Process
  <2>4. Sound(s)
    BY <2>1, ProcFields DEF Sound, Process
  <2>5. proc' = [proc EXCEPT ![x] = s]
    BY <1>4 DEF ReadForReceipt, TypeInv, TypeOK
  <2>6. proc' \in [Processes -> Process] /\ \A y \in Processes : Sound(proc'[y])
    BY <2>3, <2>4, <2>5, ProcStep
  <2> QED BY <1>4, <2>6, SameQueueType, FrameStep DEF ReadForReceipt
<1>5. CASE ConnectionFails(x)
  <2>1. proc[x].pc = "apply" /\ WithResult(x, "receipt", "failed", "retryable")
    BY <1>5 DEF ConnectionFails, At
  <2>2. "failed" \in Results \ {"none"} /\ "retryable" \in Codes
    BY DEF Results, Codes
  <2>3. proc' \in [Processes -> Process] /\ \A y \in Processes : Sound(proc'[y])
    BY <2>1, <2>2, WithResultStep
  <2> QED BY <1>5, <2>3, SameQueueType, FrameStep DEF ConnectionFails
<1> QED BY <1>1, <1>2, <1>3, <1>4, <1>5

\* The result of a source transaction, in whatever way it reaches the runner.
LEMMA AdapterResultStep ==
  ASSUME TypeInv, NEW x \in Processes, NEW pc \in {"complete", "receipt"},
         NEW res \in Results \ {"none"},
         proc[x].pc \notin {"idle", "poll"}, pc = "complete" => proc[x].pc = "mutate",
         Acknowledged(x, pc, res) \/ NotCommitted(x, pc)
  PROVE  proc' \in [Processes -> Process] /\ \A y \in Processes : Sound(proc'[y])
<1>1. {"reconciliation_required", "failed"} \subseteq Results \ {"none"}
  BY DEF Results
<1>2. CodeOf(res) \in Codes /\ {"unknown", "retryable", "fatal"} \subseteq Codes
  BY DEF CodeOf, Codes
<1>3. \E r \in Results \ {"none"}, c \in Codes : WithResult(x, pc, r, c)
  BY <1>1, <1>2 DEF Acknowledged, NotCommitted
<1> QED BY <1>3, WithResultStep

\* mutatePostgres leaves the source rows well typed.
LEMMA MutatesType ==
  ASSUME TypeInv, NEW p \in Proposals, NEW out, Mutates(p, out)
  PROVE  /\ version' \in [Rows -> Nat]
         /\ writer' \in [Rows -> Proposals \cup {NoProposal}]
         /\ effects' \in [Proposals -> Nat]
<1>1. Target[p] \in Rows
  BY WritebackAssumption
<1>2. /\ version \in [Rows -> Nat] /\ writer \in [Rows -> Proposals \cup {NoProposal}]
      /\ effects \in [Proposals -> Nat]
  BY DEF TypeInv, TypeOK
<1>3. version' \in [Rows -> Nat]
  <2>1. (IF VersionAdvances THEN version[Target[p]] + 1 ELSE version[Target[p]]) \in Nat
    BY <1>1, <1>2
  <2> QED BY <1>1, <1>2, <2>1 DEF Mutates
<1> QED BY <1>1, <1>2, <1>3 DEF Mutates

\* The source transaction has three outcomes that commit.
LEMMA MutationOutcomesType ==
  ASSUME NEW p, NEW out \in MutationOutcomes(p)
  PROVE  out \in {"applied", "failed", "conflict"} /\ out \in Results \ {"none"}
BY DEF MutationOutcomes, Results

\* A step of the source transaction: the source and the processes change.
LEMMA SourceFrame ==
  ASSUME TypeInv, proc' \in [Processes -> Process], \A y \in Processes : Sound(proc'[y]),
         version' \in [Rows -> Nat],
         writer' \in [Rows -> Proposals \cup {NoProposal}],
         effects' \in [Proposals -> Nat],
         srcReceipt' \in [Proposals -> Results],
         UNCHANGED <<queueVars, gate, ledgerVars, recon>>
  PROVE  TypeInv'
<1>1. QueueTypeOK'
  BY SameQueueType
<1> QED BY <1>1 DEF TypeInv, TypeOK, ledgerVars, Sound

\* The source transaction, under either receipt authority, preserves the type
\* invariant.
LEMMA SourceType ==
  ASSUME TypeInv, NEW x \in Processes, ApplyWithSourceReceipt(x) \/ ApplyWithIntent(x)
  PROVE  TypeInv'
<1> DEFINE p == proc[x].p
<1>1. /\ version \in [Rows -> Nat] /\ writer \in [Rows -> Proposals \cup {NoProposal}]
      /\ effects \in [Proposals -> Nat] /\ srcReceipt \in [Proposals -> Results]
  BY DEF TypeInv, TypeOK
<1>2. CASE ApplyWithSourceReceipt(x)
  <2>1. proc[x].pc = "apply" /\ p \in Proposals
    BY <1>2, ProcFields DEF ApplyWithSourceReceipt, At, Sound
  <2>2. CASE /\ ClaimSourceReceipt(p) # "none"
             /\ Acknowledged(x, "receipt", ResultFromExistingReceipt(ClaimSourceReceipt(p)))
             /\ UNCHANGED sourceVars
    <3>1. ResultFromExistingReceipt(ClaimSourceReceipt(p)) \in Results \ {"none"}
      BY <1>1, <2>1, <2>2 DEF ResultFromExistingReceipt, ClaimSourceReceipt, Results
    <3>2. proc' \in [Processes -> Process] /\ \A y \in Processes : Sound(proc'[y])
      BY <2>1, <2>2, <3>1, AdapterResultStep
    <3> QED BY <1>1, <1>2, <2>2, <3>2, SourceFrame DEF ApplyWithSourceReceipt, sourceVars
  <2>3. ASSUME NEW out \in MutationOutcomes(p), Mutates(p, out),
               srcReceipt' = [srcReceipt EXCEPT ![p] = out],
               Acknowledged(x, "receipt", out)
        PROVE  TypeInv'
    <3>1. out \in Results \ {"none"}
      BY MutationOutcomesType
    <3>2. proc' \in [Processes -> Process] /\ \A y \in Processes : Sound(proc'[y])
      BY <2>1, <2>3, <3>1, AdapterResultStep
    <3>3. srcReceipt' \in [Proposals -> Results]
      BY <1>1, <2>3, <3>1
    <3> QED BY <1>2, <2>1, <2>3, <3>2, <3>3, MutatesType, SourceFrame DEF ApplyWithSourceReceipt
  <2>4. CASE NotCommitted(x, "receipt")
    <3>1. "failed" \in Results \ {"none"}
      BY DEF Results
    <3>2. proc' \in [Processes -> Process] /\ \A y \in Processes : Sound(proc'[y])
      BY <2>1, <2>4, <3>1, AdapterResultStep
    <3> QED BY <1>1, <1>2, <2>4, <3>2, SourceFrame
            DEF ApplyWithSourceReceipt, NotCommitted, sourceVars
  <2> QED BY <1>2, <2>2, <2>3, <2>4 DEF ApplyWithSourceReceipt
<1>3. CASE ApplyWithIntent(x)
  <2>1. proc[x].pc = "mutate" /\ p \in Proposals
    BY <1>3, ProcFields DEF ApplyWithIntent, At, Sound
  <2>2. ASSUME NEW out \in MutationOutcomes(p), Mutates(p, out),
               Acknowledged(x, "complete", out), UNCHANGED srcReceipt
        PROVE  TypeInv'
    <3>1. out \in Results \ {"none"}
      BY MutationOutcomesType
    <3>2. proc' \in [Processes -> Process] /\ \A y \in Processes : Sound(proc'[y])
      BY <2>1, <2>2, <3>1, AdapterResultStep
    <3> QED BY <1>1, <1>3, <2>1, <2>2, <3>2, MutatesType, SourceFrame DEF ApplyWithIntent
  <2>3. CASE NotCommitted(x, "complete")
    <3>1. "failed" \in Results \ {"none"}
      BY DEF Results
    <3>2. proc' \in [Processes -> Process] /\ \A y \in Processes : Sound(proc'[y])
      BY <2>1, <2>3, <3>1, AdapterResultStep
    <3> QED BY <1>1, <1>3, <2>3, <3>2, SourceFrame DEF ApplyWithIntent, NotCommitted, sourceVars
  <2> QED BY <1>3, <2>2, <2>3 DEF ApplyWithIntent
<1> QED BY <1>2, <1>3

\* A step on the intent: only the intent and the processes change.
LEMMA IntentFrame ==
  ASSUME TypeInv, proc' \in [Processes -> Process], \A y \in Processes : Sound(proc'[y]),
         NEW p \in Proposals, NEW i \in [status : IntentStatuses, attempt : Nat, code : Codes],
         intent' = intent \/ intent' = [intent EXCEPT ![p] = i],
         UNCHANGED <<queueVars, gate, sourceVars, receipts, mutated, recon>>
  PROVE  TypeInv'
<1>1. QueueTypeOK'
  BY SameQueueType
<1>2. /\ intent' \in [Proposals -> [status : IntentStatuses \cup {"absent"}, attempt : Nat, code : Codes]]
      /\ \A q \in Proposals : intent'[q].status = "absent" => intent'[q] = NoIntent
  <2>1. i.status # "absent"
    BY DEF IntentStatuses, Results
  <2>2. CASE intent' = intent
    BY <2>2 DEF TypeInv, TypeOK
  <2>3. CASE intent' = [intent EXCEPT ![p] = i]
    <3>1. \A q \in Proposals : intent'[q] = IF q = p THEN i ELSE intent[q]
      BY <2>3 DEF TypeInv, TypeOK
    <3> QED BY <2>1, <2>3, <3>1 DEF TypeInv, TypeOK
  <2> QED BY <2>2, <2>3
<1> QED BY <1>1, <1>2 DEF TypeInv, TypeOK, sourceVars, Sound

\* The fields of an intent row.
LEMMA IntentFields ==
  ASSUME TypeInv, NEW p \in Proposals
  PROVE  /\ intent[p].status \in IntentStatuses \cup {"absent"}
         /\ intent[p].attempt \in Nat /\ intent[p].code \in Codes
         /\ intent[p] # NoIntent => intent[p].status \in IntentStatuses
         /\ intent \in [Proposals -> [status : IntentStatuses \cup {"absent"},
                                      attempt : Nat, code : Codes]]
BY DEF TypeInv, TypeOK

\* claimWritebackIntent preserves it.
LEMMA ClaimIntentType ==
  ASSUME TypeInv, NEW x \in Processes, ClaimWritebackIntent(x)
  PROVE  TypeInv'
<1> DEFINE p == proc[x].p
           i == intent[p]
           j == [status |-> "intent_recorded", attempt |-> proc[x].attempt, code |-> "none"]
<1>1. proc[x].pc = "apply" /\ p \in Proposals /\ Authority = "runner_ledger"
  BY ProcFields DEF ClaimWritebackIntent, At, Sound
<1>2. j \in [status : IntentStatuses, attempt : Nat, code : Codes]
  BY ProcFields DEF IntentStatuses, Codes
<1>3. Sound([proc[x] EXCEPT !.pc = "mark"]) /\ "mark" \in Pcs
  BY <1>1, ProcFields DEF Sound, Process, Pcs
<1>4. {"failed", "conflict", "already_applied", "reconciliation_required"} \subseteq Results \ {"none"}
  BY DEF Results
<1>5. {"none", "retryable", "unknown"} \subseteq Codes
  BY DEF Codes
<1>6. \/ Goto(x, "mark")
      \/ \E r \in Results \ {"none"}, c \in Codes : WithResult(x, "receipt", r, c)
  <2>1. CASE i = NoIntent
    BY <2>1 DEF ClaimWritebackIntent
  <2>2. CASE i # NoIntent
    <3>1. i.status \in IntentStatuses /\ i.code \in Codes
      BY <1>1, <2>2, IntentFields
    <3>2. i.attempt = proc[x].attempt =>
            i.status \in {"intent_recorded", "applying", "reconciliation_required", "applied",
                          "already_applied", "conflict", "failed"}
      BY <3>1 DEF IntentStatuses, Results
    <3> QED BY <1>4, <1>5, <2>2, <3>1, <3>2 DEF ClaimWritebackIntent
  <2> QED BY <2>1, <2>2
<1>7. proc' \in [Processes -> Process] /\ \A y \in Processes : Sound(proc'[y])
  BY <1>1, <1>3, <1>6, GotoStep, WithResultStep
<1>8. intent' = intent \/ intent' = [intent EXCEPT ![p] = j]
  BY DEF ClaimWritebackIntent
<1> QED BY <1>1, <1>2, <1>7, <1>8, IntentFrame DEF ClaimWritebackIntent

\* UPDATE of an existing intent row.
LEMMA UpdateIntentType ==
  ASSUME TypeInv, NEW p \in Proposals, NEW status \in IntentStatuses, NEW code \in Codes
  PROVE  [status |-> status, attempt |-> intent[p].attempt, code |-> code]
           \in [status : IntentStatuses, attempt : Nat, code : Codes]
BY IntentFields

\* Marking and completing the intent preserve it.
LEMMA IntentType ==
  ASSUME TypeInv, NEW x \in Processes,
         MarkWritebackIntentApplying(x) \/ CompleteWritebackIntent(x)
  PROVE  TypeInv'
<1> DEFINE p == proc[x].p
<1>1. {"reconciliation_required", "failed"} \subseteq Results \ {"none"}
      /\ {"unknown", "retryable"} \subseteq Codes /\ {"mutate", "receipt"} \subseteq Pcs
  BY DEF Results, Codes, Pcs
<1>2. {"applying", "reconciliation_required"} \cup (Results \ {"none"}) \subseteq IntentStatuses
  BY DEF IntentStatuses, Results
<1>3. ASSUME p \in Proposals,
             proc' \in [Processes -> Process], \A y \in Processes : Sound(proc'[y]),
             \/ \E st \in IntentStatuses, c \in Codes : UpdateIntent(p, st, c)
             \/ RequireWritebackReconciliation(p)
             \/ UNCHANGED intent,
             UNCHANGED <<queueVars, gate, sourceVars, receipts, mutated, recon>>
      PROVE  TypeInv'
  <2>1. ASSUME NEW st \in IntentStatuses, NEW c \in Codes, UpdateIntent(p, st, c) \/ UNCHANGED intent
        PROVE  TypeInv'
    BY <1>3, <2>1, UpdateIntentType, IntentFrame DEF UpdateIntent
  <2> QED BY <1>1, <1>2, <1>3, <2>1, IntentFields DEF RequireWritebackReconciliation
<1>4. CASE MarkWritebackIntentApplying(x)
  <2>1. proc[x].pc = "mark" /\ p \in Proposals /\ Authority = "runner_ledger"
    BY <1>4, ProcFields DEF MarkWritebackIntentApplying, At, Sound
  <2>2. Sound([proc[x] EXCEPT !.pc = "mutate"])
    BY <2>1, ProcFields DEF Sound, Process
  <2>3. proc' \in [Processes -> Process] /\ \A y \in Processes : Sound(proc'[y])
    BY <1>1, <1>4, <2>1, <2>2, GotoStep, WithResultStep DEF MarkWritebackIntentApplying
  <2> QED BY <1>2, <1>3, <1>4, <2>1, <2>3, IntentFields DEF MarkWritebackIntentApplying
<1>5. CASE CompleteWritebackIntent(x)
  <2>1. proc[x].pc = "complete" /\ p \in Proposals /\ proc[x].res \in Results \ {"none"}
    BY <1>5, ProcFields DEF CompleteWritebackIntent, At, Sound
  <2>2. Sound([proc[x] EXCEPT !.pc = "receipt"])
    BY <2>1, ProcFields DEF Sound, Process
  <2>3. proc' \in [Processes -> Process] /\ \A y \in Processes : Sound(proc'[y])
    BY <1>1, <1>5, <2>1, <2>2, GotoStep, WithResultStep DEF CompleteWritebackIntent
  <2> QED BY <1>2, <1>3, <1>5, <2>1, <2>3, ProcFields DEF CompleteWritebackIntent
<1> QED BY <1>4, <1>5

\* recordExecutionReceiptRows, by a process or by an operator.
LEMMA RecordRowsType ==
  ASSUME TypeInv, NEW p \in Proposals, NEW attempt \in Nat, NEW status \in Results,
         NEW code \in Codes, NEW saw \in BOOLEAN,
         RecordRows(p, attempt, status, code, saw)
  PROVE  /\ receipts' \in [Proposals -> Seq(Receipt)]
         /\ pstate' \in [Proposals -> States]
         /\ mutated' \in [Proposals -> BOOLEAN]
<1>1. /\ receipts \in [Proposals -> Seq(Receipt)] /\ pstate \in [Proposals -> States]
      /\ mutated \in [Proposals -> BOOLEAN]
  BY DEF TypeInv, TypeOK, QueueTypeOK
<1>2. StateFromReceipt(status) \in States
  BY DEF StateFromReceipt, States
<1>3. pstate' \in [Proposals -> States]
  BY <1>1, <1>2 DEF RecordRows
<1>4. mutated' \in [Proposals -> BOOLEAN]
  <2>1. (status = "applied" \/ saw) \in BOOLEAN
    OBVIOUS
  <2> QED BY <1>1, <2>1, Zenon DEF RecordRows
<1>5. receipts' \in [Proposals -> Seq(Receipt)]
  <2>1. [attempt |-> attempt, status |-> status, code |-> code] \in Receipt
    BY DEF Receipt
  <2>2. Append(receipts[p], [attempt |-> attempt, status |-> status, code |-> code]) \in Seq(Receipt)
    BY <1>1, <2>1
  <2>3. receipts' = receipts \/ receipts' = [receipts EXCEPT ![p] =
          Append(receipts[p], [attempt |-> attempt, status |-> status, code |-> code])]
    BY <1>1 DEF RecordRows
  <2> QED BY <1>1, <2>2, <2>3
<1> QED BY <1>3, <1>4, <1>5

\* recordExecutionReceipt preserves it.
LEMMA RecordType ==
  ASSUME TypeInv, NEW x \in Processes, RecordExecutionReceipt(x)
  PROVE  TypeInv'
<1> DEFINE p == proc[x].p
           s == [Idle EXCEPT !.pc = "outcome", !.p = p, !.lease = proc[x].lease]
<1>1. proc[x].pc = "record" /\ p \in Proposals
  BY ProcFields DEF RecordExecutionReceipt, At, Sound
<1>2. s \in Process /\ Sound(s)
  BY <1>1, ProcFields DEF Idle, Process, Pcs, States, Results, Codes, Sound
<1>3. proc' = [proc EXCEPT ![x] = s] \/ proc' = [proc EXCEPT ![x] = Idle]
  BY DEF RecordExecutionReceipt
<1>4. proc' \in [Processes -> Process] /\ \A y \in Processes : Sound(proc'[y])
  BY <1>2, <1>3, IdleType, ProcStep
<1>5. RecordRows(p, proc[x].attempt, proc[x].res, proc[x].code, proc[x].sawMutated)
  BY DEF RecordExecutionReceipt
<1>6. /\ receipts' \in [Proposals -> Seq(Receipt)] /\ pstate' \in [Proposals -> States]
      /\ mutated' \in [Proposals -> BOOLEAN]
  BY <1>1, <1>5, ProcFields, RecordRowsType
<1> QED BY <1>4, <1>6 DEF RecordExecutionReceipt, TypeInv, TypeOK, QueueTypeOK, sourceVars, Sound

\* The error code of the last stored receipt is a code.
LEMMA LastReceiptType ==
  ASSUME TypeInv, NEW p \in Proposals
  PROVE  LastReceipt(p).code \in Codes
<1>1. receipts[p] \in Seq(Receipt)
  BY DEF TypeInv, TypeOK
<1>2. CASE receipts[p] = << >>
  BY <1>2 DEF LastReceipt, Codes
<1>3. CASE receipts[p] # << >>
  <2>1. receipts[p][Len(receipts[p])] \in Receipt
    BY <1>1, <1>3
  <2> QED BY <1>3, <2>1 DEF LastReceipt, Receipt
<1> QED BY <1>2, <1>3

\* Reading the outcome and closing the queue row preserve the type invariant.
LEMMA OutcomeType ==
  ASSUME TypeInv, NEW w \in Workers, ReadOutcome(w) \/ Finish(w)
  PROVE  TypeInv'
<1> w \in Processes
  BY DEF Processes
<1> QueueTypeOK
  BY DEF TypeInv, TypeOK
<1> DEFINE p == proc[w].p
           n == proc[w].lease
           res == proc[w].res
<1>1. CASE ReadOutcome(w)
  <2>1. proc[w].pc = "outcome" /\ p \in Proposals
    BY <1>1, ProcFields DEF ReadOutcome, At, Sound
  <2>2. LastReceipt(p).code \in Codes /\ "fatal" \in Codes /\ "none" \in Codes
    BY <2>1, LastReceiptType DEF Codes
  <2>3. {"applied", "already_applied", "conflict", "reconciliation_required", "failed"}
          \subseteq Results \ {"none"}
    BY DEF Results
  <2>4. \E r \in Results \ {"none"}, c \in Codes : WithResult(w, "finish", r, c)
    BY <1>1, <2>2, <2>3 DEF ReadOutcome
  <2>5. proc' \in [Processes -> Process] /\ \A y \in Processes : Sound(proc'[y])
    BY <2>1, <2>4, WithResultStep
  <2> QED BY <1>1, <2>5, SameQueueType, FrameStep DEF ReadOutcome
<1>2. CASE Finish(w)
  <2>1. proc[w].pc = "finish" /\ p \in Proposals /\ proc[w].code \in Codes
    BY <1>2, ProcFields DEF Finish, At, Sound
  <2>2. {"applied", "already_applied", "conflict"} \subseteq Outcomes
        /\ {"blocked", "dead_letter", "reconciliation_required"} \subseteq Statuses \cap Outcomes
        /\ "unknown" \in Codes
    BY DEF Outcomes, Statuses, Codes
  <2>3. QueueTypeOK'
    <3>1. CASE HoldsLease(w, p, n)
      <4>1. CASE res \in {"applied", "already_applied", "conflict"}
        BY <1>2, <2>1, <2>2, <3>1, <4>1, LeaseHolderType DEF Finish
      <4>2. CASE res = "reconciliation_required"
        BY <1>2, <2>1, <2>2, <3>1, <4>2, LeaseHolderType DEF Finish
      <4>3. CASE res \notin {"applied", "already_applied", "conflict", "reconciliation_required"}
        BY <1>2, <2>1, <2>2, <3>1, <4>3, LeaseHolderType DEF Finish, FinishWorkerFailure
      <4> QED BY <4>1, <4>2, <4>3
    <3>2. CASE ~HoldsLease(w, p, n)
      BY <1>2, <3>2, SameQueueType DEF Finish
    <3> QED BY <3>1, <3>2
  <2>4. proc' \in [Processes -> Process] /\ \A y \in Processes : Sound(proc'[y])
    BY <1>2, IdleType, ProcStep DEF Finish
  <2> QED BY <1>2, <2>3, <2>4, FrameStep DEF Finish
<1> QED BY <1>1, <1>2

\* The operator's reconcileWritebackIntent preserves it.
LEMMA ReconcileType ==
  ASSUME TypeInv, ReconcileWritebackIntent
  PROVE  TypeInv'
<1> DEFINE p == recon.p
           out == recon.outcome
           code == IF out = "applied" THEN "none" ELSE "fatal"
<1>1. p \in Proposals /\ out \in {"applied", "failed", "conflict"}
  BY DEF ReconcileWritebackIntent, TypeInv, TypeOK
<1>2. code \in Codes /\ out \in Results /\ out \in IntentStatuses
  BY <1>1 DEF Codes, Results, IntentStatuses
<1>3. /\ intent' \in [Proposals -> [status : IntentStatuses \cup {"absent"}, attempt : Nat, code : Codes]]
      /\ \A q \in Proposals : intent'[q].status = "absent" => intent'[q] = NoIntent
  <2> DEFINE j == [status |-> out, attempt |-> intent[p].attempt, code |-> code]
  <2>1. j \in [status : IntentStatuses, attempt : Nat, code : Codes] /\ j.status # "absent"
    BY <1>1, <1>2, UpdateIntentType DEF IntentStatuses
  <2>2. intent' = [intent EXCEPT ![p] = j]
    BY DEF ReconcileWritebackIntent, UpdateIntent
  <2> HIDE DEF j
  <2>3. \A q \in Proposals : intent'[q] = IF q = p THEN j ELSE intent[q]
    BY <2>2 DEF TypeInv, TypeOK
  <2> QED BY <1>1, <2>1, <2>2, <2>3 DEF TypeInv, TypeOK
<1>4. /\ receipts' \in [Proposals -> Seq(Receipt)] /\ pstate' \in [Proposals -> States]
      /\ mutated' \in [Proposals -> BOOLEAN]
  <2>1. RecordRows(p, intent[p].attempt, out, code, mutated[p])
    BY DEF ReconcileWritebackIntent
  <2>2. intent[p].attempt \in Nat /\ mutated[p] \in BOOLEAN
    BY <1>1, IntentFields DEF TypeInv, TypeOK
  <2> QED BY <1>1, <1>2, <2>1, <2>2, RecordRowsType
<1>5. queue' \in [Proposals -> Row] /\ recent' \subseteq Proposals
  <2>1. queue \in [Proposals -> Row] /\ recent \subseteq Proposals
    BY DEF TypeInv, TypeOK, QueueTypeOK
  <2>2. /\ Released(queue[p], "dead_letter", "fatal", "dead_letter") \in Row
        /\ out # "failed" => Released(queue[p], "completed", "none", out) \in Row
    BY <1>1, <2>1, ReleasedType DEF Statuses, Codes, Outcomes
  <2> QED BY <1>1, <2>1, <2>2 DEF ReconcileWritebackIntent
<1> QED BY <1>3, <1>4, <1>5
        DEF ReconcileWritebackIntent, TypeInv, TypeOK, QueueTypeOK, sourceVars, Sound

\* Operators at their prompts, other applications, time and crashes.
LEMMA EnvironmentType ==
  ASSUME TypeInv,
         \/ \E o \in Operators, p \in Proposals : ManualApply(o, p)
         \/ \E p \in Proposals : ObserveSource(p)
         \/ AbandonReconciliation
         \/ QueueCall
         \/ ToggleGate
         \/ Time
         \/ \E r \in Rows : ExternalWrite(r)
         \/ \E x \in Processes : Crash(x)
  PROVE  TypeInv'
<1> QueueTypeOK
  BY DEF TypeInv, TypeOK
<1>0. ASSUME UNCHANGED proc
      PROVE  proc' \in [Processes -> Process] /\ \A y \in Processes : Sound(proc'[y])
  BY <1>0 DEF TypeInv, TypeOK
<1>1. ASSUME NEW o \in Operators, NEW p \in Proposals, ManualApply(o, p) PROVE TypeInv'
  <2> DEFINE s == [Idle EXCEPT !.pc = "read", !.p = p, !.attempt = 1]
  <2>1. s \in Process /\ Sound(s) /\ o \in Processes
    BY DEF Idle, Process, Pcs, States, Results, Codes, Sound, Processes
  <2>2. proc' \in [Processes -> Process] /\ \A y \in Processes : Sound(proc'[y])
    BY <1>1, <2>1, ProcStep DEF ManualApply
  <2> QED BY <1>1, <2>2, SameQueueType, FrameStep DEF ManualApply
<1>2. ASSUME NEW p \in Proposals, ObserveSource(p) PROVE TypeInv'
  <2>1. SupportedOutcome(p) \in {"applied", "failed", "conflict"}
    BY DEF SupportedOutcome
  <2>2. recon' \in [p : Proposals, outcome : {"applied", "failed", "conflict"}]
    BY <1>2, <2>1 DEF ObserveSource
  <2>3. QueueTypeOK'
    BY <1>2, SameQueueType DEF ObserveSource
  <2> QED BY <1>2, <2>2, <2>3 DEF ObserveSource, TypeInv, TypeOK, sourceVars, ledgerVars, Sound
<1>3. CASE AbandonReconciliation
  <2>1. QueueTypeOK'
    BY <1>3, SameQueueType DEF AbandonReconciliation
  <2> QED BY <1>3, <2>1 DEF AbandonReconciliation, TypeInv, TypeOK, sourceVars, ledgerVars, Sound
<1>4. CASE QueueCall
  <2>1. \A p : ProvenEffect(p) \in BOOLEAN
    BY DEF ProvenEffect
  <2>2. QueueTypeOK'
    BY <1>4, <2>1, CallsType DEF QueueCall
  <2> QED BY <1>0, <1>4, <2>2, FrameStep DEF QueueCall
<1>5. CASE ToggleGate
  <2>1. QueueTypeOK'
    BY <1>5, SameQueueType DEF ToggleGate
  <2>2. gate' \in BOOLEAN
    BY <1>5 DEF ToggleGate
  <2> QED BY <1>5, <2>1, <2>2 DEF ToggleGate, TypeInv, TypeOK, sourceVars, ledgerVars, Sound
<1>6. CASE Time
  <2>1. QueueTypeOK'
    BY <1>6, TimeType DEF Time
  <2> QED BY <1>0, <1>6, <2>1, FrameStep DEF Time
<1>7. ASSUME NEW r \in Rows, ExternalWrite(r) PROVE TypeInv'
  <2>1. version' \in [Rows -> Nat] /\ writer' \in [Rows -> Proposals \cup {NoProposal}]
        /\ effects' \in [Proposals -> Nat] /\ srcReceipt' \in [Proposals -> Results]
    BY <1>7 DEF ExternalWrite, TypeInv, TypeOK
  <2> QED BY <1>0, <1>7, <2>1, SourceFrame DEF ExternalWrite
<1>8. ASSUME NEW x \in Processes, Crash(x) PROVE TypeInv'
  <2>1. proc' \in [Processes -> Process] /\ \A y \in Processes : Sound(proc'[y])
    BY <1>8, IdleType, ProcStep DEF Crash
  <2> QED BY <1>8, <2>1, SameQueueType, FrameStep DEF Crash
<1> QED BY <1>1, <1>2, <1>3, <1>4, <1>5, <1>6, <1>7, <1>8

\* Every step preserves the type invariant.
LEMMA TypeStep == TypeInv /\ [Next]_vars => TypeInv'
<1> SUFFICES ASSUME TypeInv, [Next]_vars PROVE TypeInv'
  OBVIOUS
<1>1. ASSUME NEW w \in Workers, WorkerStep(w) PROVE TypeInv'
  BY <1>1, WorkerTurnType, PreflightType, OutcomeType DEF WorkerStep
<1>2. ASSUME NEW x \in Processes, ApplyStep(x) PROVE TypeInv'
  BY <1>2, JobType, SourceType, ClaimIntentType, IntentType, RecordType DEF ApplyStep
<1>3. CASE UNCHANGED vars
  <2>1. QueueTypeOK'
    BY <1>3, SameQueueType DEF vars
  <2> QED BY <1>3, <2>1 DEF vars, TypeInv, TypeOK, sourceVars, ledgerVars, Sound
<1> QED BY <1>1, <1>2, <1>3, EnvironmentType, ReconcileType DEF Next

\* Every reachable state of the queue, the processes, the source and the
\* ledger is well typed.
THEOREM TypeCorrect == Spec => []TypeOK
<1>1. TypeInv => TypeOK
  BY DEF TypeInv
<1> QED BY <1>1, InitType, TypeStep, PTL DEF Spec

-----------------------------------------------------------------------------
(***************************************************************************)
(* At most one mutation.  AtMostOnce alone is not inductive: what stops a  *)
(* second mutation is the evidence the first one left in its own source    *)
(* transaction, the completed receipt row (source_db) or the advanced      *)
(* version that no later step takes back (runner_ledger).                  *)
(***************************************************************************)

Evidence(p) ==
  \/ Authority = "source_db" /\ srcReceipt[p] = "applied"
  \/ Authority = "runner_ledger" /\ version[Target[p]] > ReviewedVersion

EffectInv == \A p \in Proposals : effects[p] = 0 \/ (effects[p] = 1 /\ Evidence(p))

\* Only the source transaction and other applications touch the source.
LEMMA SourceSteps ==
  ASSUME [Next]_vars
  PROVE  \/ UNCHANGED sourceVars
         \/ \E x \in Processes : ApplyWithSourceReceipt(x) \/ ApplyWithIntent(x)
         \/ \E r \in Rows : ExternalWrite(r)
<1>1. ASSUME NEW w \in Workers, WorkerStep(w) PROVE UNCHANGED sourceVars
  BY <1>1 DEF WorkerStep, Poll, ClaimTurn, Claim, ClaimNothing, Preflight, ReadClock, Renew, ReadOutcome,
              Finish
<1>2. ASSUME NEW x \in Processes, ApplyStep(x)
      PROVE  UNCHANGED sourceVars \/ ApplyWithSourceReceipt(x) \/ ApplyWithIntent(x)
  BY <1>2 DEF ApplyStep, ReadProposal, CreateJob, Verify, ConnectionFails, ClaimWritebackIntent,
              MarkWritebackIntentApplying, CompleteWritebackIntent, ReadForReceipt,
              RecordExecutionReceipt
<1>3. CASE \/ \E o \in Operators, p \in Proposals : ManualApply(o, p)
           \/ \E p \in Proposals : ObserveSource(p)
           \/ ReconcileWritebackIntent \/ AbandonReconciliation
           \/ QueueCall \/ ToggleGate \/ Time \/ \E x \in Processes : Crash(x)
  BY <1>3 DEF ManualApply, ObserveSource, ReconcileWritebackIntent, AbandonReconciliation,
              QueueCall, ToggleGate, Time, Crash
<1>4. CASE UNCHANGED vars
  BY <1>4 DEF vars
<1> QED BY <1>1, <1>2, <1>3, <1>4 DEF Next

\* What mutatePostgres does to the row and to the count of effects.
LEMMA MutationStep ==
  ASSUME TypeInv, NEW p \in Proposals, NEW out \in MutationOutcomes(p), Mutates(p, out)
  PROVE  /\ out = "applied" => /\ version[Target[p]] = ReviewedVersion
                               /\ \A q \in Proposals : effects'[q] = IF q = p THEN effects[q] + 1 ELSE effects[q]
                               /\ VersionAdvances => version'[Target[p]] > ReviewedVersion
         /\ out # "applied" => UNCHANGED effects
         /\ \A r \in Rows : version'[r] >= version[r]
<1>1. Target[p] \in Rows /\ version \in [Rows -> Nat] /\ effects \in [Proposals -> Nat]
  BY WritebackAssumption DEF TypeInv, TypeOK
<1>2. CASE out = "applied"
  <2>1. version[Target[p]] = ReviewedVersion
    BY <1>2 DEF MutationOutcomes
  <2>2. \A q \in Proposals : effects'[q] = IF q = p THEN effects[q] + 1 ELSE effects[q]
    BY <1>1, <1>2 DEF Mutates
  <2>3. \A r \in Rows : version'[r] =
          IF r = Target[p] /\ VersionAdvances THEN version[r] + 1 ELSE version[r]
    BY <1>1, <1>2 DEF Mutates
  <2> QED BY <1>1, <1>2, <2>1, <2>2, <2>3 DEF ReviewedVersion
<1>3. CASE out # "applied"
  BY <1>1, <1>3 DEF Mutates
<1> QED BY <1>2, <1>3

\* Every step preserves EffectInv, and a committed effect is never undone.
LEMMA EffectStep ==
  ASSUME TypeInv, EffectInv, [Next]_vars
  PROVE  /\ EffectInv'
         /\ \A q \in Proposals : effects[q] = 1 => effects'[q] = 1
<1> DEFINE Goal == EffectInv' /\ \A q \in Proposals : effects[q] = 1 => effects'[q] = 1
<1>1. /\ Target \in [Proposals -> Rows] /\ version \in [Rows -> Nat]
      /\ effects \in [Proposals -> Nat] /\ srcReceipt \in [Proposals -> Results]
  BY WritebackAssumption DEF TypeInv, TypeOK
<1>2. ASSUME UNCHANGED sourceVars PROVE Goal
  BY <1>2 DEF sourceVars, EffectInv, Evidence
<1>3. ASSUME NEW x \in Processes, ApplyWithSourceReceipt(x) PROVE Goal
  <2> DEFINE p == proc[x].p
  <2>1. Authority = "source_db" /\ p \in Proposals
    BY <1>3, ProcFields DEF ApplyWithSourceReceipt, At, Sound
  <2>2. ASSUME ClaimSourceReceipt(p) = "none", NEW out \in MutationOutcomes(p), Mutates(p, out),
               srcReceipt' = [srcReceipt EXCEPT ![p] = out]
        PROVE  Goal
    <3>1. effects[p] = 0
      BY <2>1, <2>2 DEF ClaimSourceReceipt, EffectInv, Evidence
    <3>2. \A q \in Proposals : srcReceipt'[q] = IF q = p THEN out ELSE srcReceipt[q]
      BY <1>1, <2>1, <2>2
    <3>3. \A q \in Proposals : effects'[q] = IF q = p /\ out = "applied" THEN 1 ELSE effects[q]
      BY <2>1, <2>2, <3>1, MutationStep
    <3> QED BY <2>1, <3>1, <3>2, <3>3 DEF EffectInv, Evidence
  <2> QED BY <1>2, <1>3, <2>2 DEF ApplyWithSourceReceipt, NotCommitted
<1>4. ASSUME NEW x \in Processes, ApplyWithIntent(x) PROVE Goal
  <2> DEFINE p == proc[x].p
  <2>1. Authority = "runner_ledger" /\ VersionAdvances /\ p \in Proposals
    BY <1>4, ProcFields, WritebackAssumption DEF ApplyWithIntent, At, Sound
  <2>2. ASSUME NEW out \in MutationOutcomes(p), Mutates(p, out) PROVE Goal
    <3>1. \A q \in Proposals : version'[Target[q]] >= version[Target[q]] /\ version'[Target[q]] \in Nat
      BY <1>1, <2>1, <2>2, MutationStep, MutatesType
    <3>2. CASE out = "applied"
      <4>1. effects[p] = 0
        BY <2>1, <2>2, <3>2, MutationStep DEF EffectInv, Evidence, ReviewedVersion
      <4>2. version'[Target[p]] > ReviewedVersion
        BY <2>1, <2>2, <3>2, MutationStep
      <4>3. \A q \in Proposals : effects'[q] = IF q = p THEN 1 ELSE effects[q]
        BY <2>1, <2>2, <3>2, <4>1, MutationStep
      <4> QED BY <1>1, <2>1, <3>1, <4>2, <4>3 DEF EffectInv, Evidence, ReviewedVersion
    <3>3. CASE out # "applied"
      <4>1. effects' = effects
        BY <2>1, <2>2, <3>3, MutationStep
      <4> QED BY <1>1, <2>1, <3>1, <4>1 DEF EffectInv, Evidence, ReviewedVersion
    <3> QED BY <3>2, <3>3
  <2> QED BY <1>2, <1>4, <2>2 DEF ApplyWithIntent, NotCommitted
<1>5. ASSUME NEW r \in Rows, ExternalWrite(r) PROVE Goal
  <2>1. \A q \in Proposals : version'[Target[q]] >= version[Target[q]] /\ version'[Target[q]] \in Nat
    BY <1>1, <1>5 DEF ExternalWrite
  <2> QED BY <1>1, <1>5, <2>1 DEF ExternalWrite, EffectInv, Evidence, ReviewedVersion
<1> QED BY <1>2, <1>3, <1>4, <1>5, SourceSteps

\* Delivery may repeat, mutation does not: for any number of workers,
\* operators, retries and crashes, and for both receipt authorities, the
\* source is mutated at most once for a proposal.
THEOREM MutatesAtMostOnce == Spec => []AtMostOnce
<1>1. Init => EffectInv
  BY DEF Init, EffectInv
<1>2. TypeInv /\ EffectInv /\ [Next]_vars => EffectInv'
  BY EffectStep
<1>3. EffectInv => AtMostOnce
  BY DEF EffectInv, AtMostOnce
<1> QED BY <1>1, <1>2, <1>3, InitType, TypeStep, PTL DEF Spec

-----------------------------------------------------------------------------
(***************************************************************************)
(* One winner per reviewed version.  The statement becomes inductive with  *)
(* the fact that an effect moved its row past the reviewed version, which  *)
(* the guard of every later mutation of that row then finds.               *)
(***************************************************************************)

WinnerInv ==
  VersionAdvances =>
    /\ OneWinnerPerVersion
    /\ \A p \in Proposals : effects[p] > 0 => version[Target[p]] > ReviewedVersion

\* Every step preserves WinnerInv.
LEMMA WinnerStep ==
  ASSUME TypeInv, EffectInv, WinnerInv, [Next]_vars
  PROVE  WinnerInv'
<1> SUFFICES ASSUME VersionAdvances PROVE WinnerInv'
  BY DEF WinnerInv
<1>1. /\ Target \in [Proposals -> Rows] /\ version \in [Rows -> Nat]
      /\ effects \in [Proposals -> Nat]
  BY WritebackAssumption DEF TypeInv, TypeOK
<1>2. ASSUME UNCHANGED effects,
             \A q \in Proposals : version'[Target[q]] >= version[Target[q]] /\ version'[Target[q]] \in Nat
      PROVE  WinnerInv'
  BY <1>1, <1>2 DEF WinnerInv, OneWinnerPerVersion, ReviewedVersion
<1>3. ASSUME NEW p \in Proposals, NEW out \in MutationOutcomes(p), Mutates(p, out) PROVE WinnerInv'
  <2>1. \A q \in Proposals : version'[Target[q]] >= version[Target[q]] /\ version'[Target[q]] \in Nat
    BY <1>1, <1>3, MutationStep, MutatesType
  <2>2. CASE out = "applied"
    <3>1. \A q \in Proposals : Target[q] = Target[p] => effects[q] = 0
      BY <1>1, <1>3, <2>2, MutationStep DEF WinnerInv, ReviewedVersion
    <3>2. \A q \in Proposals : effects'[q] = IF q = p THEN effects[q] + 1 ELSE effects[q]
      BY <1>3, <2>2, MutationStep
    <3>3. version'[Target[p]] > ReviewedVersion
      BY <1>3, <2>2, MutationStep
    <3>4. OneWinnerPerVersion'
      BY <1>1, <3>1, <3>2 DEF WinnerInv, OneWinnerPerVersion
    <3> QED BY <1>1, <2>1, <3>2, <3>3, <3>4 DEF WinnerInv, ReviewedVersion
  <2>3. CASE out # "applied"
    BY <1>2, <1>3, <2>1, <2>3, MutationStep
  <2> QED BY <2>2, <2>3
<1>4. CASE UNCHANGED sourceVars
  BY <1>1, <1>2, <1>4 DEF sourceVars
<1>5. ASSUME NEW x \in Processes, ApplyWithSourceReceipt(x) \/ ApplyWithIntent(x) PROVE WinnerInv'
  <2>1. proc[x].p \in Proposals
    BY <1>5, ProcFields DEF ApplyWithSourceReceipt, ApplyWithIntent, At, Sound
  <2> QED BY <1>3, <1>4, <1>5, <2>1 DEF ApplyWithSourceReceipt, ApplyWithIntent, NotCommitted
<1>6. ASSUME NEW r \in Rows, ExternalWrite(r) PROVE WinnerInv'
  <2>1. \A q \in Proposals : version'[Target[q]] >= version[Target[q]] /\ version'[Target[q]] \in Nat
    BY <1>1, <1>6 DEF ExternalWrite
  <2> QED BY <1>2, <1>6, <2>1 DEF ExternalWrite
<1> QED BY <1>4, <1>5, <1>6, SourceSteps

\* Of any number of proposals reviewed at the same version of one row at most
\* one takes effect, whoever applies them and in whatever order.
THEOREM OneWinner == Spec => []OneWinnerPerVersion
<1>1. Init => EffectInv /\ WinnerInv
  BY DEF Init, EffectInv, WinnerInv, OneWinnerPerVersion
<1>2. TypeInv /\ EffectInv /\ WinnerInv /\ [Next]_vars => EffectInv' /\ WinnerInv'
  BY EffectStep, WinnerStep
<1>3. WinnerInv => OneWinnerPerVersion
  BY DEF WinnerInv, OneWinnerPerVersion
<1> QED BY <1>1, <1>2, <1>3, InitType, TypeStep, PTL DEF Spec

-----------------------------------------------------------------------------
(***************************************************************************)
(* Honest ledger claims.  A claim of success reaches the ledger through a  *)
(* process's result, its read of the mutated flag, the source receipt, the *)
(* intent or an operator's observation of the row: each of these already   *)
(* stands for a committed effect.                                          *)
(***************************************************************************)

Success == {"applied", "already_applied"}

Honest(s) ==
  /\ s.res \in Success => s.p \in Proposals /\ effects[s.p] = 1
  /\ s.sawMutated => s.p \in Proposals /\ effects[s.p] = 1

SourceHonest ==
  /\ \A p \in Proposals : srcReceipt[p] \in Success => srcReceipt[p] = "applied" /\ effects[p] = 1
  /\ \A p \in Proposals : \A r \in Rows : writer[r] = p => effects[p] = 1

IntentHonest ==
  /\ \A p \in Proposals : intent[p].status \in Success => effects[p] = 1
  /\ recon.outcome = "applied" => effects[recon.p] = 1

HonestInv ==
  /\ LedgerClaimsAreReal
  /\ \A x \in Processes : Honest(proc[x])
  /\ SourceHonest
  /\ IntentHonest

\* What every step of the induction may use.
LEMMA Grows ==
  ASSUME TypeInv, EffectInv, [Next]_vars
  PROVE  /\ TypeInv' /\ EffectInv'
         /\ \A q \in Proposals : effects[q] = 1 => effects'[q] = 1
BY TypeStep, EffectStep

\* Rewriting the record of one process by an honest one.
LEMMA HonestProc ==
  ASSUME TypeInv, NEW x \in Processes, NEW s, proc' = [proc EXCEPT ![x] = s],
         \A y \in Processes : Honest(proc[y]),
         \A q \in Proposals : effects[q] = 1 => effects'[q] = 1,
         s.res \in Success => s.p \in Proposals /\ effects'[s.p] = 1,
         s.sawMutated => s.p \in Proposals /\ effects'[s.p] = 1
  PROVE  \A y \in Processes : Honest(proc[y])'
<1>1. \A y \in Processes : proc'[y] = IF y = x THEN s ELSE proc[y]
  BY DEF TypeInv, TypeOK
<1> QED BY <1>1 DEF Honest

\* A process that only moves on still carries a true result.
LEMMA HonestGoto ==
  ASSUME TypeInv, NEW x \in Processes, NEW pc, Goto(x, pc),
         \A y \in Processes : Honest(proc[y]),
         \A q \in Proposals : effects[q] = 1 => effects'[q] = 1
  PROVE  \A y \in Processes : Honest(proc[y])'
<1> DEFINE s == [proc[x] EXCEPT !.pc = pc]
<1>1. proc' = [proc EXCEPT ![x] = s]
  BY DEF Goto, TypeInv, TypeOK
<1>2. s.res = proc[x].res /\ s.p = proc[x].p /\ s.sawMutated = proc[x].sawMutated
  BY ProcFields DEF Process
<1>3. Honest(proc[x])
  OBVIOUS
<1> HIDE DEF s
<1> QED BY <1>1, <1>2, <1>3, HonestProc DEF Honest

\* A process given a success by a step that committed it carries a true result.
LEMMA HonestResult ==
  ASSUME TypeInv, NEW x \in Processes, NEW pc, NEW res, NEW code, WithResult(x, pc, res, code),
         \A y \in Processes : Honest(proc[y]),
         \A q \in Proposals : effects[q] = 1 => effects'[q] = 1,
         res \in Success => proc[x].p \in Proposals /\ effects'[proc[x].p] = 1
  PROVE  \A y \in Processes : Honest(proc[y])'
<1> DEFINE s == [proc[x] EXCEPT !.pc = pc, !.res = res, !.code = code]
<1>1. proc' = [proc EXCEPT ![x] = s]
  BY DEF WithResult, TypeInv, TypeOK
<1>2. s.res = res /\ s.p = proc[x].p /\ s.sawMutated = proc[x].sawMutated
  BY ProcFields DEF Process
<1>3. Honest(proc[x])
  OBVIOUS
<1> HIDE DEF s
<1> QED BY <1>1, <1>2, <1>3, HonestProc DEF Honest

\* An exception carries no success.
LEMMA HonestThrow ==
  ASSUME TypeInv, NEW x \in Processes, NEW code, Throw(x, code),
         \A y \in Processes : Honest(proc[y]),
         \A q \in Proposals : effects[q] = 1 => effects'[q] = 1
  PROVE  \A y \in Processes : Honest(proc[y])'
<1>1. CASE x \in Workers
  BY <1>1, HonestResult DEF Throw, Success
<1>2. CASE x \notin Workers
  BY <1>2, HonestProc DEF Throw, Idle, Success
<1> QED BY <1>1, <1>2

-----------------------------------------------------------------------------

\* The source: a mutation writes its proposal's values, and its receipt says
\* applied exactly then.
LEMMA SourceHonestStep ==
  ASSUME TypeInv, EffectInv, SourceHonest, [Next]_vars
  PROVE  SourceHonest'
<1>1. \A q \in Proposals : effects[q] = 1 => effects'[q] = 1
  BY Grows
<1>2. /\ Target \in [Proposals -> Rows] /\ effects \in [Proposals -> Nat]
      /\ writer \in [Rows -> Proposals \cup {NoProposal}] /\ srcReceipt \in [Proposals -> Results]
  BY WritebackAssumption DEF TypeInv, TypeOK
<1>3. ASSUME NEW p \in Proposals, NEW out \in MutationOutcomes(p), Mutates(p, out)
      PROVE  /\ out = "applied" => effects'[p] = 1
             /\ \A q \in Proposals : \A r \in Rows : writer'[r] = q => effects'[q] = 1
  <2>1. out = "applied" => effects'[p] = 1
    <3>1. EffectInv'
      BY Grows
    <3>2. out = "applied" => effects'[p] = effects[p] + 1
      BY <1>3, MutationStep
    <3> QED BY <1>2, <3>1, <3>2 DEF EffectInv
  <2>2. CASE out = "applied"
    <3>1. \A r \in Rows : writer'[r] = IF r = Target[p] THEN p ELSE writer[r]
      BY <1>2, <1>3, <2>2 DEF Mutates
    <3> QED BY <1>1, <2>1, <2>2, <3>1 DEF SourceHonest
  <2>3. CASE out # "applied"
    BY <1>1, <1>3, <2>3 DEF Mutates, SourceHonest
  <2> QED BY <2>1, <2>2, <2>3
<1>4. ASSUME UNCHANGED sourceVars PROVE SourceHonest'
  BY <1>4 DEF sourceVars, SourceHonest
<1>5. ASSUME NEW x \in Processes, ApplyWithSourceReceipt(x) PROVE SourceHonest'
  <2> DEFINE p == proc[x].p
  <2>1. p \in Proposals
    BY <1>5, ProcFields DEF ApplyWithSourceReceipt, At, Sound
  <2>2. ASSUME NEW out \in MutationOutcomes(p), Mutates(p, out),
               srcReceipt' = [srcReceipt EXCEPT ![p] = out]
        PROVE  SourceHonest'
    <3>1. \A q \in Proposals : srcReceipt'[q] = IF q = p THEN out ELSE srcReceipt[q]
      BY <1>2, <2>1, <2>2
    <3>2. out \in Success => out = "applied"
      BY MutationOutcomesType DEF Success
    <3> QED BY <1>1, <1>3, <2>1, <2>2, <3>1, <3>2 DEF SourceHonest
  <2> QED BY <1>4, <1>5, <2>2 DEF ApplyWithSourceReceipt, NotCommitted
<1>6. ASSUME NEW x \in Processes, ApplyWithIntent(x) PROVE SourceHonest'
  <2> DEFINE p == proc[x].p
  <2>1. p \in Proposals
    BY <1>6, ProcFields DEF ApplyWithIntent, At, Sound
  <2>2. ASSUME NEW out \in MutationOutcomes(p), Mutates(p, out), UNCHANGED srcReceipt
        PROVE  SourceHonest'
    BY <1>1, <1>3, <2>1, <2>2 DEF SourceHonest
  <2> QED BY <1>4, <1>6, <2>2 DEF ApplyWithIntent, NotCommitted
<1>7. ASSUME NEW r \in Rows, ExternalWrite(r) PROVE SourceHonest'
  <2>1. \A t \in Rows : writer'[t] = IF t = r THEN NoProposal ELSE writer[t]
    BY <1>2, <1>7 DEF ExternalWrite
  <2> QED BY <1>7, <2>1, QueueAssumption DEF ExternalWrite, SourceHonest
<1> QED BY <1>4, <1>5, <1>6, <1>7, SourceSteps

\* The steps that write an intent or an operator's observation.
LEMMA IntentSteps ==
  ASSUME [Next]_vars
  PROVE  \/ UNCHANGED <<intent, recon>>
         \/ \E x \in Processes : \/ ClaimWritebackIntent(x)
                                 \/ MarkWritebackIntentApplying(x)
                                 \/ CompleteWritebackIntent(x)
         \/ \E p \in Proposals : ObserveSource(p)
         \/ ReconcileWritebackIntent
         \/ AbandonReconciliation
<1>1. ASSUME NEW w \in Workers, WorkerStep(w) PROVE UNCHANGED <<intent, recon>>
  BY <1>1 DEF WorkerStep, Poll, ClaimTurn, Claim, ClaimNothing, Preflight, ReadClock, Renew,
              ReadOutcome, Finish, ledgerVars
<1>2. ASSUME NEW x \in Processes, ApplyStep(x)
      PROVE  \/ UNCHANGED <<intent, recon>>
             \/ ClaimWritebackIntent(x) \/ MarkWritebackIntentApplying(x) \/ CompleteWritebackIntent(x)
  BY <1>2 DEF ApplyStep, ReadProposal, CreateJob, Verify, ApplyWithSourceReceipt, ApplyWithIntent,
              ConnectionFails, ReadForReceipt, RecordExecutionReceipt, ledgerVars
<1>3. CASE \/ \E o \in Operators, p \in Proposals : ManualApply(o, p)
           \/ QueueCall \/ ToggleGate \/ Time
           \/ \E r \in Rows : ExternalWrite(r)
           \/ \E x \in Processes : Crash(x)
  BY <1>3 DEF ManualApply, QueueCall, ToggleGate, Time, ExternalWrite, Crash, ledgerVars
<1>4. CASE UNCHANGED vars
  BY <1>4 DEF vars, ledgerVars
<1> QED BY <1>1, <1>2, <1>3, <1>4 DEF Next

\* A writeback intent is marked successful only after its effect committed.
LEMMA IntentHonestStep ==
  ASSUME TypeInv, EffectInv, SourceHonest, IntentHonest, [Next]_vars,
         \A x \in Processes : Honest(proc[x])
  PROVE  IntentHonest'
<1>1. \A q \in Proposals : effects[q] = 1 => effects'[q] = 1
  BY Grows
<1>2. recon.outcome = "applied" => recon.p \in Proposals
  BY DEF TypeInv, TypeOK, NoRecon
<1>3. ASSUME UNCHANGED <<intent, recon>> PROVE IntentHonest'
  BY <1>1, <1>2, <1>3 DEF IntentHonest
<1>4. ASSUME NEW p \in Proposals, NEW j, intent' = [intent EXCEPT ![p] = j],
             j.status \in Success => effects[p] = 1
      PROVE  \A q \in Proposals : intent'[q].status \in Success => effects'[q] = 1
  <2>1. \A q \in Proposals : intent'[q] = IF q = p THEN j ELSE intent[q]
    BY <1>4, IntentFields
  <2> QED BY <1>1, <1>4, <2>1 DEF IntentHonest
<1>5. ASSUME NEW p \in Proposals, NEW st, NEW code, UpdateIntent(p, st, code),
             st \in Success => effects[p] = 1
      PROVE  \A q \in Proposals : intent'[q].status \in Success => effects'[q] = 1
  <2> DEFINE j == [status |-> st, attempt |-> intent[p].attempt, code |-> code]
  <2>1. j.status = st /\ intent' = [intent EXCEPT ![p] = j]
    BY <1>5 DEF UpdateIntent
  <2> HIDE DEF j
  <2> QED BY <1>4, <1>5, <2>1
<1>6. ASSUME NEW x \in Processes, ClaimWritebackIntent(x) PROVE IntentHonest'
  <2>1. proc[x].p \in Proposals
    BY <1>6, ProcFields DEF ClaimWritebackIntent, At, Sound
  <2> DEFINE j == [status |-> "intent_recorded", attempt |-> proc[x].attempt, code |-> "none"]
  <2>2. j.status \notin Success
    BY DEF Success
  <2>3. UNCHANGED recon /\ (UNCHANGED intent \/ intent' = [intent EXCEPT ![proc[x].p] = j])
    BY <1>6 DEF ClaimWritebackIntent
  <2> HIDE DEF j
  <2> QED BY <1>1, <1>2, <1>3, <1>4, <2>1, <2>2, <2>3 DEF IntentHonest
<1>7. ASSUME NEW p \in Proposals, RequireWritebackReconciliation(p)
      PROVE  \A q \in Proposals : intent'[q].status \in Success => effects'[q] = 1
  <2>1. CASE UNCHANGED intent
    BY <1>1, <2>1 DEF IntentHonest
  <2>2. CASE UpdateIntent(p, "reconciliation_required", intent[p].code)
    BY <1>5, <2>2 DEF Success
  <2> QED BY <1>7, <2>1, <2>2 DEF RequireWritebackReconciliation
<1>8. ASSUME NEW x \in Processes, MarkWritebackIntentApplying(x) PROVE IntentHonest'
  <2>1. proc[x].p \in Proposals
    BY <1>8, ProcFields DEF MarkWritebackIntentApplying, At, Sound
  <2>2. UNCHANGED recon
        /\ (UpdateIntent(proc[x].p, "applying", intent[proc[x].p].code)
             \/ RequireWritebackReconciliation(proc[x].p))
    BY <1>8 DEF MarkWritebackIntentApplying
  <2>3. "applying" \notin Success
    BY DEF Success
  <2> QED BY <1>1, <1>2, <1>5, <1>7, <2>1, <2>2, <2>3 DEF IntentHonest
<1>9. ASSUME NEW x \in Processes, CompleteWritebackIntent(x) PROVE IntentHonest'
  <2>1. proc[x].p \in Proposals /\ (proc[x].res \in Success => effects[proc[x].p] = 1)
    BY <1>9, ProcFields DEF CompleteWritebackIntent, At, Sound, Honest
  <2>2. /\ UNCHANGED recon
        /\ \/ RequireWritebackReconciliation(proc[x].p)
           \/ UpdateIntent(proc[x].p, proc[x].res, proc[x].code)
           \/ UNCHANGED intent
    BY <1>9 DEF CompleteWritebackIntent
  <2> QED BY <1>1, <1>2, <1>3, <1>5, <1>7, <2>1, <2>2 DEF IntentHonest
<1>10. ASSUME NEW p \in Proposals, ObserveSource(p) PROVE IntentHonest'
  <2>1. Target[p] \in Rows
    BY WritebackAssumption
  <2>2. SupportedOutcome(p) = "applied" => effects[p] = 1
    BY <2>1 DEF SupportedOutcome, SourceHonest
  <2>3. recon' = [p |-> p, outcome |-> SupportedOutcome(p)] /\ UNCHANGED intent
    BY <1>10 DEF ObserveSource, ledgerVars
  <2> QED BY <1>1, <2>2, <2>3 DEF IntentHonest
<1>11. CASE ReconcileWritebackIntent
  <2>1. recon.p \in Proposals /\ (recon.outcome \in Success => effects[recon.p] = 1)
    BY <1>11 DEF ReconcileWritebackIntent, TypeInv, TypeOK, IntentHonest, Success
  <2>2. \E code : UpdateIntent(recon.p, recon.outcome, code)
    BY <1>11 DEF ReconcileWritebackIntent
  <2>3. recon'.outcome # "applied"
    BY <1>11 DEF ReconcileWritebackIntent, NoRecon
  <2> QED BY <1>5, <2>1, <2>2, <2>3 DEF IntentHonest
<1>12. CASE AbandonReconciliation
  BY <1>1, <1>12 DEF AbandonReconciliation, NoRecon, ledgerVars, IntentHonest
<1> QED BY <1>3, <1>6, <1>8, <1>9, <1>10, <1>11, <1>12, IntentSteps

\* The processes: a successful result comes from the source transaction, an
\* existing source receipt, a completed intent or the proposal's own state.
LEMMA ProcHonestStep ==
  ASSUME TypeInv, EffectInv, HonestInv, [Next]_vars
  PROVE  \A y \in Processes : Honest(proc[y])'
<1> DEFINE Goal == \A y \in Processes : Honest(proc[y])'
<1>1. /\ \A q \in Proposals : effects[q] = 1 => effects'[q] = 1
      /\ \A y \in Processes : Honest(proc[y])
  BY Grows DEF HonestInv
<1>2. ASSUME UNCHANGED proc PROVE Goal
  BY <1>1, <1>2 DEF Honest
<1>3. ASSUME NEW x \in Processes,
             \/ \E pc \in Pcs : Goto(x, pc)
             \/ \E code \in Codes : Throw(x, code)
             \/ proc' = [proc EXCEPT ![x] = Idle]
      PROVE  Goal
  <2>1. Idle.res \notin Success /\ ~Idle.sawMutated
    BY DEF Idle, Success
  <2> QED BY <1>1, <1>3, <2>1, HonestGoto, HonestThrow, HonestProc
<1>4. ASSUME NEW w \in Workers, WorkerStep(w) PROVE Goal
  <2> w \in Processes
    BY DEF Processes
  <2>1. CASE Poll(w) \/ ClaimNothing(w) \/ Finish(w)
    <3>1. (\E pc \in Pcs : Goto(w, pc)) \/ proc' = [proc EXCEPT ![w] = Idle]
      BY <2>1 DEF Poll, ClaimNothing, Finish, Pcs
    <3> QED BY <1>3, <3>1
  <2>2. CASE Preflight(w) \/ ReadClock(w) \/ Renew(w)
    <3>1. (\E pc \in Pcs : Goto(w, pc)) \/ (\E code \in Codes : Throw(w, code))
      <4>1. CASE Preflight(w)
        <5>1. \/ Goto(w, "read") \/ Goto(w, "renew") \/ Throw(w, "fatal") \/ Throw(w, "held")
          BY <4>1, QueueAssumption DEF Preflight
        <5> QED BY <5>1 DEF Pcs, Codes
      <4>2. CASE ReadClock(w) \/ Renew(w)
        BY <4>2 DEF ReadClock, Renew, Pcs, Codes
      <4> QED BY <2>2, <4>1, <4>2
    <3> QED BY <1>3, <3>1
  <2>3. ASSUME NEW p \in Proposals, Claim(w, p) PROVE Goal
    <3> DEFINE s == [Idle EXCEPT !.pc = "claimed", !.p = p, !.lease = issued[p] + 1,
                                 !.attempt = queue[p].attempts + 1]
    <3>1. s.res \notin Success /\ ~s.sawMutated
      BY DEF Idle, Success
    <3>2. proc' = [proc EXCEPT ![w] = s]
      BY <2>3 DEF Claim
    <3> HIDE DEF s
    <3> QED BY <1>1, <3>1, <3>2, HonestProc
  <2>4. CASE ReadOutcome(w)
    <3> DEFINE p == proc[w].p
    <3>1. p \in Proposals
      BY <2>4, ProcFields DEF ReadOutcome, At, Sound
    <3>2. pstate[p] = "applied" => effects'[p] = 1
      BY <1>1, <3>1 DEF HonestInv, LedgerClaimsAreReal
    <3>3. ASSUME NEW r, NEW c, WithResult(w, "finish", r, c), r \in Success => pstate[p] = "applied"
          PROVE  Goal
      BY <1>1, <3>1, <3>2, <3>3, HonestResult
    <3>4. CASE pstate[p] = "applied"
      BY <2>4, <3>3, <3>4 DEF ReadOutcome
    <3>5. CASE pstate[p] \in {"conflict", "reconciliation_required"}
      BY <2>4, <3>3, <3>5 DEF ReadOutcome, Success
    <3>6. CASE pstate[p] \notin {"applied", "conflict", "reconciliation_required"}
      <4>1. \E c : WithResult(w, "finish", "failed", c)
        BY <2>4, <3>6 DEF ReadOutcome
      <4>2. "failed" \notin Success
        BY DEF Success
      <4> QED BY <3>3, <4>1, <4>2
    <3> QED BY <3>4, <3>5, <3>6
  <2> QED BY <1>4, <2>1, <2>2, <2>3, <2>4 DEF WorkerStep, ClaimTurn
<1>5. ASSUME NEW x \in Processes, ApplyStep(x) PROVE Goal
  <2> DEFINE p == proc[x].p
  <2>0. Honest(proc[x])
    BY <1>1
  <2>1. CASE ReadProposal(x) \/ CreateJob(x)
    <3> DEFINE s(pc, st) == [proc[x] EXCEPT !.pc = pc, !.seen = st]
    <3>1. ASSUME NEW pc, NEW st, proc' = [proc EXCEPT ![x] = s(pc, st)] PROVE Goal
      <4>1. /\ s(pc, st).res = proc[x].res /\ s(pc, st).p = p
            /\ s(pc, st).sawMutated = proc[x].sawMutated
        BY ProcFields DEF Process
      <4> HIDE DEF s
      <4> QED BY <1>1, <2>0, <3>1, <4>1, HonestProc DEF Honest
    <3>2. \/ proc' = [proc EXCEPT ![x] = s("job", pstate[p])]
          \/ proc' = [proc EXCEPT ![x] = s("verify", Idle.seen)]
          \/ Throw(x, "fatal")
      BY <2>1 DEF ReadProposal, CreateJob, TypeInv, TypeOK
    <3>3. "fatal" \in Codes
      BY DEF Codes
    <3> QED BY <1>3, <3>1, <3>2, <3>3
  <2>2. CASE Verify(x)
    <3>1. Goto(x, "apply") \/ Throw(x, "exec")
      BY <2>2 DEF Verify
    <3> QED BY <1>3, <3>1 DEF Pcs, Codes
  <2>3. CASE ApplyWithSourceReceipt(x)
    <3>1. p \in Proposals
      BY <2>3, ProcFields DEF ApplyWithSourceReceipt, At, Sound
    <3>2. ASSUME NEW res, Acknowledged(x, "receipt", res), res \in Success => effects'[p] = 1
          PROVE  Goal
      BY <1>1, <3>1, <3>2, HonestResult DEF Acknowledged, Success
    <3>3. CASE NotCommitted(x, "receipt")
      BY <1>1, <3>3, HonestResult DEF NotCommitted, Success
    <3>4. ResultFromExistingReceipt(ClaimSourceReceipt(p)) \in Success => effects'[p] = 1
      BY <1>1, <3>1 DEF ResultFromExistingReceipt, ClaimSourceReceipt, HonestInv, SourceHonest, Success
    <3>5. ASSUME NEW out \in MutationOutcomes(p), Mutates(p, out) PROVE out \in Success => effects'[p] = 1
      BY <3>1, <3>5, Grows, MutationStep, MutationOutcomesType DEF EffectInv, Success, TypeInv, TypeOK
    <3> QED BY <2>3, <3>2, <3>3, <3>4, <3>5 DEF ApplyWithSourceReceipt
  <2>4. CASE ApplyWithIntent(x)
    <3>1. p \in Proposals
      BY <2>4, ProcFields DEF ApplyWithIntent, At, Sound
    <3>2. ASSUME NEW out \in MutationOutcomes(p), Mutates(p, out) PROVE out \in Success => effects'[p] = 1
      BY <3>1, <3>2, Grows, MutationStep, MutationOutcomesType DEF EffectInv, Success, TypeInv, TypeOK
    <3>3. ASSUME NEW res, Acknowledged(x, "complete", res), res \in Success => effects'[p] = 1
          PROVE  Goal
      BY <1>1, <3>1, <3>3, HonestResult DEF Acknowledged, Success
    <3>4. CASE NotCommitted(x, "complete")
      BY <1>1, <3>4, HonestResult DEF NotCommitted, Success
    <3> QED BY <2>4, <3>2, <3>3, <3>4 DEF ApplyWithIntent
  <2>5. CASE ClaimWritebackIntent(x)
    <3>1. p \in Proposals
      BY <2>5, ProcFields DEF ClaimWritebackIntent, At, Sound
    <3>2. intent[p].status \in Success => effects'[p] = 1
      BY <1>1, <3>1 DEF HonestInv, IntentHonest
    <3>3. ASSUME NEW r, NEW c, WithResult(x, "receipt", r, c),
                 r \in Success => intent[p].status \in Success
          PROVE  Goal
      BY <1>1, <3>1, <3>2, <3>3, HonestResult
    <3>4. CASE Goto(x, "mark")
      BY <1>3, <3>4 DEF Pcs
    <3>5. CASE intent[p] # NoIntent /\ ~Goto(x, "mark")
      <4>1. intent[p].status \in {"intent_recorded", "applying", "reconciliation_required",
                                  "applied", "already_applied", "conflict", "failed"}
        BY <3>1, <3>5, IntentFields DEF IntentStatuses, Results
      <4>2. \/ WithResult(x, "receipt", "failed", "retryable")
            \/ WithResult(x, "receipt", "reconciliation_required", "unknown")
            \/ /\ WithResult(x, "receipt", "already_applied", "none")
               /\ intent[p].status \in {"applied", "already_applied"}
            \/ /\ WithResult(x, "receipt", intent[p].status, intent[p].code)
               /\ intent[p].status \in {"conflict", "failed"}
        BY <2>5, <3>5, <4>1 DEF ClaimWritebackIntent
      <4> QED BY <3>3, <4>2 DEF Success
    <3> QED BY <2>5, <3>4, <3>5 DEF ClaimWritebackIntent
  <2>6. CASE MarkWritebackIntentApplying(x) \/ CompleteWritebackIntent(x)
    <3>1. \/ Goto(x, "mutate") \/ Goto(x, "receipt")
          \/ WithResult(x, "receipt", "reconciliation_required", "unknown")
          \/ WithResult(x, "receipt", "failed", "retryable")
      BY <2>6 DEF MarkWritebackIntentApplying, CompleteWritebackIntent
    <3>2. {"mutate", "receipt"} \subseteq Pcs
          /\ "failed" \notin Success /\ "reconciliation_required" \notin Success
      BY DEF Pcs, Success
    <3> QED BY <1>1, <1>3, <3>1, <3>2, HonestResult
  <2>7. CASE ReadForReceipt(x)
    <3> DEFINE s == [proc[x] EXCEPT !.pc = "record", !.sawMutated = mutated[p]]
    <3>1. p \in Proposals
      BY <2>7, ProcFields DEF ReadForReceipt, At, Sound
    <3>2. s.res = proc[x].res /\ s.p = p /\ s.sawMutated = mutated[p]
      BY ProcFields DEF Process
    <3>3. mutated[p] => effects[p] = 1
      BY <3>1 DEF HonestInv, LedgerClaimsAreReal
    <3>4. proc' = [proc EXCEPT ![x] = s]
      BY <2>7 DEF ReadForReceipt, TypeInv, TypeOK
    <3> HIDE DEF s
    <3> QED BY <1>1, <2>0, <3>1, <3>2, <3>3, <3>4, HonestProc DEF Honest
  <2>8. CASE RecordExecutionReceipt(x)
    <3> DEFINE s == [Idle EXCEPT !.pc = "outcome", !.p = p, !.lease = proc[x].lease]
    <3>1. s.res \notin Success /\ ~s.sawMutated
      BY DEF Idle, Success
    <3>2. proc' = [proc EXCEPT ![x] = s] \/ proc' = [proc EXCEPT ![x] = Idle]
      BY <2>8 DEF RecordExecutionReceipt
    <3> HIDE DEF s
    <3> QED BY <1>1, <1>3, <3>1, <3>2, HonestProc
  <2>9. CASE ConnectionFails(x)
    BY <1>1, <2>9, HonestResult DEF ConnectionFails, Success
  <2> QED BY <1>5, <2>1, <2>2, <2>3, <2>4, <2>5, <2>6, <2>7, <2>8, <2>9 DEF ApplyStep
<1>6. ASSUME NEW o \in Operators, NEW p \in Proposals, ManualApply(o, p) PROVE Goal
  <2> DEFINE s == [Idle EXCEPT !.pc = "read", !.p = p, !.attempt = 1]
  <2>1. s.res \notin Success /\ ~s.sawMutated /\ o \in Processes
    BY DEF Idle, Success, Processes
  <2>2. proc' = [proc EXCEPT ![o] = s]
    BY <1>6 DEF ManualApply
  <2> HIDE DEF s
  <2> QED BY <1>1, <2>1, <2>2, HonestProc
<1>7. ASSUME NEW x \in Processes, Crash(x) PROVE Goal
  BY <1>3, <1>7 DEF Crash
<1>8. CASE \/ \E p \in Proposals : ObserveSource(p)
           \/ ReconcileWritebackIntent \/ AbandonReconciliation
           \/ QueueCall \/ ToggleGate \/ Time \/ \E r \in Rows : ExternalWrite(r)
  BY <1>2, <1>8 DEF ObserveSource, ReconcileWritebackIntent, AbandonReconciliation,
                    QueueCall, ToggleGate, Time, ExternalWrite
<1>9. CASE UNCHANGED vars
  BY <1>2, <1>9 DEF vars
<1> QED BY <1>4, <1>5, <1>6, <1>7, <1>8, <1>9 DEF Next

-----------------------------------------------------------------------------
(***************************************************************************)
(* The ledger's own claims, split by where they stand.                     *)
(***************************************************************************)

StateReal == \A p \in Proposals : pstate[p] = "applied" => effects[p] = 1
MutatedReal == \A p \in Proposals : mutated[p] => effects[p] = 1
ReceiptReal == \A p \in Proposals : ProvenEffect(p) => effects[p] = 1
OutcomeReal == \A p \in Proposals : queue[p].outcome \in Success => effects[p] = 1

\* LedgerClaimsAreReal, as the conjunction of its four claims.
LEMMA ClaimsSplit ==
  LedgerClaimsAreReal <=> StateReal /\ MutatedReal /\ ReceiptReal /\ OutcomeReal
BY DEF LedgerClaimsAreReal, StateReal, MutatedReal, ReceiptReal, OutcomeReal, Success

\* A stored receipt proves an effect after an append only if it did before
\* or the appended one does.
LEMMA ProvenAfterAppend ==
  ASSUME NEW rs \in Seq(Receipt), NEW r \in Receipt,
         NEW i \in DOMAIN Append(rs, r), Append(rs, r)[i].status \in Success
  PROVE  r.status \in Success \/ \E j \in DOMAIN rs : rs[j].status \in Success
<1>1. Len(Append(rs, r)) = Len(rs) + 1 /\ DOMAIN rs = 1..Len(rs) /\ Len(rs) \in Nat
  OBVIOUS
<1>2. i \in 1..(Len(rs) + 1)
  BY <1>1
<1>3. CASE i = Len(rs) + 1
  <2>1. Append(rs, r)[i] = r
    BY <1>3
  <2> QED BY <2>1
<1>4. CASE i # Len(rs) + 1
  <2>1. i \in 1..Len(rs)
    BY <1>1, <1>2, <1>4
  <2>2. Append(rs, r)[i] = rs[i]
    BY <2>1
  <2> QED BY <1>1, <2>1, <2>2
<1> QED BY <1>3, <1>4

\* recordExecutionReceiptRows stores only what the result and the flag read
\* before stand for.
LEMMA RecordRowsReal ==
  ASSUME TypeInv, StateReal, MutatedReal, ReceiptReal,
         \A q \in Proposals : effects[q] = 1 => effects'[q] = 1,
         NEW p \in Proposals, NEW attempt \in Nat, NEW status \in Results, NEW code \in Codes,
         NEW saw \in BOOLEAN, RecordRows(p, attempt, status, code, saw),
         status \in Success => effects'[p] = 1,
         saw => effects'[p] = 1
  PROVE  StateReal' /\ MutatedReal' /\ ReceiptReal'
<1>1. /\ receipts \in [Proposals -> Seq(Receipt)] /\ pstate \in [Proposals -> States]
      /\ mutated \in [Proposals -> BOOLEAN]
  BY DEF TypeInv, TypeOK, QueueTypeOK
<1>2. StateReal'
  <2>1. \A q \in Proposals : pstate'[q] = IF q = p THEN StateFromReceipt(status) ELSE pstate[q]
    BY <1>1 DEF RecordRows
  <2>2. StateFromReceipt(status) = "applied" => status \in Success
    BY DEF StateFromReceipt, Success
  <2> QED BY <2>1, <2>2 DEF StateReal
<1>3. MutatedReal'
  <2>1. \A q \in Proposals : mutated'[q] = IF q = p THEN status = "applied" \/ saw ELSE mutated[q]
    BY <1>1, Zenon DEF RecordRows
  <2>2. status = "applied" => status \in Success
    BY DEF Success
  <2> QED BY <2>1, <2>2 DEF MutatedReal
<1>4. ReceiptReal'
  <2> DEFINE r == [attempt |-> attempt, status |-> status, code |-> code]
  <2>1. r \in Receipt /\ r.status = status
    BY DEF Receipt
  <2>2. receipts' = receipts \/ receipts' = [receipts EXCEPT ![p] = Append(receipts[p], r)]
    BY <1>1 DEF RecordRows
  <2> HIDE DEF r
  <2>3. ASSUME NEW q \in Proposals, ProvenEffect(q)' PROVE effects'[q] = 1
    <3>1. CASE receipts'[q] = receipts[q]
      BY <2>3, <3>1 DEF ProvenEffect, ReceiptReal
    <3>2. CASE q = p /\ receipts'[q] = Append(receipts[p], r)
      <4>1. PICK i \in DOMAIN Append(receipts[p], r) : Append(receipts[p], r)[i].status \in Success
        BY <2>3, <3>2 DEF ProvenEffect, Success
      <4>2. status \in Success \/ ProvenEffect(p)
        BY <1>1, <2>1, <4>1, ProvenAfterAppend DEF ProvenEffect, Success
      <4> QED BY <3>2, <4>2 DEF ReceiptReal
    <3> QED BY <1>1, <2>2, <3>1, <3>2
  <2> QED BY <2>3 DEF ReceiptReal
<1> QED BY <1>2, <1>3, <1>4

\* Rewriting one row of the queue.
LEMMA OutcomeAfter ==
  ASSUME TypeInv, OutcomeReal, NEW p \in Proposals, NEW row,
         \A q \in Proposals : effects[q] = 1 => effects'[q] = 1,
         queue' = [queue EXCEPT ![p] = row],
         row.outcome \in Success => effects'[p] = 1
  PROVE  OutcomeReal'
<1>1. \A q \in Proposals : queue'[q] = IF q = p THEN row ELSE queue[q]
  BY DEF TypeInv, TypeOK, QueueTypeOK
<1> QED BY <1>1 DEF OutcomeReal

\* The outcome column after each of the row updates the queue makes.
LEMMA RowOutcomes ==
  ASSUME TypeInv, NEW p \in Proposals
  PROVE  /\ \A st, e, o : Released(queue[p], st, e, o).outcome = o
         /\ \A w, n : Leased(queue[p], w, n).outcome = "none"
         /\ \A b : [queue[p] EXCEPT !.live = b].outcome = queue[p].outcome
         /\ \A b : [NoRow EXCEPT !.status = "queued", !.budget = b].outcome = "none"
<1>1. queue[p] \in Row
  BY DEF TypeInv, TypeOK, QueueTypeOK
<1> QED BY <1>1 DEF Row, Released, Leased, NoRow

\* Giving up a lease with a given outcome.
LEMMA ReleaseOutcome ==
  ASSUME TypeInv, OutcomeReal, NEW p \in Proposals, NEW st, NEW e, NEW o,
         \A q \in Proposals : effects[q] = 1 => effects'[q] = 1,
         queue' = [queue EXCEPT ![p] = Released(queue[p], st, e, o)],
         o \in Success => effects'[p] = 1
  PROVE  OutcomeReal'
<1> DEFINE row == Released(queue[p], st, e, o)
<1>1. row.outcome = o /\ queue' = [queue EXCEPT ![p] = row]
  BY RowOutcomes
<1> HIDE DEF row
<1> QED BY <1>1, OutcomeAfter

\* A step that neither records a receipt nor makes a proposal applied.
LEMMA ClaimsKept ==
  ASSUME TypeInv, LedgerClaimsAreReal,
         \A q \in Proposals : effects[q] = 1 => effects'[q] = 1,
         \A q \in Proposals : pstate'[q] = "applied" => pstate[q] = "applied",
         UNCHANGED <<receipts, mutated>>, OutcomeReal'
  PROVE  LedgerClaimsAreReal'
<1>1. StateReal /\ MutatedReal /\ ReceiptReal
  BY ClaimsSplit
<1>2. StateReal'
  BY <1>1 DEF StateReal
<1>3. MutatedReal'
  BY <1>1 DEF MutatedReal
<1>4. ReceiptReal'
  BY <1>1 DEF ReceiptReal, ProvenEffect
<1>5. (StateReal /\ MutatedReal /\ ReceiptReal /\ OutcomeReal)' => LedgerClaimsAreReal'
  BY DEF LedgerClaimsAreReal, StateReal, MutatedReal, ReceiptReal, OutcomeReal, Success, ProvenEffect
<1> QED BY <1>2, <1>3, <1>4, <1>5

\* The worker's turn: only Finish writes an outcome, and it writes the
\* process's result.
LEMMA WorkerLedgerStep ==
  ASSUME TypeInv, EffectInv, HonestInv, [Next]_vars, NEW w \in Workers, WorkerStep(w)
  PROVE  LedgerClaimsAreReal'
<1> DEFINE Grow == \A q \in Proposals : effects[q] = 1 => effects'[q] = 1
<1>0. w \in Processes /\ Grow /\ LedgerClaimsAreReal /\ OutcomeReal /\ Honest(proc[w])
  BY Grows, ClaimsSplit DEF HonestInv, Processes
<1>1. pstate \in [Proposals -> States] /\ queue \in [Proposals -> Row]
  BY DEF TypeInv, TypeOK, QueueTypeOK
<1>2. ASSUME UNCHANGED queueVars, UNCHANGED ledgerVars PROVE LedgerClaimsAreReal'
  <2>1. OutcomeReal'
    BY <1>0, <1>2 DEF OutcomeReal, queueVars
  <2> QED BY <1>0, <1>2, <2>1, ClaimsKept DEF queueVars, ledgerVars
<1>3. CASE Poll(w) \/ Preflight(w) \/ ReadClock(w) \/ ReadOutcome(w)
  BY <1>2, <1>3 DEF Poll, Preflight, ReadClock, ReadOutcome
<1>4. ASSUME NEW p \in Proposals, Claim(w, p) PROVE LedgerClaimsAreReal'
  <2>1. queue' = [queue EXCEPT ![p] = Leased(queue[p], w, issued[p] + 1)] /\ UNCHANGED ledgerVars
    BY <1>4 DEF Claim, ClaimWorkerItem
  <2>2. OutcomeReal'
    BY <1>0, <2>1, RowOutcomes, OutcomeAfter DEF Success
  <2>3. \A q \in Proposals : pstate'[q] = "applied" => pstate[q] = "applied"
    BY <1>1, <1>4 DEF Claim, ClaimWorkerItem
  <2> QED BY <1>0, <2>1, <2>2, <2>3, ClaimsKept DEF ledgerVars
<1>5. CASE ClaimNothing(w)
  <2>1. ASSUME NEW p \in Proposals, BlockQueuedWorkerItem(p) PROVE LedgerClaimsAreReal'
    <3>1. queue' = [queue EXCEPT ![p] = Released(queue[p], "blocked", "fatal", "none")]
          /\ UNCHANGED pstate
      BY <2>1 DEF BlockQueuedWorkerItem
    <3>2. OutcomeReal'
      BY <1>0, <3>1, ReleaseOutcome DEF Success
    <3> QED BY <1>0, <1>5, <3>1, <3>2, ClaimsKept DEF ClaimNothing, ledgerVars
  <2> QED BY <1>2, <1>5, <2>1 DEF ClaimNothing
<1>6. CASE Renew(w)
  <2>1. proc[w].p \in Proposals
    BY <1>6, <1>0, ProcFields DEF Renew, At, Sound
  <2>2. CASE RenewWorkerLease(w, proc[w].p, proc[w].lease)
    <3>1. queue' = [queue EXCEPT ![proc[w].p] = [queue[proc[w].p] EXCEPT !.live = TRUE]]
          /\ UNCHANGED pstate
      BY <1>1, <2>1, <2>2 DEF RenewWorkerLease
    <3>2. queue[proc[w].p].outcome \in Success => effects'[proc[w].p] = 1
      BY <1>0, <2>1 DEF OutcomeReal
    <3>3. OutcomeReal'
      BY <1>0, <2>1, <3>1, <3>2, RowOutcomes, OutcomeAfter
    <3> QED BY <1>0, <1>6, <3>1, <3>3, ClaimsKept DEF Renew, ledgerVars
  <2> QED BY <1>2, <1>6, <2>2 DEF Renew
<1>7. CASE Finish(w)
  <2> DEFINE p == proc[w].p
             n == proc[w].lease
             res == proc[w].res
  <2>1. p \in Proposals /\ (res \in Success => effects'[p] = 1) /\ UNCHANGED ledgerVars
    BY <1>0, <1>7, ProcFields DEF Finish, At, Sound, Honest
  <2>2. ASSUME NEW st, NEW e, NEW o, queue' = [queue EXCEPT ![p] = Released(queue[p], st, e, o)],
               UNCHANGED pstate, o \in Success => effects'[p] = 1
        PROVE  LedgerClaimsAreReal'
    <3>1. OutcomeReal'
      BY <1>0, <2>1, <2>2, ReleaseOutcome
    <3> QED BY <1>0, <2>1, <2>2, <3>1, ClaimsKept DEF ledgerVars
  <2>3. CASE HoldsLease(w, p, n) /\ res \in {"applied", "already_applied", "conflict"}
    <3>1. CompleteWorkerItem(w, p, n, res)
      BY <1>7, <2>3 DEF Finish
    <3> QED BY <2>1, <2>2, <3>1 DEF CompleteWorkerItem
  <2>4. ASSUME NEW st, NEW code, ParkWorkerItem(w, p, n, st, code), st \notin Success
        PROVE  LedgerClaimsAreReal'
    BY <2>2, <2>4 DEF ParkWorkerItem
  <2>5. ASSUME NEW code, RetryWorkerItem(w, p, n, code)
        PROVE  LedgerClaimsAreReal'
    <3>1. "none" \notin Success
      BY DEF Success
    <3> QED BY <2>2, <2>5, <3>1 DEF RetryWorkerItem
  <2>6. CASE HoldsLease(w, p, n) /\ res \notin {"applied", "already_applied", "conflict"}
    <3>1. "reconciliation_required" \notin Success /\ "blocked" \notin Success
          /\ "dead_letter" \notin Success
      BY DEF Success
    <3>2. CASE res = "reconciliation_required"
      BY <1>7, <2>4, <2>6, <3>1, <3>2 DEF Finish
    <3>3. CASE res # "reconciliation_required"
      <4>1. FinishWorkerFailure(w, p, n, proc[w].code)
        BY <1>7, <2>6, <3>3 DEF Finish
      <4> QED BY <2>4, <2>5, <3>1, <4>1 DEF FinishWorkerFailure
    <3> QED BY <3>2, <3>3
  <2>7. CASE ~HoldsLease(w, p, n)
    BY <1>2, <1>7, <2>1, <2>7 DEF Finish
  <2> QED BY <2>3, <2>6, <2>7
<1> QED BY <1>3, <1>4, <1>5, <1>6, <1>7 DEF WorkerStep, ClaimTurn

\* Store clients, time and reconciliation.
LEMMA StoreLedgerStep ==
  ASSUME TypeInv, EffectInv, HonestInv, [Next]_vars,
         QueueCall \/ Time \/ ReconcileWritebackIntent
  PROVE  LedgerClaimsAreReal'
<1> DEFINE Grow == \A q \in Proposals : effects[q] = 1 => effects'[q] = 1
<1>0. Grow /\ LedgerClaimsAreReal /\ OutcomeReal /\ StateReal /\ MutatedReal /\ ReceiptReal
  BY Grows, ClaimsSplit DEF HonestInv
<1>1. pstate \in [Proposals -> States] /\ queue \in [Proposals -> Row]
  BY DEF TypeInv, TypeOK, QueueTypeOK
<1>2. ASSUME UNCHANGED queue, UNCHANGED pstate, UNCHANGED ledgerVars PROVE LedgerClaimsAreReal'
  <2>1. OutcomeReal'
    BY <1>0, <1>2 DEF OutcomeReal
  <2> QED BY <1>0, <1>2, <2>1, ClaimsKept DEF ledgerVars
<1>3. ASSUME NEW p \in Proposals, NEW row, queue' = [queue EXCEPT ![p] = row],
             row.outcome \notin Success \/ row.outcome = queue[p].outcome,
             \A q \in Proposals : pstate'[q] = "applied" => pstate[q] = "applied",
             UNCHANGED ledgerVars
      PROVE  LedgerClaimsAreReal'
  <2>1. row.outcome \in Success => effects'[p] = 1
    BY <1>0, <1>3 DEF OutcomeReal
  <2>2. OutcomeReal'
    BY <1>0, <1>3, <2>1, OutcomeAfter
  <2> QED BY <1>0, <1>3, <2>2, ClaimsKept DEF ledgerVars
<1>4. CASE QueueCall
  <2>0. UNCHANGED ledgerVars /\ {"none", "cancelled", "discarded"} \cap Success = {}
    BY <1>4 DEF QueueCall, Success
  <2>1. call.op # "none" => call.p \in Proposals
    BY DEF TypeInv, TypeOK, QueueTypeOK, NoCall
  <2>2. CASE CommitEnqueue
    <3>1. call.p \in Proposals /\ UNCHANGED pstate
          /\ queue' = [queue EXCEPT ![call.p] = [NoRow EXCEPT !.status = "queued", !.budget = MaxAttempts]]
      BY <2>1, <2>2 DEF CommitEnqueue
    <3> QED BY <1>3, <2>0, <3>1, RowOutcomes
  <2>3. CASE CommitCancel
    <3>1. call.p \in Proposals
          /\ queue' = [queue EXCEPT ![call.p] =
                         Released(queue[call.p], "cancelled", queue[call.p].error, "cancelled")]
      BY <2>1, <2>3 DEF CommitCancel
    <3>2. \A q \in Proposals : pstate'[q] = "applied" => pstate[q] = "applied"
      BY <1>1, <2>3, <3>1 DEF CommitCancel
    <3>3. OutcomeReal'
      BY <1>0, <3>1, ReleaseOutcome DEF Success
    <3> QED BY <1>0, <2>0, <3>2, <3>3, ClaimsKept DEF ledgerVars
  <2>4. ASSUME NEW b, CommitRequeue(b) PROVE LedgerClaimsAreReal'
    <3>1. call.p \in Proposals
          /\ queue' = [queue EXCEPT ![call.p] = [NoRow EXCEPT !.status = "queued", !.budget = RetryBudget]]
      BY <2>1, <2>4 DEF CommitRequeue
    <3>2. \A q \in Proposals : pstate'[q] = "applied" => pstate[q] = "applied"
      BY <1>1, <2>4, <3>1 DEF CommitRequeue
    <3> QED BY <1>3, <2>0, <3>1, <3>2, RowOutcomes
  <2>5. ASSUME NEW p \in Proposals, DiscardDeadLetter(p) PROVE LedgerClaimsAreReal'
    <3>1. UNCHANGED pstate
          /\ queue' = [queue EXCEPT ![p] = Released(queue[p], "discarded", queue[p].error, "discarded")]
      BY <2>5 DEF DiscardDeadLetter
    <3>2. OutcomeReal'
      BY <1>0, <3>1, ReleaseOutcome DEF Success
    <3> QED BY <1>0, <2>0, <3>1, <3>2, ClaimsKept DEF ledgerVars
  <2>6. CASE AbandonCall \/ \E op \in CallOps, p \in Proposals : BeginCall(op, p)
    BY <1>2, <2>0, <2>6 DEF AbandonCall, BeginCall
  <2> QED BY <1>4, <2>2, <2>3, <2>4, <2>5, <2>6 DEF QueueCall
<1>5. CASE Time
  <2>1. ASSUME NEW p \in Proposals, LeaseExpires(p) PROVE LedgerClaimsAreReal'
    <3>1. queue' = [queue EXCEPT ![p] = [queue[p] EXCEPT !.live = FALSE]] /\ UNCHANGED pstate
      BY <1>1, <2>1 DEF LeaseExpires
    <3>2. UNCHANGED ledgerVars
      BY <1>5 DEF Time
    <3> QED BY <1>3, <3>1, <3>2, RowOutcomes
  <2> QED BY <1>2, <1>5, <2>1 DEF Time, ProposalAges, RateWindowPasses
<1>6. CASE ReconcileWritebackIntent
  <2> DEFINE p == recon.p
             out == recon.outcome
             code == IF out = "applied" THEN "none" ELSE "fatal"
  <2>1. p \in Proposals /\ out \in {"applied", "failed", "conflict"} /\ out \in Results
    BY <1>6 DEF ReconcileWritebackIntent, TypeInv, TypeOK, Results
  <2>2. out \in Success => effects'[p] = 1
    BY <1>0, <2>1 DEF HonestInv, IntentHonest, Success
  <2>3. code \in Codes /\ intent[p].attempt \in Nat /\ mutated[p] \in BOOLEAN
        /\ (mutated[p] => effects'[p] = 1)
    BY <1>0, <2>1, IntentFields DEF Codes, TypeInv, TypeOK, MutatedReal
  <2>4. RecordRows(p, intent[p].attempt, out, code, mutated[p])
    BY <1>6 DEF ReconcileWritebackIntent
  <2>5. StateReal' /\ MutatedReal' /\ ReceiptReal'
    BY <1>0, <2>1, <2>2, <2>3, <2>4, RecordRowsReal
  <2>6. OutcomeReal'
    <3>1. \/ queue' = [queue EXCEPT ![p] = queue[p]]
          \/ queue' = [queue EXCEPT ![p] = Released(queue[p], "dead_letter", "fatal", "dead_letter")]
          \/ queue' = [queue EXCEPT ![p] = Released(queue[p], "completed", "none", out)]
      BY <1>6 DEF ReconcileWritebackIntent
    <3>2. queue[p].outcome \in Success => effects'[p] = 1
      BY <1>0, <2>1 DEF OutcomeReal
    <3>3. "dead_letter" \notin Success
      BY DEF Success
    <3> QED BY <1>0, <2>1, <2>2, <3>1, <3>2, <3>3, RowOutcomes, OutcomeAfter
  <2> QED BY <2>5, <2>6
          DEF LedgerClaimsAreReal, StateReal, MutatedReal, ReceiptReal, OutcomeReal, Success
<1> QED BY <1>4, <1>5, <1>6

\* Every step preserves LedgerClaimsAreReal.
LEMMA LedgerStep ==
  ASSUME TypeInv, EffectInv, HonestInv, [Next]_vars
  PROVE  LedgerClaimsAreReal'
<1> DEFINE Grow == \A q \in Proposals : effects[q] = 1 => effects'[q] = 1
<1>0. Grow /\ LedgerClaimsAreReal /\ OutcomeReal /\ StateReal /\ MutatedReal /\ ReceiptReal
  BY Grows, ClaimsSplit DEF HonestInv
<1>1. ASSUME UNCHANGED queue, UNCHANGED <<receipts, mutated>>,
             \A q \in Proposals : pstate'[q] = "applied" => pstate[q] = "applied"
      PROVE  LedgerClaimsAreReal'
  <2>1. OutcomeReal'
    BY <1>0, <1>1 DEF OutcomeReal
  <2> QED BY <1>0, <1>1, <2>1, ClaimsKept
<1>2. ASSUME UNCHANGED queueVars, UNCHANGED <<receipts, mutated>> PROVE LedgerClaimsAreReal'
  BY <1>1, <1>2 DEF queueVars
<1>3. ASSUME NEW x \in Processes, ApplyStep(x), ~CreateJob(x), ~RecordExecutionReceipt(x)
      PROVE  LedgerClaimsAreReal'
  BY <1>2, <1>3 DEF ApplyStep, ReadProposal, Verify, ApplyWithSourceReceipt, ClaimWritebackIntent,
                    MarkWritebackIntentApplying, ApplyWithIntent, CompleteWritebackIntent,
                    ConnectionFails, ReadForReceipt, ledgerVars
<1>4. ASSUME NEW x \in Processes, CreateJob(x) PROVE LedgerClaimsAreReal'
  <2>1. \A q \in Proposals : pstate'[q] = "applied" => pstate[q] = "applied"
    BY <1>4 DEF CreateJob, TypeInv, TypeOK, QueueTypeOK
  <2> QED BY <1>1, <1>4, <2>1 DEF CreateJob, ledgerVars
<1>5. ASSUME NEW x \in Processes, RecordExecutionReceipt(x) PROVE LedgerClaimsAreReal'
  <2>1. proc[x].p \in Proposals /\ Honest(proc[x])
    BY <1>5, ProcFields DEF RecordExecutionReceipt, At, Sound, HonestInv
  <2>2. RecordRows(proc[x].p, proc[x].attempt, proc[x].res, proc[x].code, proc[x].sawMutated)
    BY <1>5 DEF RecordExecutionReceipt
  <2>3. StateReal' /\ MutatedReal' /\ ReceiptReal'
    BY <1>0, <2>1, <2>2, ProcFields, RecordRowsReal DEF Honest
  <2>4. OutcomeReal'
    BY <1>0, <1>5 DEF RecordExecutionReceipt, OutcomeReal
  <2> QED BY <2>3, <2>4
          DEF LedgerClaimsAreReal, StateReal, MutatedReal, ReceiptReal, OutcomeReal, Success
<1>6. CASE \/ \E o \in Operators, p \in Proposals : ManualApply(o, p)
           \/ \E p \in Proposals : ObserveSource(p)
           \/ AbandonReconciliation \/ ToggleGate
           \/ \E r \in Rows : ExternalWrite(r)
           \/ \E x \in Processes : Crash(x)
  BY <1>2, <1>6 DEF ManualApply, ObserveSource, AbandonReconciliation, ToggleGate, ExternalWrite,
                    Crash, ledgerVars
<1>7. CASE UNCHANGED vars
  BY <1>2, <1>7 DEF vars, ledgerVars
<1> QED BY <1>3, <1>4, <1>5, <1>6, <1>7, WorkerLedgerStep, StoreLedgerStep DEF Next

\* The ledger never claims an effect that the source did not commit, in its
\* states, flags, receipts and queue outcomes, through every lost
\* acknowledgement, crash, late worker and reconciliation.
THEOREM LedgerIsHonest == Spec => []LedgerClaimsAreReal
<1>1. Init => EffectInv /\ HonestInv
  <2> SUFFICES ASSUME Init PROVE HonestInv
    BY DEF Init, EffectInv
  <2>1. LedgerClaimsAreReal
    BY DEF Init, QueueInit, NoRow, LedgerClaimsAreReal, ProvenEffect
  <2>2. \A x \in Processes : Honest(proc[x])
    BY DEF Init, Idle, Honest, Success
  <2>3. SourceHonest
    BY QueueAssumption DEF Init, SourceHonest, Success
  <2>4. IntentHonest
    BY DEF Init, IntentHonest, NoIntent, NoRecon, Success
  <2> QED BY <2>1, <2>2, <2>3, <2>4 DEF HonestInv
<1>2. TypeInv /\ EffectInv /\ HonestInv /\ [Next]_vars => EffectInv' /\ HonestInv'
  <2> SUFFICES ASSUME TypeInv, EffectInv, HonestInv, [Next]_vars PROVE EffectInv' /\ HonestInv'
    OBVIOUS
  <2>1. EffectInv'
    BY EffectStep
  <2>2. SourceHonest' /\ IntentHonest'
    BY SourceHonestStep, IntentHonestStep DEF HonestInv
  <2>3. \A y \in Processes : Honest(proc[y])'
    BY ProcHonestStep
  <2> QED BY <2>1, <2>2, <2>3, LedgerStep DEF HonestInv
<1>3. HonestInv => LedgerClaimsAreReal
  BY DEF HonestInv
<1> QED BY <1>1, <1>2, <1>3, InitType, TypeStep, PTL DEF Spec

-----------------------------------------------------------------------------
(***************************************************************************)
(* Refinement of WorkerFleet.  The fleet's token of a worker is what the   *)
(* process remembers of its lease during a turn (Held); every other        *)
(* variable of the fleet is the queue's own.  Each action is matched with  *)
(* the fleet's action of the same method; what touches neither the queue   *)
(* nor a token is a stuttering step.                                       *)
(***************************************************************************)

\* An operator observes the source only under the runner ledger.
ReconInv == recon # NoRecon => Authority = "runner_ledger"

\* Observing, resolving and giving up preserve ReconInv.
LEMMA ReconStep == ReconInv /\ [Next]_vars => ReconInv'
<1> SUFFICES ASSUME ReconInv, [Next]_vars PROVE ReconInv'
  OBVIOUS
<1>1. CASE UNCHANGED <<intent, recon>>
  BY <1>1 DEF ReconInv
<1>2. ASSUME NEW x \in Processes,
             ClaimWritebackIntent(x) \/ MarkWritebackIntentApplying(x) \/ CompleteWritebackIntent(x)
      PROVE  ReconInv'
  BY <1>2 DEF ClaimWritebackIntent, MarkWritebackIntentApplying, CompleteWritebackIntent, ReconInv
<1>3. ASSUME NEW p \in Proposals, ObserveSource(p) PROVE ReconInv'
  BY <1>3 DEF ObserveSource, ReconInv
<1>4. CASE ReconcileWritebackIntent \/ AbandonReconciliation
  BY <1>4 DEF ReconcileWritebackIntent, AbandonReconciliation, ReconInv
<1> QED BY <1>1, <1>2, <1>3, <1>4, IntentSteps

\* The instance's own copy of Cardinality is Cardinality.
LEMMA SameCardinality == \A S : Fleet!Cardinality(S) = Cardinality(S)
BY DEF Fleet!Cardinality, Cardinality

\* The claim transaction is the same in the fleet.
LEMMA SameClaims ==
  /\ \A w, p : Fleet!ClaimWorkerItem(w, p) <=> ClaimWorkerItem(w, p)
  /\ \A p : Fleet!BlockQueuedWorkerItem(p) <=> BlockQueuedWorkerItem(p)
<1>1. Fleet!ClaimAdmitted <=> ClaimAdmitted
  BY SameCardinality DEF Fleet!ClaimAdmitted, ClaimAdmitted, Fleet!LiveLeases, LiveLeases
<1>2. \A p : Fleet!Candidate(p) <=> Candidate(p)
  BY DEF Fleet!Candidate, Candidate, Fleet!ClaimableStates, ClaimableStates
<1>3. \A row, w, n : Fleet!Leased(row, w, n) = Leased(row, w, n)
  BY DEF Fleet!Leased, Leased
<1>4. \A row, s, e, o : Fleet!Released(row, s, e, o) = Released(row, s, e, o)
  BY DEF Fleet!Released, Released
<1>5. \A w, p : Fleet!ClaimWorkerItem(w, p) <=> ClaimWorkerItem(w, p)
  BY <1>1, <1>2, <1>3 DEF Fleet!ClaimWorkerItem, ClaimWorkerItem
<1>6. \A p : Fleet!BlockQueuedWorkerItem(p) <=> BlockQueuedWorkerItem(p)
  BY <1>1, <1>2, <1>4 DEF Fleet!BlockQueuedWorkerItem, BlockQueuedWorkerItem
<1> QED BY <1>5, <1>6

\* So are the operations of the worker that presents a lease, and time.
LEMMA SameTurns ==
  /\ \A w, p, n : Fleet!HoldsLease(w, p, n) <=> HoldsLease(w, p, n)
  /\ \A w, p, n : Fleet!RenewWorkerLease(w, p, n) <=> RenewWorkerLease(w, p, n)
  /\ \A w, p, n, o : Fleet!CompleteWorkerItem(w, p, n, o) <=> CompleteWorkerItem(w, p, n, o)
  /\ \A w, p, n, c : Fleet!RetryWorkerItem(w, p, n, c) <=> RetryWorkerItem(w, p, n, c)
  /\ \A w, p, n, s, c : Fleet!ParkWorkerItem(w, p, n, s, c) <=> ParkWorkerItem(w, p, n, s, c)
  /\ \A p : Fleet!LeaseExpires(p) <=> LeaseExpires(p)
  /\ \A p : Fleet!ProposalAges(p) <=> ProposalAges(p)
  /\ \A p : Fleet!RateWindowPasses(p) <=> RateWindowPasses(p)
<1> USE DEF Fleet!HoldsLease, HoldsLease, Fleet!HoldsActiveLease, HoldsActiveLease,
            Fleet!Released, Released, Fleet!RetryStatus, RetryStatus
<1>1. \A w, p, n : Fleet!HoldsLease(w, p, n) <=> HoldsLease(w, p, n)
  OBVIOUS
<1>2. \A w, p, n : Fleet!RenewWorkerLease(w, p, n) <=> RenewWorkerLease(w, p, n)
  BY DEF Fleet!RenewWorkerLease, RenewWorkerLease
<1>3. \A w, p, n, o : Fleet!CompleteWorkerItem(w, p, n, o) <=> CompleteWorkerItem(w, p, n, o)
  BY DEF Fleet!CompleteWorkerItem, CompleteWorkerItem
<1>4. \A w, p, n, c : Fleet!RetryWorkerItem(w, p, n, c) <=> RetryWorkerItem(w, p, n, c)
  BY DEF Fleet!RetryWorkerItem, RetryWorkerItem
<1>5. \A w, p, n, s, c : Fleet!ParkWorkerItem(w, p, n, s, c) <=> ParkWorkerItem(w, p, n, s, c)
  BY DEF Fleet!ParkWorkerItem, ParkWorkerItem
<1>6. \A p : Fleet!LeaseExpires(p) <=> LeaseExpires(p)
  BY DEF Fleet!LeaseExpires, LeaseExpires
<1>7. \A p : Fleet!ProposalAges(p) <=> ProposalAges(p)
  BY DEF Fleet!ProposalAges, ProposalAges
<1>8. \A p : Fleet!RateWindowPasses(p) <=> RateWindowPasses(p)
  BY DEF Fleet!RateWindowPasses, RateWindowPasses
<1> QED BY <1>1, <1>2, <1>3, <1>4, <1>5, <1>6, <1>7, <1>8

\* So are the calls of store clients; a requeue that found no proof is the
\* fleet's.
LEMMA SameCalls ==
  /\ Fleet!CallOps = CallOps
  /\ \A op, p : Fleet!BeginCall(op, p) <=> BeginCall(op, p)
  /\ Fleet!AbandonCall <=> AbandonCall
  /\ Fleet!CommitEnqueue <=> CommitEnqueue
  /\ Fleet!CommitCancel <=> CommitCancel
  /\ \A b : CommitRequeue(b) => Fleet!CommitRequeue(FALSE)
  /\ \A p : Fleet!DiscardDeadLetter(p) <=> DiscardDeadLetter(p)
<1> USE DEF Fleet!NoCall, NoCall, Fleet!NoRow, NoRow, Fleet!EligibleStates, EligibleStates,
            Fleet!Released, Released
<1>1. \A op, p : Fleet!BeginCall(op, p) <=> BeginCall(op, p)
  BY DEF Fleet!BeginCall, BeginCall, Fleet!MovesProposal, MovesProposal
<1>2. Fleet!AbandonCall <=> AbandonCall
  BY DEF Fleet!AbandonCall, AbandonCall
<1>3. Fleet!CommitEnqueue <=> CommitEnqueue
  BY SameCardinality
     DEF Fleet!CommitEnqueue, CommitEnqueue, Fleet!ActiveStatuses, ActiveStatuses
<1>4. Fleet!CommitCancel <=> CommitCancel
  BY DEF Fleet!CommitCancel, CommitCancel
<1>5. \A b : CommitRequeue(b) => Fleet!CommitRequeue(FALSE)
  BY DEF Fleet!CommitRequeue, CommitRequeue
<1>6. \A p : Fleet!DiscardDeadLetter(p) <=> DiscardDeadLetter(p)
  BY DEF Fleet!DiscardDeadLetter, DiscardDeadLetter
<1> QED BY <1>1, <1>2, <1>3, <1>4, <1>5, <1>6 DEF Fleet!CallOps, CallOps

\* The tokens after a step that rewrites the record of one process.
Token(s) == IF s.pc \in {"idle", "poll"}
              THEN [p |-> NoProposal, lease |-> 0, renews |-> FALSE]
              ELSE [p |-> s.p, lease |-> s.lease, renews |-> s.pc = "renewing"]

LEMMA HeldAfter ==
  ASSUME TypeInv, NEW x \in Processes, NEW s, proc' = [proc EXCEPT ![x] = s]
  PROVE  /\ x \notin Workers => Held' = Held
         /\ x \in Workers => Held' = [Held EXCEPT ![x] = Token(s)]
         /\ x \in Workers /\ Token(s) = Token(proc[x]) => Held' = Held
<1>1. \A y \in Processes : proc'[y] = IF y = x THEN s ELSE proc[y]
  BY DEF TypeInv, TypeOK
<1>2. Held = [w \in Workers |-> Token(proc[w])]
  BY DEF Held, Token
<1>3. Held' = [w \in Workers |-> Token(proc'[w])]
  BY DEF Held, Token
<1>4. Workers \subseteq Processes
  BY DEF Processes
<1> HIDE DEF Token
<1> QED BY <1>1, <1>2, <1>3, <1>4

\* What a worker in its turn holds.
LEMMA HeldToken ==
  ASSUME TypeInv, NEW w \in Workers
  PROVE  /\ proc[w].pc \in {"idle", "poll"} => Held[w] = Fleet!NoToken
         /\ proc[w].pc \notin {"idle", "poll"} =>
              /\ Held[w] # Fleet!NoToken
              /\ Held[w].p = proc[w].p /\ Held[w].lease = proc[w].lease
              /\ Held[w].renews <=> proc[w].pc = "renewing"
<1>1. w \in Processes
  BY DEF Processes
<1> QED BY <1>1, ProcFields, QueueAssumption DEF Held, Fleet!NoToken, Sound

\* Moving on inside a turn, with or without a result, keeps every token, and
\* so does an exception, unless a renewal starts or ends.
LEMMA TurnKeepsTokens ==
  ASSUME TypeInv, NEW x \in Processes, proc[x].pc \notin {"idle", "poll", "renewing"},
         \/ \E pc \in Pcs \ {"idle", "poll", "renewing"} : Goto(x, pc)
         \/ \E pc \in {"complete", "receipt", "finish"} : \E res, code : WithResult(x, pc, res, code)
         \/ \E code : Throw(x, code)
  PROVE  Held' = Held
<1>1. ASSUME NEW pc \in Pcs \ {"idle", "poll", "renewing"}, Goto(x, pc) PROVE Held' = Held
  <2> DEFINE s == [proc[x] EXCEPT !.pc = pc]
  <2>1. proc' = [proc EXCEPT ![x] = s]
    BY <1>1 DEF Goto, TypeInv, TypeOK
  <2>2. Token(s) = Token(proc[x])
    BY ProcFields DEF Process, Token
  <2> HIDE DEF s
  <2> QED BY <2>1, <2>2, HeldAfter
<1>2. ASSUME NEW pc \in {"complete", "receipt", "finish"}, NEW res, NEW code,
             WithResult(x, pc, res, code)
      PROVE  Held' = Held
  <2> DEFINE s == [proc[x] EXCEPT !.pc = pc, !.res = res, !.code = code]
  <2>1. proc' = [proc EXCEPT ![x] = s]
    BY <1>2 DEF WithResult, TypeInv, TypeOK
  <2>2. Token(s) = Token(proc[x])
    BY ProcFields DEF Process, Token
  <2> HIDE DEF s
  <2> QED BY <2>1, <2>2, HeldAfter
<1>3. ASSUME NEW code, Throw(x, code) PROVE Held' = Held
  <2>1. CASE x \in Workers
    BY <1>2, <1>3, <2>1 DEF Throw
  <2>2. CASE x \notin Workers
    BY <1>3, <2>2, HeldAfter DEF Throw
  <2> QED BY <2>1, <2>2
<1> QED BY <1>1, <1>2, <1>3

\* A renewal starts when its worker has read the clock, and ends with its
\* transaction or an exception.
LEMMA RenewalTokens ==
  ASSUME TypeInv, NEW w \in Workers
  PROVE  /\ proc[w].pc = "renew" /\ Goto(w, "renewing") =>
              Held' = [Held EXCEPT ![w].renews = TRUE]
         /\ proc[w].pc = "renewing" /\ (Goto(w, "read") \/ \E code : Throw(w, code)) =>
              Held' = [Held EXCEPT ![w].renews = FALSE]
<1> w \in Processes
  BY DEF Processes
<1>1. ASSUME NEW s, NEW b \in BOOLEAN, proc' = [proc EXCEPT ![w] = s],
             Token(s) = [p |-> proc[w].p, lease |-> proc[w].lease, renews |-> b],
             proc[w].pc \notin {"idle", "poll"}
      PROVE  Held' = [Held EXCEPT ![w].renews = b]
  <2>1. Held' = [Held EXCEPT ![w] = Token(s)]
    BY <1>1, HeldAfter
  <2>2. Held[w] = [p |-> proc[w].p, lease |-> proc[w].lease, renews |-> proc[w].pc = "renewing"]
    BY <1>1 DEF Held
  <2>3. [Held[w] EXCEPT !.renews = b] = [p |-> proc[w].p, lease |-> proc[w].lease, renews |-> b]
    BY <2>2
  <2> QED BY <1>1, <2>1, <2>3 DEF Held
<1>2. ASSUME NEW pc \in {"read", "renewing"}, Goto(w, pc), proc[w].pc \in {"renew", "renewing"}
      PROVE  Held' = [Held EXCEPT ![w].renews = (pc = "renewing")]
  <2> DEFINE s == [proc[w] EXCEPT !.pc = pc]
  <2>1. proc' = [proc EXCEPT ![w] = s]
    BY <1>2 DEF Goto, TypeInv, TypeOK
  <2>2. Token(s) = [p |-> proc[w].p, lease |-> proc[w].lease, renews |-> pc = "renewing"]
    BY ProcFields DEF Process, Token
  <2> HIDE DEF s
  <2> QED BY <1>1, <1>2, <2>1, <2>2
<1>3. ASSUME NEW code, Throw(w, code), proc[w].pc = "renewing"
      PROVE  Held' = [Held EXCEPT ![w].renews = FALSE]
  <2> DEFINE s == [proc[w] EXCEPT !.pc = "finish", !.res = "failed", !.code = code]
  <2>1. proc' = [proc EXCEPT ![w] = s]
    BY <1>3 DEF Throw, WithResult, TypeInv, TypeOK
  <2>2. Token(s) = [p |-> proc[w].p, lease |-> proc[w].lease, renews |-> FALSE]
    BY ProcFields DEF Process, Token
  <2> HIDE DEF s
  <2> QED BY <1>1, <1>3, <2>1, <2>2
<1> QED BY <1>2, <1>3

FleetStep == [Fleet!FleetNext]_(Fleet!fleetVars)

\* A step that touches neither the queue nor a token.
LEMMA FleetStutter == UNCHANGED queueVars /\ Held' = Held => FleetStep
BY DEF FleetStep, Fleet!fleetVars, Fleet!queueVars, queueVars

\* The turn of a worker, up to and after the execution.
LEMMA WorkerRefines ==
  ASSUME TypeInv, NEW w \in Workers, WorkerStep(w)
  PROVE  FleetStep
<1> w \in Processes
  BY DEF Processes
<1> DEFINE p == proc[w].p
           n == proc[w].lease
           res == proc[w].res
<1>1. CASE Poll(w)
  <2> DEFINE s == [proc[w] EXCEPT !.pc = "poll"]
  <2>1. proc' = [proc EXCEPT ![w] = s]
    BY <1>1 DEF Poll, Goto, TypeInv, TypeOK
  <2>2. Token(s) = Token(proc[w])
    BY <1>1, ProcFields DEF Poll, At, Process, Token
  <2> HIDE DEF s
  <2> QED BY <1>1, <2>1, <2>2, HeldAfter, FleetStutter DEF Poll
<1>2. ASSUME NEW q \in Proposals, Claim(w, q) PROVE FleetStep
  <2> DEFINE s == [Idle EXCEPT !.pc = "claimed", !.p = q, !.lease = issued[q] + 1,
                               !.attempt = queue[q].attempts + 1]
  <2>1. proc' = [proc EXCEPT ![w] = s]
    BY <1>2 DEF Claim
  <2>2. Token(s) = [p |-> q, lease |-> issued[q] + 1, renews |-> FALSE]
    BY DEF Idle, Token
  <2> HIDE DEF s
  <2>3. Held' = [Held EXCEPT ![w] = [p |-> q, lease |-> issued[q] + 1, renews |-> FALSE]]
    BY <2>1, <2>2, HeldAfter
  <2>4. Held[w] = Fleet!NoToken
    BY <1>2, HeldToken DEF Claim, At
  <2>5. Fleet!FleetClaim(w, q)
    BY <1>2, <2>3, <2>4, SameClaims DEF Claim, Fleet!FleetClaim
  <2> QED BY <2>5 DEF FleetStep, Fleet!FleetNext
<1>3. CASE ClaimNothing(w)
  <2> DEFINE s == [proc[w] EXCEPT !.pc = "idle"]
  <2>1. proc' = [proc EXCEPT ![w] = s]
    BY <1>3 DEF ClaimNothing, Goto, TypeInv, TypeOK
  <2>2. Token(s) = Token(proc[w])
    BY <1>3, ProcFields DEF ClaimNothing, At, Process, Token
  <2> HIDE DEF s
  <2>3. Held' = Held
    BY <2>1, <2>2, HeldAfter
  <2>4. ASSUME NEW q \in Proposals, BlockQueuedWorkerItem(q) PROVE FleetStep
    BY <2>3, <2>4, SameClaims DEF FleetStep, Fleet!FleetNext
  <2> QED BY <1>3, <2>3, <2>4, FleetStutter DEF ClaimNothing
<1>4. CASE Preflight(w)
  <2>1. \/ Goto(w, "read") \/ Goto(w, "renew") \/ Throw(w, "fatal") \/ Throw(w, "held")
    BY <1>4, QueueAssumption DEF Preflight
  <2>2. Held' = Held
    BY <1>4, <2>1, TurnKeepsTokens DEF Preflight, At, Pcs
  <2> QED BY <1>4, <2>2, FleetStutter DEF Preflight
<1>5. CASE Renew(w)
  <2>1. /\ proc[w].pc = "renewing"
        /\ Held[w] # Fleet!NoToken /\ Held[w].p = p /\ Held[w].lease = n /\ Held[w].renews
    BY <1>5, HeldToken DEF Renew, At
  <2>2. Goto(w, "read") \/ Throw(w, "fatal")
    BY <1>5 DEF Renew
  <2>3. Held' = [Held EXCEPT ![w].renews = FALSE]
    BY <2>1, <2>2, RenewalTokens
  <2>4. \/ RenewWorkerLease(w, p, n)
        \/ ~HoldsLease(w, p, n) /\ UNCHANGED queueVars
    BY <1>5 DEF Renew
  <2>5. Fleet!FleetRenew(w)
    BY <2>1, <2>3, <2>4, SameTurns DEF Fleet!FleetRenew, Fleet!queueVars, queueVars
  <2> QED BY <2>5 DEF FleetStep, Fleet!FleetNext
<1>8. CASE ReadClock(w)
  <2>1. /\ proc[w].pc = "renew"
        /\ Held[w] # Fleet!NoToken /\ Held[w].p = p /\ Held[w].lease = n /\ ~Held[w].renews
    BY <1>8, HeldToken DEF ReadClock, At
  <2>2. CASE Goto(w, "renewing") /\ HoldsActiveLease(w, p, n)
    <3>1. Held' = [Held EXCEPT ![w].renews = TRUE]
      BY <2>1, <2>2, RenewalTokens
    <3>2. Fleet!HoldsActiveLease(w, p, n)
      BY <2>2, SameTurns DEF Fleet!HoldsActiveLease, HoldsActiveLease
    <3>3. Fleet!FleetReadClock(w)
      BY <1>8, <2>1, <3>1, <3>2 DEF ReadClock, Fleet!FleetReadClock, Fleet!queueVars, queueVars
    <3> QED BY <3>3 DEF FleetStep, Fleet!FleetNext
  <2>3. CASE Throw(w, "fatal")
    <3>1. Held' = Held
      BY <2>1, <2>3, TurnKeepsTokens
    <3> QED BY <1>8, <3>1, FleetStutter DEF ReadClock
  <2> QED BY <1>8, <2>2, <2>3 DEF ReadClock
<1>6. CASE ReadOutcome(w)
  <2>1. \E r, c : WithResult(w, "finish", r, c)
    <3>1. CASE pstate[p] = "applied"
      BY <1>6, <3>1 DEF ReadOutcome
    <3>2. CASE pstate[p] \in {"conflict", "reconciliation_required"}
      BY <1>6, <3>2 DEF ReadOutcome
    <3>3. CASE pstate[p] \notin {"applied", "conflict", "reconciliation_required"}
      BY <1>6, <3>3 DEF ReadOutcome
    <3> QED BY <3>1, <3>2, <3>3
  <2>2. Held' = Held
    BY <1>6, <2>1, TurnKeepsTokens DEF ReadOutcome, At
  <2> QED BY <1>6, <2>2, FleetStutter DEF ReadOutcome
<1>7. CASE Finish(w)
  <2>1. Held[w] # Fleet!NoToken /\ Held[w].p = p /\ Held[w].lease = n /\ ~Held[w].renews
    BY <1>7, HeldToken DEF Finish, At
  <2>2. Held' = [Held EXCEPT ![w] = Fleet!NoToken]
    <3>1. Token(Idle) = Fleet!NoToken
      BY DEF Token, Idle, Fleet!NoToken
    <3>2. proc' = [proc EXCEPT ![w] = Idle]
      BY <1>7 DEF Finish
    <3> QED BY <3>1, <3>2, HeldAfter
  <2>3. proc[w].code \in Codes /\ "unknown" \in Codes
    BY ProcFields DEF Codes
  <2>4. \/ \E out \in {"applied", "already_applied", "conflict"} : CompleteWorkerItem(w, p, n, out)
        \/ \E code \in {"retryable", "exec"} : RetryWorkerItem(w, p, n, code)
        \/ \E status \in {"dead_letter", "blocked", "reconciliation_required"}, code \in Codes :
             ParkWorkerItem(w, p, n, status, code)
        \/ ~HoldsLease(w, p, n) /\ UNCHANGED queueVars
    <3>1. CASE HoldsLease(w, p, n) /\ res \in {"applied", "already_applied", "conflict"}
      BY <1>7, <3>1 DEF Finish
    <3>2. CASE HoldsLease(w, p, n) /\ res = "reconciliation_required"
      BY <1>7, <2>3, <3>2 DEF Finish
    <3>3. CASE /\ HoldsLease(w, p, n)
               /\ res \notin {"applied", "already_applied", "conflict", "reconciliation_required"}
      <4>1. FinishWorkerFailure(w, p, n, proc[w].code)
        BY <1>7, <3>3 DEF Finish
      <4> QED BY <2>3, <4>1 DEF FinishWorkerFailure, Retryable
    <3>4. CASE ~HoldsLease(w, p, n)
      BY <1>7, <3>4 DEF Finish
    <3> QED BY <3>1, <3>2, <3>3, <3>4
  <2>5. Fleet!FleetFinish(w)
    BY <2>1, <2>2, <2>4, SameTurns DEF Fleet!FleetFinish, Fleet!queueVars, queueVars
  <2> QED BY <2>5 DEF FleetStep, Fleet!FleetNext
<1> QED BY <1>1, <1>2, <1>3, <1>4, <1>5, <1>6, <1>7, <1>8 DEF WorkerStep, ClaimTurn

\* Executions: only the job and the receipt write the queue's side, and there
\* only the proposal's state.
LEMMA ApplyRefines ==
  ASSUME TypeInv, NEW x \in Processes, ApplyStep(x)
  PROVE  FleetStep
<1> DEFINE p == proc[x].p
<1>1. ASSUME Held' = Held, UNCHANGED <<queue, issued, aged, recent, call>>, p \in Proposals,
             NEW s \in States \ {"approved", "canceled"}, pstate' = [pstate EXCEPT ![p] = s]
      PROVE  FleetStep
  BY <1>1 DEF FleetStep, Fleet!FleetNext, Fleet!Execute
<1>2. CASE ReadProposal(x)
  <2> DEFINE s == [proc[x] EXCEPT !.pc = "job", !.seen = pstate[p]]
  <2>1. Throw(x, "fatal") \/ proc' = [proc EXCEPT ![x] = s]
    BY <1>2 DEF ReadProposal, TypeInv, TypeOK
  <2>2. Token(s) = Token(proc[x])
    BY <1>2, ProcFields DEF ReadProposal, At, Process, Token
  <2> HIDE DEF s
  <2>3. Held' = Held
    BY <1>2, <2>1, <2>2, HeldAfter, TurnKeepsTokens DEF ReadProposal, At
  <2> QED BY <1>2, <2>3, FleetStutter DEF ReadProposal
<1>3. CASE CreateJob(x)
  <2> DEFINE s == [proc[x] EXCEPT !.pc = "verify", !.seen = Idle.seen]
  <2>1. proc' = [proc EXCEPT ![x] = s]
    BY <1>3 DEF CreateJob, TypeInv, TypeOK
  <2>2. Token(s) = Token(proc[x])
    BY <1>3, ProcFields DEF CreateJob, At, Process, Token
  <2> HIDE DEF s
  <2>3. Held' = Held
    BY <2>1, <2>2, HeldAfter
  <2>4. p \in Proposals
    BY <1>3, ProcFields DEF CreateJob, At, Sound
  <2>5. CASE proc[x].seen = "approved"
    <3>1. pstate' = [pstate EXCEPT ![p] = "pending_worker"]
      BY <1>3, <2>5 DEF CreateJob
    <3>2. "pending_worker" \in States \ {"approved", "canceled"}
      BY DEF States
    <3> QED BY <1>1, <1>3, <2>3, <2>4, <3>1, <3>2 DEF CreateJob
  <2>6. CASE proc[x].seen # "approved"
    <3>1. pstate' = pstate
      BY <1>3, <2>6 DEF CreateJob, TypeInv, TypeOK, QueueTypeOK
    <3> QED BY <1>3, <2>3, <3>1, FleetStutter DEF CreateJob, queueVars
  <2> QED BY <2>5, <2>6
<1>4. CASE Verify(x)
  <2>1. Goto(x, "apply") \/ Throw(x, "exec")
    BY <1>4 DEF Verify
  <2>2. Held' = Held
    BY <1>4, <2>1, TurnKeepsTokens DEF Verify, At, Pcs
  <2> QED BY <1>4, <2>2, FleetStutter DEF Verify
<1>5. CASE ApplyWithSourceReceipt(x)
  <2>1. \E r, c : WithResult(x, "receipt", r, c)
    BY <1>5 DEF ApplyWithSourceReceipt, Acknowledged, NotCommitted
  <2>2. Held' = Held
    BY <1>5, <2>1, TurnKeepsTokens DEF ApplyWithSourceReceipt, At
  <2> QED BY <1>5, <2>2, FleetStutter DEF ApplyWithSourceReceipt
<1>6. CASE ClaimWritebackIntent(x)
  <2>1. Goto(x, "mark") \/ \E r, c : WithResult(x, "receipt", r, c)
    <3>1. p \in Proposals
      BY <1>6, ProcFields DEF ClaimWritebackIntent, At, Sound
    <3>2. intent[p] # NoIntent =>
            intent[p].status \in {"intent_recorded", "applying", "reconciliation_required", "applied",
                                  "already_applied", "conflict", "failed"}
      BY <3>1, IntentFields DEF IntentStatuses, Results
    <3> QED BY <1>6, <3>2 DEF ClaimWritebackIntent
  <2>2. Held' = Held
    BY <1>6, <2>1, TurnKeepsTokens DEF ClaimWritebackIntent, At, Pcs
  <2> QED BY <1>6, <2>2, FleetStutter DEF ClaimWritebackIntent
<1>7. CASE MarkWritebackIntentApplying(x)
  <2>1. Goto(x, "mutate") \/ \E r, c : WithResult(x, "receipt", r, c)
    BY <1>7 DEF MarkWritebackIntentApplying
  <2>2. Held' = Held
    BY <1>7, <2>1, TurnKeepsTokens DEF MarkWritebackIntentApplying, At, Pcs
  <2> QED BY <1>7, <2>2, FleetStutter DEF MarkWritebackIntentApplying
<1>8. CASE ApplyWithIntent(x)
  <2>1. \E r, c : WithResult(x, "complete", r, c)
    BY <1>8 DEF ApplyWithIntent, Acknowledged, NotCommitted
  <2>2. Held' = Held
    BY <1>8, <2>1, TurnKeepsTokens DEF ApplyWithIntent, At
  <2> QED BY <1>8, <2>2, FleetStutter DEF ApplyWithIntent
<1>9. CASE CompleteWritebackIntent(x)
  <2>1. Goto(x, "receipt") \/ \E r, c : WithResult(x, "receipt", r, c)
    BY <1>9 DEF CompleteWritebackIntent
  <2>2. Held' = Held
    BY <1>9, <2>1, TurnKeepsTokens DEF CompleteWritebackIntent, At, Pcs
  <2> QED BY <1>9, <2>2, FleetStutter DEF CompleteWritebackIntent
<1>10. CASE ReadForReceipt(x)
  <2> DEFINE s == [proc[x] EXCEPT !.pc = "record", !.sawMutated = mutated[p]]
  <2>1. proc' = [proc EXCEPT ![x] = s]
    BY <1>10 DEF ReadForReceipt, TypeInv, TypeOK
  <2>2. Token(s) = Token(proc[x])
    BY <1>10, ProcFields DEF ReadForReceipt, At, Process, Token
  <2> HIDE DEF s
  <2>3. Held' = Held
    BY <2>1, <2>2, HeldAfter
  <2> QED BY <1>10, <2>3, FleetStutter DEF ReadForReceipt
<1>11. CASE RecordExecutionReceipt(x)
  <2> DEFINE s == [Idle EXCEPT !.pc = "outcome", !.p = p, !.lease = proc[x].lease]
  <2>1. Token(s) = Token(proc[x])
    BY <1>11, ProcFields DEF RecordExecutionReceipt, At, Process, Token, Idle
  <2>2. IF x \in Workers THEN proc' = [proc EXCEPT ![x] = s] ELSE proc' = [proc EXCEPT ![x] = Idle]
    BY <1>11 DEF RecordExecutionReceipt
  <2> HIDE DEF s
  <2>3. Held' = Held
    BY <2>1, <2>2, HeldAfter
  <2>4. p \in Proposals
    BY <1>11, ProcFields DEF RecordExecutionReceipt, At, Sound
  <2>5. /\ StateFromReceipt(proc[x].res) \in States \ {"approved", "canceled"}
        /\ pstate' = [pstate EXCEPT ![p] = StateFromReceipt(proc[x].res)]
    BY <1>11 DEF RecordExecutionReceipt, RecordRows, StateFromReceipt, States
  <2> QED BY <1>1, <1>11, <2>3, <2>4, <2>5 DEF RecordExecutionReceipt
<1>12. CASE ConnectionFails(x)
  <2>1. Held' = Held
    BY <1>12, TurnKeepsTokens DEF ConnectionFails, At
  <2> QED BY <1>12, <2>1, FleetStutter DEF ConnectionFails
<1> QED BY <1>2, <1>3, <1>4, <1>5, <1>6, <1>7, <1>8, <1>9, <1>10, <1>11, <1>12 DEF ApplyStep

\* Operators, store clients, other applications, time and crashes.
LEMMA EnvironmentRefines ==
  ASSUME TypeInv, ReconInv,
         \/ \E o \in Operators, p \in Proposals : ManualApply(o, p)
         \/ \E p \in Proposals : ObserveSource(p)
         \/ ReconcileWritebackIntent
         \/ AbandonReconciliation
         \/ QueueCall
         \/ ToggleGate
         \/ Time
         \/ \E r \in Rows : ExternalWrite(r)
         \/ \E x \in Processes : Crash(x)
  PROVE  FleetStep
<1>1. ASSUME UNCHANGED <<queueVars, proc>> PROVE FleetStep
  BY <1>1, FleetStutter DEF Held
<1>2. CASE \/ \E p \in Proposals : ObserveSource(p)
           \/ AbandonReconciliation \/ ToggleGate
           \/ \E r \in Rows : ExternalWrite(r)
  BY <1>1, <1>2 DEF ObserveSource, AbandonReconciliation, ToggleGate, ExternalWrite
<1>3. ASSUME NEW o \in Operators, NEW p \in Proposals, ManualApply(o, p) PROVE FleetStep
  <2>1. o \in Processes /\ o \notin Workers
    BY WritebackAssumption DEF Processes
  <2>2. Held' = Held
    BY <1>3, <2>1, HeldAfter DEF ManualApply
  <2> QED BY <1>3, <2>2, FleetStutter DEF ManualApply
<1>4. ASSUME NEW x \in Processes, Crash(x) PROVE FleetStep
  <2>1. proc' = [proc EXCEPT ![x] = Idle]
    BY <1>4 DEF Crash
  <2>2. CASE x \notin Workers \/ proc[x].pc \in {"idle", "poll"}
    <3>1. proc[x].pc \in {"idle", "poll"} => Token(Idle) = Token(proc[x])
      BY DEF Token, Idle
    <3>2. Held' = Held
      BY <2>1, <2>2, <3>1, HeldAfter
    <3> QED BY <1>4, <3>2, FleetStutter DEF Crash
  <2>3. CASE x \in Workers /\ proc[x].pc \notin {"idle", "poll"}
    <3>1. Token(Idle) = Fleet!NoToken
      BY DEF Token, Idle, Fleet!NoToken
    <3>2. Held[x] # Fleet!NoToken
      BY <2>3, HeldToken
    <3>3. Held' = [Held EXCEPT ![x] = Fleet!NoToken]
      BY <2>1, <2>3, <3>1, HeldAfter
    <3>4. Fleet!FleetForget(x)
      BY <1>4, <3>2, <3>3 DEF Crash, Fleet!FleetForget, Fleet!queueVars, queueVars
    <3> QED BY <2>3, <3>4 DEF FleetStep, Fleet!FleetNext
  <2> QED BY <2>2, <2>3
<1>5. CASE QueueCall
  <2>1. Held' = Held
    BY <1>5 DEF QueueCall, Held
  <2>2. \/ \E op \in CallOps, p \in Proposals : BeginCall(op, p)
        \/ AbandonCall \/ CommitEnqueue \/ CommitCancel
        \/ \E b : CommitRequeue(b)
        \/ \E p \in Proposals : DiscardDeadLetter(p)
    BY <1>5 DEF QueueCall
  <2>3. Fleet!FleetCall
    BY <2>1, <2>2, SameCalls DEF Fleet!FleetCall
  <2> QED BY <2>3 DEF FleetStep, Fleet!FleetNext
<1>6. CASE Time
  <2>1. Held' = Held
    BY <1>6 DEF Time, Held
  <2>2. Fleet!FleetTime
    BY <1>6, <2>1, SameTurns DEF Time, Fleet!FleetTime
  <2> QED BY <2>2 DEF FleetStep, Fleet!FleetNext
<1>7. CASE ReconcileWritebackIntent
  <2> DEFINE p == recon.p
             out == recon.outcome
  <2>1. Held' = Held /\ Authority = "runner_ledger"
    BY <1>7 DEF ReconcileWritebackIntent, ReconInv, Held
  <2>2. p \in Proposals /\ out \in {"applied", "conflict", "failed"}
    BY <1>7 DEF ReconcileWritebackIntent, TypeInv, TypeOK
  <2>3. pstate' = [pstate EXCEPT ![p] = out]
    BY <1>7, <2>2 DEF ReconcileWritebackIntent, RecordRows, StateFromReceipt
  <2>4. IF queue[p].status = "reconciliation_required"
          THEN /\ queue' = [queue EXCEPT ![p] =
                              IF out = "failed" THEN Fleet!Released(@, "dead_letter", "fatal", "dead_letter")
                                                ELSE Fleet!Released(@, "completed", "none", out)]
               /\ recent' = IF out = "failed" THEN recent ELSE recent \cup {p}
          ELSE UNCHANGED <<queue, recent>>
    <3>1. queue \in [Proposals -> Row]
      BY DEF TypeInv, TypeOK, QueueTypeOK
    <3>2. CASE queue[p].status = "reconciliation_required"
      BY <1>7, <3>2 DEF ReconcileWritebackIntent, Released, Fleet!Released
    <3>3. CASE queue[p].status # "reconciliation_required"
      BY <1>7, <3>1, <3>3 DEF ReconcileWritebackIntent
    <3> QED BY <3>2, <3>3
  <2>5. Fleet!FleetReconcile(p)
    <3> HIDE DEF p, out
    <3> QED BY <1>7, <2>1, <2>2, <2>3, <2>4 DEF ReconcileWritebackIntent, Fleet!FleetReconcile
  <2> QED BY <2>2, <2>5 DEF FleetStep, Fleet!FleetNext
<1> QED BY <1>2, <1>3, <1>4, <1>5, <1>6, <1>7

\* Every step of guarded writeback is a step of the fleet or a stutter.
LEMMA StepRefines == TypeInv /\ ReconInv /\ [Next]_vars => FleetStep
<1> SUFFICES ASSUME TypeInv, ReconInv, [Next]_vars PROVE FleetStep
  OBVIOUS
<1>1. CASE UNCHANGED vars
  <2>1. Held' = Held
    BY <1>1 DEF vars, Held
  <2> QED BY <1>1, <2>1, FleetStutter DEF vars
<1> QED BY <1>1, WorkerRefines, ApplyRefines, EnvironmentRefines DEF Next

\* Guarded writeback implements the fleet: for any number of workers,
\* operators and proposals, what an execution does to the queue is what
\* WorkerFleet allows, so that what is proved there of concurrency, rate and
\* closed rows holds of the execution in full.
THEOREM RefinesFleet == Spec => ImplementsFleet
<1>1. Init => Fleet!FleetInit /\ ReconInv
  <2> SUFFICES ASSUME Init PROVE Fleet!FleetInit /\ ReconInv
    OBVIOUS
  <2>1. Fleet!QueueInit
    BY DEF Init, QueueInit, Fleet!QueueInit, NoRow, Fleet!NoRow, NoCall, Fleet!NoCall
  <2>2. Held = [w \in Workers |-> Fleet!NoToken]
    BY DEF Init, Held, Idle, Processes, Fleet!NoToken
  <2> QED BY <2>1, <2>2 DEF Fleet!FleetInit, Init, ReconInv
<1>2. TypeInv /\ ReconInv /\ [Next]_vars => [Fleet!FleetNext]_(Fleet!fleetVars)
  BY StepRefines DEF FleetStep
<1> QED BY <1>1, <1>2, InitType, TypeStep, ReconStep, PTL
        DEF Spec, ImplementsFleet, Fleet!FleetSpec

-----------------------------------------------------------------------------
(***************************************************************************)
(* What one step may make of a queue row.  Every property of single rows   *)
(* follows from this list: who may rewrite a row, and what it then holds.  *)
(***************************************************************************)

\* enqueueWorkerProposal and requeueDeadLetter start a row anew.
Queued(p) ==
  /\ queue[p].status # "leased"
  /\ \E n \in {MaxAttempts, RetryBudget} :
       queue'[p] = [NoRow EXCEPT !.status = "queued", !.budget = n]

\* claimWorkerItem.
Granted(p) == \E w \in Workers, n \in Nat : queue'[p] = Leased(queue[p], w, n)

\* The last step of the turn of the worker that holds the row's lease: it
\* retries within the budget, and reports a conflict only as its result.
ClosedByTurn(p) ==
  \E w \in Workers :
    /\ proc[w].pc = "finish" /\ proc'[w].pc = "idle"
    /\ proc[w].p = p /\ HoldsLease(w, p, proc[w].lease)
    /\ \E status \in Statuses, error \in Codes, outcome \in Outcomes :
         /\ queue'[p] = Released(queue[p], status, error, outcome)
         /\ status = "retry_wait" => queue[p].attempts < queue[p].budget
         /\ outcome = "conflict" => proc[w].res = "conflict"

\* claimWorkerItem finds the candidate past its TTL.
BlockedByAge(p) ==
  /\ p \in aged
  /\ queue[p].status = "leased" => ~queue[p].live
  /\ queue'[p] = Released(queue[p], "blocked", "fatal", "none")

\* cancelWorkerItem, discardDeadLetter.
ClosedByOperator(p) ==
  /\ queue[p].status # "leased"
  /\ \E status \in {"cancelled", "discarded"} :
       queue'[p] = Released(queue[p], status, queue[p].error, status)

\* reconcileWritebackIntent.
ClosedByReconciliation(p) ==
  /\ recon # NoRecon
  /\ queue[p].status = "reconciliation_required"
  /\ \E status \in {"completed", "dead_letter"}, error \in Codes, outcome \in Outcomes :
       queue'[p] = Released(queue[p], status, error, outcome)

RowChange(p) ==
  \/ queue'[p] = queue[p]
  \/ \E b \in BOOLEAN : queue'[p] = [queue[p] EXCEPT !.live = b]
  \/ Queued(p)
  \/ Granted(p)
  \/ ClosedByTurn(p)
  \/ BlockedByAge(p)
  \/ ClosedByOperator(p)
  \/ ClosedByReconciliation(p)

\* A step that rewrites one row changes no other.
LEMMA OneRow ==
  ASSUME TypeInv, NEW p \in Proposals, NEW row, queue' = [queue EXCEPT ![p] = row],
         queue'[p] = row => RowChange(p)
  PROVE  \A q \in Proposals : RowChange(q)
<1>1. queue'[p] = row /\ \A q \in Proposals : q # p => queue'[q] = queue[q]
  BY DEF TypeInv, TypeOK, QueueTypeOK
<1> QED BY <1>1 DEF RowChange

\* The turn of a worker.
LEMMA TurnRows ==
  ASSUME TypeInv, NEW w \in Workers, WorkerStep(w)
  PROVE  \A q \in Proposals : RowChange(q)
<1> w \in Processes
  BY DEF Processes
<1> DEFINE p == proc[w].p
           n == proc[w].lease
           res == proc[w].res
<1>0. queue \in [Proposals -> Row] /\ issued \in [Proposals -> Nat]
  BY DEF TypeInv, TypeOK, QueueTypeOK
<1>1. ASSUME UNCHANGED queue PROVE \A q \in Proposals : RowChange(q)
  BY <1>1 DEF RowChange
<1>2. CASE Poll(w) \/ Preflight(w) \/ ReadClock(w) \/ ReadOutcome(w)
  BY <1>1, <1>2 DEF Poll, Preflight, ReadClock, ReadOutcome, queueVars
<1>3. ASSUME NEW q \in Proposals, Claim(w, q) PROVE \A r \in Proposals : RowChange(r)
  <2>1. queue' = [queue EXCEPT ![q] = Leased(queue[q], w, issued[q] + 1)] /\ issued[q] + 1 \in Nat
    BY <1>0, <1>3 DEF Claim, ClaimWorkerItem
  <2>2. queue'[q] = Leased(queue[q], w, issued[q] + 1) => RowChange(q)
    BY <2>1 DEF RowChange, Granted
  <2> QED BY <2>1, <2>2, OneRow
<1>4. CASE ClaimNothing(w)
  <2>1. ASSUME NEW q \in Proposals, BlockQueuedWorkerItem(q) PROVE \A r \in Proposals : RowChange(r)
    <3>1. /\ queue' = [queue EXCEPT ![q] = Released(queue[q], "blocked", "fatal", "none")]
          /\ q \in aged /\ Candidate(q)
      BY <2>1 DEF BlockQueuedWorkerItem
    <3>2. queue'[q] = Released(queue[q], "blocked", "fatal", "none") => RowChange(q)
      BY <3>1 DEF RowChange, BlockedByAge, Candidate
    <3> QED BY <3>1, <3>2, OneRow
  <2> QED BY <1>1, <1>4, <2>1 DEF ClaimNothing, queueVars
<1>5. CASE Renew(w)
  <2>1. p \in Proposals
    BY <1>5, ProcFields DEF Renew, At, Sound
  <2>2. CASE RenewWorkerLease(w, p, n)
    <3>1. queue' = [queue EXCEPT ![p] = [queue[p] EXCEPT !.live = TRUE]]
      BY <1>0, <2>1, <2>2 DEF RenewWorkerLease
    <3>2. queue'[p] = [queue[p] EXCEPT !.live = TRUE] => RowChange(p)
      BY DEF RowChange
    <3> QED BY <2>1, <3>1, <3>2, OneRow
  <2> QED BY <1>1, <1>5, <2>2 DEF Renew, queueVars
<1>6. CASE Finish(w)
  <2>1. p \in Proposals /\ proc[w].pc = "finish" /\ proc[w].code \in Codes /\ res \in Results
    BY <1>6, ProcFields DEF Finish, At, Sound
  <2>2. proc'[w].pc = "idle"
    BY <1>6 DEF Finish, TypeInv, TypeOK, Idle
  <2>3. ASSUME HoldsLease(w, p, n), NEW status \in Statuses, NEW error \in Codes, NEW outcome \in Outcomes,
               queue' = [queue EXCEPT ![p] = Released(queue[p], status, error, outcome)],
               status = "retry_wait" => queue[p].attempts < queue[p].budget,
               outcome = "conflict" => res = "conflict"
        PROVE  \A q \in Proposals : RowChange(q)
    <3>1. queue'[p] = Released(queue[p], status, error, outcome) => ClosedByTurn(p)
      BY <2>1, <2>2, <2>3 DEF ClosedByTurn
    <3> QED BY <2>1, <2>3, <3>1, OneRow DEF RowChange
  <2>4. CASE HoldsLease(w, p, n) /\ res \in {"applied", "already_applied", "conflict"}
    <3>1. CompleteWorkerItem(w, p, n, res)
      BY <1>6, <2>4 DEF Finish
    <3>2. "completed" \in Statuses /\ "none" \in Codes /\ res \in Outcomes
      BY <2>4 DEF Statuses, Codes, Outcomes
    <3> QED BY <2>3, <2>4, <3>1, <3>2 DEF CompleteWorkerItem
  <2>5. ASSUME HoldsLease(w, p, n), NEW code \in Codes,
               NEW status \in {"dead_letter", "blocked", "reconciliation_required"},
               ParkWorkerItem(w, p, n, status, code)
        PROVE  \A q \in Proposals : RowChange(q)
    <3>1. status \in Statuses /\ status \in Outcomes /\ status # "retry_wait" /\ status # "conflict"
      BY DEF Statuses, Outcomes
    <3> QED BY <2>3, <2>5, <3>1 DEF ParkWorkerItem
  <2>6. ASSUME HoldsLease(w, p, n), NEW code \in Codes, RetryWorkerItem(w, p, n, code)
        PROVE  \A q \in Proposals : RowChange(q)
    <3>1. RetryStatus(queue[p]) \in Statuses /\ "none" \in Outcomes
      BY DEF RetryStatus, Statuses, Outcomes
    <3>2. RetryStatus(queue[p]) = "retry_wait" => queue[p].attempts < queue[p].budget
      BY <1>0, <2>1, RowFields DEF RetryStatus
    <3> QED BY <2>3, <2>6, <3>1, <3>2 DEF RetryWorkerItem
  <2>7. CASE HoldsLease(w, p, n) /\ res \notin {"applied", "already_applied", "conflict"}
    <3>1. CASE res = "reconciliation_required"
      <4>1. \E code \in Codes : ParkWorkerItem(w, p, n, "reconciliation_required", code)
        BY <1>6, <2>1, <2>7, <3>1 DEF Finish, Codes
      <4> QED BY <2>5, <2>7, <4>1
    <3>2. CASE res # "reconciliation_required"
      <4>1. FinishWorkerFailure(w, p, n, proc[w].code)
        BY <1>6, <2>7, <3>2 DEF Finish
      <4> QED BY <2>1, <2>5, <2>6, <2>7, <4>1 DEF FinishWorkerFailure
    <3> QED BY <3>1, <3>2
  <2>8. CASE ~HoldsLease(w, p, n)
    BY <1>1, <1>6, <2>8 DEF Finish, queueVars
  <2> QED BY <2>4, <2>7, <2>8
<1> QED BY <1>2, <1>3, <1>4, <1>5, <1>6 DEF WorkerStep, ClaimTurn

\* Store clients, time and reconciliation.
LEMMA StoreRows ==
  ASSUME TypeInv, QueueCall \/ Time \/ ReconcileWritebackIntent
  PROVE  \A q \in Proposals : RowChange(q)
<1>0. queue \in [Proposals -> Row]
  BY DEF TypeInv, TypeOK, QueueTypeOK
<1>1. ASSUME UNCHANGED queue PROVE \A q \in Proposals : RowChange(q)
  BY <1>1 DEF RowChange
<1>2. CASE QueueCall
  <2>1. call.op # "none" => call.p \in Proposals
    BY DEF TypeInv, TypeOK, QueueTypeOK, NoCall
  <2>2. ASSUME NEW p \in Proposals, queue[p].status # "leased", NEW n \in {MaxAttempts, RetryBudget},
               queue' = [queue EXCEPT ![p] = [NoRow EXCEPT !.status = "queued", !.budget = n]]
        PROVE  \A q \in Proposals : RowChange(q)
    <3>1. queue'[p] = [NoRow EXCEPT !.status = "queued", !.budget = n] => Queued(p)
      BY <2>2 DEF Queued
    <3> QED BY <2>2, <3>1, OneRow DEF RowChange
  <2>3. ASSUME NEW p \in Proposals, queue[p].status # "leased", NEW s \in {"cancelled", "discarded"},
               queue' = [queue EXCEPT ![p] = Released(queue[p], s, queue[p].error, s)]
        PROVE  \A q \in Proposals : RowChange(q)
    <3>1. queue'[p] = Released(queue[p], s, queue[p].error, s) => ClosedByOperator(p)
      BY <2>3 DEF ClosedByOperator
    <3> QED BY <2>3, <3>1, OneRow DEF RowChange
  <2>4. CASE CommitEnqueue
    BY <2>1, <2>2, <2>4 DEF CommitEnqueue
  <2>5. CASE CommitCancel
    BY <2>1, <2>3, <2>5 DEF CommitCancel
  <2>6. ASSUME NEW b, CommitRequeue(b) PROVE \A q \in Proposals : RowChange(q)
    BY <2>1, <2>2, <2>6 DEF CommitRequeue
  <2>7. ASSUME NEW p \in Proposals, DiscardDeadLetter(p) PROVE \A q \in Proposals : RowChange(q)
    BY <2>3, <2>7 DEF DiscardDeadLetter
  <2>8. CASE AbandonCall \/ \E op \in CallOps, p \in Proposals : BeginCall(op, p)
    BY <1>1, <2>8 DEF AbandonCall, BeginCall
  <2> QED BY <1>2, <2>4, <2>5, <2>6, <2>7, <2>8 DEF QueueCall
<1>3. CASE Time
  <2>1. ASSUME NEW p \in Proposals, LeaseExpires(p) PROVE \A q \in Proposals : RowChange(q)
    <3>1. queue' = [queue EXCEPT ![p] = [queue[p] EXCEPT !.live = FALSE]]
      BY <1>0, <2>1 DEF LeaseExpires
    <3>2. queue'[p] = [queue[p] EXCEPT !.live = FALSE] => RowChange(p)
      BY DEF RowChange
    <3> QED BY <3>1, <3>2, OneRow
  <2> QED BY <1>1, <1>3, <2>1 DEF Time, ProposalAges, RateWindowPasses
<1>4. CASE ReconcileWritebackIntent
  <2> DEFINE p == recon.p
             out == recon.outcome
  <2>1. p \in Proposals /\ out \in {"applied", "failed", "conflict"} /\ recon # NoRecon
    BY <1>4 DEF ReconcileWritebackIntent, TypeInv, TypeOK
  <2>2. CASE queue[p].status # "reconciliation_required"
    BY <1>0, <1>1, <1>4, <2>2 DEF ReconcileWritebackIntent
  <2>3. CASE queue[p].status = "reconciliation_required"
    <3>1. \/ queue' = [queue EXCEPT ![p] = Released(queue[p], "dead_letter", "fatal", "dead_letter")]
          \/ queue' = [queue EXCEPT ![p] = Released(queue[p], "completed", "none", out)] /\ out # "failed"
      BY <1>4, <2>3 DEF ReconcileWritebackIntent
    <3>2. {"none", "fatal"} \subseteq Codes /\ "dead_letter" \in Outcomes
          /\ (out # "failed" => out \in Outcomes)
      BY <2>1 DEF Codes, Outcomes
    <3>3. ASSUME NEW s \in {"completed", "dead_letter"}, NEW e \in Codes, NEW o \in Outcomes,
                 queue' = [queue EXCEPT ![p] = Released(queue[p], s, e, o)]
          PROVE  \A q \in Proposals : RowChange(q)
      <4>1. queue'[p] = Released(queue[p], s, e, o) => ClosedByReconciliation(p)
        BY <2>1, <2>3, <3>3 DEF ClosedByReconciliation
      <4> QED BY <2>1, <3>3, <4>1, OneRow DEF RowChange
    <3> QED BY <3>1, <3>2, <3>3
  <2> QED BY <2>2, <2>3
<1> QED BY <1>2, <1>3, <1>4

\* Every step changes every row in one of these ways, or not at all.
LEMMA RowStep ==
  ASSUME TypeInv, [Next]_vars
  PROVE  \A q \in Proposals : RowChange(q)
<1>1. ASSUME UNCHANGED queue PROVE \A q \in Proposals : RowChange(q)
  BY <1>1 DEF RowChange
<1>2. ASSUME NEW x \in Processes, ApplyStep(x) PROVE UNCHANGED queue
  BY <1>2 DEF ApplyStep, ReadProposal, CreateJob, Verify, ApplyWithSourceReceipt, ClaimWritebackIntent,
              MarkWritebackIntentApplying, ApplyWithIntent, CompleteWritebackIntent, ReadForReceipt,
              RecordExecutionReceipt, ConnectionFails, queueVars
<1>3. CASE \/ \E o \in Operators, p \in Proposals : ManualApply(o, p)
           \/ \E p \in Proposals : ObserveSource(p)
           \/ AbandonReconciliation \/ ToggleGate
           \/ \E r \in Rows : ExternalWrite(r)
           \/ \E x \in Processes : Crash(x)
           \/ UNCHANGED vars
  BY <1>1, <1>3 DEF ManualApply, ObserveSource, AbandonReconciliation, ToggleGate, ExternalWrite,
                    Crash, queueVars, vars
<1> QED BY <1>1, <1>2, <1>3, TurnRows, StoreRows DEF Next

\* The columns of a row after each kind of update.
LEMMA UpdatedRow ==
  ASSUME TypeInv, NEW p \in Proposals
  PROVE  /\ \A st, e, o : /\ Released(queue[p], st, e, o).status = st
                          /\ Released(queue[p], st, e, o).outcome = o
                          /\ Released(queue[p], st, e, o).attempts = queue[p].attempts
                          /\ Released(queue[p], st, e, o).budget = queue[p].budget
         /\ \A w, n : Leased(queue[p], w, n).status = "leased" /\ Leased(queue[p], w, n).outcome = "none"
         /\ \A b : /\ [queue[p] EXCEPT !.live = b].status = queue[p].status
                   /\ [queue[p] EXCEPT !.live = b].outcome = queue[p].outcome
                   /\ [queue[p] EXCEPT !.live = b].attempts = queue[p].attempts
                   /\ [queue[p] EXCEPT !.live = b].budget = queue[p].budget
         /\ \A n : /\ [NoRow EXCEPT !.status = "queued", !.budget = n].status = "queued"
                   /\ [NoRow EXCEPT !.status = "queued", !.budget = n].outcome = "none"
<1>1. queue[p] \in Row
  BY DEF TypeInv, TypeOK, QueueTypeOK
<1> QED BY <1>1 DEF Row, Released, Leased, NoRow

\* A row waits for a retry only while it has budget for it: retryWorkerItem
\* compares before it schedules, and nothing changes the two columns of a row
\* that waits.
THEOREM RetriesWithinBudget == Spec => []RetryWithinBudget
<1>1. Init => RetryWithinBudget
  BY DEF Init, QueueInit, NoRow, RetryWithinBudget
<1>2. TypeInv /\ RetryWithinBudget /\ [Next]_vars => RetryWithinBudget'
  <2> SUFFICES ASSUME TypeInv, RetryWithinBudget, [Next]_vars,
                      NEW p \in Proposals, queue'[p].status = "retry_wait"
               PROVE  queue'[p].attempts < queue'[p].budget
    BY DEF RetryWithinBudget
  <2>0. queue[p].status = "retry_wait" => queue[p].attempts < queue[p].budget
    BY DEF RetryWithinBudget
  <2>1. CASE queue'[p] = queue[p]
    BY <2>0, <2>1
  <2>2. ASSUME NEW b \in BOOLEAN, queue'[p] = [queue[p] EXCEPT !.live = b]
        PROVE  queue'[p].attempts < queue'[p].budget
    BY <2>0, <2>2, UpdatedRow
  <2>3. CASE ClosedByTurn(p)
    <3>1. PICK status \in Statuses, error \in Codes, outcome \in Outcomes :
            /\ queue'[p] = Released(queue[p], status, error, outcome)
            /\ status = "retry_wait" => queue[p].attempts < queue[p].budget
      BY <2>3 DEF ClosedByTurn
    <3> QED BY <3>1, UpdatedRow
  <2>4. ~Queued(p) /\ ~Granted(p) /\ ~BlockedByAge(p)
    <3>1. ~Queued(p)
      BY UpdatedRow DEF Queued
    <3>2. ASSUME Granted(p) PROVE FALSE
      <4>1. PICK w \in Workers, n \in Nat : queue'[p] = Leased(queue[p], w, n)
        BY <3>2 DEF Granted
      <4>2. Leased(queue[p], w, n).status = "leased"
        BY UpdatedRow
      <4> QED BY <4>1, <4>2
    <3>3. ~BlockedByAge(p)
      BY UpdatedRow DEF BlockedByAge
    <3> QED BY <3>1, <3>2, <3>3
  <2>5. ~ClosedByOperator(p) /\ ~ClosedByReconciliation(p)
    BY UpdatedRow DEF ClosedByOperator, ClosedByReconciliation
  <2> QED BY <2>1, <2>2, <2>3, <2>4, <2>5, RowStep DEF RowChange
<1> QED BY <1>1, <1>2, InitType, TypeStep, PTL DEF Spec

\* A leased row is closed by the worker that presents the row's own lease, or
\* by a claim that finds it expired and past its TTL, for any number of
\* workers: assertWorkerLease fences out every other.
THEOREM LeasesAreFenced == Spec => LeaseFencing
<1> DEFINE Fenced ==
      \A p \in Proposals :
        queue[p].status = "leased" /\ queue'[p].status # "leased" =>
          \/ \E w \in Workers :
               /\ proc[w].p = p /\ proc[w].pc = "finish" /\ proc'[w].pc = "idle"
               /\ proc[w].lease = queue[p].lease
          \/ ~queue[p].live /\ p \in aged
<1>1. TypeInv /\ [Next]_vars => [Fenced]_vars
  <2> SUFFICES ASSUME TypeInv, [Next]_vars, NEW p \in Proposals,
                      queue[p].status = "leased", queue'[p].status # "leased"
               PROVE  \/ \E w \in Workers :
                           /\ proc[w].p = p /\ proc[w].pc = "finish" /\ proc'[w].pc = "idle"
                           /\ proc[w].lease = queue[p].lease
                      \/ ~queue[p].live /\ p \in aged
    OBVIOUS
  <2>1. /\ queue'[p] # queue[p]
        /\ \A b \in BOOLEAN : queue'[p] # [queue[p] EXCEPT !.live = b]
    <3>1. ASSUME NEW b \in BOOLEAN, queue'[p] = [queue[p] EXCEPT !.live = b] PROVE FALSE
      <4>1. [queue[p] EXCEPT !.live = b].status = queue[p].status
        BY UpdatedRow
      <4> QED BY <3>1, <4>1
    <3> QED BY <3>1
  <2>2. ASSUME Granted(p) PROVE FALSE
    <3>1. PICK w \in Workers, n \in Nat : queue'[p] = Leased(queue[p], w, n)
      BY <2>2 DEF Granted
    <3>2. Leased(queue[p], w, n).status = "leased"
      BY UpdatedRow
    <3> QED BY <3>1, <3>2
  <2>3. ~Queued(p) /\ ~ClosedByOperator(p) /\ ~ClosedByReconciliation(p)
    BY DEF Queued, ClosedByOperator, ClosedByReconciliation
  <2>4. ClosedByTurn(p) \/ BlockedByAge(p)
    BY <2>1, <2>2, <2>3, RowStep DEF RowChange
  <2> QED BY <2>4 DEF ClosedByTurn, BlockedByAge, HoldsLease
<1> QED BY <1>1, InitType, TypeStep, PTL DEF Spec, LeaseFencing

-----------------------------------------------------------------------------
(***************************************************************************)
(* Conflicts under source receipts.  A conflict is first written to the    *)
(* receipt row of the source, in the transaction that found it; this row   *)
(* never changes again, and without it no process, state or queue row      *)
(* speaks of a conflict.                                                   *)
(***************************************************************************)

ProcConflict == \A x \in Processes :
  proc[x].res = "conflict" => proc[x].p \in Proposals /\ srcReceipt[proc[x].p] = "conflict"

SourceConflict == \A p \in Proposals : srcReceipt[p] = "conflict" => effects[p] = 0

LedgerConflict == \A p \in Proposals :
  pstate[p] = "conflict" \/ queue[p].outcome = "conflict" => srcReceipt[p] = "conflict"

ConflictInv == Authority = "source_db" => SourceConflict /\ ProcConflict /\ LedgerConflict

\* A receipt row that says conflict stays, and is without an effect.
LEMMA SourceConflictStep ==
  ASSUME TypeInv, EffectInv, SourceConflict, Authority = "source_db", [Next]_vars
  PROVE  /\ SourceConflict'
         /\ \A q \in Proposals : srcReceipt[q] = "conflict" => srcReceipt'[q] = "conflict"
<1> DEFINE Goal == /\ SourceConflict'
                   /\ \A q \in Proposals : srcReceipt[q] = "conflict" => srcReceipt'[q] = "conflict"
<1>1. effects \in [Proposals -> Nat] /\ srcReceipt \in [Proposals -> Results]
  BY DEF TypeInv, TypeOK
<1>2. ASSUME UNCHANGED <<effects, srcReceipt>> PROVE Goal
  BY <1>2 DEF SourceConflict
<1>3. ASSUME NEW x \in Processes, ApplyWithSourceReceipt(x) PROVE Goal
  <2> DEFINE p == proc[x].p
  <2>1. p \in Proposals
    BY <1>3, ProcFields DEF ApplyWithSourceReceipt, At, Sound
  <2>2. ASSUME ClaimSourceReceipt(p) = "none", NEW out \in MutationOutcomes(p), Mutates(p, out),
               srcReceipt' = [srcReceipt EXCEPT ![p] = out]
        PROVE  Goal
    <3>1. effects[p] = 0
      BY <2>1, <2>2 DEF ClaimSourceReceipt, EffectInv, Evidence
    <3>2. \A q \in Proposals : srcReceipt'[q] = IF q = p THEN out ELSE srcReceipt[q]
      BY <1>1, <2>1, <2>2
    <3>3. \A q \in Proposals : effects'[q] = IF q = p /\ out = "applied" THEN 1 ELSE effects[q]
      BY <2>1, <2>2, <3>1, MutationStep
    <3> QED BY <2>1, <2>2, <3>1, <3>2, <3>3 DEF SourceConflict, ClaimSourceReceipt
  <2> QED BY <1>2, <1>3, <2>2 DEF ApplyWithSourceReceipt, NotCommitted, sourceVars
<1>4. ASSUME NEW x \in Processes PROVE ~ApplyWithIntent(x)
  BY ProcFields DEF ApplyWithIntent, At, Sound
<1>5. ASSUME NEW r \in Rows, ExternalWrite(r) PROVE Goal
  BY <1>2, <1>5 DEF ExternalWrite
<1> QED BY <1>2, <1>3, <1>4, <1>5, SourceSteps DEF sourceVars

\* The processes: the result is the receipt's, or that of the proposal's state.
LEMMA ProcConflictStep ==
  ASSUME TypeInv, EffectInv, ConflictInv, Authority = "source_db", [Next]_vars
  PROVE  ProcConflict'
<1>0. /\ SourceConflict /\ ProcConflict /\ LedgerConflict
      /\ \A q \in Proposals : srcReceipt[q] = "conflict" => srcReceipt'[q] = "conflict"
  BY SourceConflictStep DEF ConflictInv
<1>1. ASSUME UNCHANGED proc PROVE ProcConflict'
  BY <1>0, <1>1 DEF ProcConflict
<1>2. ASSUME NEW x \in Processes, NEW s, proc' = [proc EXCEPT ![x] = s],
             s.res = "conflict" => s.p \in Proposals /\ srcReceipt'[s.p] = "conflict"
      PROVE  ProcConflict'
  <2>1. \A y \in Processes : proc'[y] = IF y = x THEN s ELSE proc[y]
    BY <1>2 DEF TypeInv, TypeOK
  <2> QED BY <1>0, <1>2, <2>1 DEF ProcConflict
<1>3. ASSUME NEW x \in Processes, NEW s, proc' = [proc EXCEPT ![x] = s],
             s.res = proc[x].res, s.p = proc[x].p
      PROVE  ProcConflict'
  <2>1. s.res = "conflict" => s.p \in Proposals /\ srcReceipt'[s.p] = "conflict"
    BY <1>0, <1>3 DEF ProcConflict
  <2> QED BY <1>2, <1>3, <2>1
<1>4. ASSUME NEW x \in Processes, NEW pc, Goto(x, pc) PROVE ProcConflict'
  <2> DEFINE s == [proc[x] EXCEPT !.pc = pc]
  <2>1. proc' = [proc EXCEPT ![x] = s] /\ s.res = proc[x].res /\ s.p = proc[x].p
    BY <1>4, ProcFields DEF Goto, TypeInv, TypeOK, Process
  <2> HIDE DEF s
  <2> QED BY <1>3, <2>1
<1>5. ASSUME NEW x \in Processes, NEW pc, NEW res, NEW code, WithResult(x, pc, res, code),
             res = "conflict" => proc[x].p \in Proposals /\ srcReceipt'[proc[x].p] = "conflict"
      PROVE  ProcConflict'
  <2> DEFINE s == [proc[x] EXCEPT !.pc = pc, !.res = res, !.code = code]
  <2>1. proc' = [proc EXCEPT ![x] = s] /\ s.res = res /\ s.p = proc[x].p
    BY <1>5, ProcFields DEF WithResult, TypeInv, TypeOK, Process
  <2> HIDE DEF s
  <2> QED BY <1>2, <1>5, <2>1
<1>6. ASSUME NEW x \in Processes, proc' = [proc EXCEPT ![x] = Idle] PROVE ProcConflict'
  <2>1. Idle.res # "conflict"
    BY DEF Idle
  <2> QED BY <1>2, <1>6, <2>1
<1>7. ASSUME NEW x \in Processes, NEW code, Throw(x, code) PROVE ProcConflict'
  BY <1>5, <1>6, <1>7 DEF Throw
<1>8. ASSUME NEW w \in Workers, WorkerStep(w) PROVE ProcConflict'
  <2> w \in Processes
    BY DEF Processes
  <2>1. CASE Poll(w) \/ ClaimNothing(w)
    BY <1>4, <2>1 DEF Poll, ClaimNothing
  <2>2. CASE Preflight(w)
    <3>1. \/ Goto(w, "read") \/ Goto(w, "renew") \/ Throw(w, "fatal") \/ Throw(w, "held")
      BY <2>2, QueueAssumption DEF Preflight
    <3> QED BY <1>4, <1>7, <3>1
  <2>3. CASE ReadClock(w) \/ Renew(w)
    BY <1>4, <1>7, <2>3 DEF ReadClock, Renew
  <2>4. ASSUME NEW p \in Proposals, Claim(w, p) PROVE ProcConflict'
    <3> DEFINE s == [Idle EXCEPT !.pc = "claimed", !.p = p, !.lease = issued[p] + 1,
                                 !.attempt = queue[p].attempts + 1]
    <3>1. s.res # "conflict" /\ proc' = [proc EXCEPT ![w] = s]
      BY <2>4 DEF Idle, Claim
    <3> HIDE DEF s
    <3> QED BY <1>2, <3>1
  <2>5. CASE Finish(w)
    BY <1>6, <2>5 DEF Finish
  <2>6. CASE ReadOutcome(w)
    <3> DEFINE p == proc[w].p
    <3>1. p \in Proposals
      BY <2>6, ProcFields DEF ReadOutcome, At, Sound
    <3>2. pstate[p] = "conflict" => srcReceipt'[p] = "conflict"
      BY <1>0, <3>1 DEF LedgerConflict
    <3>3. \E r, c : WithResult(w, "finish", r, c) /\ (r = "conflict" => pstate[p] = "conflict")
      <4>1. CASE pstate[p] = "applied"
        BY <2>6, <4>1 DEF ReadOutcome
      <4>2. CASE pstate[p] \in {"conflict", "reconciliation_required"}
        BY <2>6, <4>2 DEF ReadOutcome
      <4>3. CASE pstate[p] \notin {"applied", "conflict", "reconciliation_required"}
        <5>1. \E c : WithResult(w, "finish", "failed", c)
          BY <2>6, <4>3 DEF ReadOutcome
        <5> QED BY <5>1
      <4> QED BY <4>1, <4>2, <4>3
    <3> QED BY <1>5, <3>1, <3>2, <3>3
  <2> QED BY <1>8, <2>1, <2>2, <2>3, <2>4, <2>5, <2>6 DEF WorkerStep, ClaimTurn
<1>9. ASSUME NEW x \in Processes, ApplyStep(x) PROVE ProcConflict'
  <2> DEFINE p == proc[x].p
  <2>1. CASE ReadProposal(x)
    <3> DEFINE s == [proc[x] EXCEPT !.pc = "job", !.seen = pstate[p]]
    <3>1. s.res = proc[x].res /\ s.p = proc[x].p
      BY ProcFields DEF Process
    <3>2. Throw(x, "fatal") \/ proc' = [proc EXCEPT ![x] = s]
      BY <2>1 DEF ReadProposal, TypeInv, TypeOK
    <3> HIDE DEF s
    <3> QED BY <1>3, <1>7, <3>1, <3>2
  <2>2. CASE CreateJob(x)
    <3> DEFINE s == [proc[x] EXCEPT !.pc = "verify", !.seen = Idle.seen]
    <3>1. s.res = proc[x].res /\ s.p = proc[x].p /\ proc' = [proc EXCEPT ![x] = s]
      BY <2>2, ProcFields DEF CreateJob, TypeInv, TypeOK, Process
    <3> HIDE DEF s
    <3> QED BY <1>3, <3>1
  <2>3. CASE Verify(x)
    BY <1>4, <1>7, <2>3 DEF Verify
  <2>4. CASE ApplyWithSourceReceipt(x)
    <3>1. p \in Proposals
      BY <2>4, ProcFields DEF ApplyWithSourceReceipt, At, Sound
    <3>2. ASSUME NEW res, Acknowledged(x, "receipt", res),
                 res = "conflict" => srcReceipt'[p] = "conflict"
          PROVE  ProcConflict'
      BY <1>5, <3>1, <3>2 DEF Acknowledged
    <3>3. CASE NotCommitted(x, "receipt")
      BY <1>5, <3>3 DEF NotCommitted
    <3>4. ResultFromExistingReceipt(ClaimSourceReceipt(p)) = "conflict" => srcReceipt'[p] = "conflict"
      BY <1>0, <3>1 DEF ResultFromExistingReceipt, ClaimSourceReceipt
    <3>5. ASSUME NEW out, srcReceipt' = [srcReceipt EXCEPT ![p] = out]
          PROVE  out = "conflict" => srcReceipt'[p] = "conflict"
      BY <3>1, <3>5 DEF TypeInv, TypeOK
    <3> QED BY <2>4, <3>2, <3>3, <3>4, <3>5 DEF ApplyWithSourceReceipt
  <2>5. CASE \/ ClaimWritebackIntent(x) \/ MarkWritebackIntentApplying(x)
             \/ ApplyWithIntent(x) \/ CompleteWritebackIntent(x)
    BY <2>5, ProcFields
       DEF ClaimWritebackIntent, MarkWritebackIntentApplying, ApplyWithIntent,
           CompleteWritebackIntent, At, Sound
  <2>6. CASE ReadForReceipt(x)
    <3> DEFINE s == [proc[x] EXCEPT !.pc = "record", !.sawMutated = mutated[p]]
    <3>1. s.res = proc[x].res /\ s.p = proc[x].p /\ proc' = [proc EXCEPT ![x] = s]
      BY <2>6, ProcFields DEF ReadForReceipt, TypeInv, TypeOK, Process
    <3> HIDE DEF s
    <3> QED BY <1>3, <3>1
  <2>7. CASE RecordExecutionReceipt(x)
    <3> DEFINE s == [Idle EXCEPT !.pc = "outcome", !.p = p, !.lease = proc[x].lease]
    <3>1. s.res # "conflict"
      BY DEF Idle
    <3>2. proc' = [proc EXCEPT ![x] = s] \/ proc' = [proc EXCEPT ![x] = Idle]
      BY <2>7 DEF RecordExecutionReceipt
    <3> HIDE DEF s
    <3> QED BY <1>2, <1>6, <3>1, <3>2
  <2>8. CASE ConnectionFails(x)
    BY <1>5, <2>8 DEF ConnectionFails
  <2> QED BY <1>9, <2>1, <2>2, <2>3, <2>4, <2>5, <2>6, <2>7, <2>8 DEF ApplyStep
<1>10. ASSUME NEW o \in Operators, NEW p \in Proposals, ManualApply(o, p) PROVE ProcConflict'
  <2> DEFINE s == [Idle EXCEPT !.pc = "read", !.p = p, !.attempt = 1]
  <2>1. s.res # "conflict" /\ o \in Processes /\ proc' = [proc EXCEPT ![o] = s]
    BY <1>10 DEF Idle, Processes, ManualApply
  <2> HIDE DEF s
  <2> QED BY <1>2, <2>1
<1>11. ASSUME NEW x \in Processes, Crash(x) PROVE ProcConflict'
  BY <1>6, <1>11 DEF Crash
<1>12. CASE \/ \E p \in Proposals : ObserveSource(p)
            \/ ReconcileWritebackIntent \/ AbandonReconciliation
            \/ QueueCall \/ ToggleGate \/ Time \/ \E r \in Rows : ExternalWrite(r)
            \/ UNCHANGED vars
  BY <1>1, <1>12 DEF ObserveSource, ReconcileWritebackIntent, AbandonReconciliation,
                     QueueCall, ToggleGate, Time, ExternalWrite, vars
<1> QED BY <1>8, <1>9, <1>10, <1>11, <1>12 DEF Next

\* A proposal becomes a conflict only by the receipt of an execution that
\* carries this result, or by a reconciliation.
LEMMA StateConflictStep ==
  ASSUME TypeInv, [Next]_vars, NEW p \in Proposals, pstate'[p] = "conflict"
  PROVE  \/ pstate[p] = "conflict"
         \/ recon # NoRecon
         \/ \E x \in Processes : proc[x].p = p /\ proc[x].res = "conflict"
<1> DEFINE Goal == \/ pstate[p] = "conflict"
                   \/ recon # NoRecon
                   \/ \E x \in Processes : proc[x].p = p /\ proc[x].res = "conflict"
<1>0. pstate \in [Proposals -> States]
  BY DEF TypeInv, TypeOK, QueueTypeOK
<1>1. CASE UNCHANGED pstate
  BY <1>1
<1>2. ASSUME NEW w \in Workers, WorkerStep(w) PROVE Goal
  <2>1. ASSUME NEW q \in Proposals, Claim(w, q) PROVE Goal
    BY <1>0, <2>1 DEF Claim, ClaimWorkerItem
  <2>2. CASE Finish(w)
    BY <1>1, <2>2 DEF Finish, FinishWorkerFailure, CompleteWorkerItem, ParkWorkerItem, RetryWorkerItem,
                      queueVars
  <2>3. CASE \/ Poll(w) \/ ClaimNothing(w) \/ Preflight(w) \/ ReadClock(w) \/ Renew(w)
             \/ ReadOutcome(w)
    BY <1>1, <2>3 DEF Poll, ClaimNothing, BlockQueuedWorkerItem, Preflight, ReadClock, Renew,
                      RenewWorkerLease, ReadOutcome, queueVars
  <2> QED BY <1>2, <2>1, <2>2, <2>3 DEF WorkerStep, ClaimTurn
<1>3. ASSUME NEW x \in Processes, ApplyStep(x) PROVE Goal
  <2>1. CASE CreateJob(x)
    BY <1>0, <2>1 DEF CreateJob
  <2>2. CASE RecordExecutionReceipt(x)
    <3>1. pstate' = [pstate EXCEPT ![proc[x].p] = StateFromReceipt(proc[x].res)]
      BY <2>2 DEF RecordExecutionReceipt, RecordRows
    <3>2. StateFromReceipt(proc[x].res) = "conflict" => proc[x].res = "conflict"
      BY DEF StateFromReceipt
    <3> QED BY <1>0, <3>1, <3>2
  <2>3. CASE ~CreateJob(x) /\ ~RecordExecutionReceipt(x)
    BY <1>1, <1>3, <2>3 DEF ApplyStep, ReadProposal, Verify, ApplyWithSourceReceipt,
         ClaimWritebackIntent, MarkWritebackIntentApplying, ApplyWithIntent, CompleteWritebackIntent,
         ReadForReceipt, ConnectionFails, queueVars
  <2> QED BY <2>1, <2>2, <2>3
<1>4. CASE QueueCall
  <2>1. CASE CommitCancel
    BY <1>0, <2>1 DEF CommitCancel
  <2>2. ASSUME NEW b, CommitRequeue(b) PROVE Goal
    BY <1>0, <2>2 DEF CommitRequeue
  <2>3. CASE \/ \E op \in CallOps, q \in Proposals : BeginCall(op, q)
             \/ AbandonCall \/ CommitEnqueue \/ \E q \in Proposals : DiscardDeadLetter(q)
    BY <1>1, <2>3 DEF BeginCall, AbandonCall, CommitEnqueue, DiscardDeadLetter
  <2> QED BY <1>4, <2>1, <2>2, <2>3 DEF QueueCall
<1>5. CASE ReconcileWritebackIntent
  BY <1>5 DEF ReconcileWritebackIntent
<1>6. CASE \/ \E o \in Operators, q \in Proposals : ManualApply(o, q)
           \/ \E q \in Proposals : ObserveSource(q)
           \/ AbandonReconciliation \/ ToggleGate \/ Time
           \/ \E r \in Rows : ExternalWrite(r)
           \/ \E x \in Processes : Crash(x)
           \/ UNCHANGED vars
  BY <1>1, <1>6 DEF ManualApply, ObserveSource, AbandonReconciliation, ToggleGate, Time, LeaseExpires,
                    ProposalAges, RateWindowPasses, ExternalWrite, Crash, queueVars, vars
<1> QED BY <1>2, <1>3, <1>4, <1>5, <1>6 DEF Next

\* States and queue outcomes name a conflict only after the receipt row does.
LEMMA LedgerConflictStep ==
  ASSUME TypeInv, ReconInv, EffectInv, ConflictInv, Authority = "source_db", [Next]_vars
  PROVE  LedgerConflict'
<1>0. /\ SourceConflict /\ ProcConflict /\ LedgerConflict /\ recon = NoRecon
      /\ \A q \in Proposals : srcReceipt[q] = "conflict" => srcReceipt'[q] = "conflict"
  BY SourceConflictStep DEF ConflictInv, ReconInv
<1> SUFFICES ASSUME NEW p \in Proposals, pstate'[p] = "conflict" \/ queue'[p].outcome = "conflict"
             PROVE  srcReceipt'[p] = "conflict"
  BY DEF LedgerConflict
<1>1. CASE pstate'[p] = "conflict"
  BY <1>0, <1>1, StateConflictStep DEF ProcConflict, LedgerConflict
<1>2. CASE queue'[p].outcome = "conflict"
  <2>1. CASE queue[p].outcome = "conflict"
    BY <1>0, <2>1 DEF LedgerConflict
  <2>2. CASE queue[p].outcome # "conflict"
    <3>1. queue'[p] # queue[p]
      BY <1>2, <2>2
    <3>2. ASSUME NEW b \in BOOLEAN, queue'[p] = [queue[p] EXCEPT !.live = b] PROVE FALSE
      <4>1. [queue[p] EXCEPT !.live = b].outcome = queue[p].outcome
        BY UpdatedRow
      <4> QED BY <1>2, <2>2, <3>2, <4>1
    <3>3. ASSUME Granted(p) PROVE FALSE
      <4>1. PICK w \in Workers, n \in Nat : queue'[p] = Leased(queue[p], w, n)
        BY <3>3 DEF Granted
      <4>2. Leased(queue[p], w, n).outcome = "none"
        BY UpdatedRow
      <4> QED BY <1>2, <4>1, <4>2
    <3>4. ~Queued(p)
      BY <1>2, UpdatedRow DEF Queued
    <3>5. ~BlockedByAge(p) /\ ~ClosedByOperator(p)
      BY <1>2, UpdatedRow DEF BlockedByAge, ClosedByOperator
    <3>6. ~ClosedByReconciliation(p)
      BY <1>0 DEF ClosedByReconciliation
    <3>7. ClosedByTurn(p)
      BY <3>1, <3>2, <3>3, <3>4, <3>5, <3>6, RowStep DEF RowChange
    <3>8. PICK w \in Workers : /\ proc[w].p = p
                               /\ \E st \in Statuses, e \in Codes, o \in Outcomes :
                                    /\ queue'[p] = Released(queue[p], st, e, o)
                                    /\ o = "conflict" => proc[w].res = "conflict"
      BY <3>7 DEF ClosedByTurn
    <3>9. proc[w].res = "conflict"
      BY <1>2, <3>8, UpdatedRow
    <3> QED BY <1>0, <3>8, <3>9 DEF ProcConflict, Processes
  <2> QED BY <2>1, <2>2
<1> QED BY <1>1, <1>2

\* With source receipts, whoever reports a proposal as a conflict, in its
\* state or in its queue row, and however late: the source was not touched
\* for it.
THEOREM ConflictsAreReal == Spec => []ConflictMeansUntouched
<1> DEFINE Inv == EffectInv /\ ReconInv /\ ConflictInv
<1>1. Init => Inv
  BY DEF Init, QueueInit, NoRow, Idle, EffectInv, ReconInv, ConflictInv, SourceConflict, ProcConflict,
         LedgerConflict
<1>2. TypeInv /\ Inv /\ [Next]_vars => Inv'
  <2> SUFFICES ASSUME TypeInv, Inv, [Next]_vars PROVE Inv'
    OBVIOUS
  <2>1. EffectInv' /\ ReconInv'
    BY EffectStep, ReconStep
  <2>2. ConflictInv'
    BY SourceConflictStep, ProcConflictStep, LedgerConflictStep DEF ConflictInv
  <2> QED BY <2>1, <2>2
<1>3. Inv => ConflictMeansUntouched
  BY DEF ConflictInv, SourceConflict, LedgerConflict, ConflictMeansUntouched
<1> QED BY <1>1, <1>2, <1>3, InitType, TypeStep, PTL DEF Spec
=============================================================================
