--------------------------- MODULE MCCloudOutbox ---------------------------
(***************************************************************************)
(* CloudOutbox for TLC: the first proposal has an activity and a result,   *)
(* the second is an event only.                                            *)
(*                                                                         *)
(* Bound: the second proposal and the activity of the first do not come    *)
(* about together, and when the second proposal or a result does, only the *)
(* synchronizer `first' is left (the processes of the others have ended).  *)
(* So two synchronizers meet on a proposal and its activity, and one goes  *)
(* through two proposals, or through all the events of one.                *)
(***************************************************************************)
EXTENDS CloudOutbox

CONSTANT first

MCLast == [p \in Proposals |-> IF p = 1 THEN 2 ELSE 0]
MCResults == {<<1, 2>>}

Alone == {<<1, 2>>, <<2, 0>>}
Queue == {e \in Events : outbox[e].status # "none"}

Running == IF Queue \cap Alone = {} THEN Syncs ELSE {first}

Within(e) ==
    /\ ~({<<1, 1>>, <<2, 0>>} \subseteq Queue \cup {e})
    /\ e \in Alone => \A s \in Syncs \ {first} : sync[s] = Idle

\* Next, with the processes that are running.
MCNext ==
    \/ \E e \in Events : \/ Within(e) /\ Enqueue(e)
                         \/ Within(e) /\ EnqueueResult(e)
                         \/ ReadRetry(e) \/ Requeue(e) \/ LeaseExpires(e) \/ BecomesDue(e)
    \/ \E p \in Proposals, decision \in CloudStates : CloudDecides(p, decision)
    \/ \E s \in Running : \/ Step(s) \/ StatusFails(s) \/ Crash(s)
                          \/ \E e \in Events : Compact(s, e)

\* Fairness, for the processes that are running.
MCSpec ==
    /\ Init /\ [][MCNext]_vars
    /\ \A s \in Syncs : WF_vars(s \in Running /\ Step(s))
    /\ \A e \in Events : WF_vars(LeaseExpires(e)) /\ WF_vars(BecomesDue(e))
=============================================================================
