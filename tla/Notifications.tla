---------------------------- MODULE Notifications ----------------------------
(***************************************************************************)
(* Outbound notifications: `notifications dispatch' plans one delivery for *)
(* each attention event and sink, gathers batched deliveries into a digest,*)
(* leases what is due, sends it and finalizes it.  Any number of these     *)
(* commands work on one store, each store call a transaction of its own,   *)
(* and each may die between two calls.                                     *)
(*                                                                         *)
(* One sink.  The route of an event (filters, quiet hours, budgets,        *)
(* coalescing) depends on data that is left out: an event may be sent at   *)
(* once or later, batched or suppressed.  A digest is named after the set  *)
(* of its events.  A command started for another sink (--sink) plans       *)
(* nothing here, but what it claims is not restricted to that sink.        *)
(***************************************************************************)
EXTENDS Naturals, FiniteSets

CONSTANTS
    Events,       \* attention events
    Commands,     \* concurrent dispatch commands
    Routes,       \* the routes an event may get
    MaxAttempts,  \* max_attempts
    MaxCrashes,   \* bound: commands that die in one behaviour
    Replayed,     \* the statuses that operators replay from
    MaxReplays,   \* bound: deliveries that operators replay
    NoLease       \* lease_id IS NULL

ASSUME NotificationAssumption ==
    /\ Routes \in [Events -> SUBSET {"pending", "deferred", "batched", "suppressed"}]
    /\ MaxAttempts \in Nat \ {0} /\ MaxCrashes \in Nat /\ MaxReplays \in Nat
    /\ Replayed \subseteq {"dead_letter", "suppressed", "batched"}
    /\ NoLease \notin Commands

EventId(e) == [digest |-> FALSE, of |-> {e}]
DigestId(members) == [digest |-> TRUE, of |-> members]
Ids == {EventId(e) : e \in Events} \cup {DigestId(m) : m \in (SUBSET Events) \ {{}}}

Statuses == {"none", "pending", "batched", "suppressed", "leased", "retry_wait",
             "delivered", "dead_letter"}

\* A row of notification_deliveries.  A lease is named after its command: a
\* command claims once, and remembers its leases only while it runs.
\* Attempts beyond max_attempts make no difference.
Delivery == [status   : Statuses,
             attempts : 0 .. MaxAttempts,
             lease    : Commands \cup {NoLease},
             live     : BOOLEAN,          \* the lease has not expired
             due      : BOOLEAN,          \* next_attempt_at has come
             ref      : SUBSET Events]    \* external_reference: a digest

NoDelivery == [status |-> "none", attempts |-> 0, lease |-> NoLease,
               live |-> FALSE, due |-> FALSE, ref |-> {}]

Outcomes == {"unsent", "ok", "retryable", "fatal"}

\* A running command: the events it has yet to plan, the members of its
\* digest, the deliveries it has yet to send, the one it has sent (if any),
\* and with what outcome.
Command == [at      : {"idle", "plan", "record", "enqueue", "include", "claim",
                       "send", "finish"},
            serves  : BOOLEAN,            \* this sink is among its sinks
            todo    : SUBSET Events,
            members : SUBSET Events,
            claimed : SUBSET Ids,
            current : SUBSET Ids,
            outcome : Outcomes]

Idle == [at |-> "idle", serves |-> TRUE, todo |-> {}, members |-> {}, claimed |-> {},
         current |-> {}, outcome |-> "unsent"]

VARIABLES
    events,      \* attention_events that are planned
    digests,     \* notification.digest events, by their members
    delivery,    \* notification_deliveries
    received,    \* what the sink has acknowledged
    cmd,         \* the dispatch commands
    crashes,     \* number of commands that died
    replays,     \* number of replayed deliveries
    interrupted  \* one died between recording a digest and taking its members

vars == <<events, digests, delivery, received, cmd, crashes, replays, interrupted>>

Init ==
    /\ events = {} /\ digests = {}
    /\ delivery = [id \in Ids |-> NoDelivery]
    /\ received = {}
    /\ cmd = [c \in Commands |-> Idle]
    /\ crashes = 0 /\ replays = 0
    /\ interrupted = FALSE

Goes(c, next) == cmd' = [cmd EXCEPT ![c] = next]

----------------------------------------------------------------------------
(* Planning *)

\* A transition of the ledger records its event in the same transaction.
RecordEvent(e) ==
    /\ e \notin events
    /\ events' = events \cup {e}
    /\ UNCHANGED <<digests, delivery, received, cmd, crashes, replays, interrupted>>

\* planNotificationDeliveries reads the clock and lists the events.
Begin(c, serves) ==
    /\ cmd[c].at = "idle"
    /\ Goes(c, IF serves
               THEN [Idle EXCEPT !.at = "plan", !.todo = events,
                                 !.members = {e \in Events : delivery[EventId(e)].due}]
               ELSE [Idle EXCEPT !.at = "claim", !.serves = FALSE])
    /\ UNCHANGED <<events, digests, delivery, received, crashes, replays, interrupted>>

\* Mutant: the route is written as the status of the row.
EnqueuedUnrouted(id, route) ==
    [delivery EXCEPT ![id] = [NoDelivery EXCEPT !.status = route]]

\* enqueueNotificationDelivery: the first row of an event stays.  A deferred
\* event is pending with a next_attempt_at to come.
Enqueued(id, route) ==
    IF delivery[id].status = "none"
      THEN [delivery EXCEPT ![id] =
             [status |-> IF route = "deferred" THEN "pending" ELSE route,
              attempts |-> 0, lease |-> NoLease, live |-> FALSE,
              due |-> (route = "pending"), ref |-> {}]]
      ELSE delivery

PlanEvent(c, e, route) ==
    /\ cmd[c].at = "plan" /\ e \in cmd[c].todo
    /\ delivery' = Enqueued(EventId(e), route)
    /\ Goes(c, [cmd[c] EXCEPT !.todo = @ \ {e}])
    /\ UNCHANGED <<events, digests, received, crashes, replays, interrupted>>

\* materializeDueNotificationDigests lists the batched deliveries that were
\* due when the command read the clock.
ReadDue(c) ==
    LET due == {e \in cmd[c].members : delivery[EventId(e)].status = "batched"}
    IN  /\ cmd[c].at = "plan" /\ cmd[c].todo = {}
        /\ Goes(c, [cmd[c] EXCEPT !.at = IF due = {} THEN "claim" ELSE "record",
                                  !.members = due])
        /\ UNCHANGED <<events, digests, delivery, received, crashes, replays, interrupted>>

\* Mutant: the digest gets no delivery of its own.
RecordDigestUnsent(c) ==
    /\ cmd[c].at = "record"
    /\ IF cmd[c].members \in digests
         THEN Goes(c, Idle)
         ELSE Goes(c, [cmd[c] EXCEPT !.at = "include"])
    /\ digests' = digests \cup {cmd[c].members}
    /\ UNCHANGED <<events, delivery, received, crashes, replays, interrupted>>

\* recordAttentionEvent: the digest event is named after its members, but its
\* payload holds the time it was recorded at.  A second recording differs
\* and throws ATTENTION_EVENT_IDEMPOTENCY_MISMATCH, which ends the command.
RecordDigest(c) ==
    /\ cmd[c].at = "record"
    /\ IF cmd[c].members \in digests
         THEN Goes(c, Idle)
         ELSE Goes(c, [cmd[c] EXCEPT !.at = "enqueue"])
    /\ digests' = digests \cup {cmd[c].members}
    /\ UNCHANGED <<events, delivery, received, crashes, replays, interrupted>>

EnqueueDigest(c) ==
    /\ cmd[c].at = "enqueue"
    /\ delivery' = Enqueued(DigestId(cmd[c].members), "pending")
    /\ Goes(c, [cmd[c] EXCEPT !.at = "include"])
    /\ UNCHANGED <<events, digests, received, crashes, replays, interrupted>>

Included(e, members) ==
    /\ delivery[EventId(e)].status = "suppressed"
    /\ delivery[EventId(e)].ref = members

\* includeNotificationDeliveriesInDigest: all members or, when one of them was
\* replayed or is in another digest by now, none and an error.
Include(c) ==
    LET members == cmd[c].members
        ok == \A e \in members : \/ delivery[EventId(e)].status = "batched"
                                 \/ Included(e, members)
    IN  /\ cmd[c].at = "include"
        /\ delivery' =
             IF ok THEN [id \in Ids |->
                           IF ~id.digest /\ id.of \subseteq members
                           THEN [delivery[id] EXCEPT !.status = "suppressed",
                                                     !.ref = members]
                           ELSE delivery[id]]
                   ELSE delivery
        /\ Goes(c, IF ok THEN [cmd[c] EXCEPT !.at = "claim", !.members = {}]
                         ELSE Idle)
        /\ UNCHANGED <<events, digests, received, crashes, replays, interrupted>>

----------------------------------------------------------------------------
(* Dispatching *)

\* Mutant: only what was never leased or has failed is claimed.
ClaimableNeverLeased(id) ==
    delivery[id].status \in {"pending", "retry_wait"} /\ delivery[id].due

Claimable(id) ==
    \/ delivery[id].status \in {"pending", "retry_wait"} /\ delivery[id].due
    \/ delivery[id].status = "leased" /\ ~delivery[id].live

\* claimNotificationDeliveries.  There is no check of max_attempts: a lease
\* that expires is claimed again.
Claim(c) ==
    LET batch == {id \in Ids : Claimable(id)}
    IN  /\ cmd[c].at = "claim"
        /\ delivery' = [id \in Ids |->
             IF id \in batch
             THEN [delivery[id] EXCEPT
                     !.status = "leased", !.lease = c, !.live = TRUE,
                     !.attempts = IF @ < MaxAttempts THEN @ + 1 ELSE @]
             ELSE delivery[id]]
        /\ Goes(c, IF batch = {} THEN Idle
                   ELSE [cmd[c] EXCEPT !.at = "send", !.members = {},
                                       !.claimed = batch])
        /\ UNCHANGED <<events, digests, received, crashes, replays, interrupted>>

\* The sink is called.  It acknowledges the notification, or the command
\* sees an error or a timeout (and the sink may have received it or not).  A
\* command that does not serve the sink throws NOTIFICATION_SINK_DISABLED
\* instead, which is fatal for the delivery.
Send(c, id, outcome) ==
    /\ cmd[c].at = "send" /\ id \in cmd[c].claimed
    /\ cmd[c].serves \/ outcome = "fatal"
    /\ received' = IF outcome = "ok" THEN received \cup {id} ELSE received
    /\ Goes(c, [cmd[c] EXCEPT !.at = "finish", !.claimed = @ \ {id},
                              !.current = {id}, !.outcome = outcome])
    /\ UNCHANGED <<events, digests, delivery, crashes, replays, interrupted>>

\* completeNotificationDelivery fails although the sink took the message: the
\* error is classified like one of the sink's, as fatal.
CompletionFails(c) ==
    /\ cmd[c].at = "finish" /\ cmd[c].outcome = "ok"
    /\ Goes(c, [cmd[c] EXCEPT !.outcome = "fatal"])
    /\ UNCHANGED <<events, digests, delivery, received, crashes, replays, interrupted>>

\* Mutant: any lease will do.
HoldsSomeLease(c, id) == delivery[id].status = "leased"

\* assertNotificationLease.  It compares the expiry with the clock the command
\* read before it claimed, so that an expired lease passes until another
\* command has claimed the delivery.
HoldsLease(c, id) == delivery[id].status = "leased" /\ delivery[id].lease = c

\* Mutant: a timeout counts as delivered.
SettledByTimeout(id, outcome) ==
    IF outcome \in {"ok", "retryable"} THEN "delivered" ELSE "dead_letter"

Settled(id, outcome) ==
    IF outcome = "ok" THEN "delivered"
    ELSE IF outcome = "retryable" /\ delivery[id].attempts < MaxAttempts
         THEN "retry_wait" ELSE "dead_letter"

\* completeNotificationDelivery or failNotificationDelivery; a command that
\* has lost its lease writes nothing.  Then the next one, if there is one.
Finish(c) ==
    /\ cmd[c].at = "finish"
    /\ \A id \in cmd[c].current :
         delivery' = IF HoldsLease(c, id)
           THEN [delivery EXCEPT ![id].status = Settled(id, cmd[c].outcome),
                                 ![id].lease = NoLease, ![id].live = FALSE,
                                 ![id].due = FALSE]
           ELSE delivery
    /\ Goes(c, IF cmd[c].claimed = {} THEN Idle
               ELSE [cmd[c] EXCEPT !.at = "send", !.current = {},
                                   !.outcome = "unsent"])
    /\ UNCHANGED <<events, digests, received, crashes, replays, interrupted>>

----------------------------------------------------------------------------
(* Operators, failures and time *)

\* requeueNotificationDelivery by a verified operator
Requeue(id) ==
    /\ delivery[id].status \in Replayed
    /\ replays < MaxReplays
    /\ delivery' = [delivery EXCEPT ![id].status = "pending", ![id].attempts = 0,
                                    ![id].due = TRUE]
    /\ replays' = replays + 1
    /\ UNCHANGED <<events, digests, received, cmd, crashes, interrupted>>

\* The command dies, or a store call fails and ends it.
Crash(c) ==
    /\ cmd[c].at # "idle" /\ crashes < MaxCrashes
    /\ crashes' = crashes + 1
    /\ interrupted' = (interrupted \/ cmd[c].at \in {"enqueue", "include"})
    /\ Goes(c, Idle)
    /\ UNCHANGED <<events, digests, delivery, received, replays>>

\* next_attempt_at comes (and quiet hours end).
BecomesDue(id) ==
    /\ delivery[id].status \in {"pending", "batched", "retry_wait"}
    /\ ~delivery[id].due
    /\ delivery' = [delivery EXCEPT ![id].due = TRUE]
    /\ UNCHANGED <<events, digests, received, cmd, crashes, replays, interrupted>>

LeaseExpires(id) ==
    /\ delivery[id].status = "leased" /\ delivery[id].live
    /\ delivery' = [delivery EXCEPT ![id].live = FALSE]
    /\ UNCHANGED <<events, digests, received, cmd, crashes, replays, interrupted>>

----------------------------------------------------------------------------

\* The next step of a command that runs.
Step(c) ==
    \/ \E e \in Events : \E route \in Routes[e] : PlanEvent(c, e, route)
    \/ ReadDue(c)
    \/ RecordDigest(c)
    \/ EnqueueDigest(c)
    \/ Include(c)
    \/ Claim(c)
    \/ \E id \in Ids, outcome \in {"ok", "retryable", "fatal"} :
         Send(c, id, outcome)
    \/ CompletionFails(c)
    \/ Finish(c)

Next ==
    \/ \E e \in Events : RecordEvent(e)
    \/ \E c \in Commands : (\E serves \in BOOLEAN : Begin(c, serves)) \/ Step(c) \/ Crash(c)
    \/ \E id \in Ids : Requeue(id) \/ BecomesDue(id) \/ LeaseExpires(id)

Spec == Init /\ [][Next]_vars

\* A command that runs goes on, and time passes.  Nobody has to start a
\* command, replay a delivery or record an event.
Fairness ==
    /\ \A c \in Commands : WF_vars(Step(c))
    /\ \A id \in Ids : WF_vars(BecomesDue(id)) /\ WF_vars(LeaseExpires(id))

FairSpec == Spec /\ Fairness

----------------------------------------------------------------------------
(* Properties *)

\* The types of the variables.
TypeOK ==
    /\ events \subseteq Events /\ digests \subseteq SUBSET Events
    /\ delivery \in [Ids -> Delivery]
    /\ received \subseteq Ids
    /\ cmd \in [Commands -> Command]
    /\ crashes \in 0 .. MaxCrashes /\ replays \in 0 .. MaxReplays
    /\ interrupted \in BOOLEAN

\* What is recorded as delivered was received by the sink, whichever of several
\* lease holders recorded it.
DeliveredWasReceived ==
    \A id \in Ids : delivery[id].status = "delivered" => id \in received

\* An event that was taken off the batch for a digest is in that digest, and
\* the digest has a delivery of its own, wherever the command that made it
\* died (record, enqueue, include in this order).
DigestCarriesMembers ==
    \A e \in Events :
        LET d == delivery[EventId(e)]
        IN  d.status = "suppressed" /\ d.ref # {}
              => e \in d.ref /\ delivery[DigestId(d.ref)].status # "none"

\* A lease ends by the command that holds it, or after it expired: a slow
\* command never finalizes the delivery of its successor.
Fencing ==
    [][\A id \in Ids :
         delivery[id].status = "leased" /\ delivery'[id] # delivery[id] =>
           \/ \E c \in Commands : /\ delivery[id].lease = c
                                  /\ cmd[c].at = "finish" /\ id \in cmd[c].current
           \/ ~delivery[id].live
           \/ delivery'[id] = [delivery[id] EXCEPT !.live = FALSE]]_vars

\* A lease expires while the command that holds it is still at work.
Overrun(id) ==
    /\ delivery[id].live /\ ~delivery'[id].live /\ delivery'[id].status = "leased"
    /\ \E c \in Commands : /\ delivery[id].lease = c
                          /\ id \in cmd[c].claimed \cup cmd[c].current

\* Delivery at least once: as long as somebody runs the command for this sink
\* again and again, and commands finish within their leases in the end, what
\* is to be sent is delivered or becomes a dead letter, and what is batched
\* leaves the batch, unless a command dies after it recorded a digest and
\* before it took its members: then every later command that finds the same
\* members due fails (recordAttentionEvent) before it sends anything.
AtLeastOnce ==
    /\ []<>(\E c \in Commands : cmd[c].at # "idle" /\ cmd[c].serves)
    /\ <>[][\A id \in Ids : ~Overrun(id)]_vars
    => \A id \in Ids :
        /\ delivery[id].status \in {"pending", "leased", "retry_wait"} ~>
             delivery[id].status \in {"delivered", "dead_letter"} \/ interrupted
        /\ delivery[id].status = "batched" ~>
             delivery[id].status # "batched" \/ interrupted
=============================================================================
