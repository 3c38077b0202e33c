------------------------ MODULE NotificationsProofs ------------------------
(***************************************************************************)
(* Notifications: what is proved for any number of events and dispatch     *)
(* commands.                                                               *)
(***************************************************************************)
EXTENDS Notifications, TLAPS

\* A command at work on a digest has members for it, and the digest's delivery
\* exists by the time it takes them.
DigestUnderWay ==
    \A c \in Commands :
        /\ cmd[c].at \in {"record", "enqueue", "include"} => cmd[c].members # {}
        /\ cmd[c].at = "include" => delivery[DigestId(cmd[c].members)].status # "none"

\* A command finalizes the one delivery it has sent, as sent only if the sink
\* acknowledged it.
SentIsReceived ==
    \A c \in Commands : cmd[c].at = "finish" =>
        /\ \E id \in Ids : cmd[c].current = {id}
        /\ cmd[c].outcome = "ok" => cmd[c].current \subseteq received

\* The inductive invariant
Inv ==
    /\ TypeOK
    /\ DigestUnderWay
    /\ SentIsReceived
    /\ DeliveredWasReceived
    /\ DigestCarriesMembers

\* The names of deliveries.
LEMMA Names ==
    /\ \A e \in Events : EventId(e) \in Ids /\ ~EventId(e).digest /\ EventId(e).of = {e}
    /\ \A m \in SUBSET Events : m # {} => DigestId(m) \in Ids /\ DigestId(m).digest
    /\ \A id \in Ids : ~id.digest => \E e \in Events : id = EventId(e)
    /\ \A id \in Ids : id.digest \in BOOLEAN
<1>1. \A e \in Events : EventId(e) \in Ids
  BY DEF Ids
<1>2. \A m \in SUBSET Events : m # {} => DigestId(m) \in Ids
  BY DEF Ids
<1>3. \A e : ~EventId(e).digest /\ EventId(e).of = {e}
  BY DEF EventId
<1>4. \A m : DigestId(m).digest
  BY DEF DigestId
<1>5. \A id \in Ids : (\E e \in Events : id = EventId(e))
                     \/ (\E m \in SUBSET Events : id = DigestId(m))
  BY DEF Ids
<1>6. \A id \in Ids : ~id.digest => \E e \in Events : id = EventId(e)
  BY <1>4, <1>5
<1>7. \A e : EventId(e).digest \in BOOLEAN
  BY DEF EventId
<1>8. \A m : DigestId(m).digest \in BOOLEAN
  BY DEF DigestId
<1>9. \A id \in Ids : id.digest \in BOOLEAN
  BY <1>5, <1>7, <1>8
<1> QED
  BY <1>1, <1>2, <1>3, <1>4, <1>6, <1>9

\* The invariant holds initially.
LEMMA InitInv == Init => Inv
<1> SUFFICES ASSUME Init PROVE Inv
  OBVIOUS
<1>1. TypeOK
  <2>1. NoDelivery \in Delivery
    BY NotificationAssumption DEF Delivery, NoDelivery, Statuses
  <2>2. Idle \in Command
    BY DEF Command, Idle, Outcomes
  <2>3. 0 \in 0 .. MaxCrashes /\ 0 \in 0 .. MaxReplays
    BY NotificationAssumption
  <2> QED
    BY <2>1, <2>2, <2>3 DEF Init, TypeOK
<1>2. DigestUnderWay /\ SentIsReceived
  BY DEF Init, DigestUnderWay, SentIsReceived, Idle
<1>3. DeliveredWasReceived
  BY DEF Init, DeliveredWasReceived, NoDelivery
<1>4. DigestCarriesMembers
  BY Names DEF Init, DigestCarriesMembers, NoDelivery
<1> QED
  BY <1>1, <1>2, <1>3, <1>4 DEF Inv

\* A row that an operation inserts
LEMMA EnqueuedRows ==
  ASSUME TypeOK, NEW i \in Ids, NEW route \in {"pending", "deferred", "batched", "suppressed"},
         delivery' = Enqueued(i, route)
  PROVE  /\ delivery' \in [Ids -> Delivery]
         /\ delivery'[i].status # "none"
         /\ \A id \in Ids : delivery[id].status # "none" => delivery'[id] = delivery[id]
         /\ \A id \in Ids : delivery'[id] # delivery[id] =>
              delivery'[id].ref = {} /\ delivery'[id].status \in {"pending", "batched", "suppressed"}
<1> DEFINE row == [status |-> IF route = "deferred" THEN "pending" ELSE route,
                   attempts |-> 0, lease |-> NoLease, live |-> FALSE,
                   due |-> (route = "pending"), ref |-> {}]
<1>1. row \in Delivery /\ row.ref = {} /\ row.status \in {"pending", "batched", "suppressed"}
  <2>1. 0 \in 0 .. MaxAttempts
    BY NotificationAssumption
  <2>2. (route = "pending") \in BOOLEAN
    OBVIOUS
  <2>3. (IF route = "deferred" THEN "pending" ELSE route) \in {"pending", "batched", "suppressed"}
    OBVIOUS
  <2> QED
    BY <2>1, <2>2, <2>3 DEF Delivery, Statuses
<1>2. delivery' = IF delivery[i].status = "none" THEN [delivery EXCEPT ![i] = row] ELSE delivery
  BY DEF Enqueued
<1>3. delivery \in [Ids -> Delivery]
  BY DEF TypeOK
<1> HIDE DEF row
<1> QED
  BY <1>1, <1>2, <1>3

\* What every step does to the rows.
Rows ==
    /\ delivery' \in [Ids -> Delivery]
    /\ received \subseteq received'
    /\ \A id \in Ids : delivery[id].status # "none" => delivery'[id].status # "none"
    /\ \A id \in Ids : delivery'[id].status = "delivered" =>
         delivery[id].status = "delivered" \/ id \in received'
    /\ \A e \in Events :
         LET d == delivery'[EventId(e)]
         IN  d.status = "suppressed" /\ d.ref # {} =>
               \/ d = delivery[EventId(e)]
               \/ e \in d.ref /\ delivery[DigestId(d.ref)].status # "none"

\* A step that treats the rows as Rows says keeps what rows promise.
LEMMA RowsInv ==
  ASSUME Inv, Rows
  PROVE  DeliveredWasReceived' /\ DigestCarriesMembers'
<1>1. DeliveredWasReceived'
  BY DEF Inv, Rows, DeliveredWasReceived
<1>2. DigestCarriesMembers'
  <2> SUFFICES ASSUME NEW e \in Events,
                      delivery'[EventId(e)].status = "suppressed",
                      delivery'[EventId(e)].ref # {}
               PROVE  /\ e \in delivery'[EventId(e)].ref
                      /\ delivery'[DigestId(delivery'[EventId(e)].ref)].status # "none"
    BY DEF DigestCarriesMembers
  <2> DEFINE ref == delivery'[EventId(e)].ref
  <2>1. e \in ref /\ delivery[DigestId(ref)].status # "none"
    BY DEF Rows, Inv, DigestCarriesMembers
  <2>2. ref \in SUBSET Events
    BY Names DEF Rows, Delivery
  <2>3. DigestId(ref) \in Ids
    BY <2>1, <2>2, Names
  <2> QED
    BY <2>1, <2>3 DEF Rows
<1> QED
  BY <1>1, <1>2

\* One command goes on, or none.
LEMMA CommandStep ==
  ASSUME Inv, Rows, NEW c \in Commands, NEW v \in Command,
         cmd' = [cmd EXCEPT ![c] = v],
         v.at \in {"record", "enqueue", "include"} => v.members # {},
         v.at = "include" => delivery'[DigestId(v.members)].status # "none",
         v.at = "finish" => /\ \E id \in Ids : v.current = {id}
                            /\ v.outcome = "ok" => v.current \subseteq received'
  PROVE  cmd' \in [Commands -> Command] /\ DigestUnderWay' /\ SentIsReceived'
<1>0. cmd \in [Commands -> Command]
  BY DEF Inv, TypeOK
<1>1. cmd' \in [Commands -> Command]
  BY <1>0
<1>2. DigestUnderWay'
  <2> SUFFICES ASSUME NEW d \in Commands
               PROVE  /\ cmd'[d].at \in {"record", "enqueue", "include"} => cmd'[d].members # {}
                      /\ cmd'[d].at = "include" => delivery'[DigestId(cmd'[d].members)].status # "none"
    BY DEF DigestUnderWay
  <2>1. CASE d = c
    BY <1>0, <2>1
  <2>2. CASE d # c
    <3>1. cmd'[d] = cmd[d] /\ cmd[d].members \in SUBSET Events
      BY <1>0, <2>2 DEF Command
    <3>2. cmd[d].at = "include" => DigestId(cmd[d].members) \in Ids
      BY <3>1, Names DEF Inv, DigestUnderWay
    <3> QED
      BY <3>1, <3>2 DEF Inv, DigestUnderWay, Rows
  <2> QED
    BY <2>1, <2>2
<1>3. SentIsReceived'
  <2> SUFFICES ASSUME NEW d \in Commands, cmd'[d].at = "finish"
               PROVE  /\ \E id \in Ids : cmd'[d].current = {id}
                      /\ cmd'[d].outcome = "ok" => cmd'[d].current \subseteq received'
    BY DEF SentIsReceived
  <2>1. CASE d = c
    BY <1>0, <2>1
  <2>2. CASE d # c
    BY <1>0, <2>2 DEF Inv, SentIsReceived, Rows
  <2> QED
    BY <2>1, <2>2
<1> QED
  BY <1>1, <1>2, <1>3

\* A step that changes no command keeps what commands promise.
LEMMA NoCommandStep ==
  ASSUME Inv, Rows, UNCHANGED cmd
  PROVE  cmd' \in [Commands -> Command] /\ DigestUnderWay' /\ SentIsReceived'
<1>1. cmd' \in [Commands -> Command]
  BY DEF Inv, TypeOK
<1>2. DigestUnderWay'
  <2> SUFFICES ASSUME NEW d \in Commands
               PROVE  /\ cmd[d].at \in {"record", "enqueue", "include"} => cmd[d].members # {}
                      /\ cmd[d].at = "include" => delivery'[DigestId(cmd[d].members)].status # "none"
    BY DEF DigestUnderWay
  <2>1. cmd[d].at = "include" => DigestId(cmd[d].members) \in Ids
    BY Names DEF Inv, DigestUnderWay, TypeOK, Command
  <2> QED
    BY <2>1 DEF Inv, DigestUnderWay, Rows
<1>3. SentIsReceived'
  BY DEF Inv, SentIsReceived, Rows
<1> QED
  BY <1>1, <1>2, <1>3

\* The rows do not change.
LEMMA NoRowStep ==
  ASSUME Inv, UNCHANGED delivery, received \subseteq received'
  PROVE  Rows
  BY DEF Inv, TypeOK, Rows

\* What a step may do to a leased row (the body of Fencing).
Fenced ==
    \A id \in Ids :
       delivery[id].status = "leased" /\ delivery'[id] # delivery[id] =>
         \/ \E c \in Commands : /\ delivery[id].lease = c
                                /\ cmd[c].at = "finish" /\ id \in cmd[c].current
         \/ ~delivery[id].live
         \/ delivery'[id] = [delivery[id] EXCEPT !.live = FALSE]

\* The variables that no proof below looks into
Rest == /\ events' \subseteq Events /\ digests' \subseteq SUBSET Events
        /\ received' \subseteq Ids
        /\ crashes' \in 0 .. MaxCrashes /\ replays' \in 0 .. MaxReplays
        /\ interrupted' \in BOOLEAN

\* The parts of the invariant, put together after a step.
LEMMA Combine ==
  ASSUME Inv, Rows, Rest,
         cmd' \in [Commands -> Command] /\ DigestUnderWay' /\ SentIsReceived'
  PROVE  Inv'
<1>1. TypeOK'
  BY DEF Rows, Rest, TypeOK
<1> QED
  BY <1>1, RowsInv DEF Inv

\* A new attention event touches no row.
LEMMA RecordEventInv ==
  ASSUME Inv, NEW e \in Events, RecordEvent(e)
  PROVE  Inv' /\ Fenced
<1>1. Rows
  BY NoRowStep DEF RecordEvent
<1>2. Rest
  BY DEF RecordEvent, Rest, Inv, TypeOK
<1>3. Fenced
  BY DEF RecordEvent, Fenced
<1>4. UNCHANGED cmd
  BY DEF RecordEvent
<1> QED
  BY <1>1, <1>2, <1>3, <1>4, NoCommandStep, Combine

\* A new command has sent nothing and has no digest under way.
LEMMA BeginInv ==
  ASSUME Inv, NEW c \in Commands, NEW serves \in BOOLEAN, Begin(c, serves)
  PROVE  Inv' /\ Fenced
<1>1. Rows
  BY NoRowStep DEF Begin
<1>2. Rest
  BY DEF Begin, Rest, Inv, TypeOK
<1>3. Fenced
  BY DEF Begin, Fenced
<1> DEFINE due == {e \in Events : delivery[EventId(e)].due}
           v == IF serves
                THEN [Idle EXCEPT !.at = "plan", !.todo = events, !.members = due]
                ELSE [Idle EXCEPT !.at = "claim", !.serves = FALSE]
<1>4. cmd' = [cmd EXCEPT ![c] = v]
  BY DEF Begin, Goes
<1>5. v \in Command /\ v.at \in {"plan", "claim"}
  <2>1. due \in SUBSET Events /\ events \in SUBSET Events
    BY DEF Inv, TypeOK
  <2>2. Idle \in Command
    BY DEF Command, Idle, Outcomes
  <2> HIDE DEF due
  <2> QED
    BY <2>1, <2>2 DEF Command
<1> HIDE DEF v
<1>6. cmd' \in [Commands -> Command] /\ DigestUnderWay' /\ SentIsReceived'
  BY <1>1, <1>4, <1>5, CommandStep
<1> QED
  BY <1>1, <1>2, <1>3, <1>6, Combine

\* Planning an event at most inserts its row, and never over a lease.
LEMMA PlanEventInv ==
  ASSUME Inv, NEW c \in Commands, NEW e \in Events, NEW route \in Routes[e],
         PlanEvent(c, e, route)
  PROVE  Inv' /\ Fenced
<1>0. TypeOK /\ EventId(e) \in Ids
  BY Names DEF Inv
<1>1. route \in {"pending", "deferred", "batched", "suppressed"}
  BY NotificationAssumption
<1>2. delivery' = Enqueued(EventId(e), route) /\ UNCHANGED received
  BY DEF PlanEvent
<1>3. /\ delivery' \in [Ids -> Delivery]
      /\ \A id \in Ids : delivery[id].status # "none" => delivery'[id] = delivery[id]
      /\ \A id \in Ids : delivery'[id] # delivery[id] =>
           delivery'[id].ref = {} /\ delivery'[id].status \in {"pending", "batched", "suppressed"}
  BY <1>0, <1>1, <1>2, EnqueuedRows
<1>4. Rows
  BY <1>2, <1>3, Names DEF Rows
<1>5. Rest
  BY DEF PlanEvent, Rest, Inv, TypeOK
<1>6. Fenced
  BY <1>3 DEF Fenced
<1> DEFINE v == [cmd[c] EXCEPT !.todo = @ \ {e}]
<1>7. cmd' = [cmd EXCEPT ![c] = v] /\ cmd[c].at = "plan"
  BY DEF PlanEvent, Goes
<1>8. v \in Command /\ v.at = "plan"
  BY <1>7 DEF Command, Inv, TypeOK
<1> HIDE DEF v
<1>9. cmd' \in [Commands -> Command] /\ DigestUnderWay' /\ SentIsReceived'
  BY <1>4, <1>7, <1>8, CommandStep
<1> QED
  BY <1>4, <1>5, <1>6, <1>9, Combine

\* A command goes on to a digest only with members for it.
LEMMA ReadDueInv ==
  ASSUME Inv, NEW c \in Commands, ReadDue(c)
  PROVE  Inv' /\ Fenced
<1>1. Rows
  BY NoRowStep DEF ReadDue
<1>2. Rest
  BY DEF ReadDue, Rest, Inv, TypeOK
<1>3. Fenced
  BY DEF ReadDue, Fenced
<1> DEFINE due == {e \in cmd[c].members : delivery[EventId(e)].status = "batched"}
           v == [cmd[c] EXCEPT !.at = IF due = {} THEN "claim" ELSE "record", !.members = due]
<1>4. cmd' = [cmd EXCEPT ![c] = v]
  BY DEF ReadDue, Goes
<1>5. v \in Command /\ v.at \in {"claim", "record"} /\ (v.at = "record" => v.members # {})
  <2>1. due \in SUBSET Events /\ cmd[c] \in Command
    BY DEF Command, Inv, TypeOK
  <2> HIDE DEF due
  <2> QED
    BY <2>1 DEF Command
<1> HIDE DEF v
<1>6. cmd' \in [Commands -> Command] /\ DigestUnderWay' /\ SentIsReceived'
  BY <1>1, <1>4, <1>5, CommandStep
<1> QED
  BY <1>1, <1>2, <1>3, <1>6, Combine

\* Recording a digest touches no row.
LEMMA RecordDigestInv ==
  ASSUME Inv, NEW c \in Commands, RecordDigest(c)
  PROVE  Inv' /\ Fenced
<1>1. Rows
  BY NoRowStep DEF RecordDigest
<1>0. cmd[c] \in Command /\ Idle \in Command /\ cmd[c].at = "record" /\ cmd[c].members # {}
  BY DEF RecordDigest, Inv, TypeOK, DigestUnderWay, Command, Idle, Outcomes
<1>2. Rest
  BY <1>0 DEF RecordDigest, Rest, Inv, TypeOK, Command
<1>3. Fenced
  BY DEF RecordDigest, Fenced
<1> DEFINE v == IF cmd[c].members \in digests THEN Idle ELSE [cmd[c] EXCEPT !.at = "enqueue"]
<1>4. cmd' = [cmd EXCEPT ![c] = v]
  BY DEF RecordDigest, Goes
<1>5. v \in Command /\ v.at \in {"idle", "enqueue"} /\ (v.at = "enqueue" => v.members # {})
  BY <1>0 DEF Command, Idle
<1> HIDE DEF v
<1>6. cmd' \in [Commands -> Command] /\ DigestUnderWay' /\ SentIsReceived'
  BY <1>1, <1>4, <1>5, CommandStep
<1> QED
  BY <1>1, <1>2, <1>3, <1>6, Combine

\* The digest has its delivery before the command takes the members.
LEMMA EnqueueDigestInv ==
  ASSUME Inv, NEW c \in Commands, EnqueueDigest(c)
  PROVE  Inv' /\ Fenced
<1> DEFINE d == DigestId(cmd[c].members)
<1>0. /\ cmd[c] \in Command /\ cmd[c].at = "enqueue" /\ cmd[c].members # {}
      /\ delivery' = Enqueued(d, "pending") /\ UNCHANGED received
  BY DEF EnqueueDigest, Inv, TypeOK, DigestUnderWay
<1>1. TypeOK /\ d \in Ids
  BY <1>0, Names DEF Inv, Command
<1> HIDE DEF d
<1>3. /\ delivery' \in [Ids -> Delivery]
      /\ delivery'[d].status # "none"
      /\ \A id \in Ids : delivery[id].status # "none" => delivery'[id] = delivery[id]
      /\ \A id \in Ids : delivery'[id] # delivery[id] =>
           delivery'[id].ref = {} /\ delivery'[id].status \in {"pending", "batched", "suppressed"}
  BY <1>0, <1>1, EnqueuedRows
<1>4. Rows
  BY <1>0, <1>3, Names DEF Rows
<1>5. Rest
  BY DEF EnqueueDigest, Rest, Inv, TypeOK
<1>6. Fenced
  BY <1>3 DEF Fenced
<1> DEFINE v == [cmd[c] EXCEPT !.at = "include"]
<1>7. cmd' = [cmd EXCEPT ![c] = v]
  BY DEF EnqueueDigest, Goes
<1>8. v \in Command /\ v.at = "include" /\ v.members # {} /\ v.members = cmd[c].members
  BY <1>0 DEF Command
<1>9. delivery'[DigestId(v.members)].status # "none"
  BY <1>3, <1>8 DEF d
<1> HIDE DEF v
<1>10. cmd' \in [Commands -> Command] /\ DigestUnderWay' /\ SentIsReceived'
  BY <1>4, <1>7, <1>8, <1>9, CommandStep
<1> QED
  BY <1>4, <1>5, <1>6, <1>10, Combine

\* The members taken off the batch are in a digest with a delivery.
LEMMA IncludeInv ==
  ASSUME Inv, NEW c \in Commands, Include(c)
  PROVE  Inv' /\ Fenced
<1> DEFINE members == cmd[c].members
           ok == \A e \in members : \/ delivery[EventId(e)].status = "batched"
                                    \/ Included(e, members)
           taken(id) == [delivery[id] EXCEPT !.status = "suppressed", !.ref = members]
           rows == [id \in Ids |-> IF ~id.digest /\ id.of \subseteq members
                                   THEN taken(id) ELSE delivery[id]]
           v == IF ok THEN [cmd[c] EXCEPT !.at = "claim", !.members = {}] ELSE Idle
<1>1. /\ delivery' = IF ok THEN rows ELSE delivery
      /\ cmd' = [cmd EXCEPT ![c] = v]
      /\ cmd[c].at = "include" /\ UNCHANGED received
  BY DEF Include, Goes
<1>2. /\ cmd[c] \in Command /\ Idle \in Command /\ delivery \in [Ids -> Delivery]
      /\ members \in SUBSET Events
  BY DEF Inv, TypeOK, Command, Idle, Outcomes
<1>3. delivery[DigestId(members)].status # "none"
  BY <1>1 DEF Inv, DigestUnderWay
<1>4. \A id \in Ids : /\ taken(id) \in Delivery
                      /\ taken(id).status = "suppressed" /\ taken(id).ref = members
  BY <1>2 DEF Delivery, Statuses
<1>5. v \in Command /\ v.at \in {"claim", "idle"}
  BY <1>2 DEF Command, Idle
<1>6. ok => \A id \in Ids : ~id.digest /\ id.of \subseteq members =>
        delivery[id].status \in {"batched", "suppressed"}
  <2> SUFFICES ASSUME ok, NEW id \in Ids, ~id.digest, id.of \subseteq members
               PROVE  delivery[id].status \in {"batched", "suppressed"}
    OBVIOUS
  <2>1. PICK e \in Events : id = EventId(e)
    BY Names
  <2>2. e \in members
    BY <2>1, Names
  <2> QED
    BY <2>1, <2>2 DEF Included
<1>7. \A e \in Events : EventId(e) \in Ids /\ (EventId(e).of \subseteq members => e \in members)
  BY Names
<1> HIDE DEF taken, ok, v, members
<1>8. \A id \in Ids : delivery'[id] = delivery[id] \/
        /\ delivery'[id] = taken(id) /\ ~id.digest /\ id.of \subseteq members
        /\ delivery[id].status \in {"batched", "suppressed"}
  BY <1>1, <1>2, <1>6
<1>9. delivery' \in [Ids -> Delivery]
  <2>1. CASE ok
    BY <1>1, <1>2, <1>4, <2>1
  <2>2. CASE ~ok
    BY <1>1, <1>2, <2>2
  <2> QED
    BY <2>1, <2>2
<1> HIDE DEF rows
<1>10. Rows
  <2>1. \A id \in Ids : delivery[id].status # "none" => delivery'[id].status # "none"
    BY <1>4, <1>8
  <2>2. \A id \in Ids : delivery'[id].status = "delivered" => delivery[id].status = "delivered"
    BY <1>4, <1>8
  <2>3. ASSUME NEW e \in Events, delivery'[EventId(e)] # delivery[EventId(e)]
        PROVE  /\ delivery'[EventId(e)].ref = members /\ e \in members
               /\ delivery[DigestId(members)].status # "none"
    BY <1>3, <1>4, <1>7, <1>8, <2>3
  <2> QED
    BY <1>1, <1>9, <2>1, <2>2, <2>3 DEF Rows
<1>11. Rest
  BY DEF Include, Rest, Inv, TypeOK
<1>12. Fenced
  BY <1>8 DEF Fenced
<1>13. cmd' \in [Commands -> Command] /\ DigestUnderWay' /\ SentIsReceived'
  BY <1>1, <1>5, <1>10, CommandStep
<1> QED
  BY <1>10, <1>11, <1>12, <1>13, Combine

\* A claim takes no live lease away.
LEMMA ClaimInv ==
  ASSUME Inv, NEW c \in Commands, Claim(c)
  PROVE  Inv' /\ Fenced
<1> DEFINE batch == {id \in Ids : Claimable(id)}
           leased(id) == [delivery[id] EXCEPT
                            !.status = "leased", !.lease = c, !.live = TRUE,
                            !.attempts = IF @ < MaxAttempts THEN @ + 1 ELSE @]
           v == IF batch = {} THEN Idle
                ELSE [cmd[c] EXCEPT !.at = "send", !.members = {}, !.claimed = batch]
<1>1. /\ delivery' = [id \in Ids |-> IF id \in batch THEN leased(id) ELSE delivery[id]]
      /\ cmd' = [cmd EXCEPT ![c] = v]
      /\ UNCHANGED received
  BY DEF Claim, Goes
<1>2. cmd[c] \in Command /\ Idle \in Command /\ delivery \in [Ids -> Delivery]
  BY DEF Inv, TypeOK, Command, Idle, Outcomes
<1>3. \A id \in Ids : leased(id) \in Delivery /\ leased(id).status = "leased"
  <2> SUFFICES ASSUME NEW id \in Ids PROVE leased(id) \in Delivery /\ leased(id).status = "leased"
    OBVIOUS
  <2>1. delivery[id] \in Delivery /\ delivery[id].attempts \in 0 .. MaxAttempts
    BY <1>2 DEF Delivery
  <2>2. (IF delivery[id].attempts < MaxAttempts THEN delivery[id].attempts + 1
         ELSE delivery[id].attempts) \in 0 .. MaxAttempts
    BY <2>1, NotificationAssumption
  <2> QED
    BY <2>1, <2>2 DEF Delivery, Statuses
<1>4. \A id \in batch : ~(delivery[id].status = "leased" /\ delivery[id].live)
                        /\ delivery[id].status # "delivered"
  BY DEF Claimable
<1>5. batch \subseteq Ids
  OBVIOUS
<1>6. v \in Command /\ v.at \in {"idle", "send"}
  <2> HIDE DEF batch
  <2> QED
    BY <1>2, <1>5 DEF Command, Idle
<1> HIDE DEF leased, batch, v
<1>7. \A id \in Ids : delivery'[id] = delivery[id] \/
        /\ delivery'[id] = leased(id)
        /\ ~(delivery[id].status = "leased" /\ delivery[id].live)
  BY <1>1, <1>4
<1>8. delivery' \in [Ids -> Delivery]
  BY <1>1, <1>2, <1>3
<1>9. Rows
  BY <1>1, <1>3, <1>7, <1>8, Names DEF Rows
<1>10. Rest
  BY DEF Claim, Rest, Inv, TypeOK
<1>11. Fenced
  BY <1>7 DEF Fenced
<1>12. cmd' \in [Commands -> Command] /\ DigestUnderWay' /\ SentIsReceived'
  BY <1>1, <1>6, <1>9, CommandStep
<1> QED
  BY <1>9, <1>10, <1>11, <1>12, Combine

\* The outcome "ok" stands for an acknowledgement of the sink.
LEMMA SendInv ==
  ASSUME Inv, NEW c \in Commands, NEW id \in Ids, NEW outcome \in {"ok", "retryable", "fatal"},
         Send(c, id, outcome)
  PROVE  Inv' /\ Fenced
<1>1. Rows
  BY NoRowStep DEF Send
<1>2. Rest
  BY DEF Send, Rest, Inv, TypeOK
<1>3. Fenced
  BY DEF Send, Fenced
<1> DEFINE v == [cmd[c] EXCEPT !.at = "finish", !.claimed = @ \ {id},
                               !.current = {id}, !.outcome = outcome]
<1>4. cmd' = [cmd EXCEPT ![c] = v] /\ (outcome = "ok" => id \in received')
  BY DEF Send, Goes
<1>5. /\ v \in Command /\ v.at = "finish" /\ v.current = {id}
      /\ v.outcome = "ok" => v.current \subseteq received'
  <2>1. cmd[c] \in Command /\ outcome \in Outcomes
    BY DEF Inv, TypeOK, Outcomes
  <2>2. v \in Command
    BY <2>1 DEF Command
  <2>3. v.at = "finish" /\ v.current = {id} /\ v.outcome = outcome
    BY <2>1 DEF Command
  <2> QED
    BY <1>4, <2>2, <2>3
<1> HIDE DEF v
<1>6. cmd' \in [Commands -> Command] /\ DigestUnderWay' /\ SentIsReceived'
  BY <1>1, <1>4, <1>5, CommandStep
<1> QED
  BY <1>1, <1>2, <1>3, <1>6, Combine

\* A completion that fails only makes the outcome worse.
LEMMA CompletionFailsInv ==
  ASSUME Inv, NEW c \in Commands, CompletionFails(c)
  PROVE  Inv' /\ Fenced
<1>1. Rows
  BY NoRowStep DEF CompletionFails
<1>2. Rest
  BY DEF CompletionFails, Rest, Inv, TypeOK
<1>3. Fenced
  BY DEF CompletionFails, Fenced
<1> DEFINE v == [cmd[c] EXCEPT !.outcome = "fatal"]
<1>4. cmd' = [cmd EXCEPT ![c] = v] /\ cmd[c].at = "finish"
  BY DEF CompletionFails, Goes
<1>5. /\ v \in Command /\ v.at = "finish" /\ v.outcome = "fatal"
      /\ \E id \in Ids : v.current = {id}
  <2>1. cmd[c] \in Command /\ \E id \in Ids : cmd[c].current = {id}
    BY <1>4 DEF Inv, TypeOK, SentIsReceived
  <2>2. /\ v.at = cmd[c].at /\ v.serves = cmd[c].serves /\ v.todo = cmd[c].todo
        /\ v.members = cmd[c].members /\ v.claimed = cmd[c].claimed
        /\ v.current = cmd[c].current /\ v.outcome = "fatal"
    BY <2>1 DEF Command
  <2>3. v \in Command
    BY <2>1 DEF Command, Outcomes
  <2> QED
    BY <1>4, <2>1, <2>2, <2>3
<1> HIDE DEF v
<1>6. cmd' \in [Commands -> Command] /\ DigestUnderWay' /\ SentIsReceived'
  BY <1>1, <1>4, <1>5, CommandStep
<1> QED
  BY <1>1, <1>2, <1>3, <1>6, Combine

\* Only the holder of the lease settles a delivery, as delivered only if the
\* sink acknowledged it.
LEMMA FinishInv ==
  ASSUME Inv, NEW c \in Commands, Finish(c)
  PROVE  Inv' /\ Fenced
<1>0. cmd[c] \in Command /\ Idle \in Command /\ delivery \in [Ids -> Delivery]
  BY DEF Inv, TypeOK, Command, Idle, Outcomes
<1>1. cmd[c].at = "finish" /\ UNCHANGED received
  BY DEF Finish
<1>2. PICK id \in Ids : cmd[c].current = {id}
  BY <1>1 DEF Inv, SentIsReceived
<1> DEFINE st == Settled(id, cmd[c].outcome)
           d == delivery[id]
           row == [d EXCEPT !.status = st, !.lease = NoLease, !.live = FALSE, !.due = FALSE]
<1>3. st \in {"delivered", "retry_wait", "dead_letter"} /\ (st = "delivered" => id \in received)
  BY <1>1, <1>2 DEF Settled, Inv, SentIsReceived
<1>4. row \in Delivery /\ row.status = st
  <2>1. d \in Delivery
    BY <1>0
  <2> HIDE DEF st, d
  <2> QED
    BY <1>3, <2>1 DEF Delivery, Statuses
<1>5. delivery' = IF HoldsLease(c, id)
        THEN [delivery EXCEPT ![id].status = st, ![id].lease = NoLease,
                              ![id].live = FALSE, ![id].due = FALSE]
        ELSE delivery
  BY <1>2 DEF Finish
<1>6. delivery' = IF HoldsLease(c, id) THEN [delivery EXCEPT ![id] = row] ELSE delivery
  <2> HIDE DEF st
  <2>1. [delivery EXCEPT ![id].status = st, ![id].lease = NoLease,
                         ![id].live = FALSE, ![id].due = FALSE]
          = [delivery EXCEPT ![id] = row]
    BY <1>0 DEF Delivery
  <2> QED
    BY <1>5, <2>1
<1> HIDE DEF st, row, d
<1>7. Rows
  BY <1>0, <1>1, <1>3, <1>4, <1>6, Names DEF Rows
<1>8. Rest
  BY DEF Finish, Rest, Inv, TypeOK
<1>9. Fenced
  BY <1>0, <1>1, <1>2, <1>6 DEF Fenced, HoldsLease
<1> DEFINE v == IF cmd[c].claimed = {} THEN Idle
                ELSE [cmd[c] EXCEPT !.at = "send", !.current = {}, !.outcome = "unsent"]
<1>10. cmd' = [cmd EXCEPT ![c] = v]
  BY DEF Finish, Goes
<1>11. v \in Command /\ v.at \in {"idle", "send"}
  BY <1>0 DEF Command, Idle, Outcomes
<1> HIDE DEF v
<1>12. cmd' \in [Commands -> Command] /\ DigestUnderWay' /\ SentIsReceived'
  BY <1>7, <1>10, <1>11, CommandStep
<1> QED
  BY <1>7, <1>8, <1>9, <1>12, Combine

\* One row that is not leased changes by an operator or by time.
LEMMA OneRow ==
  ASSUME Inv, NEW i \in Ids, NEW row \in Delivery,
         delivery' = [delivery EXCEPT ![i] = row], UNCHANGED <<received, cmd>>,
         delivery[i].status # "none", row.status \notin {"none", "delivered"},
         row.status = "suppressed" => row = delivery[i]
  PROVE  Rows
<1>1. delivery \in [Ids -> Delivery]
  BY DEF Inv, TypeOK
<1>2. \A id \in Ids : delivery'[id] = IF id = i THEN row ELSE delivery[id]
  BY <1>1
<1>3. delivery' \in [Ids -> Delivery]
  BY <1>1
<1> QED
  BY <1>2, <1>3, Names DEF Rows

\* A replay puts a closed or batched row back, never a leased one.
LEMMA RequeueInv ==
  ASSUME Inv, NEW id \in Ids, Requeue(id)
  PROVE  Inv' /\ Fenced
<1> DEFINE d == delivery[id]
           row == [d EXCEPT !.status = "pending", !.attempts = 0, !.due = TRUE]
<1>0. delivery \in [Ids -> Delivery] /\ d \in Delivery
  BY DEF Inv, TypeOK
<1>1. d.status \in {"dead_letter", "suppressed", "batched"} /\ UNCHANGED <<received, cmd>>
  BY NotificationAssumption DEF Requeue
<1>2. delivery' = [delivery EXCEPT ![id] = row]
  BY <1>0 DEF Requeue, Delivery
<1>3. row \in Delivery /\ row.status = "pending"
  <2>1. 0 \in 0 .. MaxAttempts
    BY NotificationAssumption
  <2> QED
    BY <1>0, <2>1 DEF Delivery, Statuses
<1> HIDE DEF row
<1>4. Rows
  BY <1>1, <1>2, <1>3, OneRow
<1>5. Rest
  <2>1. replays' \in 0 .. MaxReplays
    BY NotificationAssumption DEF Requeue, Inv, TypeOK
  <2> QED
    BY <2>1 DEF Requeue, Rest, Inv, TypeOK
<1>6. Fenced
  BY <1>0, <1>1, <1>2 DEF Fenced
<1> QED
  BY <1>1, <1>4, <1>5, <1>6, NoCommandStep, Combine

\* A command that dies leaves every row as it is.
LEMMA CrashInv ==
  ASSUME Inv, NEW c \in Commands, Crash(c)
  PROVE  Inv' /\ Fenced
<1>1. Rows
  BY NoRowStep DEF Crash
<1>2. Rest
  <2>1. crashes' \in 0 .. MaxCrashes
    BY NotificationAssumption DEF Crash, Inv, TypeOK
  <2>2. interrupted' \in BOOLEAN
    BY DEF Crash
  <2> QED
    BY <2>1, <2>2 DEF Crash, Rest, Inv, TypeOK
<1>3. Fenced
  BY DEF Crash, Fenced
<1>4. cmd' = [cmd EXCEPT ![c] = Idle] /\ Idle \in Command /\ Idle.at = "idle"
  BY DEF Crash, Goes, Command, Idle, Outcomes
<1>5. cmd' \in [Commands -> Command] /\ DigestUnderWay' /\ SentIsReceived'
  BY <1>1, <1>4, CommandStep
<1> QED
  BY <1>1, <1>2, <1>3, <1>5, Combine

\* A due time that comes touches no leased row.
LEMMA BecomesDueInv ==
  ASSUME Inv, NEW id \in Ids, BecomesDue(id)
  PROVE  Inv' /\ Fenced
<1> DEFINE d == delivery[id]
           row == [d EXCEPT !.due = TRUE]
<1>0. delivery \in [Ids -> Delivery] /\ d \in Delivery
  BY DEF Inv, TypeOK
<1>1. d.status \in {"pending", "batched", "retry_wait"} /\ UNCHANGED <<received, cmd>>
  BY DEF BecomesDue
<1>2. delivery' = [delivery EXCEPT ![id] = row]
  BY <1>0 DEF BecomesDue, Delivery
<1>3. row \in Delivery /\ row.status = d.status
  BY <1>0 DEF Delivery
<1> HIDE DEF row
<1>4. Rows
  BY <1>1, <1>2, <1>3, OneRow
<1>5. Rest
  BY DEF BecomesDue, Rest, Inv, TypeOK
<1>6. Fenced
  BY <1>0, <1>1, <1>2 DEF Fenced
<1> QED
  BY <1>1, <1>4, <1>5, <1>6, NoCommandStep, Combine

\* An expiry only ends the life of a lease.
LEMMA LeaseExpiresInv ==
  ASSUME Inv, NEW id \in Ids, LeaseExpires(id)
  PROVE  Inv' /\ Fenced
<1> DEFINE d == delivery[id]
           row == [d EXCEPT !.live = FALSE]
<1>0. delivery \in [Ids -> Delivery] /\ d \in Delivery
  BY DEF Inv, TypeOK
<1>1. d.status = "leased" /\ UNCHANGED <<received, cmd>>
  BY DEF LeaseExpires
<1>2. delivery' = [delivery EXCEPT ![id] = row]
  BY <1>0 DEF LeaseExpires, Delivery
<1>3. row \in Delivery /\ row.status = "leased"
  BY <1>0, <1>1 DEF Delivery
<1>6. Fenced
  BY <1>0, <1>2 DEF Fenced
<1> HIDE DEF row
<1>4. Rows
  BY <1>1, <1>2, <1>3, OneRow
<1>5. Rest
  BY DEF LeaseExpires, Rest, Inv, TypeOK
<1> QED
  BY <1>1, <1>4, <1>5, <1>6, NoCommandStep, Combine

\* Every step of Next keeps the invariant and the fence.
LEMMA StepInv ==
  ASSUME Inv, Next
  PROVE  Inv' /\ Fenced
<1>1. CASE \E e \in Events : RecordEvent(e)
  BY <1>1, RecordEventInv
<1>2. CASE \E c \in Commands : \E serves \in BOOLEAN : Begin(c, serves)
  BY <1>2, BeginInv
<1>3. ASSUME NEW c \in Commands, Step(c) PROVE Inv' /\ Fenced
  BY <1>3, PlanEventInv, ReadDueInv, RecordDigestInv, EnqueueDigestInv, IncludeInv,
     ClaimInv, SendInv, CompletionFailsInv, FinishInv DEF Step
<1>4. CASE \E c \in Commands : Crash(c)
  BY <1>4, CrashInv
<1>5. CASE \E id \in Ids : Requeue(id) \/ BecomesDue(id) \/ LeaseExpires(id)
  BY <1>5, RequeueInv, BecomesDueInv, LeaseExpiresInv
<1> QED
  BY <1>1, <1>2, <1>3, <1>4, <1>5 DEF Next

\* A stuttering step keeps the invariant.
LEMMA Stutter ==
  ASSUME Inv, UNCHANGED vars
  PROVE  Inv'
  BY DEF vars, Inv, TypeOK, DigestUnderWay, SentIsReceived, DeliveredWasReceived,
         DigestCarriesMembers

\* The invariant holds in every reachable state.
LEMMA Invariance == Spec => []Inv
<1>1. Inv /\ [Next]_vars => Inv'
  BY StepInv, Stutter
<1> QED
  BY InitInv, <1>1, PTL DEF Spec

\* The types of rows and commands, for any number of events and commands.
THEOREM NotificationTypes == Spec => []TypeOK
<1>1. Inv => TypeOK
  BY DEF Inv
<1> QED
  BY <1>1, Invariance, PTL

\* For any number of events and concurrent commands that die anywhere: what
\* the ledger calls delivered was acknowledged by the sink.
THEOREM DeliveredIsTrue == Spec => []DeliveredWasReceived
<1>1. Inv => DeliveredWasReceived
  BY DEF Inv
<1> QED
  BY <1>1, Invariance, PTL

\* For any number of events and commands: no event is taken off the batch
\* without a digest that contains it and has a delivery.
THEOREM DigestsAreComplete == Spec => []DigestCarriesMembers
<1>1. Inv => DigestCarriesMembers
  BY DEF Inv
<1> QED
  BY <1>1, Invariance, PTL

\* For any number of commands: a live lease is ended by its holder only.
THEOREM LeasesFence == Spec => Fencing
<1>1. Inv /\ [Next]_vars => [Fenced]_vars
  BY StepInv
<1>2. Spec => [][Fenced]_vars
  BY <1>1, Invariance, PTL DEF Spec
<1> QED
  BY <1>2 DEF Fencing, Fenced
=============================================================================
