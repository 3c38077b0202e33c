-------------------------- MODULE MCNotifications --------------------------
(***************************************************************************)
(* Notifications for TLC: every event may be sent at once, deferred,       *)
(* batched for a digest or suppressed.                                     *)
(***************************************************************************)
EXTENDS Notifications, TLC

CONSTANT e1

MCRoutes == [e \in Events |-> {"pending", "deferred", "batched", "suppressed"}]

\* Commands are interchangeable.
Symmetry == Permutations(Commands)
=============================================================================
