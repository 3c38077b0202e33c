----------------------------- MODULE MCWorkerFleet -----------------------------
(***************************************************************************)
(* WorkerFleet for TLC.                                                    *)
(***************************************************************************)
EXTENDS WorkerFleet, TLC

\* Workers are interchangeable, and so are proposals.
Symmetry == Permutations(Workers) \cup Permutations(Proposals)
=============================================================================
