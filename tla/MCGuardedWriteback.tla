--------------------------- MODULE MCGuardedWriteback ---------------------------
(***************************************************************************)
(* GuardedWriteback for TLC: one source row for all proposals, so that     *)
(* proposals compete for it.                                               *)
(***************************************************************************)
EXTENDS GuardedWriteback, TLC

CONSTANT row

MCRows == {row}
MCTarget == [p \in Proposals |-> row]

\* Workers are interchangeable, and so are operators.
Symmetry == Permutations(Workers) \cup Permutations(Operators) \cup Permutations(Proposals)
=============================================================================
