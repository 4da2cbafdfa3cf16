-------------------------- MODULE MCTransactions --------------------------
(* Two interchangeable processes for symmetry. *)
EXTENDS Transactions, TLC

CONSTANTS p1, p2

Symmetric == Permutations({p1, p2})

===========================================================================
