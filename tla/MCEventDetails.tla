-------------------------- MODULE MCEventDetails --------------------------
(* Two interchangeable processes for the runs of EventDetails. *)
EXTENDS EventDetails, TLC

CONSTANTS p1, p2

Symmetric == Permutations({p1, p2})

===========================================================================
