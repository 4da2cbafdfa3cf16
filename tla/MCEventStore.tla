--------------------------- MODULE MCEventStore ---------------------------
(* Two services and two groups, interchangeable, for the runs of EventStore. *)
EXTENDS EventStore, TLC

CONSTANTS s1, s2, g1, g2

Symmetric == Permutations({g1, g2}) \cup Permutations({s1, s2})

===========================================================================
