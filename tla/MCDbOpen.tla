----------------------------- MODULE MCDbOpen ------------------------------
(* The circumstances for the runs of DbOpen. *)
EXTENDS DbOpen

CONSTANTS p1, p2, p3

\* Several programs start on a new device.
FirstStart == [users |-> {p1, p2, p3}, old |-> FALSE, faults |-> FALSE, backup |-> TRUE]

\* One program upgrades, with a library that lets it, without and with
\* faults, or with one that does not.
Upgrade      == [users |-> {p1}, old |-> TRUE, faults |-> FALSE, backup |-> TRUE]
RoughUpgrade == [users |-> {p1}, old |-> TRUE, faults |-> TRUE, backup |-> TRUE]
NoUpgrade    == [users |-> {p1}, old |-> TRUE, faults |-> FALSE, backup |-> FALSE]

\* Two programs on a device where processes die.
RoughStart == [users |-> {p1, p2}, old |-> FALSE, faults |-> TRUE, backup |-> TRUE]

GoodWorlds  == {FirstStart, Upgrade, RoughUpgrade, NoUpgrade}
RoughWorlds == {RoughStart}
RoughUpgrades == {RoughUpgrade}

============================================================================
