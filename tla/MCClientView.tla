--------------------------- MODULE MCClientView ---------------------------
(* One program that shows the log, and one that only changes it.           *)
EXTENDS ClientView

CONSTANTS app, other, a

\* "is-read" = FALSE; LIKE on a number, which cannot be built.
MCConditions == {[type |-> "int", op |-> "=", holds |-> {c \in Contents : ~c.read}],
                 [type |-> "int", op |-> "LIKE", holds |-> {}]}

MCSettings == {[limit |-> 1, offset |-> 0, groupBy |-> "none"],
               [limit |-> -1, offset |-> 0, groupBy |-> "contact"]}

MCBatches == {<<2, 1>>}

Bounded(e, l, c, d, f) == [edits |-> e, looks |-> l, changes |-> c, deaths |-> d, faults |-> f]
MCWorlds == {Bounded(1, 0, 3, 0, 0), Bounded(1, 0, 2, 1, 0), Bounded(2, 0, 2, 0, 0),
             Bounded(1, 2, 2, 0, 0), Bounded(1, 1, 1, 0, 1), Bounded(1, 0, 2, 0, 1)}

============================================================================
