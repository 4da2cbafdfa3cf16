----------------------------- MODULE Iterators -----------------------------
(***************************************************************************)
(* RTComElIter: a SELECT that stays open between calls, the row it         *)
(* delivered last, and the end, where the statement is finalised before    *)
(* the iterator is.  While the statement is active, or for as long as an   *)
(* atomic iterator lives, its connection holds a shared lock: no other     *)
(* program commits.  SQLite either walks down the ids and looks at each    *)
(* event when it gets there, or sorts, and delivers what it saw first.     *)
(* RTComElAttachIter is a second SELECT, over the attachments of the event *)
(* that an iterator is at; it may outlive the iterator.                    *)
(* Operators take the table they read as s.                                *)
(***************************************************************************)
EXTENDS Queries

VARIABLES
    iter,     \* of each viewer, NULL if it has none
    attached, \* its iterator over attachments and the row they are of, or NULL
    looks,    \* how often a program did more with an iterator than to read on
    failed,   \* viewers one of whose steps failed
    misused   \* viewers that used a statement after it had been finalised

\* A row of the table, and what RTComElIterPrivate keeps: pass is what SQLite
\* keeps for its statement.
RowOf(ids) == [id : ids, content : Contents \cup {NULL}]
Iterator == [stmt : {"active", "reset", "done", "dangling"},
             atomic : BOOLEAN, sorted : BOOLEAN, sql : SqlText,
             columns : RowOf(Ids \cup {NULL}),
             pass : [base : [Ids -> Contents \cup {NULL}], left : Seq(RowOf(Ids)),
                     got : Seq(Ids), touched : SUBSET Ids]]
ASSUME IteratorAssumption == NULL \notin Iterator

Look == looks < world.looks /\ looks' = looks + 1

None == [id |-> NULL, content |-> NULL]
Row(id, s) == [id |-> id, content |-> s[id]]

\* Has the connection a lock that keeps others from committing?
Holds(p) ==
    \/ iter[p] # NULL /\ (iter[p].atomic \/ iter[p].stmt = "active")
    \/ attached[p] # NULL /\ attached[p].stmt = "active"

\* One pass over the rows: what it found at its start, what is left of it if
\* it was sorted, what it has delivered, and what p has changed meanwhile.
Pass(sql, s) ==
    [base |-> s, left |-> [i \in DOMAIN Rows(sql, s) |-> Row(Rows(sql, s)[i], s)],
     got |-> <<>>, touched |-> {}]

\* The rows a pass will still deliver, the next one first.
Ahead(it, s) ==
    LET last == it.pass.got[Len(it.pass.got)]
        below == {id \in Matching(it.sql.where, s) : id < last}
        limit == it.sql.setting.limit
        ids == IF 0 <= limit /\ limit <= Len(it.pass.got) THEN <<>> ELSE Descending(below)
    IN  IF it.sorted \/ it.pass.got = <<>> THEN it.pass.left
        ELSE [i \in DOMAIN ids |-> Row(ids[i], s)]

\* _update_representation(): the columns of the row stay until the next one.
Delivered(it, s) ==
    LET row == Head(Ahead(it, s))
    IN  [it EXCEPT !.stmt = "active", !.columns = row, !.pass.got = Append(@, row.id),
                   !.pass.left = IF @ = <<>> THEN @ ELSE Tail(@)]

\* Mutant of Open: the iterator is stepped once more when it is made.
OpenSteppedTwice(p, atomic, sorted, s) ==
    LET sql == query[p].sql
        fresh == [stmt |-> "active", atomic |-> atomic, sorted |-> sorted, sql |-> sql,
                  columns |-> None, pass |-> Pass(sql, s)]
        first == Delivered(fresh, s)
        second == [Delivered(first, s) EXCEPT !.pass.got = Tail(@)]
    IN  /\ iter[p] = NULL
        /\ sql # NULL /\ Rows(sql, s) # <<>>
        /\ sorted \/ sql.setting.groupBy = "none"
        /\ iter' = [iter EXCEPT ![p] = IF Ahead(first, s) = <<>> THEN first ELSE second]
        /\ UNCHANGED <<attached, looks, failed, misused>>

\* _get_events_core(): no iterator without sql, and none without rows.
Open(p, atomic, sorted, s) ==
    LET sql == query[p].sql
        fresh == [stmt |-> "active", atomic |-> atomic, sorted |-> sorted, sql |-> sql,
                  columns |-> None, pass |-> Pass(sql, s)]
    IN  /\ iter[p] = NULL
        /\ sql # NULL /\ Rows(sql, s) # <<>>
        /\ sorted \/ sql.setting.groupBy = "none"
        /\ iter' = [iter EXCEPT ![p] = Delivered(fresh, s)]
        /\ UNCHANGED <<attached, looks, failed, misused>>

\* The same call when there are no rows: no iterator.
OpenEmpty(p, s) ==
    /\ iter[p] = NULL
    /\ query[p].sql # NULL /\ Rows(query[p].sql, s) = <<>>
    /\ UNCHANGED <<iter, attached, looks, failed, misused>>

\* The same call when the statement cannot be prepared, BEGIN gives up, or the
\* first step meets a lock or an error: no iterator either, and nothing that
\* tells the caller which of the two it was.  Bound: it may happen any number
\* of times, in the executions in which steps may fail.
MayNotOpen == world.faults > 0
OpenFails(p) ==
    /\ iter[p] = NULL
    /\ query[p].sql # NULL
    /\ MayNotOpen
    /\ UNCHANGED <<iter, attached, looks, failed, misused>>

\* sqlite3_step() on an active statement, or on one that was reset: that
\* starts a pass of its own.
Stepped(p, s) ==
    IF iter[p].stmt = "reset" THEN [iter[p] EXCEPT !.pass = Pass(iter[p].sql, s)] ELSE iter[p]

NextRow(p, s) ==
    /\ iter[p] # NULL /\ iter[p].stmt \in {"active", "reset"}
    /\ Ahead(Stepped(p, s), s) # <<>>
    /\ iter' = [iter EXCEPT ![p] = Delivered(Stepped(p, s), s)]
    /\ UNCHANGED <<attached, looks, failed, misused>>

\* Mutant of NextEnds: the finalised statement is not forgotten.
NextEndsDangling(p, s) ==
    /\ iter[p] # NULL /\ iter[p].stmt \in {"active", "reset"}
    /\ Ahead(Stepped(p, s), s) = <<>>
    /\ iter' = [iter EXCEPT ![p] = [Stepped(p, s) EXCEPT !.stmt = "dangling"]]
    /\ UNCHANGED <<attached, looks, failed, misused>>

\* SQLITE_DONE: finalised and set to NULL.
NextEnds(p, s) ==
    /\ iter[p] # NULL /\ iter[p].stmt \in {"active", "reset"}
    /\ Ahead(Stepped(p, s), s) = <<>>
    /\ iter' = [iter EXCEPT ![p] = [Stepped(p, s) EXCEPT !.stmt = "done"]]
    /\ UNCHANGED <<attached, looks, failed, misused>>

\* Any other result: finalised, and still in priv->stmt.
NextFails(p) ==
    /\ iter[p] # NULL /\ iter[p].stmt \in {"active", "reset"}
    /\ Cardinality(failed) < world.faults
    /\ iter' = [iter EXCEPT ![p].stmt = "dangling"]
    /\ failed' = failed \cup {p}
    /\ UNCHANGED <<attached, looks, misused>>

\* rtcom_el_iter_first(): sqlite3_reset(), which lets go of the shared lock,
\* and then rtcom_el_iter_next().
First(p) ==
    /\ iter[p] # NULL /\ iter[p].stmt = "active"
    /\ Look
    /\ iter' = [iter EXCEPT ![p].stmt = "reset"]
    /\ UNCHANGED <<attached, failed, misused>>

\* first(), next() or unreffing with a statement that has been finalised:
\* undefined, the model goes on without the iterator.
UseDangling(p) ==
    /\ iter[p] # NULL /\ iter[p].stmt = "dangling"
    /\ iter' = [iter EXCEPT ![p] = NULL]
    /\ misused' = misused \cup {p}
    /\ UNCHANGED <<attached, looks, failed>>

\* rtcom_el_iter_finalize(): COMMIT if atomic, and the statement, if any.
Unref(p) ==
    /\ iter[p] # NULL /\ iter[p].stmt \in {"active", "done"}
    /\ IF iter[p].stmt = "active" THEN Look ELSE UNCHANGED looks
    /\ iter' = [iter EXCEPT ![p] = NULL]
    /\ UNCHANGED <<attached, failed, misused>>

---------------------------------------------------------------------------
(* What an iterator gives                                                  *)

\* rtcom_el_iter_get_values() gives the last row, also after the end.
Values(it) == it.columns

\* Mutant of GivesWhole: the statement is not looked at.
GivesWholeAlways(it) == it.columns # None

\* rtcom_el_iter_get_full() and rtcom_el_iter_get_attachments().
GivesWhole(it) == it.stmt # "done"

Attachments(stmt, row) == [stmt |-> stmt, row |-> row, touched |-> FALSE]
AttachmentsBecome(p, it) ==
    /\ attached' = [attached EXCEPT ![p] = it]
    /\ UNCHANGED <<iter, failed, misused>>

\* rtcom_el_iter_get_attachments(), of an event that has some.  It looks for
\* the id of the last row.  After a failed step nothing need keep that event
\* there: the attachments are those of the event that has the id by now.
OpenAttachments(p, s) ==
    LET row == IF iter[p].stmt = "dangling" THEN Row(Values(iter[p]).id, s)
                                            ELSE Values(iter[p])
    IN  /\ iter[p] # NULL /\ attached[p] = NULL
        /\ GivesWhole(iter[p]) /\ iter[p].stmt # "reset"
        /\ row.content # NULL
        /\ Look
        /\ AttachmentsBecome(p, [Attachments("active", row) EXCEPT
                                   !.touched = /\ iter[p].stmt # "dangling"
                                               /\ row.id \in iter[p].pass.touched])

\* rtcom_el_attach_iter_first(): reset, without a lock, and then a step.
FirstAttachment(p) ==
    /\ attached[p] # NULL /\ attached[p].stmt = "active"
    /\ Look
    /\ AttachmentsBecome(p, Attachments("reset", attached[p].row))

\* The step after it lists the event that has the id by now, if any.
RestartAttachments(p, s) ==
    LET id == attached[p].row.id
    IN  /\ attached[p] # NULL /\ attached[p].stmt = "reset"
        /\ AttachmentsBecome(p, IF s[id] = NULL THEN NULL
                                ELSE Attachments("active", Row(id, s)))
        /\ UNCHANGED looks

\* rtcom_el_attach_iter_next() at the end or at an error, and the finalizer,
\* if neither came before: each finalises the statement and forgets it.
CloseAttachments(p) ==
    /\ attached[p] # NULL
    /\ AttachmentsBecome(p, NULL)
    /\ UNCHANGED looks

============================================================================
