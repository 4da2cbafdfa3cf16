--------------------------- MODULE Transactions ---------------------------
(***************************************************************************)
(* The calls of the library statement by statement: the transaction        *)
(* helpers of db.c, the calls of eventlogger.c that use them, and the      *)
(* iterators that keep a SELECT, and perhaps a transaction, open between   *)
(* calls.  Each logger has a process and a database connection of its own; *)
(* the connections meet at the locks of the database file, which are       *)
(* SQLite's (rollback journal: shared, reserved, pending, exclusive).      *)
(*                                                                         *)
(* Of the content of the database only what one call writes in several     *)
(* statements is kept apart: the row of an event, its details (Remotes,    *)
(* Headers, Attachments), its share of GroupCache, its is_read column, and *)
(* the Remotes rows of two contacts that one call updates together.        *)
(***************************************************************************)
EXTENDS Integers, Sequences

CONSTANTS
    Loggers,   \* RTComEl objects
    Events,    \* what can be logged
    NULL,
    Contracts,  \* the programs to consider: those that heed the note on
                \* rtcom_el_get_events_atomic(), and those that do not
    IOFaults    \* whether statements fail for other reasons than locks

ASSUME BooleanAssumption == Contracts \subseteq BOOLEAN /\ IOFaults \in BOOLEAN
\* "lost" stands for the names in a damaged file.
ASSUME NameAssumption == "lost" \notin Events \cup {NULL}

VARIABLES
    contract, \* the programs change nothing while they have an atomic iterator
    db,       \* the committed content of the file
    damaged,  \* a commit without journal was cut short
    own,      \* the content with what a connection wrote and has not committed
    lock,     \* the lock each connection holds on the file
    intx,     \* ~ sqlite3_get_autocommit(): a transaction is open
    iters,    \* the iterators of each logger
    seen,     \* the content when the atomic iterator was created
    call,     \* the call in progress: kind, event, rest of its statements
    journal,  \* PRAGMA journal_mode
    reply     \* how the last call of each logger ended

vars == <<contract, db, damaged, own, lock, intx, iters, seen, call, journal, reply>>

Contents == [events : SUBSET Events, details : SUBSET Events,
             cached : SUBSET Events, read : SUBSET Events,
             names : [1..2 -> Events \cup {NULL}]]
NoContent == [events |-> {}, details |-> {}, cached |-> {}, read |-> {},
              names |-> <<NULL, NULL>>]
\* NULL also stands for a connection that has written nothing.
ASSUME NullAssumption == NULL \notin Contents

Idle == [kind |-> "none", ev |-> NULL, rest |-> <<>>]

\* The shared log, and the calls, that a client of the library can tell apart:
\* a call has taken effect when only the report of its success is left.
Promise == INSTANCE CallLog WITH
    log   <- [events  |-> IF damaged THEN {} ELSE db.events,
              read    |-> IF damaged THEN {} ELSE db.read,
              names   |-> IF damaged THEN <<"lost", "lost">> ELSE db.names],
    calls <- [p \in Loggers |-> [kind    |-> call[p].kind,
                                 ev      |-> call[p].ev,
                                 applied |-> call[p].rest = <<"ok">>]]

Kinds     == Promise!Kinds
Deletions == Promise!Deletions
Gone(kind, e) == Promise!Gone(kind, e)

---------------------------------------------------------------------------
(* SQLite: locks, visibility and the end of a transaction                  *)

Others(p)   == Loggers \ {p}
Wrote(p)    == own[p] # NULL
Visible(p)  == IF Wrote(p) THEN own[p] ELSE db

CanRead(p)  == \A q \in Others(p) : lock[q] \notin {"pending", "exclusive"}
CanWrite(p) == \A q \in Others(p) : lock[q] \in {"none", "shared"}
CanCommit(p) == \A q \in Others(p) : lock[q] = "none"

\* A SELECT that has not been finalised keeps a shared lock.
Selects(its) == its \cap {"plain", "atomic"} # {}
RestLock(its) == IF Selects(its) THEN "shared" ELSE "none"

\* Mutant of EndTransaction: what the connection wrote is kept.
EndTransactionKeeping(p, its) ==
    /\ intx' = [intx EXCEPT ![p] = FALSE]
    /\ lock' = [lock EXCEPT ![p] = RestLock(its)]
    /\ UNCHANGED own

\* COMMIT, ROLLBACK or an automatic rollback ends the transaction of p; the
\* lock goes with the last SELECT.
EndTransaction(p, its) ==
    /\ intx' = [intx EXCEPT ![p] = FALSE]
    /\ lock' = [lock EXCEPT ![p] = RestLock(its)]
    /\ own'  = [own EXCEPT ![p] = NULL]

---------------------------------------------------------------------------
(* The calls as sequences of statements                                    *)

\* Mutant of Program: an addition commits before it writes the details.
ProgramCommittingEarly(kind) ==
    CASE kind = "add"       -> <<"BEGIN", "event", "COMMIT", "details">>
      [] kind = "delete"    -> <<"BEGIN", "groups", "delete", "cache", "COMMIT">>
      [] kind = "deleteBy"  -> <<"BEGIN", "delete", "cache", "COMMIT">>
      [] kind = "deleteAll" -> <<"BEGIN", "delete", "COMMIT">>
      [] kind = "update"    -> <<"update">>
      [] kind = "contacts"  -> <<"BEGIN", "first", "second", "COMMIT">>

Program(kind) ==
    CASE kind = "add"       -> <<"BEGIN", "event", "details", "COMMIT">>
      [] kind = "delete"    -> <<"BEGIN", "groups", "delete", "cache", "COMMIT">>
      [] kind = "deleteBy"  -> <<"BEGIN", "delete", "cache", "COMMIT">>
      [] kind = "deleteAll" -> <<"BEGIN", "delete", "COMMIT">>
      [] kind = "update"    -> <<"update">>
      [] kind = "contacts"  -> <<"BEGIN", "first", "second", "COMMIT">>

Writes == {"event", "details", "delete", "cache", "update", "first", "second"}

Written(stmt, kind, e, c) ==
    CASE stmt = "event"   -> [c EXCEPT !.events = @ \cup {e}, !.cached = @ \cup {e}]
      [] stmt = "details" -> [c EXCEPT !.details = @ \cup {e}]
      [] stmt = "delete"  -> [c EXCEPT !.events  = @ \ Gone(kind, e),
                                       !.details = @ \ Gone(kind, e),
                                       !.read    = @ \ Gone(kind, e)]
      [] stmt = "cache"   -> [c EXCEPT !.cached =
                                IF kind = "delete" THEN @ \cap c.events
                                ELSE @ \ Gone(kind, e)]
      [] stmt = "update"  -> [c EXCEPT !.read = @ \cup ({e} \cap c.events)]
      [] stmt = "first"   -> [c EXCEPT !.names[1] = e]
      [] stmt = "second"  -> [c EXCEPT !.names[2] = e]

At(p, stmt) == call[p].rest # <<>> /\ Head(call[p].rest) = stmt
Goto(p, stmts) == call' = [call EXCEPT ![p].rest = stmts]
Continue(p) == Goto(p, Tail(call[p].rest))

\* Mutants of AfterFailure: a failed call returns without ROLLBACK, a failed
\* COMMIT counts as a success.
AfterFailureReturn(p) ==
    IF At(p, "groups") THEN <<"delete", "COMMIT">> ELSE <<"failed">>
AfterFailureCommitted(p) ==
    CASE At(p, "groups") -> <<"delete", "COMMIT">>
      [] At(p, "update") -> <<"failed">>
      [] At(p, "COMMIT") -> <<"ok">>
      [] OTHER -> <<"ROLLBACK", "failed">>

\* Where a failed statement leads.  When BEGIN fails the deletions roll back
\* as they do for every other statement, the other calls just return.  The
\* failure to list the groups reads as an empty list.
AfterFailure(p) ==
    LET kind == call[p].kind
    IN  CASE At(p, "groups") -> <<"delete", "COMMIT">>
          [] At(p, "update") -> <<"failed">>
          [] At(p, "BEGIN") /\ kind \notin Deletions -> <<"failed">>
          [] OTHER -> <<"ROLLBACK", "failed">>
Fail(p) == Goto(p, AfterFailure(p))

Statements == Writes \cup {"BEGIN", "groups", "COMMIT"}
Executing(p) == call[p].rest # <<>> /\ Head(call[p].rest) \in Statements

---------------------------------------------------------------------------
(* Steps of a call                                                         *)

Start(p, kind, e) ==
    /\ call[p] = Idle
    /\ contract => iters[p] \cap {"atomic", "drained"} = {}
    /\ kind = "add" => /\ e \notin db.events
                       /\ \A q \in Loggers : call[q].kind = "add" => call[q].ev # e
    /\ call' = [call EXCEPT ![p] = [kind |-> kind, ev |-> e, rest |-> Program(kind)]]
    /\ journal' = [journal EXCEPT ![p] = IF kind \in Deletions THEN "off" ELSE @]
    /\ reply' = [reply EXCEPT ![p] = "none"]
    /\ UNCHANGED <<contract, db, damaged, own, lock, intx, iters, seen>>

\* rtcom_el_db_transaction() refuses to nest.
BeginRefused(p) ==
    /\ At(p, "BEGIN") /\ intx[p]
    /\ Fail(p)
    /\ UNCHANGED <<contract, db, damaged, own, lock, intx, iters, seen, journal, reply>>

\* BEGIN DEFERRED takes no lock, BEGIN EXCLUSIVE, of the additions, all of them.
Begin(p) ==
    /\ At(p, "BEGIN") /\ ~ intx[p] /\ ~ damaged
    /\ IF call[p].kind = "add"
       THEN CanCommit(p) /\ lock' = [lock EXCEPT ![p] = "exclusive"]
       ELSE UNCHANGED lock
    /\ intx' = [intx EXCEPT ![p] = TRUE]
    /\ Continue(p)
    /\ UNCHANGED <<contract, db, damaged, own, iters, seen, journal, reply>>

\* get_event_group_uids(); without groups update_group_cache() does nothing.
ListGroups(p) ==
    /\ At(p, "groups") /\ ~ damaged
    /\ CanRead(p)
    /\ lock' = [lock EXCEPT ![p] = IF @ # "none" THEN @
                                   ELSE IF intx[p] THEN "shared" ELSE "none"]
    /\ Goto(p, IF call[p].ev \in Visible(p).events
               THEN <<"delete", "cache", "COMMIT">> ELSE <<"delete", "COMMIT">>)
    /\ UNCHANGED <<contract, db, damaged, own, intx, iters, seen, journal, reply>>

Change(p, c) == Written(Head(call[p].rest), call[p].kind, call[p].ev, c)

\* A write inside a transaction, which may be the one of an iterator.
Write(p) ==
    /\ \E stmt \in Writes : At(p, stmt)
    /\ intx[p] /\ ~ damaged
    /\ CanWrite(p)
    /\ own' = [own EXCEPT ![p] = Change(p, Visible(p))]
    /\ lock' = [lock EXCEPT ![p] = IF @ \in {"none", "shared"} THEN "reserved" ELSE @]
    /\ IF At(p, "update") THEN Goto(p, <<"ok">>) ELSE Continue(p)
    /\ UNCHANGED <<contract, db, damaged, intx, iters, seen, journal, reply>>

\* A write outside a transaction commits itself.
WriteAlone(p) ==
    /\ \E stmt \in Writes : At(p, stmt)
    /\ ~ intx[p] /\ ~ damaged
    /\ CanCommit(p)
    /\ db' = Change(p, db)
    /\ lock' = [lock EXCEPT ![p] = RestLock(iters[p])]
    /\ IF At(p, "update") THEN Goto(p, <<"ok">>) ELSE Continue(p)
    /\ UNCHANGED <<contract, damaged, own, intx, iters, seen, journal, reply>>

\* COMMIT first keeps new readers out, then waits for the others to finish.
CommitWaits(p) ==
    /\ At(p, "COMMIT") /\ Wrote(p) /\ lock[p] = "reserved" /\ ~ CanCommit(p)
    /\ lock' = [lock EXCEPT ![p] = "pending"]
    /\ UNCHANGED <<contract, db, damaged, own, intx, iters, seen, call, journal, reply>>

CommitStarts(p) ==
    /\ At(p, "COMMIT") /\ Wrote(p) /\ lock[p] # "exclusive" /\ ~ damaged
    /\ CanCommit(p)
    /\ lock' = [lock EXCEPT ![p] = "exclusive"]
    /\ UNCHANGED <<contract, db, damaged, own, intx, iters, seen, call, journal, reply>>

CommitEnds(p) ==
    /\ At(p, "COMMIT") /\ intx[p]
    /\ Wrote(p) => lock[p] = "exclusive"
    /\ db' = Visible(p)
    /\ EndTransaction(p, iters[p])
    /\ Goto(p, <<"ok">>)
    /\ UNCHANGED <<contract, damaged, iters, seen, journal, reply>>

\* rtcom_el_db_commit() outside a transaction.
CommitRefused(p) ==
    /\ At(p, "COMMIT") /\ ~ intx[p]
    /\ Fail(p)
    /\ UNCHANGED <<contract, db, damaged, own, lock, intx, iters, seen, journal, reply>>

\* rtcom_el_db_iterate() gives up after RTCOM_EL_DB_MAX_BUSYLOOP_TIME.  A
\* failed BEGIN EXCLUSIVE keeps what it locked if the connection is reading.
Blocked(p) ==
    \/ At(p, "BEGIN") /\ ~ intx[p] /\ call[p].kind = "add" /\ ~ CanCommit(p)
    \/ At(p, "groups") /\ ~ CanRead(p)
    \/ \E stmt \in Writes : /\ At(p, stmt)
                            /\ ~ (IF intx[p] THEN CanWrite(p) ELSE CanCommit(p))
    \/ At(p, "COMMIT") /\ lock[p] = "pending" /\ ~ CanCommit(p)

\* Mutant of GiveUp: the busy loop has no bound.
NeverGiveUp(p) == FALSE /\ UNCHANGED vars

GiveUp(p) ==
    /\ Blocked(p)
    /\ IF At(p, "BEGIN") /\ CanWrite(p) /\ Selects(iters[p])
       THEN lock' = [lock EXCEPT ![p] = "pending"]
       ELSE UNCHANGED lock
    /\ Fail(p)
    /\ UNCHANGED <<contract, db, damaged, own, intx, iters, seen, journal, reply>>

\* Full disk, I/O error, damaged file: SQLite may roll back by itself.
Fault(p) ==
    /\ Executing(p)
    /\ IOFaults \/ damaged
    /\ \/ intx[p] /\ EndTransaction(p, iters[p])
       \/ UNCHANGED <<own, lock, intx>>
    /\ Fail(p)
    /\ UNCHANGED <<contract, db, damaged, iters, seen, journal, reply>>

\* rtcom_el_db_rollback(): outside a transaction it only warns.
Rollback(p) ==
    /\ At(p, "ROLLBACK")
    /\ IF intx[p] THEN EndTransaction(p, iters[p]) ELSE UNCHANGED <<own, lock, intx>>
    /\ Continue(p)
    /\ UNCHANGED <<contract, db, damaged, iters, seen, journal, reply>>

Finish(p) ==
    /\ At(p, "ok") \/ At(p, "failed")
    /\ reply' = [reply EXCEPT ![p] = Head(call[p].rest)]
    /\ call' = [call EXCEPT ![p] = Idle]
    /\ journal' = [journal EXCEPT ![p] = "truncate"]
    /\ UNCHANGED <<contract, db, damaged, own, lock, intx, iters, seen>>

Step(p) ==
    \/ BeginRefused(p) \/ Begin(p) \/ ListGroups(p) \/ Write(p) \/ WriteAlone(p)
    \/ CommitWaits(p) \/ CommitStarts(p) \/ CommitEnds(p) \/ CommitRefused(p)
    \/ GiveUp(p) \/ Fault(p) \/ Rollback(p) \/ Finish(p)

---------------------------------------------------------------------------
(* Iterators, used between calls.  A query without result, or one that is  *)
(* blocked or refused, leaves everything as it was and is no action.       *)

OpenIter(p) ==
    /\ call[p] = Idle /\ "plain" \notin iters[p]
    /\ CanRead(p) /\ ~ damaged /\ Visible(p).events # {}
    /\ iters' = [iters EXCEPT ![p] = @ \cup {"plain"}]
    /\ lock' = [lock EXCEPT ![p] = IF @ = "none" THEN "shared" ELSE @]
    /\ UNCHANGED <<contract, db, damaged, own, intx, seen, call, journal, reply>>

\* Mutant of OpenAtomicIter: no BEGIN.
OpenAtomicIterBare(p) ==
    /\ call[p] = Idle /\ ~ intx[p] /\ iters[p] \cap {"atomic", "drained"} = {}
    /\ CanRead(p) /\ ~ damaged /\ db.events # {}
    /\ iters' = [iters EXCEPT ![p] = @ \cup {"atomic"}]
    /\ lock' = [lock EXCEPT ![p] = IF @ = "none" THEN "shared" ELSE @]
    /\ seen' = [seen EXCEPT ![p] = Visible(p)]
    /\ UNCHANGED <<contract, db, damaged, own, intx, call, journal, reply>>

OpenAtomicIter(p) ==
    /\ call[p] = Idle /\ ~ intx[p] /\ iters[p] \cap {"atomic", "drained"} = {}
    /\ CanRead(p) /\ ~ damaged /\ db.events # {}
    /\ intx' = [intx EXCEPT ![p] = TRUE]
    /\ iters' = [iters EXCEPT ![p] = @ \cup {"atomic"}]
    /\ lock' = [lock EXCEPT ![p] = IF @ = "none" THEN "shared" ELSE @]
    /\ seen' = [seen EXCEPT ![p] = Visible(p)]
    /\ UNCHANGED <<contract, db, damaged, own, call, journal, reply>>

\* Without a transaction the lock goes with the last SELECT.
Finalise(p, its) ==
    /\ iters' = [iters EXCEPT ![p] = its]
    /\ lock' = [lock EXCEPT ![p] = IF intx[p] \/ Selects(its) THEN @ ELSE "none"]
    /\ UNCHANGED <<db, own, intx>>

\* The iterator is unreffed, or has delivered its last row.
CloseIter(p) ==
    /\ call[p] = Idle /\ "plain" \in iters[p]
    /\ Finalise(p, iters[p] \ {"plain"})
    /\ UNCHANGED <<contract, damaged, seen, call, journal, reply>>

\* rtcom_el_iter_next() at the end finalises the SELECT, not the transaction.
DrainAtomicIter(p) ==
    /\ call[p] = Idle /\ "atomic" \in iters[p]
    /\ Finalise(p, (iters[p] \ {"atomic"}) \cup {"drained"})
    /\ UNCHANGED <<contract, damaged, seen, call, journal, reply>>

\* rtcom_el_iter_finalize() commits and does not look at the result: when
\* the COMMIT has something to write and others keep reading, it fails and
\* the transaction stays open.
CloseAtomicIter(p) ==
    LET its == iters[p] \ {"atomic", "drained"}
    IN  /\ call[p] = Idle /\ its # iters[p]
        /\ IF ~ intx[p] THEN Finalise(p, its)
           ELSE /\ iters' = [iters EXCEPT ![p] = its]
                /\ IF Wrote(p) /\ (damaged \/ ~ CanCommit(p))
                   THEN /\ lock' = [lock EXCEPT ![p] = "pending"]
                        /\ UNCHANGED <<db, own, intx>>
                   ELSE db' = Visible(p) /\ EndTransaction(p, its)
        /\ seen' = [seen EXCEPT ![p] = NoContent]
        /\ UNCHANGED <<contract, damaged, call, journal, reply>>

---------------------------------------------------------------------------
(* Processes                                                               *)

\* The process dies and is started again.  The next reader rolls back what
\* it had not committed with the journal, if there is one.
Die(p) ==
    /\ call' = [call EXCEPT ![p] = Idle]
    /\ reply' = [reply EXCEPT ![p] = "none"]
    /\ intx' = [intx EXCEPT ![p] = FALSE]
    /\ lock' = [lock EXCEPT ![p] = "none"]
    /\ own' = [own EXCEPT ![p] = NULL]
    /\ iters' = [iters EXCEPT ![p] = {}]
    /\ journal' = [journal EXCEPT ![p] = "truncate"]
    /\ \/ UNCHANGED damaged
       \/ /\ At(p, "COMMIT") /\ lock[p] = "exclusive" /\ journal[p] = "off"
          /\ damaged' = TRUE
    /\ seen' = [seen EXCEPT ![p] = NoContent]
    /\ UNCHANGED <<contract, db>>

\* rtcom_el_db_open() removes a corrupted file and makes a new one; here all
\* processes have to be started again before it is used.
Remake ==
    /\ damaged
    /\ \A p \in Loggers : call[p] = Idle /\ iters[p] = {} /\ ~ intx[p]
    /\ db' = NoContent
    /\ damaged' = FALSE
    /\ UNCHANGED <<contract, own, lock, intx, iters, seen, call, journal, reply>>

Init ==
    /\ contract \in Contracts
    /\ db = NoContent
    /\ damaged = FALSE
    /\ own = [p \in Loggers |-> NULL]
    /\ lock = [p \in Loggers |-> "none"]
    /\ intx = [p \in Loggers |-> FALSE]
    /\ iters = [p \in Loggers |-> {}]
    /\ seen = [p \in Loggers |-> NoContent]
    /\ call = [p \in Loggers |-> Idle]
    /\ journal = [p \in Loggers |-> "truncate"]
    /\ reply = [p \in Loggers |-> "none"]

Next ==
    \/ \E p \in Loggers :
          \/ \E kind \in Kinds, e \in Events : Start(p, kind, e)
          \/ Step(p)
          \/ OpenIter(p) \/ OpenAtomicIter(p)
          \/ CloseIter(p) \/ DrainAtomicIter(p) \/ CloseAtomicIter(p)
          \/ Die(p)
    \/ Remake

Spec == Init /\ [][Next]_vars
FairSpec == Spec /\ \A p \in Loggers : WF_vars(Step(p))

---------------------------------------------------------------------------
(* Properties                                                              *)

\* The types of the variables; a connection that has written holds a lock.
TypeOK ==
    /\ contract \in Contracts
    /\ db \in Contents
    /\ damaged \in BOOLEAN
    /\ \A p \in Loggers :
          /\ own[p] = NULL \/ own[p] \in Contents
          /\ lock[p] \in {"none", "shared", "reserved", "pending", "exclusive"}
          /\ Wrote(p) => lock[p] \notin {"none", "shared"}
          /\ intx[p] \in BOOLEAN
          /\ iters[p] \subseteq {"plain", "atomic", "drained"}
          /\ seen[p] \in Contents
          /\ call[p].kind \in Kinds \cup {"none"}
          /\ journal[p] \in {"truncate", "off"}
          /\ reply[p] \in {"none", "ok", "failed"}

\* Whatever fails, dies or gives up, what is committed is whole: an event
\* with its details, never without its share of the group cache, and both
\* contacts of a batch or neither.
CommittedWhole ==
    ~ damaged => /\ db.details = db.events
                 /\ db.events \subseteq db.cached
                 /\ db.read \subseteq db.events
                 /\ db.names[1] = db.names[2]

\* Programs that heed the note find nothing open between calls: a logger
\* without an atomic iterator has no transaction (its next addition would be
\* refused, and everybody else's writes blocked), without any iterator no lock.
NothingLeftOpen ==
    contract => \A p \in Loggers : call[p] = Idle =>
        /\ iters[p] \cap {"atomic", "drained"} = {} => ~ intx[p] /\ ~ Wrote(p)
        /\ iters[p] = {} => lock[p] = "none"
        /\ journal[p] = "truncate"

\* Programs that heed the note: while an atomic iterator exists, every read of
\* its logger, the rows of the iterator and the queries for their headers and
\* attachments, sees the tables as they were when it was created.
AtomicSnapshot ==
    contract => \A p \in Loggers : iters[p] \cap {"atomic", "drained"} # {} =>
        Visible(p) = seen[p]

\* Every call takes effect at once and as a whole, exactly if it succeeds.
CallsAreAtomic == Promise!Spec

\* Every call returns, whoever else holds locks for however long.
CallsReturn == \A p \in Loggers : (call[p] # Idle) ~> (call[p] = Idle)

===========================================================================
