------------------------- MODULE TransactionsProofs -------------------------
(***************************************************************************)
(* What Transactions keeps for any number of processes and events: what is *)
(* committed is whole, calls of programs that heed the note leave nothing  *)
(* open, their atomic iterators see one snapshot; and, if no statement     *)
(* fails but for locks, Transactions implements CallLog.                   *)
(***************************************************************************)
EXTENDS Transactions, TLAPS

---------------------------------------------------------------------------
(* How far a call can be                                                   *)

Begins == {<<"BEGIN", "event", "details", "COMMIT">>, <<"BEGIN", "first", "second", "COMMIT">>,
           <<"BEGIN", "groups", "delete", "cache", "COMMIT">>,
           <<"BEGIN", "delete", "cache", "COMMIT">>, <<"BEGIN", "delete", "COMMIT">>}
Rests == Begins \cup
    {<<>>, <<"ok">>, <<"failed">>, <<"update">>, <<"COMMIT">>, <<"ROLLBACK", "failed">>,
     <<"event", "details", "COMMIT">>, <<"details", "COMMIT">>,
     <<"first", "second", "COMMIT">>, <<"second", "COMMIT">>,
     <<"groups", "delete", "cache", "COMMIT">>,
     <<"delete", "cache", "COMMIT">>, <<"delete", "COMMIT">>, <<"cache", "COMMIT">>}

\* The statements that belong to a kind of call.
PositionOK(c) ==
    \/ c = Idle
    \/ /\ c.kind \in Kinds /\ c.ev \in Events
       /\ \/ c.rest \in {<<"ok">>, <<"failed">>}
          \/ c.kind = "update" /\ c.rest = <<"update">>
          \/ c.kind # "update" /\ c.rest \in {<<"COMMIT">>, <<"ROLLBACK", "failed">>}
          \/ c.kind = "add" /\ c.rest \in {<<"BEGIN", "event", "details", "COMMIT">>,
                <<"event", "details", "COMMIT">>, <<"details", "COMMIT">>}
          \/ c.kind = "contacts" /\ c.rest \in {<<"BEGIN", "first", "second", "COMMIT">>,
                <<"first", "second", "COMMIT">>, <<"second", "COMMIT">>}
          \/ c.kind = "delete" /\ c.rest \in {<<"BEGIN", "groups", "delete", "cache", "COMMIT">>,
                <<"groups", "delete", "cache", "COMMIT">>}
          \/ c.kind = "deleteBy" /\ c.rest = <<"BEGIN", "delete", "cache", "COMMIT">>
          \/ c.kind = "deleteAll" /\ c.rest = <<"BEGIN", "delete", "COMMIT">>
          \/ c.kind \in {"delete", "deleteBy"}
                /\ c.rest \in {<<"delete", "cache", "COMMIT">>, <<"cache", "COMMIT">>}
          \/ c.kind \in {"delete", "deleteAll"} /\ c.rest = <<"delete", "COMMIT">>

Call == [kind : Kinds, ev : Events, rest : Rests]

---------------------------------------------------------------------------
(* The inductive invariant, in parts                                       *)

LockStates == {"none", "shared", "reserved", "pending", "exclusive"}
Writing == {"reserved", "pending", "exclusive"}

Types ==
    /\ contract \in BOOLEAN /\ contract \in Contracts
    /\ db \in Contents /\ damaged \in BOOLEAN
    /\ own \in [Loggers -> Contents \cup {NULL}]
    /\ lock \in [Loggers -> LockStates]
    /\ intx \in [Loggers -> BOOLEAN]
    /\ iters \in [Loggers -> SUBSET {"plain", "atomic", "drained"}]
    /\ seen \in [Loggers -> Contents]
    /\ call \in [Loggers -> {Idle} \cup Call]
    /\ journal \in [Loggers -> {"truncate", "off"}]
    /\ reply \in [Loggers -> {"none", "ok", "failed"}]

Partly(c) ==
    /\ c.events \subseteq c.cached
    /\ c.read \subseteq c.events
Whole(c) == Partly(c) /\ c.details = c.events /\ c.names[1] = c.names[2]

\* What a connection has written, by the statement its call is at.
ContentOK(p) ==
    /\ Wrote(p) => intx[p] /\ lock[p] \in Writing
    /\ At(p, "event") \/ At(p, "first") \/ At(p, "groups") => intx[p] /\ ~ Wrote(p)
    /\ At(p, "delete") => ~ Wrote(p)
    /\ call[p].rest = <<"delete", "cache", "COMMIT">> => intx[p]
    /\ At(p, "details") => /\ Wrote(p) /\ Partly(own[p])
                           /\ own[p].details \cup {call[p].ev} = own[p].events
                           /\ own[p].names[1] = own[p].names[2]
    /\ At(p, "second") => /\ Wrote(p) /\ Partly(own[p])
                          /\ own[p].details = own[p].events
                          /\ own[p].names[1] = call[p].ev
    /\ At(p, "cache") => /\ Wrote(p)
                         /\ own[p].events \cap Gone(call[p].kind, call[p].ev) = {}
    /\ Wrote(p) => \/ At(p, "details") \/ At(p, "second") \/ At(p, "ROLLBACK")
                   \/ Whole(own[p])

\* Locks are kept by transactions and by SELECTs, and by nothing else.
KeptLock(p) ==
    /\ ~ intx[p] /\ ~ Selects(iters[p]) => lock[p] = "none"
    /\ Selects(iters[p]) => lock[p] # "none"

JournalOK(p) ==
    journal[p] = "off" => call[p].kind \in Deletions

\* Programs that heed the note call nothing while they have an atomic
\* iterator, and have no transaction outside of a call without one.
Atomic(p) == iters[p] \cap {"atomic", "drained"} # {}
Outside(p) == call[p].rest \in Begins \cup {<<>>, <<"ok">>, <<"failed">>, <<"update">>}
QuietOK(p) ==
    contract =>
        /\ Atomic(p) => /\ call[p] = Idle /\ intx[p] /\ ~ Wrote(p)
                        /\ lock[p] # "none" /\ seen[p] = db
        /\ Outside(p) /\ ~ Atomic(p) => ~ intx[p]

Local(p) == PositionOK(call[p]) /\ ContentOK(p) /\ KeptLock(p) /\ JournalOK(p) /\ QuietOK(p)

\* One connection prepares to write, and alone while it does.
LocksOK ==
    \A p, q \in Loggers : p # q =>
        /\ lock[p] \in Writing => lock[q] \notin Writing
        /\ lock[p] = "exclusive" => lock[q] = "none"

IInv ==
    /\ Types
    /\ Whole(db)
    /\ LocksOK
    /\ \A p \in Loggers : Local(p)

---------------------------------------------------------------------------
(* Lemmas about positions                                                  *)

LEMMA KindsAre == /\ Kinds = {"add", "delete", "deleteBy", "deleteAll", "update", "contacts"}
                  /\ Deletions = {"delete", "deleteBy", "deleteAll"}
                  /\ \A kind, e : Gone(kind, e) = IF kind = "deleteAll" THEN Events ELSE {e}
  BY DEF Kinds, Deletions, Gone, Promise!Kinds, Promise!Deletions, Promise!Gone

\* Where a call is when it is at a statement.
LEMMA AtBegin ==
    ASSUME NEW p \in Loggers, PositionOK(call[p]), At(p, "BEGIN")
    PROVE  /\ call[p].rest \in Begins /\ call[p].kind \in Kinds \ {"update"} /\ call[p] # Idle
           /\ call[p].rest = Program(call[p].kind)
  BY KindsAre DEF PositionOK, At, Begins, Idle, Program

LEMMA AtStatement ==
    ASSUME NEW p \in Loggers, PositionOK(call[p])
    PROVE  /\ At(p, "event") => call[p].kind = "add" /\ call[p].rest = <<"event", "details", "COMMIT">>
           /\ At(p, "details") => call[p].kind = "add" /\ call[p].rest = <<"details", "COMMIT">>
           /\ At(p, "first") => call[p].kind = "contacts" /\ call[p].rest = <<"first", "second", "COMMIT">>
           /\ At(p, "second") => call[p].kind = "contacts" /\ call[p].rest = <<"second", "COMMIT">>
           /\ At(p, "groups") => call[p].kind = "delete"
                /\ call[p].rest = <<"groups", "delete", "cache", "COMMIT">>
           /\ At(p, "delete") => \/ /\ call[p].kind \in {"delete", "deleteBy"}
                                    /\ call[p].rest = <<"delete", "cache", "COMMIT">>
                                 \/ /\ call[p].kind \in {"delete", "deleteAll"}
                                    /\ call[p].rest = <<"delete", "COMMIT">>
           /\ At(p, "cache") => call[p].kind \in {"delete", "deleteBy"} /\ call[p].rest = <<"cache", "COMMIT">>
           /\ At(p, "update") => call[p].kind = "update" /\ call[p].rest = <<"update">>
           /\ At(p, "COMMIT") => call[p].kind \in Kinds \ {"update"} /\ call[p].rest = <<"COMMIT">>
           /\ At(p, "ROLLBACK") => call[p].kind \in Kinds \ {"update"} /\ call[p].rest = <<"ROLLBACK", "failed">>
           /\ At(p, "ok") => call[p].kind \in Kinds /\ call[p].rest = <<"ok">>
           /\ At(p, "failed") => call[p].kind \in Kinds /\ call[p].rest = <<"failed">>
  BY DEF PositionOK, At, Idle

\* Statements that only follow a BEGIN.
LEMMA Inside ==
    \A r \in {<<"COMMIT">>, <<"ROLLBACK", "failed">>,
             <<"event", "details", "COMMIT">>, <<"details", "COMMIT">>,
             <<"first", "second", "COMMIT">>, <<"second", "COMMIT">>,
             <<"groups", "delete", "cache", "COMMIT">>,
             <<"delete", "cache", "COMMIT">>, <<"delete", "COMMIT">>, <<"cache", "COMMIT">>} :
        r \notin Begins \cup {<<>>, <<"ok">>, <<"failed">>, <<"update">>}
  BY DEF Begins

LEMMA Tails ==
    /\ Tail(<<"BEGIN", "event", "details", "COMMIT">>) = <<"event", "details", "COMMIT">>
    /\ Tail(<<"BEGIN", "first", "second", "COMMIT">>) = <<"first", "second", "COMMIT">>
    /\ Tail(<<"BEGIN", "groups", "delete", "cache", "COMMIT">>) = <<"groups", "delete", "cache", "COMMIT">>
    /\ Tail(<<"BEGIN", "delete", "cache", "COMMIT">>) = <<"delete", "cache", "COMMIT">>
    /\ Tail(<<"BEGIN", "delete", "COMMIT">>) = <<"delete", "COMMIT">>
    /\ Tail(<<"event", "details", "COMMIT">>) = <<"details", "COMMIT">>
    /\ Tail(<<"first", "second", "COMMIT">>) = <<"second", "COMMIT">>
    /\ Tail(<<"delete", "cache", "COMMIT">>) = <<"cache", "COMMIT">>
    /\ Tail(<<"delete", "COMMIT">>) = <<"COMMIT">>
    /\ Tail(<<"details", "COMMIT">>) = <<"COMMIT">>
    /\ Tail(<<"second", "COMMIT">>) = <<"COMMIT">>
    /\ Tail(<<"cache", "COMMIT">>) = <<"COMMIT">>
    /\ Tail(<<"ROLLBACK", "failed">>) = <<"failed">>
  OBVIOUS

---------------------------------------------------------------------------
(* A step of one logger                                                    *)

\* The other loggers are where they were.
Only(p) ==
    /\ contract' = contract
    /\ \A q \in Loggers \ {p} :
          /\ own'[q] = own[q] /\ lock'[q] = lock[q] /\ intx'[q] = intx[q]
          /\ iters'[q] = iters[q] /\ seen'[q] = seen[q]
          /\ call'[q] = call[q] /\ journal'[q] = journal[q]

\* The lock is taken as SQLite allows.
LockMove(p) ==
    \/ lock'[p] \in {lock[p], "none"}
    \/ lock'[p] = "shared" /\ (lock[p] # "none" \/ CanRead(p))
    \/ lock'[p] \in {"reserved", "pending"} /\ (lock[p] \in Writing \/ CanWrite(p))
    \/ lock'[p] = "exclusive" /\ CanCommit(p)

LEMMA LocksMove ==
    ASSUME IInv, NEW p \in Loggers, Types', Only(p), LockMove(p)
    PROVE  LocksOK'
  BY DEF IInv, LocksOK, Types, Only, LockMove, LockStates, Writing, CanRead, CanWrite,
         CanCommit, Others

LEMMA OthersLocal ==
    ASSUME IInv, NEW p \in Loggers, Only(p), db' = db \/ CanCommit(p),
           NEW q \in Loggers \ {p}
    PROVE  Local(q)'
  <1>1. Local(q) /\ q \in Others(p)
    BY DEF IInv, Others
  <1>2. ContentOK(q)' /\ PositionOK(call[q])' /\ KeptLock(q)' /\ JournalOK(q)'
    BY <1>1 DEF Only, Local, ContentOK, Wrote, At, PositionOK, KeptLock, JournalOK
  <1>3. QuietOK(q)'
    BY <1>1 DEF Only, Local, QuietOK, Atomic, Outside, Wrote, CanCommit
  <1> QED
    BY <1>2, <1>3 DEF Local

LEMMA OneStep ==
    ASSUME IInv, NEW p \in Loggers, Types', Only(p), LockMove(p), Whole(db)',
           db' = db \/ CanCommit(p),
           PositionOK(call[p])', ContentOK(p)', KeptLock(p)', JournalOK(p)', QuietOK(p)'
    PROVE  IInv'
  <1>1. LocksOK'
    BY LocksMove
  <1>2. \A q \in Loggers : Local(q)'
    BY OthersLocal DEF Local
  <1> QED
    BY <1>1, <1>2 DEF IInv

\* What a call may have locked and written, by kinds.
LEMMA Here ==
    ASSUME IInv, NEW p \in Loggers
    PROVE  /\ PositionOK(call[p]) /\ ContentOK(p) /\ KeptLock(p) /\ JournalOK(p) /\ QuietOK(p)
           /\ own[p] \in Contents \cup {NULL} /\ lock[p] \in LockStates /\ intx[p] \in BOOLEAN
           /\ iters[p] \in SUBSET {"plain", "atomic", "drained"}
           /\ call[p] \in {Idle} \cup Call /\ journal[p] \in {"truncate", "off"}
           /\ db \in Contents /\ Whole(db)
  BY DEF IInv, Types, Local

LEMMA IdleFacts == Idle.kind = "none" /\ Idle.rest = <<>> /\ Idle \notin Call
  BY KindsAre DEF Idle, Call

\* A call goes on at another statement.
LEMMA GoesOn ==
    ASSUME IInv, NEW p \in Loggers, NEW r \in Rests, Goto(p, r), call[p] # Idle
    PROVE  /\ call' \in [Loggers -> {Idle} \cup Call]
           /\ call'[p] \in Call /\ call'[p].rest = r
           /\ call'[p].kind = call[p].kind /\ call'[p].ev = call[p].ev
           /\ call'[p] # Idle
           /\ \A q \in Loggers \ {p} : call'[q] = call[q]
  <1>1. call[p] \in Call /\ call \in [Loggers -> {Idle} \cup Call]
    BY Here DEF IInv, Types
  <1>2. [call[p] EXCEPT !.rest = r] \in Call
    BY <1>1 DEF Call
  <1> QED
    BY <1>1, <1>2, IdleFacts DEF Goto, Call

\* The transaction of a connection ends, with or without a COMMIT.
LEMMA Ended ==
    ASSUME IInv, NEW p \in Loggers, NEW its, EndTransaction(p, its), its \subseteq iters[p]
    PROVE  /\ own' \in [Loggers -> Contents \cup {NULL}] /\ own'[p] = NULL
           /\ intx' \in [Loggers -> BOOLEAN] /\ intx'[p] = FALSE
           /\ lock' \in [Loggers -> LockStates] /\ LockMove(p)
           /\ lock'[p] = RestLock(its)
           /\ \A q \in Loggers \ {p} : own'[q] = own[q] /\ intx'[q] = intx[q] /\ lock'[q] = lock[q]
  <1>1. Selects(its) => lock[p] # "none"
    BY Here DEF KeptLock, Selects
  <1> QED
    BY <1>1 DEF EndTransaction, IInv, Types, RestLock, LockMove, LockStates

---------------------------------------------------------------------------
(* Statements that fail                                                    *)

LEMMA Failures ==
    ASSUME NEW p \in Loggers, PositionOK(call[p]), Executing(p)
    PROVE  /\ call[p] # Idle /\ AfterFailure(p) \in Rests
           /\ \/ /\ At(p, "groups") /\ call[p].kind = "delete"
                 /\ AfterFailure(p) = <<"delete", "COMMIT">>
              \/ /\ At(p, "update") \/ At(p, "BEGIN")
                 /\ AfterFailure(p) = <<"failed">>
              \/ /\ call[p].kind # "update"
                 /\ AfterFailure(p) = <<"ROLLBACK", "failed">>
  <1>1. call[p] # Idle
    BY DEF Executing, Idle
  <1>2. CASE At(p, "groups")
    BY <1>1, <1>2, AtStatement DEF AfterFailure, Rests
  <1>3. CASE At(p, "update")
    BY <1>1, <1>3, AtStatement DEF AfterFailure, Rests, At
  <1>4. CASE At(p, "BEGIN")
    BY <1>1, <1>4, AtBegin DEF AfterFailure, Rests, At
  <1>5. CASE ~ (At(p, "groups") \/ At(p, "update") \/ At(p, "BEGIN"))
    <2>1. AfterFailure(p) = <<"ROLLBACK", "failed">>
      BY <1>5 DEF AfterFailure
    <2>2. At(p, "event") \/ At(p, "details") \/ At(p, "first") \/ At(p, "second") \/ At(p, "delete")
             \/ At(p, "cache") \/ At(p, "COMMIT")
      BY <1>5 DEF Executing, Statements, Writes, At
    <2> QED
      BY <1>1, <2>1, <2>2, AtStatement DEF Rests
  <1> QED
    BY <1>2, <1>3, <1>4, <1>5

\* It fails with the transaction open, or closed by SQLite.
LEMMA FailIInv ==
    ASSUME IInv, NEW p \in Loggers, Executing(p), Fail(p),
           UNCHANGED <<contract, db, iters, seen, journal, reply>>, damaged' = damaged,
           \/ UNCHANGED <<own, lock, intx>>
           \/ /\ UNCHANGED <<own, intx>> /\ CanWrite(p) /\ Selects(iters[p])
              /\ lock' = [lock EXCEPT ![p] = "pending"]
           \/ EndTransaction(p, iters[p])
    PROVE  IInv'
  <1> DEFINE r == AfterFailure(p)
  <1>1. call[p] # Idle /\ r \in Rests /\ PositionOK(call[p])
    BY Failures, Here
  <1>2. \/ At(p, "groups") /\ r = <<"delete", "COMMIT">> /\ call[p].kind = "delete"
        \/ (At(p, "update") \/ At(p, "BEGIN")) /\ r = <<"failed">>
        \/ r = <<"ROLLBACK", "failed">> /\ call[p].kind # "update"
    BY Failures, Here
  <1>3. Goto(p, r)
    BY DEF Fail
  <1> HIDE DEF r
  <1>4. /\ call' \in [Loggers -> {Idle} \cup Call] /\ call'[p] \in Call /\ call'[p].rest = r
        /\ call'[p].kind = call[p].kind /\ call'[p].ev = call[p].ev /\ call'[p] # Idle
        /\ \A q \in Loggers \ {p} : call'[q] = call[q]
    BY <1>1, <1>3, GoesOn
  <1>5. /\ own' \in [Loggers -> Contents \cup {NULL}] /\ intx' \in [Loggers -> BOOLEAN]
        /\ lock' \in [Loggers -> LockStates] /\ LockMove(p)
        /\ \A q \in Loggers \ {p} : own'[q] = own[q] /\ intx'[q] = intx[q] /\ lock'[q] = lock[q]
        /\ \/ own'[p] = own[p] /\ intx'[p] = intx[p] /\ lock'[p] = lock[p]
           \/ /\ own'[p] = own[p] /\ intx'[p] = intx[p]
              /\ lock'[p] = "pending" /\ Selects(iters[p])
           \/ own'[p] = NULL /\ ~ intx'[p] /\ lock'[p] = RestLock(iters[p])
    <2>1. CASE EndTransaction(p, iters[p])
      BY <2>1, Ended
    <2> QED
      BY <2>1 DEF IInv, Types, LockMove, LockStates
  <1>6. Types' /\ Only(p)
    BY <1>4, <1>5 DEF IInv, Types, Only
  <1>7. PositionOK(call[p])'
    <2>1. call[p].kind \in Kinds /\ call[p].ev \in Events
      BY <1>1, Here DEF Call
    <2> QED
      BY <1>2, <1>4, <2>1 DEF PositionOK
  <1>8. ContentOK(p)'
    <2>1. At(p, "groups") => ~ Wrote(p)
      BY Here DEF ContentOK
    <2>2. At(p, "update") \/ At(p, "BEGIN") => (Wrote(p) => Whole(own[p]))
      BY Here DEF ContentOK, At
    <2>3. Wrote(p)' => Wrote(p) /\ own'[p] = own[p] /\ intx'[p] /\ lock'[p] \in Writing
      BY <1>5, Here DEF Wrote, ContentOK, Writing
    <2>4. CASE r = <<"delete", "COMMIT">> /\ At(p, "groups")
      BY <1>4, <2>1, <2>3, <2>4 DEF ContentOK, At
    <2>5. CASE r = <<"failed">> /\ (At(p, "update") \/ At(p, "BEGIN"))
      BY <1>4, <2>2, <2>3, <2>5 DEF ContentOK, At, Whole, Partly
    <2>6. CASE r = <<"ROLLBACK", "failed">>
      BY <1>4, <2>3, <2>6 DEF ContentOK, At
    <2> QED
      BY <1>2, <2>4, <2>5, <2>6
  <1>9. KeptLock(p)'
    BY <1>5, Here DEF KeptLock, RestLock, Selects
  <1>10. JournalOK(p)'
    BY <1>4, Here DEF JournalOK
  <1>11. QuietOK(p)'
    <2>1. ASSUME contract PROVE ~ Atomic(p)' /\ (Outside(p)' => ~ intx'[p])
      <3>1. ~ Atomic(p) /\ ~ Atomic(p)'
        BY <1>1, <2>1, Here DEF QuietOK, Atomic
      <3>2. Outside(p)' => r = <<"failed">> /\ (At(p, "update") \/ At(p, "BEGIN"))
        BY <1>2, <1>4 DEF Outside, Begins
      <3>3. At(p, "update") \/ At(p, "BEGIN") => Outside(p)
        BY <1>1, AtStatement, AtBegin DEF Outside
      <3> QED
        BY <1>5, <2>1, <3>1, <3>2, <3>3, Here DEF QuietOK
    <2> QED
      BY <2>1 DEF QuietOK
  <1> QED
    BY <1>5, <1>6, <1>7, <1>8, <1>9, <1>10, <1>11, Here, OneStep DEF Whole, Partly

---------------------------------------------------------------------------
(* What the statements write                                               *)

LEMMA WrittenContents ==
    ASSUME NEW stmt \in Writes, NEW kind, NEW e \in Events, NEW c \in Contents
    PROVE  Written(stmt, kind, e, c) \in Contents
  <1>1. c.names \in [1..2 -> Events \cup {NULL}]
    BY DEF Contents
  <1>2. /\ [c.names EXCEPT ![1] = e] \in [1..2 -> Events \cup {NULL}]
        /\ [c.names EXCEPT ![2] = e] \in [1..2 -> Events \cup {NULL}]
    BY <1>1
  <1>3. CASE stmt = "event"
    BY <1>3 DEF Written, Contents
  <1>4. CASE stmt = "details"
    BY <1>4 DEF Written, Contents
  <1>5. CASE stmt = "delete"
    BY <1>5 DEF Written, Contents
  <1>6. CASE stmt = "cache"
    BY <1>6 DEF Written, Contents
  <1>7. CASE stmt = "update"
    BY <1>7 DEF Written, Contents
  <1>8. CASE stmt = "first"
    BY <1>2, <1>8 DEF Written, Contents
  <1>9. CASE stmt = "second"
    BY <1>2, <1>9 DEF Written, Contents
  <1> QED
    BY <1>3, <1>4, <1>5, <1>6, <1>7, <1>8, <1>9 DEF Writes

LEMMA Wholeness ==
    ASSUME NEW kind, NEW e \in Events, NEW c \in Contents, Gone(kind, e) \in SUBSET Events
    PROVE  /\ Whole(c) => LET w == Written("event", kind, e, c)
                          IN  /\ Partly(w) /\ w.details \cup {e} = w.events
                              /\ w.names[1] = w.names[2]
           /\ Partly(c) /\ c.details \cup {e} = c.events /\ c.names[1] = c.names[2]
                => Whole(Written("details", kind, e, c))
           /\ Whole(c) => /\ Whole(Written("delete", kind, e, c))
                          /\ Written("delete", kind, e, c).events \cap Gone(kind, e) = {}
           /\ Whole(c) /\ c.events \cap Gone(kind, e) = {}
                => Whole(Written("cache", kind, e, c))
           /\ Whole(c) => Whole(Written("update", kind, e, c))
           /\ Whole(c) => LET w == Written("first", kind, e, c)
                          IN  Partly(w) /\ w.details = w.events /\ w.names[1] = e
           /\ Partly(c) /\ c.details = c.events /\ c.names[1] = e
                => Whole(Written("second", kind, e, c))
  <1>1. c.names \in [1..2 -> Events \cup {NULL}]
    BY DEF Contents
  <1>2. /\ [c.names EXCEPT ![1] = e][1] = e
        /\ [c.names EXCEPT ![2] = e][2] = e /\ [c.names EXCEPT ![2] = e][1] = c.names[1]
    BY <1>1
  <1>3. Whole(c) => LET w == Written("event", kind, e, c)
                    IN  /\ Partly(w) /\ w.details \cup {e} = w.events /\ w.names[1] = w.names[2]
    <2> DEFINE w == Written("event", kind, e, c)
    <2>1. /\ w.events = c.events \cup {e} /\ w.cached = c.cached \cup {e}
          /\ w.details = c.details /\ w.read = c.read /\ w.names = c.names
      BY DEF Written, Contents
    <2> QED
      BY <1>2, <2>1 DEF Whole, Partly
  <1>4. Partly(c) /\ c.details \cup {e} = c.events /\ c.names[1] = c.names[2]
          => Whole(Written("details", kind, e, c))
    <2> DEFINE w == Written("details", kind, e, c)
    <2>1. /\ w.details = c.details \cup {e} /\ w.cached = c.cached
          /\ w.events = c.events /\ w.read = c.read /\ w.names = c.names
      BY DEF Written, Contents
    <2> QED
      BY <1>2, <2>1 DEF Whole, Partly
  <1>5. Whole(c) => /\ Whole(Written("delete", kind, e, c))
                    /\ Written("delete", kind, e, c).events \cap Gone(kind, e) = {}
    <2> DEFINE w == Written("delete", kind, e, c)
    <2>1. /\ w.events = c.events \ Gone(kind, e) /\ w.details = c.details \ Gone(kind, e)
          /\ w.read = c.read \ Gone(kind, e) /\ w.cached = c.cached /\ w.names = c.names
      BY DEF Written, Contents
    <2> QED
      BY <1>2, <2>1 DEF Whole, Partly
  <1>6. Whole(c) /\ c.events \cap Gone(kind, e) = {} => Whole(Written("cache", kind, e, c))
    <2> DEFINE w == Written("cache", kind, e, c)
    <2>1. /\ w.cached = (IF kind = "delete" THEN c.cached \cap c.events
                         ELSE c.cached \ Gone(kind, e))
          /\ w.events = c.events /\ w.details = c.details
          /\ w.read = c.read /\ w.names = c.names
      BY DEF Written, Contents
    <2> QED
      BY <1>2, <2>1 DEF Whole, Partly
  <1>7. Whole(c) => Whole(Written("update", kind, e, c))
    <2> DEFINE w == Written("update", kind, e, c)
    <2>1. /\ w.read = c.read \cup ({e} \cap c.events) /\ w.cached = c.cached
          /\ w.events = c.events /\ w.details = c.details /\ w.names = c.names
      BY DEF Written, Contents
    <2> QED
      BY <1>2, <2>1 DEF Whole, Partly
  <1>8. Whole(c) => LET w == Written("first", kind, e, c)
                    IN  Partly(w) /\ w.details = w.events /\ w.names[1] = e
    <2> DEFINE w == Written("first", kind, e, c)
    <2>1. /\ w.names = [c.names EXCEPT ![1] = e] /\ w.cached = c.cached
          /\ w.events = c.events /\ w.details = c.details /\ w.read = c.read
      BY DEF Written, Contents
    <2> QED
      BY <1>2, <2>1 DEF Whole, Partly
  <1>9. Partly(c) /\ c.details = c.events /\ c.names[1] = e => Whole(Written("second", kind, e, c))
    <2> DEFINE w == Written("second", kind, e, c)
    <2>1. /\ w.names = [c.names EXCEPT ![2] = e] /\ w.cached = c.cached
          /\ w.events = c.events /\ w.details = c.details /\ w.read = c.read
      BY DEF Written, Contents
    <2> QED
      BY <1>2, <2>1 DEF Whole, Partly
  <1> QED
    BY <1>3, <1>4, <1>5, <1>6, <1>7, <1>8, <1>9

LEMMA GoneEvents == \A kind, e : e \in Events => Gone(kind, e) \in SUBSET Events
  BY KindsAre

\* What a call has to write, and where it goes on.
LEMMA Writer ==
    ASSUME IInv, NEW p \in Loggers, NEW stmt \in Writes, At(p, stmt),
           IF At(p, "update") THEN Goto(p, <<"ok">>) ELSE Continue(p)
    PROVE  /\ call[p] # Idle /\ call[p] \in Call /\ call[p].ev \in Events
           /\ Change(p, db) \in Contents
           /\ Wrote(p) => Change(p, own[p]) \in Contents
           /\ call' \in [Loggers -> {Idle} \cup Call] /\ call'[p] \in Call
           /\ call'[p].kind = call[p].kind /\ call'[p].ev = call[p].ev /\ call'[p] # Idle
           /\ \A q \in Loggers \ {p} : call'[q] = call[q]
           /\ PositionOK(call[p])'
           /\ \/ stmt = "event" /\ call'[p].rest = <<"details", "COMMIT">>
              \/ stmt = "first" /\ call'[p].rest = <<"second", "COMMIT">>
              \/ /\ stmt = "delete" /\ call[p].rest = <<"delete", "cache", "COMMIT">>
                 /\ call'[p].rest = <<"cache", "COMMIT">>
              \/ stmt = "delete" /\ call'[p].rest = <<"COMMIT">>
              \/ stmt \in {"details", "second", "cache"} /\ call'[p].rest = <<"COMMIT">>
              \/ stmt = "update" /\ call'[p].rest = <<"ok">>
  <1>1. PositionOK(call[p]) /\ call[p] # Idle /\ call[p] \in Call
    BY Here DEF At, Idle
  <1>2. call[p].ev \in Events /\ call[p].kind \in Kinds
    BY <1>1 DEF Call
  <1>3. Change(p, db) \in Contents /\ (Wrote(p) => Change(p, own[p]) \in Contents)
    BY <1>2, WrittenContents, Here DEF Change, At, Wrote
  <1>4. PICK r \in Rests :
          /\ Goto(p, r)
          /\ \/ stmt = "event" /\ r = <<"details", "COMMIT">> /\ call[p].kind = "add"
             \/ stmt = "first" /\ r = <<"second", "COMMIT">> /\ call[p].kind = "contacts"
             \/ /\ stmt = "delete" /\ call[p].rest = <<"delete", "cache", "COMMIT">>
                /\ r = <<"cache", "COMMIT">> /\ call[p].kind \in {"delete", "deleteBy"}
             \/ stmt = "delete" /\ r = <<"COMMIT">> /\ call[p].kind # "update"
             \/ stmt \in {"details", "second", "cache"} /\ r = <<"COMMIT">> /\ call[p].kind # "update"
             \/ stmt = "update" /\ r = <<"ok">>
    <2>1. ~ At(p, "update") => Goto(p, Tail(call[p].rest))
      BY DEF Continue
    <2>2. CASE stmt = "update"
      BY <2>2 DEF Rests
    <2>3. CASE stmt \in {"event", "first"}
      BY <1>1, <2>1, <2>3, AtStatement, Tails DEF At, Rests
    <2>4. CASE stmt \in {"details", "second", "cache"}
      BY <1>1, <2>1, <2>4, AtStatement, Tails DEF At, Rests
    <2>5. CASE stmt = "delete"
      BY <1>1, <2>1, <2>5, AtStatement, Tails DEF At, Rests
    <2> QED
      BY <2>2, <2>3, <2>4, <2>5 DEF Writes
  <1>5. /\ call' \in [Loggers -> {Idle} \cup Call] /\ call'[p] \in Call /\ call'[p].rest = r
        /\ call'[p].kind = call[p].kind /\ call'[p].ev = call[p].ev /\ call'[p] # Idle
        /\ \A q \in Loggers \ {p} : call'[q] = call[q]
    BY <1>1, <1>4, GoesOn
  <1>6. PositionOK(call[p])'
    BY <1>2, <1>4, <1>5 DEF PositionOK
  <1> QED
    BY <1>1, <1>2, <1>3, <1>4, <1>5, <1>6

LEMMA WriteIInv ==
    ASSUME IInv, NEW p \in Loggers, Write(p)
    PROVE  IInv'
  <1>1. PICK stmt \in Writes : At(p, stmt)
    BY DEF Write
  <1> DEFINE w == Change(p, Visible(p))
             e == call[p].ev
             kind == call[p].kind
  <1>2. /\ intx[p] /\ CanWrite(p) /\ own' = [own EXCEPT ![p] = w]
        /\ lock' = [lock EXCEPT ![p] = IF @ \in {"none", "shared"} THEN "reserved" ELSE @]
        /\ IF At(p, "update") THEN Goto(p, <<"ok">>) ELSE Continue(p)
        /\ UNCHANGED <<contract, db, damaged, intx, iters, seen, journal, reply>>
    BY DEF Write
  <1>3. /\ call[p] # Idle /\ e \in Events
        /\ Change(p, db) \in Contents
        /\ Wrote(p) => Change(p, own[p]) \in Contents
        /\ call' \in [Loggers -> {Idle} \cup Call] /\ call'[p] \in Call
        /\ call'[p].kind = kind /\ call'[p].ev = e /\ call'[p] # Idle
        /\ \A q \in Loggers \ {p} : call'[q] = call[q]
        /\ PositionOK(call[p])'
        /\ \/ stmt = "event" /\ call'[p].rest = <<"details", "COMMIT">>
           \/ stmt = "first" /\ call'[p].rest = <<"second", "COMMIT">>
           \/ /\ stmt = "delete" /\ call[p].rest = <<"delete", "cache", "COMMIT">>
              /\ call'[p].rest = <<"cache", "COMMIT">>
           \/ stmt = "delete" /\ call'[p].rest = <<"COMMIT">>
           \/ stmt \in {"details", "second", "cache"} /\ call'[p].rest = <<"COMMIT">>
           \/ stmt = "update" /\ call'[p].rest = <<"ok">>
    BY <1>1, <1>2, Writer
  <1>4. w = Written(stmt, kind, e, Visible(p)) /\ Visible(p) \in Contents /\ w \in Contents
    BY <1>1, <1>3, Here DEF Change, At, Visible, Wrote
  <1>5. w # NULL
    BY <1>4, NullAssumption
  <1>6. Wrote(p) => \/ stmt \in {"details", "second"}
                    \/ Whole(own[p])
    BY <1>1, Here DEF ContentOK, At, Writes
  <1>7. Visible(p) = IF Wrote(p) THEN own[p] ELSE db
    BY DEF Visible
  <1> HIDE DEF w, e, kind
  <1>8. /\ own' \in [Loggers -> Contents \cup {NULL}] /\ own'[p] = w
        /\ \A q \in Loggers \ {p} : own'[q] = own[q] /\ lock'[q] = lock[q]
        /\ lock' \in [Loggers -> LockStates] /\ LockMove(p) /\ lock'[p] \in Writing
    BY <1>2, <1>4, Here DEF IInv, Types, LockMove, LockStates, Writing
  <1>9. Types' /\ Only(p)
    BY <1>2, <1>3, <1>8 DEF IInv, Types, Only
  <1>10. ContentOK(p)'
    <2>1. Gone(kind, e) \in SUBSET Events
      BY <1>3, GoneEvents
    <2>2. Wrote(p)' /\ own'[p] = w /\ intx'[p] /\ lock'[p] \in Writing
      BY <1>2, <1>5, <1>8 DEF Wrote
    <2>3. stmt \notin {"details", "second"} => Whole(Visible(p))
      BY <1>6, <1>7, Here
    <2>4. CASE stmt = "event" /\ call'[p].rest = <<"details", "COMMIT">>
      <3>1. Partly(w) /\ w.details \cup {e} = w.events /\ w.names[1] = w.names[2]
        BY <1>3, <1>4, <2>1, <2>3, <2>4, Wholeness
      <3> QED
        BY <1>3, <2>2, <2>4, <3>1 DEF ContentOK, At, Partly
    <2>5. CASE stmt = "first" /\ call'[p].rest = <<"second", "COMMIT">>
      <3>1. Partly(w) /\ w.details = w.events /\ w.names[1] = e
        BY <1>3, <1>4, <2>1, <2>3, <2>5, Wholeness
      <3> QED
        BY <1>3, <2>2, <2>5, <3>1 DEF ContentOK, At, Partly
    <2>6. CASE stmt = "delete" /\ call'[p].rest \in {<<"cache", "COMMIT">>, <<"COMMIT">>}
      <3>1. Whole(w) /\ w.events \cap Gone(kind, e) = {}
        BY <1>3, <1>4, <2>1, <2>3, <2>6, Wholeness
      <3> QED
        BY <1>3, <2>2, <2>6, <3>1 DEF ContentOK, At, Whole, Partly
    <2>7. CASE stmt \in {"details", "second", "cache"} /\ call'[p].rest = <<"COMMIT">>
      <3>1. CASE stmt = "details"
        <4>1. Visible(p) = own[p] /\ Partly(own[p]) /\ own[p].details \cup {e} = own[p].events
              /\ own[p].names[1] = own[p].names[2]
          BY <1>1, <1>7, <3>1, Here DEF ContentOK, e
        <4> QED
          BY <1>3, <1>4, <2>1, <3>1, <4>1, <2>2, <2>7, Wholeness DEF ContentOK, At, Whole, Partly
      <3>2. CASE stmt = "second"
        <4>1. Visible(p) = own[p] /\ Partly(own[p]) /\ own[p].details = own[p].events
              /\ own[p].names[1] = e
          BY <1>1, <1>7, <3>2, Here DEF ContentOK, e
        <4> QED
          BY <1>3, <1>4, <2>1, <3>2, <4>1, <2>2, <2>7, Wholeness DEF ContentOK, At, Whole, Partly
      <3>3. CASE stmt = "cache"
        <4>1. Visible(p) = own[p] /\ own[p].events \cap Gone(kind, e) = {}
          BY <1>1, <1>7, <3>3, Here DEF ContentOK, e, kind
        <4> QED
          BY <1>3, <1>4, <2>1, <2>3, <3>3, <4>1, <2>2, <2>7, Wholeness DEF ContentOK, At, Whole, Partly
      <3> QED
        BY <2>7, <3>1, <3>2, <3>3
    <2>8. CASE stmt = "update" /\ call'[p].rest = <<"ok">>
      <3>1. Whole(w)
        BY <1>3, <1>4, <2>1, <2>3, <2>8, Wholeness
      <3> QED
        BY <2>2, <2>8, <3>1 DEF ContentOK, At, Whole, Partly
    <2> QED
      BY <1>3, <2>4, <2>5, <2>6, <2>7, <2>8
  <1>11. KeptLock(p)' /\ JournalOK(p)'
    BY <1>2, <1>3, <1>8, Here DEF KeptLock, JournalOK, Writing, kind
  <1>12. QuietOK(p)'
    <2>1. contract => ~ Atomic(p) /\ (stmt = "update" => ~ intx[p])
      BY <1>1, <1>3, Here, AtStatement DEF QuietOK, Outside
    <2>2. stmt # "update" => ~ Outside(p)'
      <3>1. stmt # "update" => call'[p].rest \in {<<"details", "COMMIT">>,
               <<"second", "COMMIT">>, <<"cache", "COMMIT">>, <<"COMMIT">>}
        BY <1>3
      <3> QED
        BY <3>1 DEF Outside, Begins
    <2> QED
      BY <1>2, <2>1, <2>2 DEF QuietOK, Atomic
  <1> QED
    BY <1>2, <1>3, <1>8, <1>9, <1>10, <1>11, <1>12, Here, OneStep DEF Whole, Partly

LEMMA WriteAloneIInv ==
    ASSUME IInv, NEW p \in Loggers, WriteAlone(p)
    PROVE  IInv'
  <1>1. PICK stmt \in Writes : At(p, stmt)
    BY DEF WriteAlone
  <1> DEFINE w == Change(p, db)
             e == call[p].ev
             kind == call[p].kind
  <1>2. /\ ~ intx[p] /\ CanCommit(p) /\ db' = w
        /\ lock' = [lock EXCEPT ![p] = RestLock(iters[p])]
        /\ IF At(p, "update") THEN Goto(p, <<"ok">>) ELSE Continue(p)
        /\ UNCHANGED <<contract, damaged, own, intx, iters, seen, journal, reply>>
    BY DEF WriteAlone
  <1>3. /\ call[p] # Idle /\ e \in Events /\ Change(p, db) \in Contents
        /\ call' \in [Loggers -> {Idle} \cup Call] /\ call'[p] \in Call
        /\ call'[p].kind = kind /\ call'[p].ev = e /\ call'[p] # Idle
        /\ \A q \in Loggers \ {p} : call'[q] = call[q]
        /\ PositionOK(call[p])'
        /\ \/ stmt = "event" /\ call'[p].rest = <<"details", "COMMIT">>
           \/ stmt = "first" /\ call'[p].rest = <<"second", "COMMIT">>
           \/ /\ stmt = "delete" /\ call[p].rest = <<"delete", "cache", "COMMIT">>
              /\ call'[p].rest = <<"cache", "COMMIT">>
           \/ stmt = "delete" /\ call'[p].rest = <<"COMMIT">>
           \/ stmt \in {"details", "second", "cache"} /\ call'[p].rest = <<"COMMIT">>
           \/ stmt = "update" /\ call'[p].rest = <<"ok">>
    BY <1>1, <1>2, Writer
  <1>4. ~ Wrote(p)
    BY <1>2, Here DEF ContentOK
  <1>5. \/ stmt = "delete" /\ call'[p].rest = <<"COMMIT">>
        \/ stmt = "update" /\ call'[p].rest = <<"ok">>
    BY <1>1, <1>2, <1>3, <1>4, Here DEF ContentOK
  <1>6. w = Written(stmt, kind, e, db)
    BY <1>1 DEF Change, At
  <1>7. Whole(w)
    <2>1. Gone(kind, e) \in SUBSET Events
      BY <1>3, GoneEvents
    <2> HIDE DEF w, kind, e
    <2> QED
      BY <1>3, <1>5, <1>6, <2>1, Here, Wholeness
  <1> HIDE DEF w, kind, e
  <1>8. /\ lock' \in [Loggers -> LockStates] /\ LockMove(p) /\ lock'[p] = RestLock(iters[p])
        /\ \A q \in Loggers \ {p} : lock'[q] = lock[q]
    BY <1>2, Here DEF IInv, Types, LockMove, LockStates, RestLock, KeptLock
  <1>9. Types' /\ Only(p)
    BY <1>2, <1>3, <1>8 DEF IInv, Types, Only, w
  <1>10. ContentOK(p)'
    BY <1>2, <1>4, <1>5 DEF ContentOK, At, Wrote
  <1>11. KeptLock(p)' /\ JournalOK(p)'
    BY <1>2, <1>3, <1>8, Here DEF KeptLock, JournalOK, RestLock, Selects, kind
  <1>12. QuietOK(p)'
    BY <1>2, <1>3, Here DEF QuietOK, Atomic
  <1> QED
    BY <1>2, <1>3, <1>7, <1>8, <1>9, <1>10, <1>11, <1>12, OneStep DEF Whole, Partly

---------------------------------------------------------------------------
(* The other statements                                                    *)

LEMMA StartIInv ==
    ASSUME IInv, NEW p \in Loggers, NEW kind \in Kinds, NEW e \in Events, Start(p, kind, e)
    PROVE  IInv'
  <1> DEFINE c == [kind |-> kind, ev |-> e, rest |-> Program(kind)]
  <1>1. /\ call[p] = Idle /\ (contract => ~ Atomic(p))
        /\ call' = [call EXCEPT ![p] = c]
        /\ journal' = [journal EXCEPT ![p] = IF kind \in Deletions THEN "off" ELSE @]
        /\ reply' = [reply EXCEPT ![p] = "none"]
        /\ UNCHANGED <<contract, db, damaged, own, lock, intx, iters, seen>>
    BY DEF Start, Atomic
  <1>2. /\ c \in Call /\ PositionOK(c) /\ c.kind = kind /\ c.ev = e
        /\ c.rest \in Begins \cup {<<"update">>}
    BY KindsAre DEF Call, Rests, Begins, Program, PositionOK
  <1> HIDE DEF c
  <1>3. Types' /\ Only(p) /\ LockMove(p)
    BY <1>1, <1>2 DEF IInv, Types, Only, LockMove
  <1>4. call'[p] = c
    BY <1>1 DEF IInv, Types
  <1>5. ContentOK(p)'
    <2>1. Wrote(p) => intx[p] /\ lock[p] \in Writing /\ Whole(own[p])
      BY <1>1, IdleFacts, Here DEF ContentOK, At
    <2>2. /\ ~ At(p, "event")' /\ ~ At(p, "first")' /\ ~ At(p, "groups")' /\ ~ At(p, "delete")'
          /\ ~ At(p, "details")' /\ ~ At(p, "second")' /\ ~ At(p, "cache")'
          /\ c.rest # <<"delete", "cache", "COMMIT">>
      BY <1>2, <1>4 DEF At, Begins
    <2> QED
      BY <1>1, <1>4, <2>1, <2>2 DEF ContentOK, Wrote, Whole, Partly
  <1>6. KeptLock(p)' /\ JournalOK(p)'
    BY <1>1, <1>2, <1>4, Here, IdleFacts, KindsAre DEF KeptLock, JournalOK, IInv, Types
  <1>7. QuietOK(p)'
    BY <1>1, <1>4, Here, IdleFacts DEF QuietOK, Atomic, Outside
  <1> QED
    BY <1>1, <1>2, <1>3, <1>4, <1>5, <1>6, <1>7, Here, OneStep DEF Whole, Partly

LEMMA BeginIInv ==
    ASSUME IInv, NEW p \in Loggers, Begin(p)
    PROVE  IInv'
  <1>1. /\ At(p, "BEGIN") /\ ~ intx[p]
        /\ IF call[p].kind = "add"
           THEN CanCommit(p) /\ lock' = [lock EXCEPT ![p] = "exclusive"]
           ELSE UNCHANGED lock
        /\ intx' = [intx EXCEPT ![p] = TRUE]
        /\ Goto(p, Tail(call[p].rest))
        /\ UNCHANGED <<contract, db, damaged, own, iters, seen, journal, reply>>
    BY DEF Begin, Continue
  <1>2. PICK r \in Rests :
          /\ Goto(p, r)
          /\ \/ call[p].kind = "add" /\ r = <<"event", "details", "COMMIT">>
             \/ call[p].kind = "contacts" /\ r = <<"first", "second", "COMMIT">>
             \/ call[p].kind = "delete" /\ r = <<"groups", "delete", "cache", "COMMIT">>
             \/ call[p].kind = "deleteBy" /\ r = <<"delete", "cache", "COMMIT">>
             \/ call[p].kind = "deleteAll" /\ r = <<"delete", "COMMIT">>
    <2>1. call[p].kind \in Kinds \ {"update"} /\ call[p].rest = Program(call[p].kind)
      BY <1>1, Here, AtBegin
    <2> QED
      BY <1>1, <2>1, Tails, KindsAre DEF Program, Rests
  <1>3. call[p] # Idle /\ call[p].ev \in Events /\ call[p].kind \in Kinds
    BY <1>1, Here, AtBegin DEF Call
  <1>4. /\ call' \in [Loggers -> {Idle} \cup Call] /\ call'[p] \in Call /\ call'[p].rest = r
        /\ call'[p].kind = call[p].kind /\ call'[p].ev = call[p].ev /\ call'[p] # Idle
        /\ \A q \in Loggers \ {p} : call'[q] = call[q]
    BY <1>2, <1>3, GoesOn
  <1>5. /\ lock' \in [Loggers -> LockStates] /\ LockMove(p) /\ lock'[p] \in {lock[p], "exclusive"}
        /\ \A q \in Loggers \ {p} : lock'[q] = lock[q]
        /\ intx' \in [Loggers -> BOOLEAN] /\ intx'[p] = TRUE
        /\ \A q \in Loggers \ {p} : intx'[q] = intx[q]
    BY <1>1 DEF IInv, Types, LockMove, LockStates
  <1>6. Types' /\ Only(p)
    BY <1>1, <1>4, <1>5 DEF IInv, Types, Only
  <1>7. PositionOK(call[p])'
    BY <1>2, <1>3, <1>4, KindsAre DEF PositionOK
  <1>8. ~ Wrote(p)
    BY <1>1, Here DEF ContentOK
  <1>9. ContentOK(p)'
    BY <1>1, <1>2, <1>4, <1>5, <1>8 DEF ContentOK, At, Wrote
  <1>10. KeptLock(p)' /\ JournalOK(p)'
    BY <1>1, <1>4, <1>5, Here DEF KeptLock, JournalOK
  <1>11. QuietOK(p)'
    <2>1. ~ Outside(p)'
      BY <1>2, <1>4, Inside DEF Outside
    <2> QED
      BY <1>1, <1>3, <2>1, Here DEF QuietOK, Atomic
  <1> QED
    BY <1>1, <1>5, <1>6, <1>7, <1>9, <1>10, <1>11, Here, OneStep DEF Whole, Partly

LEMMA ListGroupsIInv ==
    ASSUME IInv, NEW p \in Loggers, ListGroups(p)
    PROVE  IInv'
  <1>1. /\ At(p, "groups") /\ CanRead(p)
        /\ lock' = [lock EXCEPT ![p] = IF @ # "none" THEN @
                                       ELSE IF intx[p] THEN "shared" ELSE "none"]
        /\ UNCHANGED <<contract, db, damaged, own, intx, iters, seen, journal, reply>>
    BY DEF ListGroups
  <1>2. PICK r \in {<<"delete", "cache", "COMMIT">>, <<"delete", "COMMIT">>} : Goto(p, r)
    BY DEF ListGroups
  <1>3. call[p] # Idle /\ call[p].ev \in Events /\ call[p].kind = "delete" /\ r \in Rests
    BY <1>1, Here, AtStatement, IdleFacts DEF Call, Rests
  <1>4. /\ call' \in [Loggers -> {Idle} \cup Call] /\ call'[p] \in Call /\ call'[p].rest = r
        /\ call'[p].kind = call[p].kind /\ call'[p].ev = call[p].ev /\ call'[p] # Idle
        /\ \A q \in Loggers \ {p} : call'[q] = call[q]
    BY <1>2, <1>3, GoesOn
  <1>5. intx[p] /\ ~ Wrote(p)
    BY <1>1, Here DEF ContentOK
  <1>6. /\ lock' \in [Loggers -> LockStates] /\ LockMove(p) /\ lock'[p] # "none"
        /\ \A q \in Loggers \ {p} : lock'[q] = lock[q]
    BY <1>1, <1>5 DEF IInv, Types, LockMove, LockStates
  <1>7. Types' /\ Only(p)
    BY <1>1, <1>4, <1>6 DEF IInv, Types, Only
  <1>8. PositionOK(call[p])'
    BY <1>2, <1>3, <1>4, KindsAre DEF PositionOK
  <1>9. ContentOK(p)'
    BY <1>1, <1>4, <1>5 DEF ContentOK, At, Wrote
  <1>10. KeptLock(p)' /\ JournalOK(p)'
    BY <1>1, <1>4, <1>5, <1>6, Here DEF KeptLock, JournalOK
  <1>11. QuietOK(p)'
    <2>1. ~ Outside(p)'
      BY <1>4, Inside DEF Outside
    <2> QED
      BY <1>1, <1>3, <2>1, Here DEF QuietOK, Atomic
  <1> QED
    BY <1>1, <1>6, <1>7, <1>8, <1>9, <1>10, <1>11, Here, OneStep DEF Whole, Partly

\* COMMIT takes its locks.
LEMMA CommitLocksIInv ==
    ASSUME IInv, NEW p \in Loggers, CommitWaits(p) \/ CommitStarts(p)
    PROVE  IInv'
  <1>1. /\ Wrote(p)
        /\ UNCHANGED <<contract, db, damaged, own, intx, iters, seen, call, journal, reply>>
        /\ \/ lock[p] = "reserved" /\ lock' = [lock EXCEPT ![p] = "pending"]
           \/ CanCommit(p) /\ lock' = [lock EXCEPT ![p] = "exclusive"]
    BY DEF CommitWaits, CommitStarts
  <1>2. /\ lock' \in [Loggers -> LockStates] /\ LockMove(p) /\ lock'[p] \in Writing
        /\ \A q \in Loggers \ {p} : lock'[q] = lock[q]
    BY <1>1 DEF IInv, Types, LockMove, LockStates, Writing
  <1>3. Types' /\ Only(p)
    BY <1>1, <1>2 DEF IInv, Types, Only
  <1>4. intx[p]
    BY <1>1, Here DEF ContentOK
  <1>5. PositionOK(call[p])' /\ ContentOK(p)'
    BY <1>1, <1>2, Here DEF PositionOK, ContentOK, At, Wrote
  <1>6. KeptLock(p)' /\ JournalOK(p)' /\ QuietOK(p)'
    BY <1>1, <1>2, <1>4, Here DEF KeptLock, JournalOK, QuietOK, Atomic, Outside, Writing, Wrote
  <1> QED
    BY <1>1, <1>2, <1>3, <1>5, <1>6, Here, OneStep DEF Whole, Partly

\* A transaction with nothing half done ends, and the call with it.
LEMMA CallEnds ==
    ASSUME IInv, NEW p \in Loggers, Goto(p, <<"ok">>) \/ Goto(p, <<"failed">>),
           At(p, "COMMIT") \/ At(p, "ROLLBACK"),
           EndTransaction(p, iters[p]) \/ (~ intx[p] /\ UNCHANGED <<own, lock, intx>>),
           Whole(db'), db' \in Contents, db' = db \/ CanCommit(p),
           UNCHANGED <<contract, damaged, iters, seen, journal, reply>>
    PROVE  IInv'
  <1>1. PICK r \in {<<"ok">>, <<"failed">>} : Goto(p, r)
    OBVIOUS
  <1>2. call[p] # Idle /\ r \in Rests /\ call[p].kind \in Kinds /\ call[p].ev \in Events
    BY Here, AtStatement, IdleFacts DEF Call, Rests, At
  <1>3. /\ call' \in [Loggers -> {Idle} \cup Call] /\ call'[p] \in Call /\ call'[p].rest = r
        /\ call'[p].kind = call[p].kind /\ call'[p].ev = call[p].ev /\ call'[p] # Idle
        /\ \A q \in Loggers \ {p} : call'[q] = call[q]
    BY <1>1, <1>2, GoesOn
  <1>4. /\ own' \in [Loggers -> Contents \cup {NULL}] /\ ~ Wrote(p)'
        /\ intx' \in [Loggers -> BOOLEAN] /\ intx'[p] = FALSE
        /\ lock' \in [Loggers -> LockStates] /\ LockMove(p)
        /\ \/ lock'[p] = RestLock(iters[p])
           \/ ~ intx[p] /\ lock'[p] = lock[p]
        /\ \A q \in Loggers \ {p} : own'[q] = own[q] /\ intx'[q] = intx[q] /\ lock'[q] = lock[q]
    <2>1. CASE EndTransaction(p, iters[p])
      BY <2>1, Ended DEF Wrote
    <2>2. CASE ~ intx[p] /\ UNCHANGED <<own, lock, intx>>
      BY <2>2, Here DEF IInv, Types, ContentOK, LockMove, Wrote
    <2> QED
      BY <2>1, <2>2
  <1>5. Types' /\ Only(p)
    BY <1>3, <1>4 DEF IInv, Types, Only
  <1>6. PositionOK(call[p])'
    BY <1>2, <1>3 DEF PositionOK
  <1>7. ContentOK(p)'
    BY <1>3, <1>4 DEF ContentOK, At
  <1>8. KeptLock(p)' /\ JournalOK(p)'
    BY <1>3, <1>4, Here DEF KeptLock, JournalOK, RestLock, Selects
  <1>9. QuietOK(p)'
    BY <1>2, <1>3, <1>4, Here DEF QuietOK, Atomic
  <1> QED
    BY <1>4, <1>5, <1>6, <1>7, <1>8, <1>9, OneStep DEF Whole, Partly

LEMMA CommitEndsIInv ==
    ASSUME IInv, NEW p \in Loggers, CommitEnds(p)
    PROVE  IInv'
  <1>1. /\ At(p, "COMMIT") /\ db' = Visible(p) /\ EndTransaction(p, iters[p])
        /\ Goto(p, <<"ok">>) /\ (Wrote(p) => lock[p] = "exclusive")
        /\ UNCHANGED <<contract, damaged, iters, seen, journal, reply>>
    BY DEF CommitEnds
  <1>2. Wrote(p) => Whole(own[p]) /\ CanCommit(p)
    <2>1. Wrote(p) => Whole(own[p])
      BY <1>1, Here DEF ContentOK, At
    <2>2. lock[p] = "exclusive" => CanCommit(p)
      BY DEF IInv, LocksOK, CanCommit, Others
    <2> QED
      BY <1>1, <2>1, <2>2
  <1>3. Whole(db') /\ db' \in Contents /\ (db' = db \/ CanCommit(p))
    BY <1>1, <1>2, Here DEF Visible, Wrote
  <1> QED
    BY <1>1, <1>3, CallEnds

LEMMA RollbackIInv ==
    ASSUME IInv, NEW p \in Loggers, Rollback(p)
    PROVE  IInv'
  <1>1. /\ At(p, "ROLLBACK") /\ Goto(p, <<"failed">>)
        /\ EndTransaction(p, iters[p]) \/ (~ intx[p] /\ UNCHANGED <<own, lock, intx>>)
        /\ UNCHANGED <<contract, db, damaged, iters, seen, journal, reply>>
    <2>1. At(p, "ROLLBACK") /\ PositionOK(call[p])
      BY Here DEF Rollback
    <2>2. Tail(call[p].rest) = <<"failed">>
      BY <2>1, AtStatement, Tails
    <2> QED
      BY <2>1, <2>2 DEF Rollback, Continue
  <1> QED
    BY <1>1, Here, CallEnds

LEMMA FinishIInv ==
    ASSUME IInv, NEW p \in Loggers, Finish(p)
    PROVE  IInv'
  <1>1. /\ At(p, "ok") \/ At(p, "failed")
        /\ reply' = [reply EXCEPT ![p] = Head(call[p].rest)]
        /\ call' = [call EXCEPT ![p] = Idle]
        /\ journal' = [journal EXCEPT ![p] = "truncate"]
        /\ UNCHANGED <<contract, db, damaged, own, lock, intx, iters, seen>>
    BY DEF Finish
  <1>2. Types' /\ Only(p) /\ LockMove(p) /\ call'[p] = Idle /\ journal'[p] = "truncate"
    BY <1>1 DEF IInv, Types, Only, LockMove, At
  <1>3. call[p] # Idle /\ Outside(p) /\ (Wrote(p) => Whole(own[p]))
    BY <1>1, Here, AtStatement, IdleFacts DEF Outside, ContentOK, At
  <1>4. PositionOK(call[p])' /\ ContentOK(p)'
    BY <1>1, <1>2, <1>3, Here, IdleFacts DEF PositionOK, ContentOK, At, Wrote, Whole, Partly
  <1>5. KeptLock(p)' /\ JournalOK(p)' /\ QuietOK(p)'
    BY <1>1, <1>2, <1>3, Here DEF KeptLock, JournalOK, QuietOK, Atomic
  <1> QED
    BY <1>1, <1>2, <1>4, <1>5, Here, OneStep DEF Whole, Partly

\* Statements that are refused, blocked too long, or hit a fault.
LEMMA FailuresIInv ==
    ASSUME IInv, NEW p \in Loggers,
           BeginRefused(p) \/ CommitRefused(p) \/ GiveUp(p) \/ Fault(p)
    PROVE  IInv'
  <1>1. Executing(p) /\ Fail(p) /\ UNCHANGED <<contract, db, iters, seen, journal, reply>>
        /\ damaged' = damaged
    BY DEF BeginRefused, CommitRefused, GiveUp, Fault, Blocked, Executing, Statements, Writes, At
  <1>2. \/ UNCHANGED <<own, lock, intx>>
        \/ /\ UNCHANGED <<own, intx>> /\ CanWrite(p) /\ Selects(iters[p])
           /\ lock' = [lock EXCEPT ![p] = "pending"]
        \/ EndTransaction(p, iters[p])
    BY DEF BeginRefused, CommitRefused, GiveUp, Fault
  <1> QED
    BY <1>1, <1>2, FailIInv

---------------------------------------------------------------------------
(* Iterators and processes                                                 *)

\* A logger that calls nothing has nothing half done.
LEMMA IdleLogger ==
    ASSUME IInv, NEW p \in Loggers, call[p] = Idle
    PROVE  Wrote(p) => intx[p] /\ lock[p] \in Writing /\ Whole(own[p])
  BY Here, IdleFacts DEF ContentOK, At

LEMMA OpenIterIInv ==
    ASSUME IInv, NEW p \in Loggers, OpenIter(p)
    PROVE  IInv'
  <1>1. /\ call[p] = Idle /\ CanRead(p)
        /\ iters' = [iters EXCEPT ![p] = @ \cup {"plain"}]
        /\ lock' = [lock EXCEPT ![p] = IF @ = "none" THEN "shared" ELSE @]
        /\ UNCHANGED <<contract, db, damaged, own, intx, seen, call, journal, reply>>
    BY DEF OpenIter
  <1>2. /\ Types' /\ Only(p) /\ LockMove(p)
        /\ iters'[p] = iters[p] \cup {"plain"} /\ lock'[p] # "none"
        /\ lock[p] # "none" => lock'[p] = lock[p]
    BY <1>1 DEF IInv, Types, Only, LockMove, LockStates
  <1>3. PositionOK(call[p])' /\ ContentOK(p)'
    BY <1>1, <1>2, Here DEF PositionOK, ContentOK, At, Wrote, Writing, Whole, Partly
  <1>4. KeptLock(p)' /\ JournalOK(p)' /\ QuietOK(p)'
    BY <1>1, <1>2, Here DEF KeptLock, JournalOK, QuietOK, Atomic, Outside, Wrote, Selects
  <1> QED
    BY <1>1, <1>2, <1>3, <1>4, Here, OneStep DEF Whole, Partly

LEMMA OpenAtomicIterIInv ==
    ASSUME IInv, NEW p \in Loggers, OpenAtomicIter(p)
    PROVE  IInv'
  <1>1. /\ call[p] = Idle /\ CanRead(p) /\ ~ intx[p]
        /\ intx' = [intx EXCEPT ![p] = TRUE]
        /\ iters' = [iters EXCEPT ![p] = @ \cup {"atomic"}]
        /\ lock' = [lock EXCEPT ![p] = IF @ = "none" THEN "shared" ELSE @]
        /\ seen' = [seen EXCEPT ![p] = Visible(p)]
        /\ UNCHANGED <<contract, db, damaged, own, call, journal, reply>>
    BY DEF OpenAtomicIter
  <1>2. ~ Wrote(p) /\ Visible(p) = db
    BY <1>1, Here DEF ContentOK, Visible
  <1>3. /\ Types' /\ Only(p) /\ LockMove(p)
        /\ iters'[p] = iters[p] \cup {"atomic"} /\ lock'[p] # "none"
        /\ seen'[p] = db /\ intx'[p] = TRUE
    BY <1>1, <1>2 DEF IInv, Types, Only, LockMove, LockStates
  <1>4. PositionOK(call[p])' /\ ContentOK(p)'
    BY <1>1, <1>2, IdleFacts DEF PositionOK, ContentOK, At, Wrote
  <1>5. KeptLock(p)' /\ JournalOK(p)' /\ QuietOK(p)'
    BY <1>1, <1>2, <1>3, Here DEF KeptLock, JournalOK, QuietOK, Atomic, Wrote, Selects
  <1> QED
    BY <1>1, <1>3, <1>4, <1>5, Here, OneStep DEF Whole, Partly

\* A SELECT is finalised; an atomic iterator that is drained keeps its
\* transaction.
LEMMA FinaliseIInv ==
    ASSUME IInv, NEW p \in Loggers, call[p] = Idle, NEW its, Finalise(p, its),
           its \in SUBSET {"plain", "atomic", "drained"},
           Selects(its) => Selects(iters[p]),
           its \cap {"atomic", "drained"} # {} => Atomic(p) /\ seen' = seen,
           Atomic(p) => its \cap {"atomic", "drained"} # {} \/ ~ intx[p],
           seen' \in [Loggers -> Contents],
           \A q \in Loggers \ {p} : seen'[q] = seen[q],
           UNCHANGED <<contract, damaged, call, journal, reply>>
    PROVE  IInv'
  <1>1. /\ iters' = [iters EXCEPT ![p] = its]
        /\ lock' = [lock EXCEPT ![p] = IF intx[p] \/ Selects(its) THEN @ ELSE "none"]
        /\ UNCHANGED <<db, own, intx>>
    BY DEF Finalise
  <1>2. /\ Types' /\ Only(p) /\ LockMove(p) /\ iters'[p] = its
        /\ lock'[p] = IF intx[p] \/ Selects(its) THEN lock[p] ELSE "none"
    BY <1>1 DEF IInv, Types, Only, LockMove, LockStates
  <1>3. PositionOK(call[p])' /\ ContentOK(p)'
    BY <1>1, <1>2, Here DEF PositionOK, ContentOK, At, Wrote, Whole, Partly
  <1>4. KeptLock(p)' /\ JournalOK(p)'
    BY <1>1, <1>2, Here DEF KeptLock, JournalOK, Selects
  <1>5. QuietOK(p)'
    BY <1>1, <1>2, Here DEF QuietOK, Atomic, Outside, Wrote
  <1> QED
    BY <1>1, <1>2, <1>3, <1>4, <1>5, Here, OneStep DEF Whole, Partly

LEMMA CloseIterIInv ==
    ASSUME IInv, NEW p \in Loggers, CloseIter(p) \/ DrainAtomicIter(p)
    PROVE  IInv'
  <1>1. PICK its \in {iters[p] \ {"plain"}, (iters[p] \ {"atomic"}) \cup {"drained"}} :
          /\ call[p] = Idle /\ Finalise(p, its)
          /\ its = iters[p] \ {"plain"} \/ "atomic" \in iters[p]
          /\ UNCHANGED <<contract, damaged, seen, call, journal, reply>>
    BY DEF CloseIter, DrainAtomicIter
  <1>2. /\ its \in SUBSET {"plain", "atomic", "drained"}
        /\ Selects(its) => Selects(iters[p])
        /\ (its \cap {"atomic", "drained"} # {}) <=> Atomic(p)
    BY <1>1, Here DEF Selects, Atomic
  <1> QED
    BY <1>1, <1>2, FinaliseIInv DEF IInv, Types

LEMMA CloseAtomicIterIInv ==
    ASSUME IInv, NEW p \in Loggers, CloseAtomicIter(p)
    PROVE  IInv'
  <1> DEFINE its == iters[p] \ {"atomic", "drained"}
  <1>1. /\ call[p] = Idle /\ seen' = [seen EXCEPT ![p] = NoContent]
        /\ UNCHANGED <<contract, damaged, call, journal, reply>>
    BY DEF CloseAtomicIter
  <1>2. /\ seen' \in [Loggers -> Contents] /\ \A q \in Loggers \ {p} : seen'[q] = seen[q]
        /\ Selects(its) => Selects(iters[p])
        /\ its \in SUBSET {"plain", "atomic", "drained"} /\ its \cap {"atomic", "drained"} = {}
    <2>1. NoContent \in Contents
      BY DEF NoContent, Contents
    <2> QED
      BY <1>1, <2>1, Here DEF IInv, Types, Selects
  <1>3. CASE ~ intx[p]
    BY <1>1, <1>2, <1>3, FinaliseIInv DEF CloseAtomicIter
  <1>4. CASE intx[p]
    <2>1. /\ iters' = [iters EXCEPT ![p] = its]
          /\ \/ /\ Wrote(p) /\ lock' = [lock EXCEPT ![p] = "pending"]
                /\ UNCHANGED <<db, own, intx>>
             \/ /\ db' = Visible(p) /\ EndTransaction(p, its)
                /\ Wrote(p) => CanCommit(p)
      BY <1>4 DEF CloseAtomicIter
    <2>2. Wrote(p) => lock[p] \in Writing /\ Whole(own[p])
      BY <1>1, IdleLogger
    <2> HIDE DEF its
    <2>3. /\ own' \in [Loggers -> Contents \cup {NULL}] /\ intx' \in [Loggers -> BOOLEAN]
          /\ lock' \in [Loggers -> LockStates] /\ LockMove(p)
          /\ \A q \in Loggers \ {p} : own'[q] = own[q] /\ intx'[q] = intx[q] /\ lock'[q] = lock[q]
          /\ \/ own'[p] = own[p] /\ intx'[p] /\ Wrote(p) /\ lock'[p] = "pending" /\ db' = db
             \/ /\ ~ Wrote(p)' /\ ~ intx'[p] /\ lock'[p] = RestLock(its)
                /\ db' = Visible(p) /\ (Wrote(p) => CanCommit(p))
      <3>1. CASE EndTransaction(p, its) /\ db' = Visible(p) /\ (Wrote(p) => CanCommit(p))
        <4>1. its \subseteq iters[p]
          BY DEF its
        <4> QED
          BY <3>1, <4>1, Ended DEF Wrote
      <3>2. CASE /\ Wrote(p) /\ lock' = [lock EXCEPT ![p] = "pending"]
                 /\ UNCHANGED <<db, own, intx>>
        BY <1>4, <2>2, <3>2 DEF IInv, Types, LockMove, LockStates
      <3> QED
        BY <2>1, <3>1, <3>2
    <2>4. Whole(db') /\ db' \in Contents /\ (db' = db \/ CanCommit(p))
      BY <2>2, <2>3, Here DEF Visible, Wrote
    <2>5. Types' /\ Only(p) /\ iters'[p] = its
      BY <1>1, <1>2, <2>1, <2>3, <2>4 DEF IInv, Types, Only
    <2>6. PositionOK(call[p])' /\ ContentOK(p)'
      BY <1>1, <2>2, <2>3, IdleFacts DEF PositionOK, ContentOK, At, Wrote, Writing, Whole, Partly
    <2>7. KeptLock(p)' /\ JournalOK(p)'
      BY <1>1, <2>3, <2>5, Here DEF KeptLock, JournalOK, RestLock, Selects
    <2>8. QuietOK(p)'
      <3>1. contract => ~ Wrote(p)
        <4>1. CASE Atomic(p)
          BY <4>1, Here DEF QuietOK
        <4>2. CASE ~ Atomic(p)
          BY <1>1, <1>4, <4>2, Here, IdleFacts DEF QuietOK, Outside
        <4> QED
          BY <4>1, <4>2
      <3> QED
        BY <1>1, <1>2, <2>3, <2>5, <3>1 DEF QuietOK, Atomic
    <2> QED
      BY <2>3, <2>4, <2>5, <2>6, <2>7, <2>8, OneStep DEF Whole, Partly
  <1> QED
    BY <1>3, <1>4, Here

LEMMA DieIInv ==
    ASSUME IInv, NEW p \in Loggers, Die(p)
    PROVE  IInv'
  <1>1. /\ call' = [call EXCEPT ![p] = Idle] /\ reply' = [reply EXCEPT ![p] = "none"]
        /\ intx' = [intx EXCEPT ![p] = FALSE] /\ lock' = [lock EXCEPT ![p] = "none"]
        /\ own' = [own EXCEPT ![p] = NULL] /\ iters' = [iters EXCEPT ![p] = {}]
        /\ journal' = [journal EXCEPT ![p] = "truncate"]
        /\ damaged' \in BOOLEAN /\ seen' = [seen EXCEPT ![p] = NoContent]
        /\ UNCHANGED <<contract, db>>
    BY DEF Die, IInv, Types
  <1>2. NoContent \in Contents
    BY DEF NoContent, Contents
  <1>3. /\ Types' /\ Only(p) /\ LockMove(p)
        /\ call'[p] = Idle /\ ~ intx'[p] /\ lock'[p] = "none" /\ own'[p] = NULL
        /\ iters'[p] = {} /\ journal'[p] = "truncate"
    BY <1>1, <1>2 DEF IInv, Types, Only, LockMove, LockStates
  <1>4. PositionOK(call[p])' /\ ContentOK(p)'
    BY <1>3, IdleFacts DEF PositionOK, ContentOK, At, Wrote
  <1>5. KeptLock(p)' /\ JournalOK(p)' /\ QuietOK(p)'
    BY <1>3 DEF KeptLock, JournalOK, QuietOK, Atomic, Selects
  <1> QED
    BY <1>1, <1>3, <1>4, <1>5, Here, OneStep DEF Whole, Partly

LEMMA RemakeIInv ==
    ASSUME IInv, Remake
    PROVE  IInv'
  <1>1. /\ \A p \in Loggers : call[p] = Idle /\ iters[p] = {} /\ ~ intx[p]
        /\ db' = NoContent /\ damaged' = FALSE
        /\ UNCHANGED <<contract, own, lock, intx, iters, seen, call, journal, reply>>
    BY DEF Remake
  <1>2. NoContent \in Contents /\ Whole(NoContent)
    BY DEF NoContent, Contents, Whole, Partly
  <1>3. Types' /\ LocksOK' /\ Whole(db)'
    BY <1>1, <1>2 DEF IInv, Types, LocksOK, Whole, Partly
  <1>4. ASSUME NEW p \in Loggers PROVE Local(p)'
    BY <1>1, Here DEF Local, PositionOK, ContentOK, KeptLock, JournalOK, QuietOK, Atomic, Outside,
                      At, Wrote, Whole, Partly
  <1> QED
    BY <1>3, <1>4 DEF IInv

LEMMA InitIInv == Init => IInv
  <1> SUFFICES ASSUME Init PROVE IInv
    OBVIOUS
  <1>1. NoContent \in Contents /\ Whole(NoContent)
    BY DEF NoContent, Contents, Whole, Partly
  <1>2. Types
    BY <1>1, BooleanAssumption DEF Init, Types, LockStates
  <1>3. LocksOK
    BY DEF Init, LocksOK, Writing
  <1>4. ASSUME NEW p \in Loggers PROVE Local(p)
    <2>1. /\ call[p] = Idle /\ own[p] = NULL /\ ~ intx[p] /\ iters[p] = {}
          /\ lock[p] = "none" /\ journal[p] = "truncate"
      BY DEF Init
    <2>2. PositionOK(call[p]) /\ ContentOK(p)
      BY <2>1, IdleFacts DEF PositionOK, ContentOK, At, Wrote
    <2>3. KeptLock(p) /\ JournalOK(p) /\ QuietOK(p)
      BY <2>1 DEF KeptLock, JournalOK, QuietOK, Atomic, Selects
    <2> QED
      BY <2>2, <2>3 DEF Local
  <1> QED
    BY <1>1, <1>2, <1>3, <1>4 DEF IInv, Init

LEMMA StepIInv == IInv /\ [Next]_vars => IInv'
  <1> SUFFICES ASSUME IInv, [Next]_vars PROVE IInv'
    OBVIOUS
  <1>1. CASE UNCHANGED vars
    <2>1. Types' /\ Whole(db)' /\ LocksOK'
      BY <1>1 DEF vars, IInv, Types, Whole, Partly, LocksOK
    <2>2. ASSUME NEW p \in Loggers PROVE Local(p)'
      BY <1>1, Here DEF vars, Local, PositionOK, ContentOK, KeptLock, JournalOK, QuietOK, Atomic,
                        Outside, At, Wrote, Whole, Partly
    <2> QED
      BY <2>1, <2>2 DEF IInv
  <1>2. ASSUME NEW p \in Loggers, Step(p) PROVE IInv'
    BY <1>2, FailuresIInv, BeginIInv, ListGroupsIInv, WriteIInv, WriteAloneIInv, CommitLocksIInv,
       CommitEndsIInv, RollbackIInv, FinishIInv DEF Step
  <1>3. CASE Next
    BY <1>2, <1>3, StartIInv, OpenIterIInv, OpenAtomicIterIInv, CloseIterIInv,
       CloseAtomicIterIInv, DieIInv, RemakeIInv DEF Next
  <1> QED
    BY <1>1, <1>3

---------------------------------------------------------------------------
(* The theorems                                                            *)

\* IInv holds in every reachable state.
THEOREM TransactionsInvariant == Spec => []IInv
  BY InitIInv, StepIInv, PTL DEF Spec

\* The variables keep their types, and a connection that has written something
\* it has not committed holds a lock.
THEOREM TransactionsTypeCorrect == Spec => []TypeOK
  <1>1. ASSUME IInv PROVE TypeOK
    <2>1. contract \in Contracts /\ db \in Contents /\ damaged \in BOOLEAN
      BY <1>1 DEF IInv, Types
    <2>2. ASSUME NEW p \in Loggers
          PROVE  /\ own[p] = NULL \/ own[p] \in Contents
                 /\ lock[p] \in LockStates /\ intx[p] \in BOOLEAN
                 /\ iters[p] \subseteq {"plain", "atomic", "drained"}
                 /\ seen[p] \in Contents /\ call[p].kind \in Kinds \cup {"none"}
                 /\ journal[p] \in {"truncate", "off"} /\ reply[p] \in {"none", "ok", "failed"}
      BY <1>1, IdleFacts DEF IInv, Types, Call
    <2>3. \A p \in Loggers : Wrote(p) => lock[p] \in Writing
      BY <1>1 DEF IInv, Local, ContentOK
    <2> QED
      BY <2>1, <2>2, <2>3 DEF TypeOK, LockStates, Writing
  <1> QED
    BY <1>1, TransactionsInvariant, PTL

\* What is committed is whole, whatever fails, dies, gives up, or disregards
\* the note on atomic iterators.
THEOREM CommittedIsWhole == Spec => []CommittedWhole
  <1>1. IInv => CommittedWhole
    BY DEF IInv, Whole, Partly, CommittedWhole
  <1> QED
    BY <1>1, TransactionsInvariant, PTL

\* Between calls, programs that heed the note have no transaction but that of
\* an atomic iterator, and no lock but that of an iterator.
THEOREM NothingIsLeftOpen == Spec => []NothingLeftOpen
  <1>1. ASSUME IInv PROVE NothingLeftOpen
    <2> SUFFICES ASSUME contract, NEW p \in Loggers, call[p] = Idle
                 PROVE  /\ ~ Atomic(p) => ~ intx[p] /\ ~ Wrote(p)
                        /\ iters[p] = {} => lock[p] = "none"
                        /\ journal[p] = "truncate"
      BY DEF NothingLeftOpen, Atomic
    <2>1. ~ Atomic(p) => ~ intx[p] /\ ~ Wrote(p)
      BY <1>1, Here, IdleFacts DEF QuietOK, Outside, ContentOK
    <2>2. iters[p] = {} => lock[p] = "none"
      BY <1>1, <2>1, Here DEF KeptLock, Atomic, Selects
    <2>3. journal[p] = "truncate"
      BY <1>1, Here, IdleFacts, KindsAre DEF JournalOK
    <2> QED
      BY <2>1, <2>2, <2>3
  <1> QED
    BY <1>1, TransactionsInvariant, PTL

\* While it exists, an atomic iterator of a program that heeds the note sees
\* the tables as they were when it was created.
THEOREM AtomicIterSeesOneState == Spec => []AtomicSnapshot
  <1>1. IInv => AtomicSnapshot
    BY DEF IInv, Local, QuietOK, Atomic, AtomicSnapshot, Visible
  <1> QED
    BY <1>1, TransactionsInvariant, PTL

---------------------------------------------------------------------------
(* Transactions implements CallLog, for programs that heed the note and    *)
(* as long as nothing but locks makes statements fail                      *)

\* What a call has written is what CallLog says of it.
Reached(p) ==
    LET e == call[p].ev
        gone == Gone(call[p].kind, e)
    IN  /\ call[p].kind = "add" => /\ own[p].events = db.events \cup {e}
                                   /\ own[p].read = db.read /\ own[p].names = db.names
        /\ call[p].kind \in Deletions => /\ own[p].events = db.events \ gone
                                         /\ own[p].read = db.read \ gone
                                         /\ own[p].names = db.names
        /\ call[p].kind = "contacts" => /\ own[p].events = db.events /\ own[p].read = db.read
                                        /\ own[p].names = <<e, e>>

SimOK(p) ==
    /\ Wrote(p) /\ (At(p, "details") \/ At(p, "cache") \/ At(p, "COMMIT")) => Reached(p)
    /\ Wrote(p) /\ At(p, "second") =>
          /\ own[p].events = db.events /\ own[p].read = db.read
          /\ own[p].names = [db.names EXCEPT ![1] = call[p].ev]
    /\ At(p, "delete") \/ At(p, "COMMIT") => intx[p] \/ damaged
    /\ At(p, "COMMIT") /\ intx[p] => Wrote(p)

SimInv ==
    /\ IInv /\ contract /\ ~ IOFaults
    /\ \A p \in Loggers : damaged => ~ Wrote(p)
    /\ \A p \in Loggers : SimOK(p)

LEMMA OthersSim ==
    ASSUME SimInv, NEW p \in Loggers, Only(p), db' = db \/ CanCommit(p), damaged => damaged',
           NEW q \in Loggers \ {p}
    PROVE  SimOK(q)'
  <1>1. SimOK(q) /\ q \in Others(p) /\ (Wrote(q) => lock[q] \in Writing)
    BY Here DEF SimInv, Others, ContentOK
  <1>2. Wrote(q) => db' = db
    BY <1>1 DEF CanCommit, Writing
  <1>3. /\ own'[q] = own[q] /\ call'[q] = call[q] /\ intx'[q] = intx[q]
    BY DEF Only
  <1> QED
    BY <1>1, <1>2, <1>3 DEF SimOK, Wrote, At, Reached

\* A step that leaves p nowhere near a COMMIT.
LEMMA FarFromCommit ==
    ASSUME NEW p \in Loggers,
           call'[p].rest \in Begins \cup {<<>>, <<"ok">>, <<"failed">>, <<"update">>,
                                          <<"ROLLBACK", "failed">>,
                                          <<"event", "details", "COMMIT">>,
                                          <<"first", "second", "COMMIT">>,
                                          <<"groups", "delete", "cache", "COMMIT">>}
    PROVE  SimOK(p)'
  BY DEF SimOK, At, Begins

LEMMA OneSimStep ==
    ASSUME SimInv, IInv', NEW p \in Loggers, Only(p), db' = db \/ CanCommit(p),
           damaged' = damaged, damaged => own'[p] \in {NULL, own[p]}, SimOK(p)'
    PROVE  SimInv'
  <1>1. \A q \in Loggers : SimOK(q)'
    BY OthersSim
  <1>2. \A q \in Loggers : damaged' => ~ Wrote(q)'
    BY DEF SimInv, Only, Wrote
  <1> QED
    BY <1>1, <1>2 DEF SimInv, Only

\* The log and the calls of CallLog do not change.
Stutter ==
    /\ db' = db /\ damaged' = damaged /\ reply' = reply
    /\ \A q \in Loggers : /\ call'[q].kind = call[q].kind /\ call'[q].ev = call[q].ev
                          /\ (call'[q].rest = <<"ok">>) <=> (call[q].rest = <<"ok">>)

LEMMA Stutters == Stutter => UNCHANGED Promise!vars
  BY DEF Stutter, Promise!vars

LEMMA NotLost ==
    ASSUME SimInv, ~ damaged
    PROVE  [events |-> db.events, read |-> db.read, names |-> db.names]
              # [events |-> {}, read |-> {}, names |-> <<"lost", "lost">>]
  <1>1. db.names[1] # "lost"
    BY NameAssumption DEF SimInv, IInv, Types, Contents
  <1> QED
    BY <1>1

\* A call takes effect.
LEMMA Applies ==
    ASSUME SimInv, NEW p \in Loggers, ~ damaged, damaged' = damaged, reply' = reply,
           call[p] \in Call, call[p].rest # <<"ok">>, Goto(p, <<"ok">>),
           LET e == call[p].ev
               gone == Gone(call[p].kind, e)
           IN  /\ call[p].kind = "add" => /\ db'.events = db.events \cup {e}
                                          /\ db'.read = db.read /\ db'.names = db.names
               /\ call[p].kind \in Deletions => /\ db'.events = db.events \ gone
                                                /\ db'.read = db.read \ gone
                                                /\ db'.names = db.names
               /\ call[p].kind = "update" => /\ db'.events = db.events /\ db'.names = db.names
                                             /\ db'.read = db.read \cup ({e} \cap db.events)
               /\ call[p].kind = "contacts" => /\ db'.events = db.events /\ db'.read = db.read
                                               /\ db'.names = <<e, e>>
    PROVE  Promise!Apply(p)
  <1> DEFINE log == [events |-> db.events, read |-> db.read, names |-> db.names]
             calls == [q \in Loggers |-> [kind    |-> call[q].kind,
                                          ev      |-> call[q].ev,
                                          applied |-> call[q].rest = <<"ok">>]]
  <1>1. call' = [call EXCEPT ![p].rest = <<"ok">>] /\ call \in [Loggers -> {Idle} \cup Call]
    BY DEF Goto, SimInv, IInv, Types
  <1>2. /\ calls[p] # [kind |-> "none", ev |-> NULL, applied |-> FALSE]
        /\ ~ calls[p].applied
    BY KindsAre DEF Call
  <1>3. calls' = [calls EXCEPT ![p].applied = TRUE]
    BY <1>1 DEF Call
  <1>4. log' = Promise!Applied(call[p].kind, call[p].ev, log)
    BY KindsAre DEF Call, Promise!Applied, Promise!Gone, Promise!Deletions
  <1> QED
    BY <1>2, <1>3, <1>4, NotLost DEF Promise!Apply, Promise!NoCall, Promise!Lost, Promise!Applied,
       Promise!Gone, Promise!Deletions

\* A step of Transactions is one of CallLog, and keeps SimInv.
Refines == SimInv' /\ [Promise!Next]_(Promise!vars)

LEMMA Stuttering ==
    ASSUME SimInv, IInv', NEW p \in Loggers, Only(p), UNCHANGED <<db, damaged, reply>>,
           damaged => own'[p] \in {NULL, own[p]}, SimOK(p)',
           /\ call'[p].kind = call[p].kind /\ call'[p].ev = call[p].ev
           /\ (call'[p].rest = <<"ok">>) <=> (call[p].rest = <<"ok">>)
    PROVE  Refines
  <1>1. Stutter
    BY DEF Stutter, Only
  <1> QED
    BY <1>1, Stutters, OneSimStep DEF Refines

\* The same for a statement that leads to another one.
LEMMA StatementStutters ==
    ASSUME SimInv, IInv', NEW p \in Loggers, call[p] # Idle, call[p].rest # <<"ok">>,
           NEW r \in Rests, r # <<"ok">>, Goto(p, r),
           UNCHANGED <<contract, db, damaged, iters, seen, journal, reply>>,
           \A q \in Loggers \ {p} : own'[q] = own[q] /\ intx'[q] = intx[q] /\ lock'[q] = lock[q],
           damaged => own'[p] \in {NULL, own[p]},
           call'[p].rest = r /\ call'[p].ev = call[p].ev /\ call'[p].kind = call[p].kind
             => SimOK(p)'
    PROVE  Refines
  <1>1. /\ call'[p].rest = r /\ call'[p].ev = call[p].ev /\ call'[p].kind = call[p].kind
        /\ \A q \in Loggers \ {p} : call'[q] = call[q]
    BY GoesOn DEF SimInv
  <1>2. Only(p)
    BY <1>1 DEF Only
  <1> QED
    BY <1>1, <1>2, Stuttering

LEMMA StartRefines ==
    ASSUME SimInv, IInv', NEW p \in Loggers, NEW kind \in Kinds, NEW e \in Events, Start(p, kind, e)
    PROVE  Refines
  <1> DEFINE c == [kind |-> kind, ev |-> e, rest |-> Program(kind)]
             calls == [q \in Loggers |-> [kind    |-> call[q].kind,
                                          ev      |-> call[q].ev,
                                          applied |-> call[q].rest = <<"ok">>]]
  <1>1. /\ call[p] = Idle /\ call' = [call EXCEPT ![p] = c]
        /\ kind = "add" => e \notin db.events
        /\ reply' = [reply EXCEPT ![p] = "none"]
        /\ journal' = [journal EXCEPT ![p] = IF kind \in Deletions THEN "off" ELSE @]
        /\ UNCHANGED <<contract, db, damaged, own, lock, intx, iters, seen>>
    BY DEF Start
  <1>2. /\ c.kind = kind /\ c.ev = e /\ c.rest # <<"ok">> /\ c.rest \in Begins \cup {<<"update">>}
    BY KindsAre DEF Begins, Program
  <1> HIDE DEF c
  <1>3. call'[p] = c /\ Only(p) /\ call \in [Loggers -> {Idle} \cup Call]
    BY <1>1 DEF SimInv, IInv, Types, Only
  <1>4. SimInv'
    BY <1>1, <1>2, <1>3, FarFromCommit, OneSimStep
  <1>5. calls[p] = [kind |-> "none", ev |-> NULL, applied |-> FALSE]
    <2>1. call[p].rest # <<"ok">> /\ call[p].kind = "none" /\ call[p].ev = NULL
      BY <1>1 DEF Idle
    <2>2. (call[p].rest = <<"ok">>) = FALSE
      BY <2>1
    <2>3. calls[p] = [kind |-> call[p].kind, ev |-> call[p].ev, applied |-> call[p].rest = <<"ok">>]
      OBVIOUS
    <2> QED
      BY <2>1, <2>2, <2>3
  <1>6. calls' = [calls EXCEPT ![p] = [kind |-> kind, ev |-> e, applied |-> FALSE]]
    BY <1>1, <1>2, <1>3
  <1>7. Promise!Invoke(p, kind, e)
    BY <1>1, <1>5, <1>6 DEF Promise!Invoke, Promise!NoCall
  <1> QED
    BY <1>4, <1>7 DEF Refines, Promise!Next, Kinds

LEMMA BeginRefines ==
    ASSUME SimInv, IInv', NEW p \in Loggers, Begin(p)
    PROVE  Refines
  <1>1. /\ At(p, "BEGIN") /\ ~ intx[p] /\ ~ damaged
        /\ intx' = [intx EXCEPT ![p] = TRUE] /\ Goto(p, Tail(call[p].rest))
        /\ lock' = [lock EXCEPT ![p] = "exclusive"] \/ lock' = lock
        /\ UNCHANGED <<contract, db, damaged, own, iters, seen, journal, reply>>
    BY DEF Begin, Continue
  <1>2. /\ call[p] # Idle /\ call[p].rest \in Begins /\ ~ Wrote(p)
        /\ intx'[p] = TRUE
    <2>1. IInv /\ PositionOK(call[p]) /\ ContentOK(p) /\ intx[p] \in BOOLEAN
      BY Here DEF SimInv
    <2>2. call[p] # Idle /\ call[p].rest \in Begins
      BY <1>1, <2>1, AtBegin
    <2>3. ~ Wrote(p)
      BY <1>1, <2>1 DEF ContentOK
    <2>4. intx'[p] = TRUE
      BY <1>1, <2>1 DEF IInv, Types
    <2> QED
      BY <2>2, <2>3, <2>4
  <1>3. PICK r \in {<<"event", "details", "COMMIT">>, <<"first", "second", "COMMIT">>,
                    <<"groups", "delete", "cache", "COMMIT">>, <<"delete", "cache", "COMMIT">>,
                    <<"delete", "COMMIT">>} : Goto(p, r)
    BY <1>1, <1>2, Tails DEF Begins
  <1>4. r \in Rests /\ r # <<"ok">> /\ call[p].rest # <<"ok">>
    BY <1>1, <1>3 DEF Rests, At
  <1>5. ASSUME call'[p].rest = r PROVE SimOK(p)'
    BY <1>1, <1>2, <1>3, <1>5 DEF SimOK, At, Wrote
  <1> QED
    BY <1>1, <1>2, <1>3, <1>4, <1>5, StatementStutters DEF SimInv, IInv, Types

LEMMA ListGroupsRefines ==
    ASSUME SimInv, IInv', NEW p \in Loggers, ListGroups(p)
    PROVE  Refines
  <1>1. /\ At(p, "groups") /\ ~ damaged
        /\ lock' = [lock EXCEPT ![p] = IF @ # "none" THEN @
                                       ELSE IF intx[p] THEN "shared" ELSE "none"]
        /\ UNCHANGED <<contract, db, damaged, own, intx, iters, seen, journal, reply>>
    BY DEF ListGroups
  <1>2. PICK r \in {<<"delete", "cache", "COMMIT">>, <<"delete", "COMMIT">>} : Goto(p, r)
    BY DEF ListGroups
  <1>3. /\ call[p] # Idle /\ call[p].rest # <<"ok">> /\ intx[p] /\ ~ Wrote(p)
    BY <1>1, Here, IdleFacts DEF SimInv, ContentOK, At
  <1>4. r \in Rests /\ r # <<"ok">>
    BY <1>2 DEF Rests
  <1>5. ASSUME call'[p].rest = r PROVE SimOK(p)'
    BY <1>1, <1>2, <1>3, <1>5 DEF SimOK, At, Wrote
  <1> QED
    BY <1>1, <1>2, <1>3, <1>4, <1>5, StatementStutters DEF SimInv, IInv, Types

LEMMA CommitLocksRefines ==
    ASSUME SimInv, IInv', NEW p \in Loggers, CommitWaits(p) \/ CommitStarts(p)
    PROVE  Refines
  <1>1. /\ UNCHANGED <<contract, db, damaged, own, intx, iters, seen, call, journal, reply>>
        /\ \/ lock' = [lock EXCEPT ![p] = "pending"]
           \/ lock' = [lock EXCEPT ![p] = "exclusive"]
    BY DEF CommitWaits, CommitStarts
  <1>2. Only(p)
    BY <1>1 DEF SimInv, IInv, Types, Only
  <1>3. SimOK(p)'
    BY <1>1 DEF SimInv, SimOK, At, Wrote, Reached
  <1> QED
    BY <1>1, <1>2, <1>3, Stuttering

\* Without faults a transaction only ends with its call, or where the file is
\* damaged and nobody has written to it.
LEMMA FailuresRefine ==
    ASSUME SimInv, IInv', NEW p \in Loggers,
           BeginRefused(p) \/ CommitRefused(p) \/ GiveUp(p) \/ Fault(p)
    PROVE  Refines
  <1> DEFINE r == AfterFailure(p)
  <1>1. /\ Executing(p) /\ Goto(p, r)
        /\ UNCHANGED <<contract, db, damaged, iters, seen, journal, reply>>
    BY DEF BeginRefused, CommitRefused, GiveUp, Fault, Blocked, Executing, Statements, Writes, At, Fail
  <1>2. \/ own' = own /\ intx' = intx /\ lock' = lock
        \/ own' = own /\ intx' = intx /\ lock' = [lock EXCEPT ![p] = "pending"]
        \/ EndTransaction(p, iters[p]) /\ damaged
    BY DEF BeginRefused, CommitRefused, GiveUp, Fault, SimInv
  <1>3. /\ call[p] # Idle /\ r \in Rests
        /\ \/ At(p, "groups") /\ r = <<"delete", "COMMIT">>
           \/ r \in {<<"failed">>, <<"ROLLBACK", "failed">>}
    BY <1>1, Failures, Here DEF SimInv
  <1>4. call[p].rest # <<"ok">>
    BY <1>1 DEF Executing, Statements, Writes
  <1> HIDE DEF r
  <1>5. /\ \A q \in Loggers \ {p} : own'[q] = own[q] /\ intx'[q] = intx[q] /\ lock'[q] = lock[q]
        /\ own'[p] \in {NULL, own[p]} /\ (intx'[p] = intx[p] \/ damaged)
    <2>1. CASE EndTransaction(p, iters[p]) /\ damaged
      BY <2>1, Ended DEF SimInv
    <2> QED
      BY <1>2, <2>1 DEF SimInv, IInv, Types
  <1>6. ASSUME call'[p].rest = r PROVE SimOK(p)'
    <2>1. CASE At(p, "groups") /\ r = <<"delete", "COMMIT">>
      <3>1. ~ Wrote(p) /\ intx[p]
        BY <2>1, Here DEF SimInv, ContentOK
      <3> QED
        <4>1. (intx'[p] \/ damaged') /\ ~ Wrote(p)'
          BY <1>1, <1>5, <3>1 DEF Wrote
        <4> QED
          BY <1>6, <2>1, <4>1 DEF SimOK, At
    <2>2. CASE r \in {<<"failed">>, <<"ROLLBACK", "failed">>}
      BY <1>6, <2>2, FarFromCommit
    <2> QED
      BY <1>3, <2>1, <2>2
  <1>7. r # <<"ok">>
    BY <1>3
  <1> QED
    BY <1>1, <1>3, <1>4, <1>5, <1>6, <1>7, StatementStutters

LEMMA RollbackRefines ==
    ASSUME SimInv, IInv', NEW p \in Loggers, Rollback(p)
    PROVE  Refines
  <1>0. At(p, "ROLLBACK") /\ PositionOK(call[p])
    BY Here DEF Rollback, SimInv
  <1>1. /\ At(p, "ROLLBACK") /\ Goto(p, <<"failed">>)
        /\ EndTransaction(p, iters[p]) \/ UNCHANGED <<own, lock, intx>>
        /\ UNCHANGED <<contract, db, damaged, iters, seen, journal, reply>>
    <2>1. Tail(call[p].rest) = <<"failed">>
      BY <1>0, AtStatement, Tails
    <2> QED
      BY <1>0, <2>1 DEF Rollback, Continue
  <1>2. /\ \A q \in Loggers \ {p} : own'[q] = own[q] /\ intx'[q] = intx[q] /\ lock'[q] = lock[q]
        /\ own'[p] \in {NULL, own[p]}
    BY <1>1, Ended DEF SimInv
  <1>3. call[p] # Idle /\ call[p].rest # <<"ok">> /\ <<"failed">> \in Rests
    BY <1>1, IdleFacts DEF At, Rests
  <1> QED
    BY <1>1, <1>2, <1>3, FarFromCommit, StatementStutters

LEMMA FinishRefines ==
    ASSUME SimInv, IInv', NEW p \in Loggers, Finish(p)
    PROVE  Refines
  <1> DEFINE calls == [q \in Loggers |-> [kind    |-> call[q].kind,
                                          ev      |-> call[q].ev,
                                          applied |-> call[q].rest = <<"ok">>]]
  <1>1. /\ At(p, "ok") \/ At(p, "failed")
        /\ reply' = [reply EXCEPT ![p] = Head(call[p].rest)]
        /\ call' = [call EXCEPT ![p] = Idle]
        /\ journal' = [journal EXCEPT ![p] = "truncate"]
        /\ UNCHANGED <<contract, db, damaged, own, lock, intx, iters, seen>>
    BY DEF Finish
  <1>2. Only(p) /\ call'[p] = Idle /\ call \in [Loggers -> {Idle} \cup Call]
    BY <1>1 DEF SimInv, IInv, Types, Only
  <1>3. SimInv'
    BY <1>1, <1>2, IdleFacts, FarFromCommit, OneSimStep
  <1>4. call[p].kind \in Kinds /\ call[p].rest \in {<<"ok">>, <<"failed">>}
    BY <1>1, Here, AtStatement DEF SimInv
  <1>5. calls[p] # [kind |-> "none", ev |-> NULL, applied |-> FALSE]
    BY <1>4, KindsAre
  <1>6. calls' = [calls EXCEPT ![p] = [kind |-> "none", ev |-> NULL, applied |-> FALSE]]
    BY <1>1, <1>2 DEF Idle
  <1>7. Head(call[p].rest) = IF calls[p].applied THEN "ok" ELSE "failed"
    <2>1. calls[p].applied <=> call[p].rest = <<"ok">>
      OBVIOUS
    <2> HIDE DEF calls
    <2> QED
      BY <1>4, <2>1
  <1>8. Promise!Return(p)
    BY <1>1, <1>5, <1>6, <1>7 DEF Promise!Return, Promise!NoCall
  <1> QED
    BY <1>3, <1>8 DEF Refines, Promise!Next

\* What the statements do to the columns CallLog knows.
LEMMA EventEffect ==
    ASSUME NEW kind, NEW e \in Events, NEW c \in Contents
    PROVE  LET w == Written("event", kind, e, c)
           IN  w.events = c.events \cup {e} /\ w.read = c.read /\ w.names = c.names
  BY DEF Written, Contents

LEMMA DetailsEffect ==
    ASSUME NEW kind, NEW e \in Events, NEW c \in Contents
    PROVE  LET w == Written("details", kind, e, c)
           IN  w.events = c.events /\ w.read = c.read /\ w.names = c.names
  BY DEF Written, Contents

LEMMA CacheEffect ==
    ASSUME NEW kind, NEW e \in Events, NEW c \in Contents
    PROVE  LET w == Written("cache", kind, e, c)
           IN  w.events = c.events /\ w.read = c.read /\ w.names = c.names
  BY DEF Written, Contents

LEMMA UpdateEffect ==
    ASSUME NEW kind, NEW e \in Events, NEW c \in Contents
    PROVE  LET w == Written("update", kind, e, c)
           IN  w.events = c.events /\ w.read = c.read \cup ({e} \cap c.events) /\ w.names = c.names
  BY DEF Written, Contents

LEMMA FirstEffect ==
    ASSUME NEW kind, NEW e \in Events, NEW c \in Contents
    PROVE  LET w == Written("first", kind, e, c)
           IN  w.events = c.events /\ w.read = c.read /\ w.names = [c.names EXCEPT ![1] = e]
  BY DEF Written, Contents

LEMMA SecondEffect ==
    ASSUME NEW kind, NEW e \in Events, NEW c \in Contents
    PROVE  LET w == Written("second", kind, e, c)
           IN  w.events = c.events /\ w.read = c.read /\ w.names = [c.names EXCEPT ![2] = e]
  BY DEF Written, Contents

LEMMA BothNames ==
    ASSUME NEW n \in [1..2 -> Events \cup {NULL}], NEW e \in Events
    PROVE  [[n EXCEPT ![1] = e] EXCEPT ![2] = e] = <<e, e>>
  OBVIOUS

\* What a statement adds to a transaction is the next part of what its call
\* promises.
LEMMA Reaches ==
    ASSUME SimInv, NEW p \in Loggers, NEW stmt \in Writes, At(p, stmt), stmt # "update",
           NEW w, w = Change(p, Visible(p)), own'[p] = w, db' = db,
           call'[p].kind = call[p].kind, call'[p].ev = call[p].ev,
           call[p].ev \in Events
    PROVE  IF stmt = "first"
           THEN /\ w.events = db.events /\ w.read = db.read
                /\ w.names = [db.names EXCEPT ![1] = call[p].ev]
           ELSE Reached(p)'
  <1> DEFINE e == call[p].ev
             kind == call[p].kind
             c == Visible(p)
  <1>1. w = Written(stmt, kind, e, c) /\ c \in Contents
    BY Here DEF SimInv, Change, At, Visible, Wrote
  <1>2. Wrote(p) => c = own[p]
    BY DEF Visible
  <1>3. ~ Wrote(p) => c = db
    BY DEF Visible
  <1>4. PositionOK(call[p]) /\ ContentOK(p) /\ SimOK(p)
    BY Here DEF SimInv
  <1> HIDE DEF c
  <1>5. CASE stmt = "event"
    <2>1. kind = "add" /\ c = db
      BY <1>3, <1>4, <1>5, AtStatement DEF ContentOK
    <2>2. w.events = db.events \cup {e} /\ w.read = db.read /\ w.names = db.names
      BY <1>1, <1>5, <2>1, EventEffect
    <2> QED
      BY <1>5, <2>1, <2>2, KindsAre DEF Reached
  <1>6. CASE stmt = "first"
    <2>1. c = db
      BY <1>3, <1>4, <1>6 DEF ContentOK
    <2> QED
      BY <1>1, <1>6, <2>1, FirstEffect
  <1>7. CASE stmt = "delete"
    <2>1. kind \in {"delete", "deleteBy", "deleteAll"} /\ c = db
      BY <1>3, <1>4, <1>7, AtStatement DEF ContentOK
    <2>2. w.events = db.events \ Gone(kind, e) /\ w.read = db.read \ Gone(kind, e) /\ w.names = db.names
      <3>1. w = Written("delete", kind, e, db) /\ db \in Contents /\ e \in Events
        BY <1>1, <1>7, <2>1
      <3> HIDE DEF kind, e
      <3> QED
        BY <3>1 DEF Written, Contents
    <2> QED
      BY <1>7, <2>1, <2>2, KindsAre DEF Reached
  <1>8. CASE stmt \in {"details", "cache"}
    <2>1. Wrote(p) /\ Reached(p) /\ kind \in {"add", "delete", "deleteBy"}
      BY <1>4, <1>8, AtStatement DEF ContentOK, SimOK
    <2>2. w.events = own[p].events /\ w.read = own[p].read /\ w.names = own[p].names
      BY <1>1, <1>2, <1>8, <2>1, DetailsEffect, CacheEffect
    <2> QED
      BY <1>8, <2>1, <2>2, KindsAre DEF Reached
  <1>9. CASE stmt = "second"
    <2>1. /\ Wrote(p) /\ kind = "contacts"
          /\ own[p].events = db.events /\ own[p].read = db.read
          /\ own[p].names = [db.names EXCEPT ![1] = e]
      BY <1>4, <1>9, AtStatement DEF ContentOK, SimOK
    <2>2. w.events = db.events /\ w.read = db.read /\ w.names = [own[p].names EXCEPT ![2] = e]
      BY <1>1, <1>2, <1>9, <2>1, SecondEffect
    <2>3. db.names \in [1..2 -> Events \cup {NULL}]
      BY Here DEF SimInv, Contents
    <2>4. w.names = <<e, e>>
      BY <2>1, <2>2, <2>3, BothNames
    <2> QED
      BY <1>9, <2>1, <2>2, <2>4, KindsAre DEF Reached
  <1> QED
    BY <1>5, <1>6, <1>7, <1>8, <1>9 DEF Writes

LEMMA WriteRefines ==
    ASSUME SimInv, IInv', NEW p \in Loggers, Write(p)
    PROVE  Refines
  <1>1. PICK stmt \in Writes : At(p, stmt)
    BY DEF Write
  <1> DEFINE w == Change(p, Visible(p))
  <1>2. /\ intx[p] /\ ~ damaged /\ own' = [own EXCEPT ![p] = w]
        /\ lock' = [lock EXCEPT ![p] = IF @ \in {"none", "shared"} THEN "reserved" ELSE @]
        /\ IF At(p, "update") THEN Goto(p, <<"ok">>) ELSE Continue(p)
        /\ UNCHANGED <<contract, db, damaged, intx, iters, seen, journal, reply>>
    BY DEF Write
  <1>3. /\ call[p] # Idle /\ call[p].ev \in Events
        /\ Change(p, db) \in Contents
        /\ Wrote(p) => Change(p, own[p]) \in Contents
        /\ call'[p].kind = call[p].kind /\ call'[p].ev = call[p].ev
        /\ \A q \in Loggers \ {p} : call'[q] = call[q]
        /\ \/ stmt = "event" /\ call'[p].rest = <<"details", "COMMIT">>
           \/ stmt = "first" /\ call'[p].rest = <<"second", "COMMIT">>
           \/ /\ stmt = "delete" /\ call[p].rest = <<"delete", "cache", "COMMIT">>
              /\ call'[p].rest = <<"cache", "COMMIT">>
           \/ stmt = "delete" /\ call'[p].rest = <<"COMMIT">>
           \/ stmt \in {"details", "second", "cache"} /\ call'[p].rest = <<"COMMIT">>
           \/ stmt = "update" /\ call'[p].rest = <<"ok">>
    BY <1>1, <1>2, Writer DEF SimInv
  <1>4. w # NULL
    BY <1>3, NullAssumption DEF Visible
  <1> HIDE DEF w
  <1>5. stmt # "update"
    BY <1>1, <1>2, <1>3, Here, AtStatement DEF SimInv, QuietOK, Outside
  <1>6. own'[p] = w /\ Only(p) /\ Wrote(p)' /\ intx'[p]
    BY <1>2, <1>3, <1>4 DEF SimInv, IInv, Types, Only, Wrote
  <1>7. IF stmt = "first"
        THEN /\ w.events = db.events /\ w.read = db.read
             /\ w.names = [db.names EXCEPT ![1] = call[p].ev]
        ELSE Reached(p)'
    BY <1>1, <1>2, <1>3, <1>5, <1>6, Reaches DEF w
  <1>8. SimOK(p)'
    <2>1. CASE stmt = "first"
      BY <1>2, <1>3, <1>6, <1>7, <2>1 DEF SimOK, At
    <2>2. CASE stmt # "first"
      BY <1>2, <1>3, <1>5, <1>6, <1>7, <2>2 DEF SimOK, At
    <2> QED
      BY <2>1, <2>2
  <1>9. call[p].rest # <<"ok">> /\ call'[p].rest # <<"ok">>
    BY <1>1, <1>3, <1>5 DEF At, Writes
  <1> QED
    BY <1>2, <1>3, <1>6, <1>8, <1>9, Stuttering

LEMMA WriteAloneRefines ==
    ASSUME SimInv, IInv', NEW p \in Loggers, WriteAlone(p)
    PROVE  Refines
  <1>1. PICK stmt \in Writes : At(p, stmt)
    BY DEF WriteAlone
  <1>2. /\ ~ intx[p] /\ ~ damaged /\ CanCommit(p) /\ db' = Change(p, db)
        /\ lock' = [lock EXCEPT ![p] = RestLock(iters[p])]
        /\ IF At(p, "update") THEN Goto(p, <<"ok">>) ELSE Continue(p)
        /\ UNCHANGED <<contract, damaged, own, intx, iters, seen, journal, reply>>
    BY DEF WriteAlone
  <1>3. ~ Wrote(p)
    BY <1>2, Here DEF SimInv, ContentOK
  <1>4. stmt = "update"
    BY <1>1, <1>2, <1>3, Here DEF SimInv, SimOK, ContentOK, Writes
  <1>5. call[p] \in Call /\ call[p].kind = "update" /\ call[p].rest = <<"update">>
    BY <1>1, <1>4, Here, AtStatement, IdleFacts DEF SimInv, Call, At
  <1>6. Goto(p, <<"ok">>) /\ <<"ok">> \in Rests /\ call[p] # Idle
    BY <1>1, <1>2, <1>4, <1>5, IdleFacts DEF Rests
  <1>7. call'[p].rest = <<"ok">> /\ \A q \in Loggers \ {p} : call'[q] = call[q]
    BY <1>6, GoesOn DEF SimInv
  <1>8. SimInv'
    <2>1. Only(p)
      BY <1>2, <1>7 DEF SimInv, IInv, Types, Only
    <2> QED
      BY <1>2, <1>7, <2>1, FarFromCommit, OneSimStep
  <1>9. /\ db'.events = db.events /\ db'.names = db.names
        /\ db'.read = db.read \cup ({call[p].ev} \cap db.events)
    <2>1. db' = Written("update", call[p].kind, call[p].ev, db) /\ call[p].ev \in Events
      BY <1>2, <1>5 DEF Change, Call
    <2> QED
      BY <2>1, UpdateEffect, Here DEF SimInv
  <1>10. Promise!Apply(p)
    BY <1>2, <1>5, <1>6, <1>9, Applies, KindsAre
  <1> QED
    BY <1>8, <1>10 DEF Refines, Promise!Next

LEMMA CommitEndsRefines ==
    ASSUME SimInv, IInv', NEW p \in Loggers, CommitEnds(p)
    PROVE  Refines
  <1>1. /\ At(p, "COMMIT") /\ intx[p] /\ db' = Visible(p) /\ EndTransaction(p, iters[p])
        /\ Goto(p, <<"ok">>) /\ (Wrote(p) => lock[p] = "exclusive")
        /\ UNCHANGED <<contract, damaged, iters, seen, journal, reply>>
    BY DEF CommitEnds
  <1>2. Wrote(p) /\ ~ damaged /\ Reached(p) /\ db' = own[p]
    BY <1>1 DEF SimInv, SimOK, Visible
  <1>3. CanCommit(p)
    BY <1>1, <1>2 DEF SimInv, IInv, LocksOK, CanCommit, Others
  <1>4. call[p] \in Call /\ call[p].kind # "update" /\ call[p].rest = <<"COMMIT">> /\ call[p] # Idle
    BY <1>1, Here, AtStatement, IdleFacts DEF SimInv, At
  <1>5. /\ \A q \in Loggers \ {p} : own'[q] = own[q] /\ intx'[q] = intx[q] /\ lock'[q] = lock[q]
        /\ own'[p] = NULL
    BY <1>1, Ended DEF SimInv
  <1>6. call'[p].rest = <<"ok">> /\ \A q \in Loggers \ {p} : call'[q] = call[q]
    <2>1. <<"ok">> \in Rests
      BY DEF Rests
    <2> QED
      BY <1>1, <1>4, <2>1, GoesOn DEF SimInv
  <1>7. SimInv'
    <2>1. Only(p)
      BY <1>1, <1>5, <1>6 DEF Only
    <2> QED
      BY <1>1, <1>3, <1>5, <1>6, <2>1, FarFromCommit, OneSimStep
  <1>8. Promise!Apply(p)
    <2>1. call[p].rest # <<"ok">>
      BY <1>4
    <2> QED
      BY <1>1, <1>2, <1>4, <2>1, Applies DEF Reached
  <1> QED
    BY <1>7, <1>8 DEF Refines, Promise!Next

\* Programs that heed the note write nothing between calls, so that closing
\* an iterator commits nothing.
LEMMA IteratorsRefine ==
    ASSUME SimInv, IInv', NEW p \in Loggers,
           \/ OpenIter(p) \/ OpenAtomicIter(p) \/ CloseIter(p) \/ DrainAtomicIter(p)
           \/ CloseAtomicIter(p)
    PROVE  Refines
  <1>1. call[p] = Idle /\ UNCHANGED <<contract, damaged, call, journal, reply>>
    BY DEF OpenIter, OpenAtomicIter, CloseIter, DrainAtomicIter, CloseAtomicIter
  <1>2. ~ Wrote(p) /\ Visible(p) = db
    BY <1>1, Here, IdleFacts DEF SimInv, QuietOK, Outside, ContentOK, Visible
  <1>3. /\ db' = db /\ own'[p] \in {NULL, own[p]}
        /\ \A q \in Loggers \ {p} : /\ own'[q] = own[q] /\ lock'[q] = lock[q] /\ intx'[q] = intx[q]
                                    /\ iters'[q] = iters[q] /\ seen'[q] = seen[q]
    <2>1. CASE OpenIter(p)
      BY <2>1 DEF OpenIter, SimInv, IInv, Types
    <2>2. CASE OpenAtomicIter(p)
      BY <2>2 DEF OpenAtomicIter, SimInv, IInv, Types
    <2>3. CASE CloseIter(p)
      BY <2>3 DEF CloseIter, Finalise, SimInv, IInv, Types
    <2>4. CASE DrainAtomicIter(p)
      BY <2>4 DEF DrainAtomicIter, Finalise, SimInv, IInv, Types
    <2>5. CASE CloseAtomicIter(p)
      BY <1>2, <2>5 DEF CloseAtomicIter, Finalise, EndTransaction, SimInv, IInv, Types
    <2> QED
      BY <2>1, <2>2, <2>3, <2>4, <2>5
  <1>4. Only(p)
    BY <1>1, <1>3 DEF Only
  <1>5. SimOK(p)'
    BY <1>1, IdleFacts, FarFromCommit
  <1> QED
    BY <1>1, <1>3, <1>4, <1>5, Stuttering

LEMMA DieRefines ==
    ASSUME SimInv, IInv', NEW p \in Loggers, Die(p)
    PROVE  Refines
  <1> DEFINE calls == [q \in Loggers |-> [kind    |-> call[q].kind,
                                          ev      |-> call[q].ev,
                                          applied |-> call[q].rest = <<"ok">>]]
  <1>1. /\ call' = [call EXCEPT ![p] = Idle] /\ reply' = [reply EXCEPT ![p] = "none"]
        /\ intx' = [intx EXCEPT ![p] = FALSE] /\ lock' = [lock EXCEPT ![p] = "none"]
        /\ own' = [own EXCEPT ![p] = NULL] /\ iters' = [iters EXCEPT ![p] = {}]
        /\ journal' = [journal EXCEPT ![p] = "truncate"]
        /\ seen' = [seen EXCEPT ![p] = NoContent]
        /\ UNCHANGED <<contract, db>>
        /\ \/ damaged' = damaged
           \/ lock[p] = "exclusive" /\ journal[p] = "off" /\ damaged' = TRUE
    BY DEF Die
  <1>2. /\ Only(p) /\ call'[p] = Idle /\ own'[p] = NULL
        /\ call \in [Loggers -> {Idle} \cup Call]
    BY <1>1 DEF SimInv, IInv, Types, Only
  <1>3. ASSUME NEW q \in Loggers PROVE SimOK(q)' /\ (damaged' => ~ Wrote(q)')
    <2>1. CASE q = p
      BY <1>2, <2>1, IdleFacts, FarFromCommit DEF Wrote
    <2>2. CASE q # p
      <3>1. damaged => damaged'
        BY <1>1
      <3>2. lock[p] = "exclusive" => ~ Wrote(q)
        BY <2>2, Here DEF SimInv, IInv, LocksOK, ContentOK, Writing
      <3>3. damaged' => ~ Wrote(q)
        BY <1>1, <3>2 DEF SimInv
      <3> QED
        BY <1>1, <1>2, <2>2, <3>1, <3>3, OthersSim DEF Wrote, Only
    <2> QED
      BY <2>1, <2>2
  <1>4. SimInv'
    BY <1>1, <1>3 DEF SimInv
  <1>5. calls' = [calls EXCEPT ![p] = [kind |-> "none", ev |-> NULL, applied |-> FALSE]]
    BY <1>1, <1>2 DEF Idle
  <1>6. journal[p] = "off" => calls[p].kind \in Promise!Deletions
    BY Here DEF SimInv, JournalOK, Deletions
  <1>7. Promise!Crash(p)
    <2>1. CASE damaged' = damaged
      BY <1>1, <1>5, <2>1 DEF Promise!Crash, Promise!NoCall
    <2>2. CASE journal[p] = "off" /\ damaged' = TRUE
      BY <1>1, <1>5, <1>6, <2>2 DEF Promise!Crash, Promise!NoCall, Promise!Lost
    <2> QED
      BY <1>1, <2>1, <2>2
  <1> QED
    BY <1>4, <1>7 DEF Refines, Promise!Next

LEMMA RemakeRefines ==
    ASSUME SimInv, IInv', Remake
    PROVE  Refines
  <1>1. /\ damaged /\ \A p \in Loggers : call[p] = Idle
        /\ db' = NoContent /\ damaged' = FALSE
        /\ UNCHANGED <<contract, own, lock, intx, iters, seen, call, journal, reply>>
    BY DEF Remake
  <1>2. SimInv'
    BY <1>1, IdleFacts DEF SimInv, SimOK, At, Wrote
  <1>3. Promise!Recreate
    BY <1>1 DEF Promise!Recreate, Promise!Lost, Promise!Empty, NoContent
  <1> QED
    BY <1>2, <1>3 DEF Refines, Promise!Next

LEMMA StutteringRefines ==
    ASSUME SimInv, UNCHANGED vars
    PROVE  Refines
  <1>1. IInv'
    BY StepIInv DEF SimInv
  <1>2. \A q \in Loggers : SimOK(q)'
    BY DEF SimInv, vars, SimOK, At, Wrote, Reached
  <1>3. SimInv'
    BY <1>1, <1>2 DEF SimInv, vars, Wrote
  <1>4. UNCHANGED Promise!vars
    BY DEF vars, Promise!vars
  <1> QED
    BY <1>3, <1>4 DEF Refines

LEMMA StepRefines == SimInv /\ [Next]_vars => Refines
  <1> SUFFICES ASSUME SimInv, [Next]_vars PROVE Refines
    OBVIOUS
  <1>1. IInv'
    BY StepIInv DEF SimInv
  <1>2. ASSUME NEW p \in Loggers, Step(p) PROVE Refines
    BY <1>1, <1>2, FailuresRefine, BeginRefines, ListGroupsRefines, WriteRefines,
       WriteAloneRefines, CommitLocksRefines, CommitEndsRefines, RollbackRefines,
       FinishRefines DEF Step
  <1>3. CASE Next
    BY <1>1, <1>2, <1>3, StartRefines, IteratorsRefine, DieRefines, RemakeRefines DEF Next
  <1> QED
    BY <1>3, StutteringRefines

LEMMA InitSim == Init /\ contract /\ ~ IOFaults => SimInv /\ Promise!Init
  <1> SUFFICES ASSUME Init, contract, ~ IOFaults PROVE SimInv /\ Promise!Init
    OBVIOUS
  <1>1. IInv
    BY InitIInv
  <1>2. \A p \in Loggers : call[p] = Idle /\ ~ Wrote(p)
    BY DEF Init, Wrote
  <1>3. SimInv
    BY <1>1, <1>2, IdleFacts DEF SimInv, SimOK, At
  <1>4. Promise!Init
    BY DEF Init, Promise!Init, Promise!Empty, Promise!NoCall, NoContent, Idle
  <1> QED
    BY <1>3, <1>4

\* For programs that heed the note, and where only locks make statements fail,
\* every call takes effect at one instant, as a whole, exactly if it reports
\* success.
THEOREM CallsTakeEffectAtOnce ==
    (Spec /\ contract /\ ~ IOFaults) => CallsAreAtomic
  <1>1. Init /\ contract /\ ~ IOFaults => SimInv /\ Promise!Init
    BY InitSim
  <1>2. SimInv /\ [Next]_vars => SimInv' /\ [Promise!Next]_(Promise!vars)
    BY StepRefines DEF Refines
  <1> QED
    BY <1>1, <1>2, PTL DEF Spec, CallsAreAtomic, Promise!Spec

=============================================================================
