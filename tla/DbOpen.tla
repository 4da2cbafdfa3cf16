------------------------------ MODULE DbOpen -------------------------------
(***************************************************************************)
(* How loggers get at the database file: _ensure_db() converts the file    *)
(* of the previous format (el.db) by way of a temporary file, or leaves    *)
(* that to another process, then opens el-v1.db, removes it if it is       *)
(* corrupted and creates the schema.  The processes share a directory and  *)
(* nothing but SQLite's locks on the files, and a file that was unlinked   *)
(* or renamed stays the file of those who have it open.                    *)
(*                                                                         *)
(* Locks of ordinary statements are short and left out; a call that they   *)
(* make fail is repeated like any other.                                   *)
(***************************************************************************)
EXTENDS Integers, FiniteSets

CONSTANTS
    Loggers,  \* RTComEl objects, each in a process of its own
    Events,   \* what can be logged
    NULL,
    Worlds    \* the circumstances to consider

\* users: the loggers that are ever used; old: there is an el.db; faults:
\* processes die and statements fail; backup: sqlite3_backup_init() accepts a
\* destination with an open transaction (it does no longer).
ASSUME WorldsAssumption ==
    Worlds \subseteq [users : SUBSET Loggers, old : BOOLEAN, faults : BOOLEAN,
                      backup : BOOLEAN]

ASSUME LoggersAssumption == IsFiniteSet(Loggers) /\ NULL \notin Loggers

VARIABLES
    world,     \* what holds of this execution from the start
    main,      \* the file el-v1.db names, or 0
    temp,      \* the file el-v1.db.temp names, or 0
    content,   \* of each file: its form and its rows
    lock,      \* who holds the exclusive lock on each file, or NULL
    pc,        \* what each logger does next
    handle,    \* the file each logger has open, or 0
    repaired,  \* the logger has already removed a corrupted file
    added,     \* acknowledged events that no crash has destroyed
    torn,      \* a crash has destroyed el-v1.db
    slipped    \* a logger went on as if el.db had been converted

names == <<main, temp>>
ghosts == <<added, torn, slipped>>
vars == <<world, names, content, lock, pc, handle, repaired, ghosts>>

Files == 1..(2 + Cardinality(Loggers))
InUse == {main, temp} \cup {handle[p] : p \in Loggers}
FreeFile == CHOOSE f \in Files \ InUse : \A g \in Files \ InUse : f <= g

\* v0 is the form of el.db, v1 the one of today; mixed is a v0 database on
\* which the statements of the schema were run.
Forms == {"empty", "v0", "v1", "mixed", "torn"}
Empty == [form |-> "empty", rows |-> {}]
History == "history"

Form(p) == content[handle[p]].form
LockedOut(p) == lock[handle[p]] \notin {NULL, p}

---------------------------------------------------------------------------
(* Steps: what a logger does next, and with which file open                *)

Goto(p, l) == pc' = [pc EXCEPT ![p] = l]

\* sqlite3_close() releases the lock.
Leave(p, l) ==
    /\ Goto(p, l)
    /\ handle' = [handle EXCEPT ![p] = 0]
    /\ lock' = [f \in Files |-> IF lock[f] = p THEN NULL ELSE lock[f]]

\* sqlite3_open() creates the file if the name is free.
OpenFile(p, name) ==
    /\ handle' = [handle EXCEPT ![p] = IF name = 0 THEN FreeFile ELSE name]
    /\ content' = IF name = 0 THEN [content EXCEPT ![FreeFile] = Empty] ELSE content

Lock(p, l) ==
    /\ lock' = [lock EXCEPT ![handle[p]] = p]
    /\ Goto(p, l)
    /\ UNCHANGED handle

---------------------------------------------------------------------------
(* _ensure_db() and rtcom_el_db_convert_from_db0()                         *)

\* The files are looked at before the locks are taken.
EnsureDb(p) ==
    /\ p \in world.users /\ pc[p] = "closed"
    /\ Goto(p, IF main # 0 \/ ~ world.old THEN "open" ELSE "temp")
    /\ repaired' = [repaired EXCEPT ![p] = FALSE]
    /\ UNCHANGED <<world, names, content, lock, handle, ghosts>>

\* If el.db cannot be opened it is ignored: _ensure_db() goes on.  If the
\* temporary file cannot be opened the caller gives up.
OpenTemp(p) ==
    /\ pc[p] = "temp"
    /\ \/ /\ OpenFile(p, temp)
          /\ temp' = handle'[p]
          /\ Goto(p, "lockTemp")
          /\ UNCHANGED slipped
       \/ /\ world.faults
          /\ \/ Goto(p, "open") /\ slipped' = TRUE
             \/ Goto(p, "closed") /\ UNCHANGED slipped
          /\ UNCHANGED <<temp, content, handle>>
    /\ UNCHANGED <<world, main, lock, repaired, added, torn>>

\* BEGIN EXCLUSIVE; a locked file means that another process converts.
LockTemp(p) ==
    /\ pc[p] = "lockTemp"
    /\ IF LockedOut(p) THEN Leave(p, "closed")
       ELSE IF Form(p) = "torn" THEN Leave(p, "unlinkTemp")
       ELSE Lock(p, "backup")
    /\ UNCHANGED <<world, names, content, repaired, ghosts>>

\* A temporary file that another process left half written: start again.
UnlinkTemp(p) ==
    /\ pc[p] = "unlinkTemp"
    /\ temp' = 0
    /\ Goto(p, "closed")
    /\ UNCHANGED <<world, main, content, lock, handle, repaired, ghosts>>

\* Mutant of Backup: what cannot be copied is left out.
BackupOrNot(p) ==
    /\ pc[p] = "backup"
    /\ Goto(p, "convert")
    /\ \/ UNCHANGED content
       \/ content' = [content EXCEPT ![handle[p]] = [form |-> "v0", rows |-> {History}]]
    /\ UNCHANGED <<world, names, lock, handle, repaired, ghosts>>

\* sqlite3_backup_init(), at most 100 steps, sqlite3_backup_finish()
Backup(p) ==
    /\ pc[p] = "backup"
    /\ \/ /\ world.backup
          /\ content' = [content EXCEPT ![handle[p]] = [form |-> "v0", rows |-> {History}]]
          /\ Goto(p, "convert")
          /\ UNCHANGED <<lock, handle>>
       \/ /\ ~ world.backup \/ world.faults
          /\ Leave(p, "discard")
          /\ UNCHANGED content
    /\ UNCHANGED <<world, names, repaired, ghosts>>

\* _internal_convert_v0() with its COMMIT or ROLLBACK, and sqlite3_close()
Convert(p) ==
    /\ pc[p] = "convert"
    /\ \/ /\ content' = [content EXCEPT ![handle[p]].form = "v1"]
          /\ Leave(p, "rename")
       \/ world.faults /\ Leave(p, "discard") /\ UNCHANGED content
    /\ UNCHANGED <<world, names, repaired, ghosts>>

\* The result of g_rename() is ignored, also if another process has removed
\* the temporary file.
Rename(p) ==
    /\ pc[p] = "rename"
    /\ Goto(p, "open")
    /\ \/ /\ temp # 0
          /\ main' = temp /\ temp' = 0
          /\ UNCHANGED slipped
       \/ /\ temp = 0 \/ world.faults
          /\ slipped' = TRUE
          /\ UNCHANGED names
    /\ UNCHANGED <<world, content, lock, handle, repaired, added, torn>>

\* The caller gives up; a later call of _ensure_db() tries again.
Discard(p) ==
    /\ pc[p] = "discard"
    /\ temp' = 0
    /\ Goto(p, "closed")
    /\ UNCHANGED <<world, main, content, lock, handle, repaired, ghosts>>

---------------------------------------------------------------------------
(* _internal_open() and _handle_corrupted()                                *)

\* Mutant of Open: an empty file counts as left behind and is replaced.
OpenReplacing(p) ==
    /\ pc[p] = "open"
    /\ OpenFile(p, IF main # 0 /\ content[main] = Empty THEN 0 ELSE main)
    /\ main' = handle'[p]
    /\ Goto(p, "check")
    /\ UNCHANGED <<world, temp, lock, repaired, ghosts>>

\* sqlite3_open() may fail before it makes a file.
Open(p) ==
    /\ pc[p] = "open"
    /\ \/ /\ OpenFile(p, main)
          /\ main' = handle'[p]
          /\ Goto(p, "check")
       \/ /\ world.faults
          /\ Goto(p, "closed")
          /\ UNCHANGED <<main, content, handle>>
    /\ UNCHANGED <<world, temp, lock, repaired, ghosts>>

\* PRAGMA quick_check
QuickCheck(p) ==
    /\ pc[p] = "check"
    /\ \/ (LockedOut(p) \/ world.faults) /\ Leave(p, "closed")
       \/ ~ LockedOut(p) /\ Form(p) = "torn" /\ Leave(p, "unlinkMain")
       \/ /\ ~ LockedOut(p) /\ Form(p) # "torn"
          /\ Goto(p, "version") /\ UNCHANGED <<lock, handle>>
    /\ UNCHANGED <<world, names, content, repaired, ghosts>>

\* Whatever el-v1.db names now is removed.
UnlinkMain(p) ==
    /\ pc[p] = "unlinkMain"
    /\ main' = 0
    /\ Goto(p, IF main = 0 \/ repaired[p] THEN "closed" ELSE "open")
    /\ repaired' = [repaired EXCEPT ![p] = TRUE]
    /\ UNCHANGED <<world, temp, content, lock, handle, ghosts>>

\* PRAGMA user_version, which stays 0 if it cannot be read
Version(p) ==
    /\ pc[p] = "version"
    /\ Goto(p, IF LockedOut(p) \/ Form(p) \in {"empty", "v0", "torn"}
               THEN "schema" ELSE "opened")
    /\ UNCHANGED <<world, names, content, lock, handle, repaired, ghosts>>

\* BEGIN EXCLUSIVE for the schema: if the file is in use, somebody else has
\* installed it or is about to.
Schema(p) ==
    /\ pc[p] = "schema"
    /\ \/ LockedOut(p) /\ Goto(p, "opened") /\ UNCHANGED <<lock, handle>>
       \/ ~ LockedOut(p) /\ world.faults /\ Leave(p, "closed")
       \/ ~ LockedOut(p) /\ Form(p) = "torn" /\ Leave(p, "unlinkMain")
       \/ ~ LockedOut(p) /\ Form(p) # "torn" /\ Lock(p, "commit")
    /\ UNCHANGED <<world, names, content, repaired, ghosts>>

\* Mutant of CommitSchema: DROP TABLE instead of IF NOT EXISTS.
CommitNewTables(p) ==
    /\ pc[p] = "commit"
    /\ content' = [content EXCEPT ![handle[p]] = [form |-> "v1", rows |-> {}]]
    /\ lock' = [lock EXCEPT ![handle[p]] = NULL]
    /\ Goto(p, "opened")
    /\ UNCHANGED <<world, names, handle, repaired, ghosts>>

\* Mutant of CommitSchema: the COMMIT is forgotten.
CommitForgotten(p) ==
    /\ pc[p] = "commit"
    /\ content' = [content EXCEPT ![handle[p]].form = "v1"]
    /\ Goto(p, "opened")
    /\ UNCHANGED <<world, names, lock, handle, repaired, ghosts>>

\* CREATE ... IF NOT EXISTS and COMMIT
CommitSchema(p) ==
    /\ pc[p] = "commit"
    /\ \/ /\ content' = [content EXCEPT ![handle[p]].form =
                           IF @ = "empty" THEN "v1" ELSE IF @ = "v0" THEN "mixed" ELSE @]
          /\ lock' = [lock EXCEPT ![handle[p]] = NULL]
          /\ Goto(p, "opened")
          /\ UNCHANGED handle
       \/ world.faults /\ Leave(p, "closed") /\ UNCHANGED content
    /\ UNCHANGED <<world, names, repaired, ghosts>>

---------------------------------------------------------------------------
(* A logger with an open database, and the end of one                      *)

\* Any addition; the ids of the services come from tables of the schema.
AddEvent(p, e) ==
    /\ pc[p] = "opened" /\ ~ LockedOut(p) /\ Form(p) = "v1"
    /\ \A f \in Files : e \notin content[f].rows
    /\ content' = [content EXCEPT ![handle[p]].rows = @ \cup {e}]
    /\ added' = added \cup {e}
    /\ UNCHANGED <<world, names, lock, pc, handle, repaired, torn, slipped>>

\* Mutant of Close: the connection is leaked.
CloseLeaking(p) ==
    /\ pc[p] = "opened"
    /\ Goto(p, "closed")
    /\ UNCHANGED <<world, names, content, lock, handle, repaired, ghosts>>

\* rtcom_el_finalize()
Close(p) ==
    /\ pc[p] = "opened"
    /\ Leave(p, "closed")
    /\ UNCHANGED <<world, names, content, repaired, ghosts>>

\* A commit without a journal in the file system is cut short: of the backup,
\* the conversion, the schema, or a deletion of events.
Tears == {"backup", "convert", "commit", "opened"}

Die(p) ==
    /\ world.faults
    /\ pc[p] # "closed"
    /\ Leave(p, "closed")
    /\ \/ UNCHANGED <<content, ghosts>>
       \/ /\ pc[p] \in Tears /\ ~ LockedOut(p)
          /\ content' = [content EXCEPT ![handle[p]] = [form |-> "torn", rows |-> {}]]
          /\ added' = added \ content[handle[p]].rows
          /\ torn' = (torn \/ handle[p] = main)
          /\ UNCHANGED slipped
    /\ UNCHANGED <<world, names, repaired>>

Init ==
    /\ world \in Worlds
    /\ main = 0 /\ temp = 0
    /\ content = [f \in Files |-> Empty]
    /\ lock = [f \in Files |-> NULL]
    /\ pc = [p \in Loggers |-> "closed"]
    /\ handle = [p \in Loggers |-> 0]
    /\ repaired = [p \in Loggers |-> FALSE]
    /\ added = {} /\ torn = FALSE /\ slipped = FALSE

Progress(p) ==
    \/ EnsureDb(p) \/ OpenTemp(p) \/ LockTemp(p) \/ UnlinkTemp(p) \/ Backup(p)
    \/ Convert(p) \/ Rename(p) \/ Discard(p)
    \/ Open(p) \/ QuickCheck(p) \/ UnlinkMain(p) \/ Version(p) \/ Schema(p)
    \/ CommitSchema(p)

Next ==
    \E p \in Loggers :
       \/ Progress(p)
       \/ \E e \in Events : AddEvent(p, e)
       \/ Close(p)
       \/ Die(p)

Spec == Init /\ [][Next]_vars

\* A program calls the library again as long as it has no database.
FairSpec ==
    Spec /\ \A p \in Loggers : WF_vars(Progress(p))

---------------------------------------------------------------------------
(* Properties                                                              *)

\* The types of the variables, and which steps have a file open or locked.
TypeOK ==
    /\ world \in Worlds
    /\ main \in 0..Cardinality(Files) /\ temp \in 0..Cardinality(Files)
    /\ \A f \in Files : /\ content[f].form \in Forms
                        /\ content[f].rows \subseteq Events \cup {History}
    /\ \A f \in Files : lock[f] # NULL =>
          /\ handle[lock[f]] = f
          /\ pc[lock[f]] \in {"backup", "convert", "commit"}
    /\ \A p \in Loggers :
          (handle[p] # 0) = (pc[p] \in {"lockTemp", "backup", "convert", "check",
                                        "version", "schema", "commit", "opened"})
    /\ added \subseteq Events /\ torn \in BOOLEAN /\ slipped \in BOOLEAN

\* No acknowledged event is lost but by a crash in a commit: el-v1.db, as
\* every logger will open it, holds all of them.
AcknowledgedKept ==
    added # {} => main # 0 /\ added \subseteq content[main].rows

\* Once there is an el-v1.db it holds what was in el.db, unless a crash
\* destroyed it, or a conversion ended in one of two ways that look like
\* success: el.db could not be opened, or the new database not be renamed.
HistoryKeptOrSlipped ==
    world.old /\ main # 0 /\ ~ torn /\ ~ slipped => History \in content[main].rows

\* Comment in _ensure_db(): "If this fails for any reason, we shouldn't just
\* create a new empty db, instead we should wait": without the exception of
\* the two ways.  TLC refutes it where steps may fail.
HistoryKept ==
    world.old /\ main # 0 /\ ~ torn => History \in content[main].rows

\* All loggers that have the database open have the same file open.
SameFile ==
    \A p \in Loggers : pc[p] = "opened" => handle[p] = main

\* Comment on _internal_open(): "If the existing database is corrupted, it's
\* deleted and a new database is created"; one that is not is left alone.
OnlyCorruptedDeleted ==
    [][main # 0 /\ main' # main => content[main].form = "torn"]_vars

\* If nothing fails, every logger gets the database open, and what is in el.db
\* with it, however the loggers get in each other's way; unless another one
\* opens and closes it again and again.
EveryoneOpens ==
    ~ world.faults /\ (world.old => world.backup) =>
        \A p \in Loggers : p \in world.users =>
            \/ <>(/\ pc[p] = "opened"
                  /\ world.old => History \in content[handle[p]].rows)
            \/ \E q \in Loggers \ {p} : []<>(pc[q] = "opened") /\ []<>(pc[q] = "closed")

===========================================================================
