--------------------------- MODULE EventDetails ---------------------------
(***************************************************************************)
(* Headers and attachments: rows that belong to an event by its id alone   *)
(* (no foreign key, only the trigger fkd_headers_atts_event_id), and files *)
(* that rtcom_el_add_attachment() copies beside the database, step by step *)
(* and outside of every transaction.                                       *)
(*                                                                         *)
(* Ids of deleted events are reused, so each stored event also has a       *)
(* serial number here that no other event ever has: with it a row tells    *)
(* for which event it was meant.                                           *)
(***************************************************************************)
EXTENDS Integers, FiniteSets

CONSTANTS
    Loggers,    \* RTComEl objects, each in a process of its own
    Names,      \* header names
    NULL,
    MaxSerial,  \* bound: no more events are ever added
    MaxDirs     \* bound: no more directories are ever made

ASSUME BoundsAssumption == MaxSerial \in Nat /\ MaxDirs \in Nat
ASSUME NullAssumption == NULL \notin Loggers

VARIABLES
    events,       \* Events: id -> serial, and the details it was added with
    headers,      \* Headers
    attachments,  \* Attachments
    known,        \* the events a program has learnt of: [id, serial]
    baseDir,      \* the attachments directory exists
    dirs,         \* directories in it -> state of the file they hold
    writer,       \* the logger inside add_event_full()'s transaction, or NULL
    saved,        \* what its ROLLBACK restores
    task          \* the call each logger executes

tables == <<events, headers, attachments>>
files  == <<baseDir, dirs>>
vars == <<tables, known, files, writer, saved, task>>

Ids == 1..MaxSerial
Idle == [at |-> "idle"]
NoRows == [i \in {} |-> NULL]

\* A path in a minute's worth of names: YYYYmmddHHMM, YYYYmmddHHMM-1, ...
DirNames == 0..MaxDirs

NextId(id) == /\ \A i \in DOMAIN events : i < id
              /\ id = 1 \/ id - 1 \in DOMAIN events

\* The event with that id is not the one that was meant.
Late(k) == k.id \in DOMAIN events => events[k.id].serial # k.serial

HeaderRow(k, name)   == [event |-> k.id, name |-> name, serial |-> k.serial,
                         late |-> Late(k)]
AttachmentRow(k, dir) == [event |-> k.id, dir |-> dir, serial |-> k.serial,
                          late |-> Late(k)]

\* Headers: UNIQUE(event_id, name)
HeaderFree(id, name) == ~ \E h \in headers : h.event = id /\ h.name = name

\* A statement runs unless another process holds the exclusive lock.
Unlocked(p) == writer \in {NULL, p}

---------------------------------------------------------------------------
(* Ends of a call                                                          *)

Become(p, t) == task' = [task EXCEPT ![p] = t]
To(p, at) == task' = [task EXCEPT ![p].at = at]

\* Mutant of Restore: the ROLLBACK commits.
RestoreNothing == UNCHANGED tables

Restore == /\ events' = saved.events
           /\ headers' = saved.headers
           /\ attachments' = saved.attachments

\* Mutant of Fail: add_event_full() returns without ROLLBACK.
FailWithoutRollback(p) ==
    /\ Become(p, Idle)
    /\ UNCHANGED <<tables, known, writer, saved>>

\* A step of rtcom_el_add_attachment() or rtcom_el_add_header() fails: alone,
\* the call returns -1; inside add_event_full() the transaction is rolled
\* back, and the files copied so far stay.
Fail(p) ==
    /\ Become(p, Idle)
    /\ IF writer = p
       THEN /\ Restore
            /\ writer' = NULL
       ELSE UNCHANGED <<tables, writer>>
    /\ UNCHANGED <<known, saved>>

Proceed(p) == /\ UNCHANGED <<tables, known, writer, saved>>

---------------------------------------------------------------------------
(* rtcom_el_add_event_full() and rtcom_el_add_header()                     *)

\* BEGIN EXCLUSIVE and the INSERT of the event; rtcom_el_add_event() is the
\* same without names and attachments.
BeginFull(p, id, names, n) ==
    LET serial == Cardinality(known) + 1
        k == [id |-> id, serial |-> serial]
    IN  /\ task[p] = Idle /\ writer = NULL /\ serial <= MaxSerial
        /\ NextId(id)
        /\ writer' = p
        /\ saved' = [events |-> events, headers |-> headers,
                     attachments |-> attachments]
        /\ events' = [i \in DOMAIN events \cup {id} |->
                        IF i = id THEN [serial |-> serial, names |-> names, files |-> n]
                        ELSE events[i]]
        /\ Become(p, [at |-> IF n > 0 THEN "base" ELSE "headers", event |-> k,
                      left |-> n, names |-> names, dir |-> NULL])
        /\ UNCHANGED <<headers, attachments, known, files>>

\* The headers follow, in the order of the hash table.
FullHeader(p, name) ==
    LET t == task[p]
    IN  /\ t.at = "headers" /\ name \in t.names
        /\ UNCHANGED files
        /\ IF HeaderFree(t.event.id, name)
           THEN /\ headers' = headers \cup {HeaderRow(t.event, name)}
                /\ Become(p, [t EXCEPT !.names = @ \ {name}])
                /\ UNCHANGED <<events, attachments, known, writer, saved>>
           ELSE Fail(p)

CommitFull(p) ==
    /\ task[p].at = "headers" /\ task[p].names = {}
    /\ known' = known \cup {task[p].event}
    /\ writer' = NULL
    /\ Become(p, Idle)
    /\ UNCHANGED <<tables, files, saved>>

\* An INSERT or the COMMIT of the transaction hits a full disk.
FullFails(p) ==
    /\ writer = p /\ task[p].at \in {"headers", "insert"}
    /\ Fail(p)
    /\ UNCHANGED files

\* rtcom_el_add_header() called by itself, for an event that may be gone; a
\* header that is there already, or a lock, makes it fail without effect.
AddHeader(p, k, name) ==
    /\ task[p] = Idle /\ writer = NULL
    /\ HeaderFree(k.id, name)
    /\ headers' = headers \cup {HeaderRow(k, name)}
    /\ UNCHANGED <<events, attachments, known, files, writer, saved, task>>

---------------------------------------------------------------------------
(* rtcom_el_add_attachment()                                               *)

StartAttachment(p, k) ==
    /\ task[p] = Idle
    /\ Become(p, [at |-> "base", event |-> k, left |-> 1, names |-> {},
                  dir |-> NULL])
    /\ UNCHANGED <<tables, known, files, writer, saved>>

CheckBase(p) ==
    /\ task[p].at = "base"
    /\ To(p, IF baseDir THEN "name" ELSE "mkbase")
    /\ Proceed(p) /\ UNCHANGED files

\* g_mkdir() fails if somebody else made the directory since the check.
MakeBase(p) ==
    /\ task[p].at = "mkbase"
    /\ baseDir' = TRUE
    /\ UNCHANGED dirs
    /\ IF baseDir THEN Fail(p) ELSE To(p, "name") /\ Proceed(p)

\* _build_unique_dirname(): the first name that is not taken.
PickName(p) ==
    /\ task[p].at = "name"
    /\ \E d \in DirNames :
          /\ d \notin DOMAIN dirs
          /\ \A e \in 0..(d - 1) : e \in DOMAIN dirs
          /\ task' = [task EXCEPT ![p].dir = d, ![p].at = "mkdir"]
    /\ Proceed(p) /\ UNCHANGED files

\* Mutant of MakeDir: a directory that exists is used as if it were new.
MakeDirAnyway(p) ==
    LET d == task[p].dir
    IN  /\ task[p].at = "mkdir"
        /\ dirs' = [e \in DOMAIN dirs \cup {d} |-> IF e = d THEN "none" ELSE dirs[e]]
        /\ task' = [task EXCEPT ![p].at = "copy"]
        /\ UNCHANGED baseDir
        /\ Proceed(p)

\* "XXX: racy if you don't create the directory in the act".
MakeDir(p) ==
    LET d == task[p].dir
    IN  /\ task[p].at = "mkdir"
        /\ UNCHANGED baseDir
        /\ IF d \in DOMAIN dirs
           THEN Fail(p) /\ UNCHANGED dirs
           ELSE /\ dirs' = [e \in DOMAIN dirs \cup {d} |->
                              IF e = d THEN "none" ELSE dirs[e]]
                /\ task' = [task EXCEPT ![p].at = "copy"]
                /\ Proceed(p)

\* The source cannot be opened (no file), the copy stops at a write error or
\* at a read error, which the loop takes for the end of the file, or it is
\* complete.
Copy(p, outcome) ==
    /\ task[p].at = "copy"
    /\ dirs' = [dirs EXCEPT ![task[p].dir] = outcome]
    /\ UNCHANGED baseDir
    /\ IF outcome \in {"none", "short"} THEN Fail(p)
       ELSE To(p, "insert") /\ Proceed(p)

InsertAttachment(p) ==
    LET t == task[p]
    IN  /\ t.at = "insert" /\ Unlocked(p)
        /\ attachments' = attachments \cup {AttachmentRow(t.event, t.dir)}
        /\ Become(p, IF writer # p THEN Idle
                     ELSE [t EXCEPT !.left = @ - 1, !.dir = NULL,
                                    !.at = IF t.left > 1 THEN "base" ELSE "headers"])
        /\ UNCHANGED <<events, headers, known, files, writer, saved>>

\* The INSERT of a call by itself fails: the database stays locked.
InsertFails(p) ==
    /\ task[p].at = "insert" /\ writer # p
    /\ Fail(p)
    /\ UNCHANGED files

---------------------------------------------------------------------------
(* The rest of the world                                                   *)

\* Mutant of DeleteEvents: without the trigger fkd_headers_atts_event_id.
DeleteEventsAlone(ids) ==
    /\ writer = NULL
    /\ events' = [i \in DOMAIN events \ ids |-> events[i]]
    /\ UNCHANGED <<headers, attachments, known, files, writer, saved, task>>

\* Any of the calls that delete events, with the trigger; files stay.
DeleteEvents(ids) ==
    /\ writer = NULL
    /\ events' = [i \in DOMAIN events \ ids |-> events[i]]
    /\ headers' = {h \in headers : h.event \notin ids \cap DOMAIN events}
    /\ attachments' = {a \in attachments : a.event \notin ids \cap DOMAIN events}
    /\ UNCHANGED <<known, files, writer, saved, task>>

\* The process dies; the journal undoes its transaction.
Die(p) ==
    /\ task[p] # Idle
    /\ Become(p, Idle)
    /\ IF writer = p THEN Restore /\ writer' = NULL
                     ELSE UNCHANGED <<tables, writer>>
    /\ UNCHANGED <<known, files, saved>>

Init ==
    /\ events = NoRows /\ headers = {} /\ attachments = {}
    /\ known = {}
    /\ baseDir = FALSE /\ dirs = NoRows
    /\ writer = NULL
    /\ saved = [events |-> NoRows, headers |-> {}, attachments |-> {}]
    /\ task = [p \in Loggers |-> Idle]

Outcomes == {"none", "short", "cut", "full"}

Next ==
    \/ \E p \in Loggers :
          \/ \E id \in Ids, names \in SUBSET Names, n \in 0..1 :
                BeginFull(p, id, names, n)
          \/ \E name \in Names : FullHeader(p, name)
          \/ CommitFull(p) \/ FullFails(p)
          \/ \E k \in known : StartAttachment(p, k)
          \/ \E k \in known, name \in Names : AddHeader(p, k, name)
          \/ CheckBase(p) \/ MakeBase(p) \/ PickName(p) \/ MakeDir(p)
          \/ \E outcome \in Outcomes : Copy(p, outcome)
          \/ InsertAttachment(p) \/ InsertFails(p)
          \/ Die(p)
    \/ \E ids \in SUBSET Ids : DeleteEvents(ids)

Spec == Init /\ [][Next]_vars

---------------------------------------------------------------------------
(* Properties                                                              *)

\* The columns keep their types, and the transaction of add_event_full() is
\* open exactly while its logger is in the call.
TypeOK ==
    /\ DOMAIN events \subseteq Ids
    /\ \A i \in DOMAIN events :
          events[i] \in [serial : Ids, names : SUBSET Names, files : 0..1]
    /\ headers \subseteq [event : Ids, name : Names, serial : Ids, late : BOOLEAN]
    /\ attachments \subseteq [event : Ids, dir : DirNames, serial : Ids,
                              late : BOOLEAN]
    /\ known \subseteq [id : Ids, serial : Ids]
    /\ DOMAIN dirs \subseteq DirNames
    /\ \A d \in DOMAIN dirs : dirs[d] \in Outcomes
    /\ writer \in Loggers => task[writer] # Idle

\* Every attachment has a file of its own, which no failed copy left behind
\* (a copy cut off by a read error counts as complete in the code).
AttachmentsHaveFiles ==
    /\ \A a \in attachments : a.dir \in DOMAIN dirs /\ dirs[a.dir] \in {"full", "cut"}
    /\ \A a, b \in attachments : a.dir = b.dir => a = b

\* A header or attachment that was added while its event was stored lives as
\* long as the event, and is never inherited by another event with the id.
DetailsGoWithTheirEvent ==
    \A row \in headers \cup attachments : ~ row.late =>
        /\ row.event \in DOMAIN events
        /\ events[row.event].serial = row.serial

\* Outside the transaction an event has all the headers and attachments it
\* was added with.
FullEventsAreComplete ==
    writer = NULL => \A i \in DOMAIN events :
        LET own == events[i].serial
        IN  /\ \A name \in events[i].names :
                  \E h \in headers : h.event = i /\ h.name = name /\ h.serial = own
            /\ events[i].files <=
                  Cardinality({a \in attachments : a.event = i /\ a.serial = own})

===========================================================================
