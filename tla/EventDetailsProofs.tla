------------------------- MODULE EventDetailsProofs -------------------------
(***************************************************************************)
(* What EventDetails keeps, for any loggers, header names and bounds: that *)
(* attachments do not share files, that details are not inherited with an  *)
(* id, and that an event added in full is complete.                        *)
(***************************************************************************)
EXTENDS EventDetails, TLAPS, FiniteSetTheorems, FunctionTheorems

---------------------------------------------------------------------------
(* The inductive invariant, in parts                                       *)

EventKey == [id : Ids, serial : Ids]
Steps == {"base", "mkbase", "name", "mkdir", "copy", "insert", "headers"}
Call == [at : Steps, event : EventKey, left : 0..1, names : SUBSET Names,
         dir : DirNames \cup {NULL}]

TablesOK(ev, hd, at) ==
    /\ DOMAIN ev \subseteq Ids
    /\ \A i \in DOMAIN ev : ev[i] \in [serial : Ids, names : SUBSET Names, files : 0..1]
    /\ hd \subseteq [event : Ids, name : Names, serial : Ids, late : BOOLEAN]
    /\ at \subseteq [event : Ids, dir : DirNames, serial : Ids, late : BOOLEAN]

Types ==
    /\ TablesOK(events, headers, attachments)
    /\ known \subseteq EventKey
    /\ baseDir \in BOOLEAN
    /\ DOMAIN dirs \subseteq DirNames
    /\ \A d \in DOMAIN dirs : dirs[d] \in Outcomes
    /\ writer \in Loggers \cup {NULL}
    /\ task \in [Loggers -> {Idle} \cup Call]

\* How far a call has come, and which one is in the transaction.
CallOK(p) ==
    /\ task[p].at = "headers" => writer = p /\ task[p].left = 0
    /\ task[p].at \notin {"headers", "idle"} => task[p].left = 1
    /\ task[p].at \in {"mkdir", "copy", "insert"} => task[p].dir \in DirNames
    /\ writer = p => task[p] # Idle

\* The directory a copy is in belongs to one call, and to no attachment yet.
Copying(p) == task[p].at \in {"copy", "insert"}
FilesOK ==
    /\ \A p \in Loggers : Copying(p) => task[p].dir \in DOMAIN dirs
    /\ \A p \in Loggers : task[p].at = "insert" => dirs[task[p].dir] \in {"full", "cut"}
    /\ \A p, q \in Loggers : Copying(p) /\ Copying(q) /\ p # q => task[p].dir # task[q].dir
    /\ \A p \in Loggers : Copying(p) => \A a \in attachments : a.dir # task[p].dir
    /\ AttachmentsHaveFiles

\* Rows that are not late belong to the event that is stored.
Belong(ev, rows) ==
    \A row \in rows : ~ row.late => row.event \in DOMAIN ev /\ ev[row.event].serial = row.serial

HasHeader(ev, hd, i, name) == \E h \in hd : h.event = i /\ h.name = name /\ h.serial = ev[i].serial
HasFile(ev, at, i) == \E a \in at : a.event = i /\ a.serial = ev[i].serial
Whole(ev, hd, at, i) ==
    /\ \A name \in ev[i].names : HasHeader(ev, hd, i, name)
    /\ ev[i].files # 0 => HasFile(ev, at, i)

\* What a ROLLBACK would restore.
SavedOK ==
    writer # NULL =>
        /\ TablesOK(saved.events, saved.headers, saved.attachments)
        /\ Belong(saved.events, saved.headers \cup saved.attachments)
        /\ \A i \in DOMAIN saved.events :
              Whole(saved.events, saved.headers, saved.attachments, i)
        /\ saved.attachments \subseteq attachments

\* All events are complete but the one that is being added, which lacks what
\* its call has yet to insert.
WholeOK ==
    \A i \in DOMAIN events :
        \/ Whole(events, headers, attachments, i)
        \/ /\ writer # NULL /\ i = task[writer].event.id
           /\ events[i].serial = task[writer].event.serial
           /\ \A name \in events[i].names \ task[writer].names :
                 HasHeader(events, headers, i, name)
           /\ task[writer].left = 0 /\ events[i].files # 0 => HasFile(events, attachments, i)

IInv ==
    /\ Types
    /\ \A p \in Loggers : CallOK(p)
    /\ FilesOK
    /\ Belong(events, headers \cup attachments)
    /\ SavedOK
    /\ WholeOK

---------------------------------------------------------------------------

LEMMA IdleAt == Idle.at = "idle" /\ \A c \in Call : c # Idle /\ c.at \in Steps
  BY DEF Idle, Call, Steps

LEMMA InitIInv == Init => IInv
  <1> SUFFICES ASSUME Init PROVE IInv
    OBVIOUS
  <1>1. Types
    BY DEF Init, Types, TablesOK, NoRows
  <1>2. \A p \in Loggers : CallOK(p)
    BY NullAssumption, IdleAt DEF Init, CallOK
  <1>3. FilesOK
    BY IdleAt DEF Init, FilesOK, Copying, AttachmentsHaveFiles
  <1> QED
    BY <1>1, <1>2, <1>3 DEF Init, IInv, Belong, SavedOK, WholeOK, NoRows

\* Files are only added, or written in the directory of a call.
FilesOf(p) ==
    /\ baseDir' \in BOOLEAN
    /\ DOMAIN dirs \subseteq DOMAIN dirs' /\ DOMAIN dirs' \subseteq DirNames
    /\ \A d \in DOMAIN dirs' : dirs'[d] \in Outcomes
    /\ \A d \in DOMAIN dirs : dirs'[d] = dirs[d] \/ (Copying(p) /\ d = task[p].dir)

\* A call ends, or fails outside of the transaction: no table changes.
LEMMA EndIInv ==
    ASSUME IInv, NEW p \in Loggers, writer # p, Become(p, Idle), FilesOf(p),
           UNCHANGED <<tables, known, writer, saved>>
    PROVE  IInv'
  <1>1. /\ task' = [task EXCEPT ![p] = Idle] /\ task \in [Loggers -> {Idle} \cup Call]
        /\ UNCHANGED <<events, headers, attachments>>
    BY DEF Become, IInv, Types, tables
  <1>2. Types'
    BY <1>1 DEF IInv, Types, FilesOf
  <1>3. \A q \in Loggers : CallOK(q)'
    BY <1>1, IdleAt DEF IInv, CallOK
  <1>4. FilesOK'
    BY <1>1, IdleAt DEF IInv, FilesOK, FilesOf, Copying, AttachmentsHaveFiles
  <1>5. WholeOK'
    BY <1>1 DEF IInv, WholeOK, Types
  <1> QED
    BY <1>1, <1>2, <1>3, <1>4, <1>5 DEF IInv, SavedOK

\* The transaction is rolled back; files that were copied stay.
LEMMA RollbackIInv ==
    ASSUME IInv, NEW p \in Loggers, writer = p, Become(p, Idle), FilesOf(p),
           Restore, writer' = NULL, UNCHANGED known
    PROVE  IInv'
  <1>1. /\ task' = [task EXCEPT ![p] = Idle] /\ task \in [Loggers -> {Idle} \cup Call]
        /\ events' = saved.events /\ headers' = saved.headers
        /\ attachments' = saved.attachments /\ saved.attachments \subseteq attachments
        /\ TablesOK(events, headers, attachments)'
    BY NullAssumption DEF Become, Restore, IInv, Types, SavedOK
  <1>2. Types'
    BY <1>1 DEF IInv, Types, FilesOf
  <1>3. \A q \in Loggers : CallOK(q)'
    BY <1>1, NullAssumption, IdleAt DEF IInv, CallOK
  <1>4. FilesOK'
    BY <1>1, IdleAt DEF IInv, FilesOK, FilesOf, Copying, AttachmentsHaveFiles
  <1>5. Belong(events, headers \cup attachments)'
    BY <1>1, NullAssumption DEF IInv, SavedOK, Belong
  <1>6. WholeOK'
    BY <1>1, NullAssumption DEF IInv, SavedOK, WholeOK, Whole, HasHeader, HasFile
  <1> QED
    BY <1>1, <1>2, <1>3, <1>4, <1>5, <1>6 DEF IInv, SavedOK

LEMMA FailIInv ==
    ASSUME IInv, NEW p \in Loggers, Fail(p), FilesOf(p)
    PROVE  IInv'
  BY EndIInv, RollbackIInv DEF Fail

\* A call goes on, and has done nothing to the tables.
LEMMA MoveIInv ==
    ASSUME IInv, NEW p \in Loggers, NEW c \in Call,
           Become(p, c), UNCHANGED <<tables, known, writer, saved>>,
           writer = p => /\ c.event = task[p].event /\ c.names = task[p].names
                         /\ task[p].left = 1,
           c.left = 1, c.at # "headers",
           c.at \in {"mkdir", "copy", "insert"} => c.dir \in DirNames,
           FilesOf(p), FilesOK'
    PROVE  IInv'
  <1>1. /\ task' = [task EXCEPT ![p] = c] /\ task \in [Loggers -> {Idle} \cup Call]
        /\ UNCHANGED <<events, headers, attachments>>
    BY DEF Become, IInv, Types, tables
  <1>2. Types'
    BY <1>1 DEF IInv, Types, FilesOf
  <1>3. \A q \in Loggers : CallOK(q)'
    BY <1>1, IdleAt DEF IInv, CallOK
  <1>4. WholeOK'
    BY <1>1 DEF IInv, WholeOK, Types
  <1> QED
    BY <1>1, <1>2, <1>3, <1>4 DEF IInv, SavedOK

\* A call has its record as long as it runs.
LEMMA CallHasRecord ==
    ASSUME IInv, NEW p \in Loggers, task[p].at # "idle"
    PROVE  task[p] \in Call /\ task[p] # Idle
  BY IdleAt DEF IInv, Types

\* A record of a call that has a file to add, with one field changed.
LEMMA NextRecord ==
    ASSUME IInv, NEW p \in Loggers, task[p].at \notin {"idle", "headers"},
           NEW at \in Steps
    PROVE  LET c == [task[p] EXCEPT !.at = at]
           IN  /\ c \in Call /\ c.at = at /\ c.event = task[p].event /\ c.dir = task[p].dir
               /\ c.names = task[p].names /\ c.left = task[p].left /\ task[p].left = 1
  <1>1. task[p] \in Call /\ task[p].left = 1
    BY CallHasRecord DEF IInv, CallOK
  <1> QED
    BY <1>1 DEF Call

---------------------------------------------------------------------------
(* The steps                                                               *)

LEMMA BeginIInv ==
    ASSUME IInv, NEW p \in Loggers, NEW id \in Ids, NEW names \in SUBSET Names,
           NEW n \in 0..1, BeginFull(p, id, names, n)
    PROVE  IInv'
  <1> DEFINE serial == Cardinality(known) + 1
             c == [at |-> IF n > 0 THEN "base" ELSE "headers",
                   event |-> [id |-> id, serial |-> serial],
                   left |-> n, names |-> names, dir |-> NULL]
  <1>1. /\ task[p] = Idle /\ writer = NULL /\ serial <= MaxSerial
        /\ \A i \in DOMAIN events : i < id
        /\ writer' = p
        /\ saved' = [events |-> events, headers |-> headers, attachments |-> attachments]
        /\ events' = [i \in DOMAIN events \cup {id} |->
                        IF i = id THEN [serial |-> serial, names |-> names, files |-> n]
                        ELSE events[i]]
        /\ task' = [task EXCEPT ![p] = c]
        /\ UNCHANGED <<headers, attachments, known, baseDir, dirs>>
    BY DEF BeginFull, NextId, Become, files
  <1>2. serial \in Ids
    <2>1. IsFiniteSet(EventKey)
      <3>1. IsFiniteSet(Ids)
        BY FS_Interval, BoundsAssumption DEF Ids
      <3>2. IsFiniteSet(Ids \X Ids)
        BY <3>1, FS_Product
      <3> DEFINE f == [k \in Ids \X Ids |-> [id |-> k[1], serial |-> k[2]]]
      <3>3. f \in Surjection(Ids \X Ids, EventKey)
        <4>1. f \in [Ids \X Ids -> EventKey]
          BY DEF EventKey
        <4>2. \A k \in EventKey : <<k.id, k.serial>> \in Ids \X Ids /\ f[<<k.id, k.serial>>] = k
          BY DEF EventKey
        <4> QED
          BY <4>1, <4>2, Fun_IsSurj
      <3> QED
        BY <3>2, <3>3, FS_Surjection
    <2>2. Cardinality(known) \in Nat
      BY <2>1, FS_Subset, FS_CardinalityType DEF IInv, Types
    <2> QED
      BY <1>1, <2>2, BoundsAssumption DEF Ids
  <1> HIDE DEF serial
  <1>3. c \in Call /\ c # Idle /\ c.event.id = id /\ c.event.serial = serial /\ c.names = names
        /\ c.left = n /\ c.at = (IF n > 0 THEN "base" ELSE "headers")
    BY <1>2, IdleAt DEF Call, EventKey, Steps
  <1> HIDE DEF c
  <1>4. id \notin DOMAIN events
    BY <1>1 DEF Ids
  <1>5. Types'
    BY <1>1, <1>2, <1>3 DEF IInv, Types, TablesOK
  <1>6. \A q \in Loggers : CallOK(q)'
    BY <1>1, <1>3, NullAssumption DEF IInv, Types, CallOK
  <1>7. FilesOK'
    BY <1>1, <1>3 DEF IInv, Types, FilesOK, Copying, AttachmentsHaveFiles
  <1>8. Belong(events, headers \cup attachments)'
    BY <1>1, <1>4 DEF IInv, Belong
  <1>9. \A i \in DOMAIN events : Whole(events, headers, attachments, i)
    BY <1>1 DEF IInv, WholeOK
  <1>10. SavedOK'
    BY <1>1, <1>9 DEF IInv, Types, SavedOK
  <1>11. WholeOK'
    <2>1. task'[p] = c
      BY <1>1 DEF IInv, Types
    <2>2. \A i \in DOMAIN events : events'[i] = events[i] /\ i # id
      BY <1>1, <1>4
    <2>3. events'[id] = [serial |-> serial, names |-> names, files |-> n]
          /\ DOMAIN events' = DOMAIN events \cup {id}
      BY <1>1
    <2>4. \A i \in DOMAIN events : Whole(events, headers, attachments, i)'
      BY <1>1, <1>9, <2>2 DEF Whole, HasHeader, HasFile
    <2> QED
      BY <1>1, <1>3, <2>1, <2>3, <2>4, NullAssumption DEF WholeOK
  <1> QED
    BY <1>5, <1>6, <1>7, <1>8, <1>10, <1>11 DEF IInv

LEMMA StartIInv ==
    ASSUME IInv, NEW p \in Loggers, NEW k \in known, StartAttachment(p, k)
    PROVE  IInv'
  <1> DEFINE c == [at |-> "base", event |-> k, left |-> 1, names |-> {}, dir |-> NULL]
  <1>1. /\ task[p] = Idle /\ Become(p, c)
        /\ UNCHANGED <<tables, known, writer, saved>> /\ UNCHANGED <<baseDir, dirs>>
    BY DEF StartAttachment, files
  <1>2. c \in Call /\ c.at = "base" /\ c.left = 1
    BY DEF Call, Steps, IInv, Types
  <1> HIDE DEF c
  <1>3. writer # p
    BY <1>1 DEF IInv, CallOK
  <1>4. FilesOf(p)
    BY <1>1 DEF IInv, Types, FilesOf
  <1>5. FilesOK'
    BY <1>1, <1>2 DEF IInv, Types, FilesOK, Copying, AttachmentsHaveFiles, Become, tables
  <1> QED
    BY <1>1, <1>2, <1>3, <1>4, <1>5, MoveIInv

LEMMA CheckBaseIInv ==
    ASSUME IInv, NEW p \in Loggers, CheckBase(p)
    PROVE  IInv'
  <1>1. PICK at \in {"name", "mkbase"} : Become(p, [task[p] EXCEPT !.at = at])
    BY DEF CheckBase, To, Become
  <1> DEFINE c == [task[p] EXCEPT !.at = at]
  <1>2. /\ task[p].at = "base" /\ Become(p, c)
        /\ UNCHANGED <<tables, known, writer, saved>> /\ UNCHANGED <<baseDir, dirs>>
    BY <1>1 DEF CheckBase, Proceed, files
  <1>3. /\ c \in Call /\ c.at \in {"name", "mkbase"} /\ c.event = task[p].event
        /\ c.names = task[p].names /\ c.left = task[p].left /\ task[p].left = 1
    <2>1. at \in Steps /\ task[p].at \notin {"idle", "headers"}
      BY <1>2 DEF Steps
    <2>2. task[p] \in Call /\ task[p].left = 1
      BY <1>2, CallHasRecord DEF IInv, CallOK
    <2> QED
      BY <2>1, <2>2 DEF Call
  <1> HIDE DEF c
  <1>4. FilesOf(p)
    BY <1>2 DEF IInv, Types, FilesOf
  <1>5. FilesOK'
    BY <1>2, <1>3 DEF IInv, Types, FilesOK, Copying, AttachmentsHaveFiles, Become, tables
  <1> QED
    BY <1>2, <1>3, <1>4, <1>5, MoveIInv

LEMMA MakeBaseIInv ==
    ASSUME IInv, NEW p \in Loggers, MakeBase(p)
    PROVE  IInv'
  <1> DEFINE c == [task[p] EXCEPT !.at = "name"]
  <1>1. task[p].at = "mkbase" /\ baseDir' = TRUE /\ dirs' = dirs
    BY DEF MakeBase
  <1>2. FilesOf(p)
    BY <1>1 DEF IInv, Types, FilesOf
  <1>3. CASE baseDir
    BY <1>2, <1>3, FailIInv DEF MakeBase
  <1>4. CASE ~baseDir
    <2>1. Become(p, c) /\ UNCHANGED <<tables, known, writer, saved>>
      BY <1>4 DEF MakeBase, Proceed, To, Become
    <2>2. /\ c \in Call /\ c.at = "name" /\ c.event = task[p].event
          /\ c.names = task[p].names /\ c.left = task[p].left /\ task[p].left = 1
      BY <1>1, NextRecord DEF Steps
    <2> HIDE DEF c
    <2>3. FilesOK'
      BY <1>1, <2>1, <2>2 DEF IInv, Types, FilesOK, Copying, AttachmentsHaveFiles, Become, tables
    <2> QED
      BY <1>2, <2>1, <2>2, <2>3, MoveIInv
  <1> QED
    BY <1>3, <1>4

LEMMA PickNameIInv ==
    ASSUME IInv, NEW p \in Loggers, PickName(p)
    PROVE  IInv'
  <1>1. PICK d \in DirNames : task' = [task EXCEPT ![p].dir = d, ![p].at = "mkdir"]
    BY DEF PickName
  <1> DEFINE c == [task[p] EXCEPT !.dir = d, !.at = "mkdir"]
  <1>2. /\ task[p].at = "name" /\ Become(p, c)
        /\ UNCHANGED <<tables, known, writer, saved>> /\ UNCHANGED <<baseDir, dirs>>
    BY <1>1 DEF PickName, Proceed, Become, files, IInv, Types
  <1>3. /\ c \in Call /\ c.at = "mkdir" /\ c.event = task[p].event /\ c.dir = d
        /\ c.names = task[p].names /\ c.left = task[p].left /\ task[p].left = 1
    <2>1. task[p] \in Call /\ task[p].left = 1
      BY <1>2, CallHasRecord DEF IInv, CallOK
    <2> QED
      BY <2>1 DEF Call, Steps
  <1> HIDE DEF c
  <1>4. FilesOf(p)
    BY <1>2 DEF IInv, Types, FilesOf
  <1>5. FilesOK'
    BY <1>2, <1>3 DEF IInv, Types, FilesOK, Copying, AttachmentsHaveFiles, Become, tables
  <1> QED
    BY <1>2, <1>3, <1>4, <1>5, MoveIInv

LEMMA MakeDirIInv ==
    ASSUME IInv, NEW p \in Loggers, MakeDir(p)
    PROVE  IInv'
  <1> DEFINE d == task[p].dir
             c == [task[p] EXCEPT !.at = "copy"]
  <1>1. task[p].at = "mkdir" /\ baseDir' = baseDir /\ d \in DirNames
    BY DEF MakeDir, IInv, CallOK
  <1>2. CASE d \in DOMAIN dirs
    <2>1. FilesOf(p)
      BY <1>1, <1>2 DEF MakeDir, FilesOf, IInv, Types
    <2> QED
      BY <1>2, <2>1, FailIInv DEF MakeDir
  <1>3. CASE d \notin DOMAIN dirs
    <2>1. /\ Become(p, c) /\ UNCHANGED <<tables, known, writer, saved>>
          /\ dirs' = [e \in DOMAIN dirs \cup {d} |-> IF e = d THEN "none" ELSE dirs[e]]
      BY <1>3 DEF MakeDir, Proceed, Become
    <2>2. /\ c \in Call /\ c.at = "copy" /\ c.event = task[p].event /\ c.dir = d
          /\ c.names = task[p].names /\ c.left = task[p].left /\ task[p].left = 1
      BY <1>1, NextRecord DEF Steps
    <2> HIDE DEF c
    <2>3. /\ DOMAIN dirs' = DOMAIN dirs \cup {d} /\ dirs'[d] = "none"
          /\ \A e \in DOMAIN dirs : dirs'[e] = dirs[e] /\ e # d
      BY <1>3, <2>1
    <2>4. FilesOf(p)
      BY <1>1, <2>3 DEF FilesOf, IInv, Types, Outcomes
    <2>5. FilesOK'
      <3>1. /\ task' = [task EXCEPT ![p] = c] /\ task \in [Loggers -> {Idle} \cup Call]
            /\ attachments' = attachments
        BY <2>1 DEF Become, IInv, Types, tables
      <3>2. /\ \A q \in Loggers : Copying(q) => task[q].dir \in DOMAIN dirs
            /\ \A a \in attachments : a.dir \in DOMAIN dirs
        BY DEF IInv, FilesOK, AttachmentsHaveFiles
      <3>3. /\ task'[p].dir = d /\ task'[p].at = "copy"
            /\ \A q \in Loggers : q # p => task'[q] = task[q]
        BY <2>2, <3>1
      <3> HIDE DEF d
      <3>4. \A q \in Loggers : Copying(q)' /\ q # p => task'[q].dir # d /\ Copying(q)
        BY <1>3, <3>2, <3>3 DEF Copying
      <3>5. AttachmentsHaveFiles'
        BY <2>3, <3>1, <3>2 DEF IInv, FilesOK, AttachmentsHaveFiles
      <3> QED
        BY <1>3, <2>3, <3>1, <3>2, <3>3, <3>4, <3>5 DEF IInv, FilesOK, Copying
    <2> QED
      BY <2>1, <2>2, <2>4, <2>5, <1>1, MoveIInv
  <1> QED
    BY <1>2, <1>3

LEMMA CopyIInv ==
    ASSUME IInv, NEW p \in Loggers, NEW outcome \in Outcomes, Copy(p, outcome)
    PROVE  IInv'
  <1> DEFINE d == task[p].dir
             c == [task[p] EXCEPT !.at = "insert"]
  <1>1. /\ task[p].at = "copy" /\ baseDir' = baseDir /\ d \in DirNames /\ d \in DOMAIN dirs
        /\ dirs' = [dirs EXCEPT ![d] = outcome]
    BY DEF Copy, IInv, CallOK, FilesOK, Copying
  <1>2. FilesOf(p)
    BY <1>1 DEF FilesOf, Copying, IInv, Types
  <1>3. CASE outcome \in {"none", "short"}
    BY <1>2, <1>3, FailIInv DEF Copy
  <1>4. CASE outcome \notin {"none", "short"}
    <2>1. /\ Become(p, c) /\ UNCHANGED <<tables, known, writer, saved>>
      BY <1>4 DEF Copy, Proceed, To, Become
    <2>2. /\ c \in Call /\ c.at = "insert" /\ c.event = task[p].event /\ c.dir = d
          /\ c.names = task[p].names /\ c.left = task[p].left /\ task[p].left = 1
      BY <1>1, NextRecord DEF Steps
    <2> HIDE DEF c
    <2>3. /\ DOMAIN dirs' = DOMAIN dirs /\ dirs'[d] \in {"full", "cut"}
          /\ \A e \in DOMAIN dirs : e # d => dirs'[e] = dirs[e]
      BY <1>1, <1>4 DEF Outcomes
    <2>4. FilesOK'
      <3>1. /\ task' = [task EXCEPT ![p] = c] /\ task \in [Loggers -> {Idle} \cup Call]
            /\ attachments' = attachments
        BY <2>1 DEF Become, IInv, Types, tables
      <3>2. /\ task'[p].dir = d /\ task'[p].at = "insert"
            /\ \A q \in Loggers : q # p => task'[q] = task[q]
        BY <2>2, <3>1
      <3>3. /\ \A q \in Loggers : Copying(q) /\ q # p => task[q].dir # d
            /\ \A a \in attachments : a.dir # d
        BY <1>1 DEF IInv, FilesOK, Copying
      <3> HIDE DEF d
      <3>4. AttachmentsHaveFiles'
        BY <2>3, <3>1, <3>3 DEF IInv, FilesOK, AttachmentsHaveFiles
      <3> QED
        BY <1>1, <2>3, <3>1, <3>2, <3>3, <3>4 DEF IInv, FilesOK, Copying
    <2> QED
      BY <1>2, <1>1, <2>1, <2>2, <2>4, MoveIInv
  <1> QED
    BY <1>3, <1>4

\* A row says truly whether its event is stored.
LEMMA LateIsTrue ==
    ASSUME NEW k \in EventKey
    PROVE  /\ Late(k) \in BOOLEAN
           /\ ~Late(k) => k.id \in DOMAIN events /\ events[k.id].serial = k.serial
  <1>1. ASSUME NEW A \in BOOLEAN, NEW B \in BOOLEAN PROVE (A => B) \in BOOLEAN
    OBVIOUS
  <1> QED
    BY <1>1 DEF Late

LEMMA HeaderTellsTheTruth ==
    ASSUME NEW k \in EventKey, NEW name \in Names
    PROVE  LET h == HeaderRow(k, name)
           IN  /\ h \in [event : Ids, name : Names, serial : Ids, late : BOOLEAN]
               /\ h.event = k.id /\ h.name = name /\ h.serial = k.serial
               /\ Belong(events, {h})
  <1>1. k.id \in Ids /\ k.serial \in Ids
    BY DEF EventKey
  <1> QED
    BY <1>1, LateIsTrue DEF HeaderRow, Belong

LEMMA AttachmentTellsTheTruth ==
    ASSUME NEW k \in EventKey, NEW d \in DirNames
    PROVE  LET a == AttachmentRow(k, d)
           IN  /\ a \in [event : Ids, dir : DirNames, serial : Ids, late : BOOLEAN]
               /\ a.event = k.id /\ a.dir = d /\ a.serial = k.serial
               /\ Belong(events, {a})
  <1>1. k.id \in Ids /\ k.serial \in Ids
    BY DEF EventKey
  <1> QED
    BY <1>1, LateIsTrue DEF AttachmentRow, Belong

\* An event that is complete stays so when rows are added.
LEMMA MoreRows ==
    ASSUME NEW hd, NEW at, headers \subseteq hd, attachments \subseteq at, NEW i,
           Whole(events, headers, attachments, i)
    PROVE  Whole(events, hd, at, i)
  BY DEF Whole, HasHeader, HasFile

LEMMA FullHeaderIInv ==
    ASSUME IInv, NEW p \in Loggers, NEW name \in Names, FullHeader(p, name)
    PROVE  IInv'
  <1> DEFINE k == task[p].event
             row == HeaderRow(k, name)
             c == [task[p] EXCEPT !.names = @ \ {name}]
  <1>1. /\ task[p].at = "headers" /\ writer = p /\ task[p].left = 0
        /\ UNCHANGED <<baseDir, dirs>> /\ task[p] \in Call
    BY CallHasRecord DEF FullHeader, files, IInv, CallOK
  <1>2. CASE ~HeaderFree(k.id, name)
    BY <1>1, <1>2, FailIInv DEF FullHeader, FilesOf, IInv, Types
  <1>3. CASE HeaderFree(k.id, name)
    <2>1. /\ headers' = headers \cup {row} /\ task' = [task EXCEPT ![p] = c]
          /\ UNCHANGED <<events, attachments, known, writer, saved>>
      BY <1>3 DEF FullHeader, Become
    <2>2. /\ c \in Call /\ c.at = "headers" /\ c.event = k
          /\ c.names = task[p].names \ {name} /\ c.left = 0
      BY <1>1 DEF Call
    <2>3. k \in EventKey
      BY <1>1 DEF Call
    <2>4. /\ row \in [event : Ids, name : Names, serial : Ids, late : BOOLEAN]
          /\ row.event = k.id /\ row.name = name /\ row.serial = k.serial
          /\ Belong(events, {row})
      BY <2>3, HeaderTellsTheTruth
    <2> HIDE DEF c, row
    <2>5. task'[p] = c /\ \A q \in Loggers : q # p => task'[q] = task[q]
      BY <2>1 DEF IInv, Types
    <2>6. Types'
      BY <1>1, <2>1, <2>2, <2>4 DEF IInv, Types, TablesOK
    <2>7. \A q \in Loggers : CallOK(q)'
      BY <1>1, <2>1, <2>2, <2>5, IdleAt DEF IInv, CallOK
    <2>8. FilesOK'
      BY <1>1, <2>1, <2>2, <2>5 DEF IInv, FilesOK, Copying, AttachmentsHaveFiles
    <2>9. Belong(events, headers \cup attachments)'
      BY <2>1, <2>4 DEF IInv, Belong
    <2>10. SavedOK'
      BY <2>1 DEF IInv, SavedOK
    <2>11. ASSUME NEW i \in DOMAIN events'
           PROVE  \/ Whole(events, headers, attachments, i)'
                  \/ /\ writer' # NULL /\ i = task'[writer'].event.id
                     /\ events'[i].serial = task'[writer'].event.serial
                     /\ \A n \in events'[i].names \ task'[writer'].names :
                           HasHeader(events', headers', i, n)
                     /\ task'[writer'].left = 0 /\ events'[i].files # 0 =>
                           HasFile(events', attachments', i)
      <3>1. CASE Whole(events, headers, attachments, i)
        <4>1. Whole(events, headers', attachments', i)
          BY <2>1, <3>1, MoreRows
        <4> QED
          BY <2>1, <4>1
      <3>2. CASE ~Whole(events, headers, attachments, i)
        <4>1. /\ i = k.id /\ events[i].serial = k.serial
              /\ \A n \in events[i].names \ task[p].names : HasHeader(events, headers, i, n)
              /\ events[i].files # 0 => HasFile(events, attachments, i)
          BY <1>1, <2>1, <3>2 DEF IInv, WholeOK
        <4>2. HasHeader(events, headers', i, name)
          BY <2>1, <2>4, <4>1 DEF HasHeader
        <4>3. \A n \in events[i].names \ task[p].names : HasHeader(events, headers', i, n)
          BY <2>1, <4>1 DEF HasHeader
        <4> QED
          BY <1>1, <2>1, <2>2, <2>5, <4>1, <4>2, <4>3, NullAssumption
      <3> QED
        BY <3>1, <3>2
    <2>12. WholeOK'
      BY <2>11 DEF WholeOK
    <2> QED
      BY <2>6, <2>7, <2>8, <2>9, <2>10, <2>12 DEF IInv
  <1> QED
    BY <1>2, <1>3

LEMMA CommitFullIInv ==
    ASSUME IInv, NEW p \in Loggers, CommitFull(p)
    PROVE  IInv'
  <1>1. /\ task[p].at = "headers" /\ task[p].names = {} /\ writer = p /\ task[p].left = 0
        /\ task[p] \in Call /\ task' = [task EXCEPT ![p] = Idle] /\ writer' = NULL
        /\ known' = known \cup {task[p].event}
        /\ UNCHANGED <<events, headers, attachments, baseDir, dirs, saved>>
    BY CallHasRecord DEF CommitFull, Become, tables, files, IInv, CallOK
  <1>2. Types'
    BY <1>1 DEF IInv, Types, Call
  <1>3. \A q \in Loggers : CallOK(q)'
    BY <1>1, NullAssumption, IdleAt DEF IInv, Types, CallOK
  <1>4. FilesOK'
    BY <1>1, IdleAt DEF IInv, Types, FilesOK, Copying, AttachmentsHaveFiles
  <1>5. \A i \in DOMAIN events : Whole(events, headers, attachments, i)
    BY <1>1 DEF IInv, WholeOK, Whole
  <1>6. WholeOK'
    BY <1>1, <1>5 DEF WholeOK
  <1> QED
    BY <1>1, <1>2, <1>3, <1>4, <1>6 DEF IInv, SavedOK

LEMMA AddHeaderIInv ==
    ASSUME IInv, NEW p \in Loggers, NEW k \in known, NEW name \in Names,
           AddHeader(p, k, name)
    PROVE  IInv'
  <1> DEFINE row == HeaderRow(k, name)
  <1>1. /\ writer = NULL /\ headers' = headers \cup {row}
        /\ UNCHANGED <<events, attachments, known, baseDir, dirs, writer, saved, task>>
    BY DEF AddHeader, files
  <1>2. /\ row \in [event : Ids, name : Names, serial : Ids, late : BOOLEAN]
        /\ Belong(events, {row})
    <2>1. k \in EventKey
      BY DEF IInv, Types
    <2> QED
      BY <2>1, HeaderTellsTheTruth
  <1> HIDE DEF row
  <1>3. Types'
    BY <1>1, <1>2 DEF IInv, Types, TablesOK
  <1>4. FilesOK'
    BY <1>1 DEF IInv, FilesOK, Copying, AttachmentsHaveFiles
  <1>5. Belong(events, headers \cup attachments)'
    BY <1>1, <1>2 DEF IInv, Belong
  <1>6. \A i \in DOMAIN events : Whole(events, headers', attachments', i)
    BY <1>1, MoreRows DEF IInv, WholeOK
  <1>7. WholeOK'
    BY <1>1, <1>6 DEF WholeOK
  <1> QED
    BY <1>1, <1>3, <1>4, <1>5, <1>7 DEF IInv, SavedOK, CallOK

LEMMA LastRecord ==
    ASSUME NEW t \in Call
    PROVE  [t EXCEPT !.left = 0, !.dir = NULL, !.at = "headers"] \in Call
  <1> DEFINE u == [t EXCEPT !.left = 0]
             v == [u EXCEPT !.dir = NULL]
  <1>1. u \in Call
    BY DEF Call
  <1>2. v \in Call
    <2> HIDE DEF u
    <2> QED
      BY <1>1 DEF Call
  <1>3. [v EXCEPT !.at = "headers"] \in Call
    <2> HIDE DEF v
    <2> QED
      BY <1>2 DEF Call, Steps
  <1> QED
    BY <1>3

LEMMA InsertAttachmentIInv ==
    ASSUME IInv, NEW p \in Loggers, InsertAttachment(p)
    PROVE  IInv'
  <1> DEFINE k == task[p].event
             d == task[p].dir
             row == AttachmentRow(k, d)
             c == IF writer # p THEN Idle
                  ELSE [task[p] EXCEPT !.left = @ - 1, !.dir = NULL,
                          !.at = IF task[p].left > 1 THEN "base" ELSE "headers"]
  <1>1. /\ task[p].at = "insert" /\ task[p].left = 1 /\ d \in DirNames /\ task[p] \in Call
        /\ writer \in {NULL, p}
        /\ attachments' = attachments \cup {row} /\ task' = [task EXCEPT ![p] = c]
        /\ UNCHANGED <<events, headers, known, baseDir, dirs, writer, saved>>
    BY CallHasRecord DEF InsertAttachment, Unlocked, Become, files, IInv, CallOK
  <1>2. IF writer = p
        THEN /\ c \in Call /\ c # Idle /\ c.at = "headers" /\ c.left = 0 /\ c.event = k
             /\ c.names = task[p].names
        ELSE c = Idle
    <2>1. /\ [task[p] EXCEPT !.left = 0, !.dir = NULL, !.at = "headers"] \in Call
          /\ "headers" # "idle"
      BY <1>1, LastRecord
    <2>2. writer = p => c = [task[p] EXCEPT !.left = 0, !.dir = NULL, !.at = "headers"]
      BY <1>1
    <2> QED
      BY <1>1, <2>1, <2>2, IdleAt DEF Call
  <1>3. k \in EventKey
    BY <1>1 DEF Call
  <1>4. /\ row \in [event : Ids, dir : DirNames, serial : Ids, late : BOOLEAN]
        /\ row.event = k.id /\ row.dir = d /\ row.serial = k.serial
        /\ Belong(events, {row})
    BY <1>1, <1>3, AttachmentTellsTheTruth
  <1> HIDE DEF c, row
  <1>5. task'[p] = c /\ \A q \in Loggers : q # p => task'[q] = task[q]
    BY <1>1 DEF IInv, Types
  <1>6. Types'
    BY <1>1, <1>2, <1>4 DEF IInv, Types, TablesOK
  <1>7. \A q \in Loggers : CallOK(q)'
    BY <1>1, <1>2, <1>5, IdleAt DEF IInv, CallOK
  <1>8. FilesOK'
    <2>1. /\ d \in DOMAIN dirs /\ dirs[d] \in {"full", "cut"}
          /\ \A q \in Loggers : Copying(q) /\ q # p => task[q].dir # d
          /\ \A a \in attachments : a.dir # d
      BY <1>1 DEF IInv, FilesOK, Copying
    <2>2. ~Copying(p)'
      BY <1>2, <1>5, IdleAt DEF Copying
    <2> HIDE DEF d
    <2>3. AttachmentsHaveFiles'
      BY <1>1, <1>4, <2>1 DEF IInv, FilesOK, AttachmentsHaveFiles
    <2>4. \A q \in Loggers : Copying(q)' =>
             /\ q # p /\ task'[q] = task[q] /\ Copying(q)
             /\ task[q].dir # d /\ \A a \in attachments : a.dir # task[q].dir
      BY <1>5, <2>1, <2>2 DEF IInv, FilesOK, Copying
    <2> QED
      BY <1>1, <1>4, <2>2, <2>3, <2>4, <1>5 DEF IInv, FilesOK, Copying
  <1>9. Belong(events, headers \cup attachments)'
    BY <1>1, <1>4 DEF IInv, Belong
  <1>10. SavedOK'
    BY <1>1 DEF IInv, SavedOK
  <1>11. \A i \in DOMAIN events :
            Whole(events, headers, attachments, i) => Whole(events, headers', attachments', i)
    BY <1>1, MoreRows
  <1>12. CASE writer = NULL
    BY <1>1, <1>6, <1>7, <1>8, <1>9, <1>10, <1>11, <1>12 DEF IInv, WholeOK
  <1>13. CASE writer = p
    <2>1. ASSUME NEW i \in DOMAIN events, ~Whole(events, headers, attachments, i)
          PROVE  /\ i = c.event.id /\ events[i].serial = c.event.serial
                 /\ \A n \in events[i].names \ c.names : HasHeader(events, headers', i, n)
                 /\ HasFile(events, attachments', i)
      <3>1. /\ i = k.id /\ events[i].serial = k.serial
            /\ \A n \in events[i].names \ task[p].names : HasHeader(events, headers, i, n)
        BY <1>13, <2>1 DEF IInv, WholeOK
      <3>2. HasFile(events, attachments', i)
        BY <1>1, <1>4, <3>1 DEF HasFile
      <3> QED
        BY <1>1, <1>2, <1>13, <3>1, <3>2
    <2>2. WholeOK'
      BY <1>1, <1>5, <1>11, <1>13, <2>1, NullAssumption DEF WholeOK
    <2> QED
      BY <1>6, <1>7, <1>8, <1>9, <1>10, <2>2 DEF IInv
  <1> QED
    BY <1>1, <1>12, <1>13

LEMMA DeleteEventsIInv ==
    ASSUME IInv, NEW ids \in SUBSET Ids, DeleteEvents(ids)
    PROVE  IInv'
  <1>1. /\ writer = NULL
        /\ events' = [i \in DOMAIN events \ ids |-> events[i]]
        /\ headers' = {h \in headers : h.event \notin ids \cap DOMAIN events}
        /\ attachments' = {a \in attachments : a.event \notin ids \cap DOMAIN events}
        /\ UNCHANGED <<known, baseDir, dirs, writer, saved, task>>
    BY DEF DeleteEvents, files
  <1>2. Types'
    BY <1>1 DEF IInv, Types, TablesOK
  <1>3. FilesOK'
    BY <1>1 DEF IInv, FilesOK, Copying, AttachmentsHaveFiles
  <1>4. Belong(events, headers \cup attachments)'
    BY <1>1 DEF IInv, Belong
  <1>5. ASSUME NEW i \in DOMAIN events'
        PROVE  Whole(events, headers, attachments, i)'
    <2>1. i \in DOMAIN events \ ids /\ events'[i] = events[i]
      BY <1>1
    <2>2. Whole(events, headers, attachments, i)
      BY <1>1, <2>1 DEF IInv, WholeOK
    <2>3. \A name : HasHeader(events, headers, i, name) => HasHeader(events', headers', i, name)
      BY <1>1, <2>1 DEF HasHeader
    <2>4. HasFile(events, attachments, i) => HasFile(events', attachments', i)
      BY <1>1, <2>1 DEF HasFile
    <2> QED
      BY <2>1, <2>2, <2>3, <2>4 DEF Whole
  <1> QED
    BY <1>1, <1>2, <1>3, <1>4, <1>5 DEF IInv, SavedOK, CallOK, WholeOK

LEMMA DieIInv ==
    ASSUME IInv, NEW p \in Loggers, Die(p)
    PROVE  IInv'
  <1>1. FilesOf(p)
    BY DEF Die, files, FilesOf, IInv, Types
  <1> QED
    BY <1>1, EndIInv, RollbackIInv DEF Die

LEMMA FailuresIInv ==
    ASSUME IInv, NEW p \in Loggers, FullFails(p) \/ InsertFails(p)
    PROVE  IInv'
  <1>1. FilesOf(p) /\ Fail(p)
    BY DEF FullFails, InsertFails, files, FilesOf, IInv, Types
  <1> QED
    BY <1>1, FailIInv

LEMMA StepIInv == IInv /\ [Next]_vars => IInv'
  <1> SUFFICES ASSUME IInv, [Next]_vars PROVE IInv'
    OBVIOUS
  <1>1. CASE UNCHANGED vars
    BY <1>1 DEF vars, tables, files, IInv, Types, TablesOK, CallOK, FilesOK, Copying,
        AttachmentsHaveFiles, Belong, SavedOK, WholeOK, Whole, HasHeader, HasFile
  <1>2. CASE Next
    BY <1>2, BeginIInv, FullHeaderIInv, CommitFullIInv, FailuresIInv, StartIInv,
       AddHeaderIInv, CheckBaseIInv, MakeBaseIInv, PickNameIInv, MakeDirIInv, CopyIInv,
       InsertAttachmentIInv, DieIInv, DeleteEventsIInv DEF Next
  <1> QED
    BY <1>1, <1>2

---------------------------------------------------------------------------
(* The theorems                                                            *)

\* IInv holds in every reachable state.
THEOREM DetailsInvariant == Spec => []IInv
  BY InitIInv, StepIInv, PTL DEF Spec

\* Every column keeps its type, and the transaction of add_event_full() is open
\* only while its logger is in the call.
THEOREM DetailsTypeCorrect == Spec => []TypeOK
  <1>1. IInv => TypeOK
    BY DEF IInv, Types, TablesOK, CallOK, TypeOK, EventKey
  <1> QED
    BY <1>1, DetailsInvariant, PTL

\* Every attachment has a complete file of its own, whoever else was copying.
THEOREM FilesAreTheirOwn == Spec => []AttachmentsHaveFiles
  <1>1. IInv => AttachmentsHaveFiles
    BY DEF IInv, FilesOK
  <1> QED
    BY <1>1, DetailsInvariant, PTL

\* Headers and attachments of a stored event stay with it and are not inherited.
THEOREM DetailsStay == Spec => []DetailsGoWithTheirEvent
  <1>1. IInv => DetailsGoWithTheirEvent
    BY DEF IInv, Belong, DetailsGoWithTheirEvent
  <1> QED
    BY <1>1, DetailsInvariant, PTL

\* rtcom_el_add_event_full() adds all of its details or none.
THEOREM AddedInFull == Spec => []FullEventsAreComplete
  <1>1. ASSUME IInv PROVE FullEventsAreComplete
    <2> SUFFICES ASSUME writer = NULL, NEW i \in DOMAIN events
                 PROVE  LET own == events[i].serial
                        IN  /\ \A name \in events[i].names :
                                  \E h \in headers : h.event = i /\ h.name = name /\ h.serial = own
                            /\ events[i].files <=
                                 Cardinality({a \in attachments : a.event = i /\ a.serial = own})
      BY DEF FullEventsAreComplete
    <2> DEFINE mine == {a \in attachments : a.event = i /\ a.serial = events[i].serial}
    <2>1. Whole(events, headers, attachments, i) /\ events[i].files \in 0..1
      BY <1>1 DEF IInv, WholeOK, Types, TablesOK
    <2>2. IsFiniteSet(mine)
      <3> DEFINE dir == [a \in mine |-> a.dir]
      <3>1. IsFiniteSet(DirNames)
        BY FS_Interval, BoundsAssumption DEF DirNames
      <3>2. dir \in Injection(mine, DirNames)
        <4>1. dir \in [mine -> DirNames]
          BY <1>1 DEF IInv, Types, TablesOK
        <4>2. \A a, b \in mine : dir[a] = dir[b] => a = b
          BY <1>1 DEF IInv, FilesOK, AttachmentsHaveFiles
        <4> QED
          BY <4>1, <4>2, Fun_IsInj
      <3> QED
        BY <3>1, <3>2, FS_Injection
    <2>3. Cardinality(mine) \in Nat /\ (mine # {} => Cardinality(mine) # 0)
      BY <2>2, FS_CardinalityType, FS_EmptySet
    <2>4. events[i].files <= Cardinality(mine)
      <3>1. events[i].files # 0 => mine # {}
        BY <2>1 DEF Whole, HasFile
      <3> HIDE DEF mine
      <3> QED
        BY <2>1, <2>3, <3>1
    <2> QED
      BY <2>1, <2>4 DEF Whole, HasHeader
  <1> QED
    BY <1>1, DetailsInvariant, PTL

============================================================================
