--------------------------- MODULE DbOpenProofs ----------------------------
(***************************************************************************)
(* What DbOpen keeps, for any number of loggers: types, handles and locks  *)
(* always; the rest on a new device where nothing fails, and, whatever     *)
(* fails and dies, as long as whoever renames or removes a file is not     *)
(* disturbed, which one program alone never is.  Where they do disturb     *)
(* each other the properties do not hold: see DocRepair, and two           *)
(* conversions at once.  A conversion that fails in one of the two ways    *)
(* that look like success (slipped) loses the history, see DocUpgrade.     *)
(***************************************************************************)
EXTENDS DbOpen, TLAPS, FiniteSetTheorems, WellFoundedInduction

\* A set of natural numbers that is not empty has a least member.
LEMMA LeastExists ==
    ASSUME NEW S \in SUBSET Nat, S # {}
    PROVE  \E f \in S : \A g \in S : f <= g
  <1>1. PICK f \in S : \A g \in S : ~ (<<g, f>> \in OpToRel(<, Nat))
    BY NatLessThanWellFounded, WFMin
  <1>2. \A g \in S : ~ (g < f)
    BY <1>1 DEF OpToRel
  <1> QED
    BY <1>2

\* The numbers of the files: two more than there are loggers.
LEMMA FilesAre ==
    /\ Cardinality(Loggers) \in Nat
    /\ IsFiniteSet(Files)
    /\ Cardinality(Files) = 2 + Cardinality(Loggers)
    /\ Files \subseteq Nat \ {0}
    /\ Files = 1..Cardinality(Files)
  <1>1. Cardinality(Loggers) \in Nat
    BY LoggersAssumption, FS_CardinalityType
  <1>2. PICK n \in Nat : n = 2 + Cardinality(Loggers) /\ n > 1
    BY <1>1
  <1>3. IsFiniteSet(1..n) /\ Cardinality(1..n) = n
    BY <1>2, FS_Interval
  <1> QED
    BY <1>1, <1>2, <1>3 DEF Files

\* Each logger has at most one file open: of the 2 + n files, one is left
\* when el-v1.db or its temporary file does not exist.
LEMMA FreeFileIsFree ==
    ASSUME handle \in [Loggers -> Files \cup {0}], main = 0 \/ temp = 0
    PROVE  FreeFile \in Files /\ FreeFile \notin InUse
  <1> DEFINE Held == {handle[p] : p \in Loggers}
             named == IF main = 0 THEN temp ELSE main
             Free == Files \ InUse
  <1>1. IsFiniteSet(Held) /\ Cardinality(Held) <= Cardinality(Loggers)
    <2>1. handle \in Surjection(Loggers, Held)
      BY DEF Surjection
    <2> QED
      BY <2>1, LoggersAssumption, FS_Surjection
  <1>2. /\ IsFiniteSet(Held \cup {named})
        /\ Cardinality(Held \cup {named}) < Cardinality(Files)
    <2>1. Cardinality(Held) \in Nat
      BY <1>1, FS_CardinalityType
    <2> HIDE DEF Held, named
    <2>2. /\ IsFiniteSet(Held \cup {named})
          /\ \/ Cardinality(Held \cup {named}) = Cardinality(Held)
             \/ Cardinality(Held \cup {named}) = Cardinality(Held) + 1
      BY <1>1, FS_AddElement
    <2> QED
      BY <1>1, <2>1, <2>2, FilesAre
  <1>3. ~ (Files \subseteq Held \cup {named})
    <2>1. Cardinality(Files) \in Nat /\ Cardinality(Held \cup {named}) \in Nat
      BY <1>2, FilesAre, FS_CardinalityType
    <2> HIDE DEF Held, named
    <2> QED
      BY <1>2, <2>1, FS_Subset
  <1>4. InUse \subseteq Held \cup {0, named}
    BY DEF InUse
  <1>5. Free # {} /\ Free \in SUBSET Nat
    BY <1>3, <1>4, FilesAre
  <1>6. \E f \in Free : \A g \in Free : f <= g
    <2> HIDE DEF Free
    <2> QED
      BY <1>5, LeastExists
  <1> QED
    BY <1>6 DEF FreeFile

---------------------------------------------------------------------------
(* Types, handles and locks, whatever the circumstances                    *)

\* The steps with the temporary file open, and with el-v1.db open.
WithTemp == {"lockTemp", "backup", "convert"}
WithMain == {"check", "version", "schema", "commit", "opened"}
Converting == WithTemp \cup {"temp", "unlinkTemp", "discard", "rename"}
Steps == WithMain \cup Converting \cup {"closed", "open", "unlinkMain"}

\* What the names stand for and what the files hold.
FilesTyped ==
    /\ world \in Worlds
    /\ main \in Files \cup {0} /\ temp \in Files \cup {0}
    /\ content \in [Files -> [form : Forms, rows : SUBSET (Events \cup {History})]]
    /\ added \subseteq Events
    /\ torn \in BOOLEAN /\ slipped \in BOOLEAN

\* Who has which file open, and who has locked it.
HandlesTyped ==
    /\ lock \in [Files -> Loggers \cup {NULL}]
    /\ pc \in [Loggers -> Steps]
    /\ handle \in [Loggers -> Files \cup {0}]
    /\ \A f \in Files : lock[f] # NULL =>
          handle[lock[f]] = f /\ pc[lock[f]] \in {"backup", "convert", "commit"}
    /\ \A p \in Loggers : (handle[p] # 0) = (pc[p] \in WithTemp \cup WithMain)

TypeInv == FilesTyped /\ HandlesTyped

LEMMA TypeInvImplies == TypeInv => TypeOK
  <1> SUFFICES ASSUME TypeInv PROVE TypeOK
    OBVIOUS
  <1>1. main \in 0..Cardinality(Files) /\ temp \in 0..Cardinality(Files)
    <2>1. Cardinality(Files) \in Nat
      BY FilesAre
    <2>2. PICK n \in Nat : n = Cardinality(Files) /\ Files = 1..n
      BY <2>1, FilesAre
    <2>3. main \in (1..n) \cup {0} /\ temp \in (1..n) \cup {0}
      BY <2>2 DEF TypeInv, FilesTyped
    <2> QED
      BY <2>2, <2>3
  <1>2. \A p \in Loggers :
          (handle[p] # 0) = (pc[p] \in {"lockTemp", "backup", "convert", "check",
                                        "version", "schema", "commit", "opened"})
    BY DEF TypeInv, HandlesTyped, WithTemp, WithMain
  <1>3. \A f \in Files : /\ content[f].form \in Forms
                         /\ content[f].rows \subseteq Events \cup {History}
    BY DEF TypeInv, FilesTyped
  <1> QED
    BY <1>1, <1>2, <1>3 DEF TypeInv, FilesTyped, HandlesTyped, TypeOK

LEMMA InitTyped == Init => TypeInv
  <1> SUFFICES ASSUME Init PROVE TypeInv
    OBVIOUS
  <1>1. FilesTyped
    BY DEF Init, FilesTyped, Empty, Forms
  <1>2. HandlesTyped
    BY DEF Init, HandlesTyped, Steps, WithTemp, WithMain, Converting
  <1> QED
    BY <1>1, <1>2 DEF TypeInv

\* Closing a file: the locks of the one who leaves go with it.
LEMMA LeaveTyped ==
    ASSUME HandlesTyped, NEW p \in Loggers, NEW l, Leave(p, l),
           l \in Steps \ (WithTemp \cup WithMain)
    PROVE  HandlesTyped'
  <1>1. /\ lock' = [f \in Files |-> IF lock[f] = p THEN NULL ELSE lock[f]]
        /\ pc' = [pc EXCEPT ![p] = l] /\ handle' = [handle EXCEPT ![p] = 0]
    BY DEF Leave, Goto
  <1>2. lock' \in [Files -> Loggers \cup {NULL}]
    BY <1>1 DEF HandlesTyped
  <1>3. pc' \in [Loggers -> Steps] /\ handle' \in [Loggers -> Files \cup {0}]
    BY <1>1 DEF HandlesTyped
  <1>4. ASSUME NEW f \in Files, lock'[f] # NULL
        PROVE  handle'[lock'[f]] = f /\ pc'[lock'[f]] \in {"backup", "convert", "commit"}
    BY <1>1, <1>4 DEF HandlesTyped
  <1>5. ASSUME NEW q \in Loggers
        PROVE  (handle'[q] # 0) = (pc'[q] \in WithTemp \cup WithMain)
    BY <1>1 DEF HandlesTyped
  <1> QED
    BY <1>2, <1>3, <1>4, <1>5, Zenon DEF HandlesTyped, Files

\* Going on with the same file open or with none, by one who holds no lock
\* or keeps it.
LEMMA GotoTyped ==
    ASSUME HandlesTyped, NEW p \in Loggers, NEW l \in Steps, Goto(p, l),
           UNCHANGED <<lock, handle>>,
           pc[p] \in WithTemp \cup WithMain <=> l \in WithTemp \cup WithMain,
           pc[p] \in {"backup", "convert", "commit"} => l \in {"backup", "convert", "commit"}
    PROVE  HandlesTyped'
  <1>1. pc' = [pc EXCEPT ![p] = l]
    BY DEF Goto
  <1>2. pc' \in [Loggers -> Steps]
    BY <1>1 DEF HandlesTyped
  <1>3. ASSUME NEW f \in Files, lock[f] # NULL
        PROVE  handle[lock[f]] = f /\ pc'[lock[f]] \in {"backup", "convert", "commit"}
    BY <1>1, <1>3 DEF HandlesTyped
  <1>4. ASSUME NEW q \in Loggers
        PROVE  (handle[q] # 0) = (pc'[q] \in WithTemp \cup WithMain)
    BY <1>1 DEF HandlesTyped
  <1> QED
    BY <1>2, <1>3, <1>4 DEF HandlesTyped, Files

\* BEGIN EXCLUSIVE on the open file.
LEMMA LockTyped ==
    ASSUME HandlesTyped, NEW p \in Loggers, NEW l \in {"backup", "commit"}, Lock(p, l),
           pc[p] \in {"lockTemp", "schema"}
    PROVE  HandlesTyped'
  <1>1. /\ lock' = [lock EXCEPT ![handle[p]] = p]
        /\ pc' = [pc EXCEPT ![p] = l] /\ handle' = handle
    BY DEF Lock, Goto
  <1>2. handle[p] \in Files
    BY DEF HandlesTyped, WithTemp, WithMain
  <1>3. l \in Steps /\ l \in WithTemp \cup WithMain /\ pc[p] \in WithTemp \cup WithMain
    BY DEF Steps, Converting, WithTemp, WithMain
  <1>4. lock' \in [Files -> Loggers \cup {NULL}]
    BY <1>1, <1>2 DEF HandlesTyped
  <1>5. pc' \in [Loggers -> Steps]
    BY <1>1, <1>3 DEF HandlesTyped
  <1>6. ASSUME NEW f \in Files, lock'[f] # NULL
        PROVE  handle[lock'[f]] = f /\ pc'[lock'[f]] \in {"backup", "convert", "commit"}
    BY <1>1, <1>2, <1>6 DEF HandlesTyped
  <1>7. ASSUME NEW q \in Loggers
        PROVE  (handle[q] # 0) = (pc'[q] \in WithTemp \cup WithMain)
    BY <1>1, <1>3 DEF HandlesTyped
  <1> QED
    BY <1>1, <1>4, <1>5, <1>6, <1>7 DEF HandlesTyped, Files

\* Opening by name, or making a new file.
LEMMA OpenTyped ==
    ASSUME TypeInv, NEW p \in Loggers, NEW l \in {"lockTemp", "check"}, NEW name \in {main, temp},
           OpenFile(p, name), Goto(p, l), UNCHANGED lock,
           pc[p] \in {"temp", "open"}
    PROVE  /\ HandlesTyped' /\ handle'[p] \in Files
           /\ content' \in [Files -> [form : Forms, rows : SUBSET (Events \cup {History})]]
  <1>1. PICK f \in Files : /\ handle' = [handle EXCEPT ![p] = f]
                           /\ content' \in {content, [content EXCEPT ![f] = Empty]}
    <2>1. CASE name # 0
      BY <2>1 DEF OpenFile, TypeInv, FilesTyped
    <2>2. CASE name = 0
      <3>1. FreeFile \in Files
        BY <2>2, FreeFileIsFree DEF TypeInv, HandlesTyped
      <3> HIDE DEF FreeFile
      <3> QED
        BY <2>2, <3>1 DEF OpenFile
    <2> QED
      BY <2>1, <2>2
  <1>2. Empty \in [form : Forms, rows : SUBSET (Events \cup {History})]
    BY DEF Empty, Forms
  <1>3. content' \in [Files -> [form : Forms, rows : SUBSET (Events \cup {History})]]
    BY <1>1, <1>2 DEF TypeInv, FilesTyped
  <1>4. /\ f # 0 /\ pc' = [pc EXCEPT ![p] = l] /\ l \in Steps /\ l \in WithTemp \cup WithMain
    BY FilesAre DEF Goto, Steps, Converting, WithTemp, WithMain
  <1>5. /\ pc' \in [Loggers -> Steps] /\ handle' \in [Loggers -> Files \cup {0}]
        /\ handle'[p] = f
    BY <1>1, <1>4 DEF TypeInv, HandlesTyped
  <1>6. ASSUME NEW g \in Files, lock[g] # NULL
        PROVE  handle'[lock[g]] = g /\ pc'[lock[g]] \in {"backup", "convert", "commit"}
    <2>1. lock[g] # p /\ lock[g] \in Loggers
      BY <1>6 DEF TypeInv, HandlesTyped
    <2> QED
      BY <1>1, <1>4, <1>6, <2>1 DEF TypeInv, HandlesTyped
  <1>7. ASSUME NEW q \in Loggers
        PROVE  (handle'[q] # 0) = (pc'[q] \in WithTemp \cup WithMain)
    BY <1>1, <1>4 DEF TypeInv, HandlesTyped
  <1> QED
    BY <1>3, <1>5, <1>6, <1>7 DEF TypeInv, HandlesTyped, Files

LEMMA StepTyped ==
    ASSUME TypeInv, [Next]_vars
    PROVE  TypeInv'
  <1> DEFINE Rows == SUBSET (Events \cup {History})
             Contents == [Files -> [form : Forms, rows : Rows]]
             HasFile == WithTemp \cup WithMain
  <1> USE DEF TypeInv
  <1>1. /\ main \in Files \cup {0} /\ temp \in Files \cup {0}
        /\ content \in Contents /\ added \subseteq Events /\ torn \in BOOLEAN
        /\ slipped \in BOOLEAN /\ world \in Worlds
    BY DEF FilesTyped
  <1>2. ASSUME NEW p \in Loggers, pc[p] \in HasFile
        PROVE  handle[p] \in Files
    BY <1>2 DEF HandlesTyped
  \* Steps that only look, and those that give up what they have open.
  <1>3. ASSUME NEW p \in Loggers, EnsureDb(p)
        PROVE  TypeInv'
    <2>1. PICK l \in {"open", "temp"} : Goto(p, l)
      BY <1>3 DEF EnsureDb
    <2>2. HandlesTyped'
      BY <1>3, <2>1, GotoTyped DEF EnsureDb, Steps, Converting, WithTemp, WithMain
    <2> QED
      BY <1>1, <1>3, <2>2 DEF EnsureDb, FilesTyped, names, ghosts, Files
  <1>4. ASSUME NEW p \in Loggers, \/ LockTemp(p) \/ QuickCheck(p) \/ Schema(p) \/ Close(p)
        PROVE  TypeInv'
    <2>1. UNCHANGED <<world, main, temp, content, added, torn, slipped>>
      BY <1>4 DEF LockTemp, QuickCheck, Schema, Close, names, ghosts
    <2>2. FilesTyped'
      BY <1>1, <2>1 DEF FilesTyped, Files
    <2>3. CASE \E l \in {"closed", "unlinkTemp", "unlinkMain"} : Leave(p, l)
      BY <2>2, <2>3, LeaveTyped DEF Steps, Converting, WithTemp, WithMain
    <2>4. CASE \/ pc[p] = "lockTemp" /\ Lock(p, "backup")
               \/ pc[p] = "schema" /\ Lock(p, "commit")
      BY <2>2, <2>4, LockTyped
    <2>5. CASE \E l \in {"version", "opened"} : /\ pc[p] \in {"check", "schema"} /\ Goto(p, l)
                                               /\ UNCHANGED <<lock, handle>>
      BY <2>2, <2>5, GotoTyped DEF Steps, Converting, WithTemp, WithMain
    <2> QED
      BY <1>4, <2>3, <2>4, <2>5 DEF LockTemp, QuickCheck, Schema, Close
  <1>5. ASSUME NEW p \in Loggers, Version(p)
        PROVE  TypeInv'
    <2>1. PICK l \in {"schema", "opened"} : Goto(p, l)
      BY <1>5 DEF Version
    <2>2. HandlesTyped'
      BY <1>5, <2>1, GotoTyped DEF Version, Steps, Converting, WithTemp, WithMain
    <2> QED
      BY <1>1, <1>5, <2>2 DEF Version, FilesTyped, names, ghosts, Files
  \* Steps that change what a name stands for.
  <1>6. ASSUME NEW p \in Loggers, OpenTemp(p)
        PROVE  TypeInv'
    <2>1. CASE OpenFile(p, temp) /\ temp' = handle'[p] /\ Goto(p, "lockTemp")
      <3>1. HandlesTyped' /\ handle'[p] \in Files /\ content' \in Contents
        BY <1>6, <2>1, OpenTyped DEF OpenTemp
      <3>2. UNCHANGED <<world, main, added, torn>> /\ slipped' \in BOOLEAN
        BY <1>1, <1>6 DEF OpenTemp
      <3> QED
        BY <1>1, <2>1, <3>1, <3>2 DEF FilesTyped, Files
    <2>2. CASE \E l \in {"open", "closed"} : Goto(p, l) /\ UNCHANGED <<temp, content, handle>>
      <3>1. /\ UNCHANGED <<world, main, temp, content, added, torn, lock, handle>>
            /\ slipped' \in BOOLEAN /\ pc[p] = "temp"
        BY <1>1, <1>6, <2>2 DEF OpenTemp
      <3>2. HandlesTyped'
        BY <2>2, <3>1, GotoTyped DEF Steps, Converting, WithTemp, WithMain
      <3> QED
        BY <1>1, <3>1, <3>2 DEF FilesTyped, Files
    <2> QED
      BY <1>6, <2>1, <2>2 DEF OpenTemp
  <1>7. ASSUME NEW p \in Loggers, Open(p)
        PROVE  TypeInv'
    <2>1. CASE OpenFile(p, main) /\ main' = handle'[p] /\ Goto(p, "check")
      <3>1. HandlesTyped' /\ handle'[p] \in Files /\ content' \in Contents
        BY <1>7, <2>1, OpenTyped DEF Open
      <3> QED
        BY <1>1, <1>7, <2>1, <3>1 DEF Open, FilesTyped, ghosts, Files
    <2>2. CASE Goto(p, "closed") /\ UNCHANGED <<main, content, handle>>
      <3>1. HandlesTyped'
        BY <1>7, <2>2, GotoTyped DEF Open, Steps, Converting, WithTemp, WithMain
      <3> QED
        BY <1>1, <1>7, <2>2, <3>1 DEF Open, FilesTyped, ghosts, Files
    <2> QED
      BY <1>7, <2>1, <2>2 DEF Open
  <1>8. ASSUME NEW p \in Loggers, \/ UnlinkTemp(p) \/ Rename(p) \/ Discard(p) \/ UnlinkMain(p)
        PROVE  TypeInv'
    <2>1. /\ UNCHANGED <<world, content, added, torn>> /\ slipped' \in {slipped, TRUE}
          /\ main' \in {main, temp, 0} /\ temp' \in {temp, 0}
      BY <1>8 DEF UnlinkTemp, Rename, Discard, UnlinkMain, names, ghosts
    <2>2. FilesTyped'
      BY <1>1, <2>1 DEF FilesTyped, Files
    <2>3. PICK l \in {"closed", "open"} :
            /\ Goto(p, l) /\ pc[p] \in {"unlinkTemp", "rename", "discard", "unlinkMain"}
            /\ UNCHANGED <<lock, handle>>
      BY <1>8 DEF UnlinkTemp, Rename, Discard, UnlinkMain
    <2>4. HandlesTyped'
      BY <2>3, GotoTyped DEF Steps, Converting, WithTemp, WithMain
    <2> QED
      BY <2>2, <2>4
  \* Steps that write to a file.
  <1>9. ASSUME NEW p \in Loggers, Backup(p)
        PROVE  TypeInv'
    <2>1. pc[p] = "backup" /\ UNCHANGED <<world, main, temp, added, torn, slipped>>
      BY <1>9 DEF Backup, names, ghosts
    <2>2. content' \in {content, [content EXCEPT ![handle[p]] = [form |-> "v0",
                                                                 rows |-> {History}]]}
      BY <1>9 DEF Backup
    <2>3. content' \in Contents
      BY <1>1, <1>2, <2>1, <2>2 DEF Forms, WithTemp
    <2>4. CASE Leave(p, "discard")
      BY <1>1, <2>1, <2>3, <2>4, LeaveTyped
      DEF FilesTyped, Files, Steps, Converting, WithTemp, WithMain
    <2>5. CASE Goto(p, "convert") /\ UNCHANGED <<lock, handle>>
      BY <1>1, <2>1, <2>3, <2>5, GotoTyped
      DEF FilesTyped, Files, Steps, Converting, WithTemp, WithMain
    <2> QED
      BY <1>9, <2>4, <2>5 DEF Backup
  <1>10. ASSUME NEW p \in Loggers, Convert(p)
         PROVE  TypeInv'
    <2>1. /\ pc[p] = "convert" /\ UNCHANGED <<world, main, temp, added, torn, slipped>>
          /\ \E l \in {"rename", "discard"} : Leave(p, l)
          /\ content' \in {content, [content EXCEPT ![handle[p]].form = "v1"]}
      BY <1>10 DEF Convert, names, ghosts
    <2>2. content' \in Contents
      BY <1>1, <1>2, <2>1 DEF Forms, WithTemp
    <2>3. HandlesTyped'
      BY <2>1, LeaveTyped DEF Steps, Converting, WithTemp, WithMain
    <2> QED
      BY <1>1, <2>1, <2>2, <2>3 DEF FilesTyped, Files
  <1>11. ASSUME NEW p \in Loggers, CommitSchema(p)
         PROVE  TypeInv'
    <2>1. pc[p] = "commit" /\ UNCHANGED <<world, main, temp, added, torn, slipped>>
      BY <1>11 DEF CommitSchema, names, ghosts
    <2>2. handle[p] \in Files
      BY <1>2, <2>1 DEF WithMain
    <2>3. CASE Leave(p, "closed") /\ UNCHANGED content
      BY <1>1, <2>1, <2>3, LeaveTyped
      DEF FilesTyped, Files, Steps, Converting, WithTemp, WithMain
    <2>4. CASE ~ (Leave(p, "closed") /\ UNCHANGED content)
      <3>1. /\ lock' = [lock EXCEPT ![handle[p]] = NULL]
            /\ pc' = [pc EXCEPT ![p] = "opened"] /\ UNCHANGED handle
        BY <1>11, <2>4 DEF CommitSchema, Goto
      <3>2. PICK form \in Forms : content' = [content EXCEPT ![handle[p]].form = form]
        <4>1. content[handle[p]].form \in Forms
          BY <1>1, <2>2
        <4> QED
          BY <1>11, <2>4, <4>1 DEF CommitSchema, Forms
      <3>3. content' \in Contents
        BY <1>1, <2>2, <3>2
      <3>4. lock' \in [Files -> Loggers \cup {NULL}] /\ pc' \in [Loggers -> Steps]
        BY <3>1 DEF HandlesTyped, Steps, WithMain
      <3>5. ASSUME NEW f \in Files, lock'[f] # NULL
            PROVE  handle[lock'[f]] = f /\ pc'[lock'[f]] \in {"backup", "convert", "commit"}
        <4>1. f # handle[p] /\ lock'[f] = lock[f] /\ lock[f] # NULL
          BY <2>2, <3>1, <3>5 DEF HandlesTyped
        <4>2. handle[lock[f]] = f /\ lock[f] # p
          BY <4>1 DEF HandlesTyped
        <4> QED
          BY <3>1, <4>1, <4>2 DEF HandlesTyped
      <3>6. ASSUME NEW q \in Loggers
            PROVE  (handle[q] # 0) = (pc'[q] \in HasFile)
        BY <2>1, <3>1 DEF HandlesTyped, WithMain
      <3>7. HandlesTyped'
        BY <3>1, <3>4, <3>5, <3>6 DEF HandlesTyped, Files
      <3> QED
        BY <1>1, <2>1, <3>3, <3>7 DEF FilesTyped, Files
    <2> QED
      BY <2>3, <2>4
  <1>12. ASSUME NEW p \in Loggers, NEW e \in Events, AddEvent(p, e)
         PROVE  TypeInv'
    <2>1. handle[p] \in Files
      BY <1>2, <1>12 DEF AddEvent, WithMain
    <2>2. /\ content' = [content EXCEPT ![handle[p]].rows = @ \cup {e}]
          /\ added' = added \cup {e}
          /\ UNCHANGED <<world, main, temp, lock, pc, handle, torn, slipped>>
      BY <1>12 DEF AddEvent, names
    <2>3. content' \in Contents
      BY <1>1, <2>1, <2>2
    <2> QED
      BY <1>1, <2>2, <2>3 DEF FilesTyped, HandlesTyped, Files
  <1>13. ASSUME NEW p \in Loggers, Die(p)
         PROVE  TypeInv'
    <2>1. Leave(p, "closed") /\ UNCHANGED <<world, main, temp>>
      BY <1>13 DEF Die, names
    <2>2. HandlesTyped'
      BY <2>1, LeaveTyped DEF Steps, Converting, WithTemp, WithMain
    <2>3. /\ content' \in Contents /\ added' \subseteq Events /\ torn' \in BOOLEAN
          /\ UNCHANGED slipped
      <3>1. CASE UNCHANGED <<content, ghosts>>
        BY <1>1, <3>1 DEF ghosts
      <3>2. CASE ~ UNCHANGED <<content, ghosts>>
        <4>1. /\ pc[p] \in {"backup", "convert", "commit", "opened"}
              /\ content' = [content EXCEPT ![handle[p]] = [form |-> "torn", rows |-> {}]]
              /\ added' = added \ content[handle[p]].rows
              /\ torn' = (torn \/ handle[p] = main) /\ UNCHANGED slipped
          BY <1>13, <3>2 DEF Die, Tears
        <4>2. handle[p] \in Files
          BY <1>2, <4>1 DEF WithTemp, WithMain
        <4> QED
          BY <1>1, <4>1, <4>2 DEF Forms
      <3> QED
        BY <3>1, <3>2
    <2> QED
      BY <1>1, <2>1, <2>2, <2>3 DEF FilesTyped, Files
  <1>14. CASE UNCHANGED vars
    BY <1>1, <1>14 DEF FilesTyped, HandlesTyped, Files, vars, names, ghosts
  <1> QED
    BY <1>3, <1>4, <1>5, <1>6, <1>7, <1>8, <1>9, <1>10, <1>11, <1>12, <1>13, <1>14
    DEF Next, Progress

\* However many loggers there are and whatever fails: there is always a name
\* left for a new file, whoever holds a lock has the file open that is locked
\* and is writing to it, and nobody keeps a file open by mistake.
THEOREM FilesAreTyped == Spec => []TypeOK
  BY InitTyped, StepTyped, TypeInvImplies, PTL DEF Spec

---------------------------------------------------------------------------
(* Several programs start on a new device                                  *)

Fresh == ~ world.old /\ ~ world.faults

\* Whoever has a file open has el-v1.db open; nobody converts anything, and
\* no file is torn.
FreshIInv ==
    /\ Fresh
    /\ temp = 0
    /\ main \in Files \cup {0}
    /\ content \in [Files -> [form : Forms \ {"torn"}, rows : SUBSET (Events \cup {History})]]
    /\ pc \in [Loggers -> {"closed", "open", "check", "version", "schema", "commit", "opened"}]
    /\ handle \in [Loggers -> {0, main}]
    /\ \A p \in Loggers : pc[p] \notin {"closed", "open"} => handle[p] = main /\ main # 0
    /\ added # {} => main # 0
    /\ main # 0 => added \subseteq content[main].rows
    /\ ~ torn

LEMMA InitFresh == Init /\ Fresh => FreshIInv
  BY DEF Init, FreshIInv, Empty, Forms

\* Leaving and locking concern only handles, locks and the next step.
LEMMA LeaveFresh ==
    ASSUME FreshIInv, NEW p \in Loggers, Leave(p, "closed"),
           UNCHANGED <<world, names, content, ghosts>>
    PROVE  FreshIInv'
  BY DEF FreshIInv, Fresh, Leave, Goto, names, ghosts, Files

LEMMA OpenFresh ==
    ASSUME FreshIInv, NEW p \in Loggers, Open(p)
    PROVE  FreshIInv'
  <1>1. CASE main # 0
    BY <1>1 DEF FreshIInv, Fresh, Open, OpenFile, Goto, ghosts, Files
  <1>2. CASE main = 0
    <2>a. ~ world.faults
      BY DEF FreshIInv, Fresh
    <2>1. FreeFile \in Files
      BY <1>2, FreeFileIsFree DEF FreshIInv
    <2>2. FreeFile # 0
      BY <2>1 DEF Files
    <2>3. /\ main' = FreeFile
          /\ content' = [content EXCEPT ![FreeFile] = Empty]
          /\ handle' = [handle EXCEPT ![p] = FreeFile]
      BY <1>2, <2>a DEF Open, OpenFile, FreshIInv
    <2>4. handle = [q \in Loggers |-> 0] /\ added = {}
      BY <1>2 DEF FreshIInv
    <2> HIDE DEF FreeFile
    <2> QED
      BY <1>2, <2>1, <2>2, <2>3, <2>4
      DEF FreshIInv, Fresh, Open, Goto, ghosts, Empty, Forms, Files
  <1> QED
    BY <1>1, <1>2

LEMMA StepFresh ==
    ASSUME FreshIInv, [Next]_vars
    PROVE  FreshIInv' /\ (main # 0 => main' = main)
  <1> USE DEF FreshIInv, Fresh
  <1>1. ASSUME NEW p \in Loggers, EnsureDb(p)
        PROVE  FreshIInv' /\ main' = main
    BY <1>1 DEF EnsureDb, Goto, names, ghosts, Files
  <1>2. ASSUME NEW p \in Loggers, Open(p)
        PROVE  FreshIInv' /\ (main # 0 => main' = main)
    BY <1>2, OpenFresh DEF Open, OpenFile
  <1>3. ASSUME NEW p \in Loggers, QuickCheck(p)
        PROVE  FreshIInv' /\ main' = main
    BY <1>3, LeaveFresh DEF QuickCheck, Form, Goto, names, ghosts, Files
  <1>4. ASSUME NEW p \in Loggers, Version(p)
        PROVE  FreshIInv' /\ main' = main
    BY <1>4 DEF Version, Goto, names, ghosts, Files
  <1>5. ASSUME NEW p \in Loggers, Schema(p)
        PROVE  FreshIInv' /\ main' = main
    BY <1>5 DEF Schema, Form, Goto, Lock, names, ghosts, Files
  <1>6. ASSUME NEW p \in Loggers, CommitSchema(p)
        PROVE  FreshIInv' /\ main' = main
    <2>1. handle[p] = main /\ main # 0 /\ main \in Files
      BY <1>6 DEF CommitSchema
    <2>2. PICK form \in Forms \ {"torn"} : content' = [content EXCEPT ![main].form = form]
      BY <1>6, <2>1 DEF CommitSchema, Forms
    <2>3. /\ content' \in [Files -> [form : Forms \ {"torn"},
                                     rows : SUBSET (Events \cup {History})]]
          /\ content'[main].rows = content[main].rows
      BY <2>1, <2>2
    <2>4. UNCHANGED <<world, main, temp, handle, added, torn>>
      BY <1>6 DEF CommitSchema, names, ghosts
    <2>5. pc' = [pc EXCEPT ![p] = "opened"]
      BY <1>6 DEF CommitSchema, Goto
    <2> QED
      BY <2>1, <2>3, <2>4, <2>5 DEF Files
  <1>7. ASSUME NEW p \in Loggers, NEW e \in Events, AddEvent(p, e)
        PROVE  FreshIInv' /\ main' = main
    BY <1>7 DEF AddEvent, names, Files
  <1>8. ASSUME NEW p \in Loggers, Close(p)
        PROVE  FreshIInv' /\ main' = main
    BY <1>8, LeaveFresh DEF Close, names
  <1>9. ASSUME NEW p \in Loggers, \/ OpenTemp(p) \/ LockTemp(p) \/ UnlinkTemp(p)
                                  \/ Backup(p) \/ Convert(p) \/ Rename(p) \/ Discard(p)
                                  \/ UnlinkMain(p) \/ Die(p)
        PROVE  FALSE
    BY <1>9 DEF OpenTemp, LockTemp, UnlinkTemp, Backup, Convert, Rename, Discard,
                UnlinkMain, Die
  <1>10. CASE UNCHANGED vars
    BY <1>10 DEF vars, names, ghosts, Files
  <1> QED
    BY <1>1, <1>2, <1>3, <1>4, <1>5, <1>6, <1>7, <1>8, <1>9, <1>10 DEF Next, Progress

\* However many programs start at the same time, they get the same file.
THEOREM FreshStartShares == Spec /\ Fresh => []SameFile
  <1>1. FreshIInv => SameFile
    BY DEF FreshIInv, SameFile
  <1> QED
    BY InitFresh, StepFresh, <1>1, PTL DEF Spec

\* That file holds what any of them has added.
THEOREM FreshStartKeepsEvents == Spec /\ Fresh => []AcknowledgedKept
  <1>1. FreshIInv => AcknowledgedKept
    BY DEF FreshIInv, AcknowledgedKept
  <1> QED
    BY InitFresh, StepFresh, <1>1, PTL DEF Spec

\* A database that somebody made is not put out of the way by those who
\* start at the same time.
THEOREM FreshStartKeepsFile == Spec /\ Fresh => OnlyCorruptedDeleted
  <1>1. FreshIInv /\ [Next]_vars => [main # 0 /\ main' # main => content[main].form = "torn"]_vars
    BY StepFresh
  <1> QED
    BY InitFresh, StepFresh, <1>1, PTL DEF Spec, OnlyCorruptedDeleted

---------------------------------------------------------------------------
(* Any number of programs, an old database or none, and anything may fail, *)
(* as long as whoever converts or removes a file is not disturbed          *)

\* Whoever gives el-v1.db or its temporary file another meaning is the only
\* program at it, and nobody is about to make an el-v1.db beside a conversion.
\* (The rest of a conversion any number of programs may try at once.)
Undisturbed ==
    \A p \in Loggers :
       /\ pc[p] \in {"rename", "discard", "unlinkTemp", "unlinkMain"} =>
             \A q \in Loggers \ {p} : pc[q] = "closed"
       /\ pc[p] \in Converting => \A q \in Loggers : pc[q] # "open"

\* Which file is open at each step; nothing is converted once there is an
\* el-v1.db.
HandlesOK ==
    /\ main # 0 => main # temp
    /\ \A p \in Loggers :
          /\ pc[p] \in WithTemp => handle[p] = temp /\ temp # 0
          /\ pc[p] \in WithMain => handle[p] = main /\ main # 0
          /\ pc[p] \in Converting => main = 0

\* What a conversion has ready is what it started from; el-v1.db is torn only
\* if torn says so, and then no event counts as kept.
ConversionOK ==
    /\ main # 0 /\ content[main].form = "torn" => torn /\ added = {}
    /\ \A p \in Loggers :
          /\ pc[p] \in {"convert", "rename"} => temp # 0 /\ History \in content[temp].rows
          /\ pc[p] = "rename" => content[temp].form # "torn"
          /\ pc[p] = "unlinkMain" => main # 0 /\ content[main].form = "torn"
          /\ pc[p] = "open" /\ world.old /\ main = 0 => torn \/ slipped
    /\ slipped => world.faults

\* Whoever is at a step between BEGIN EXCLUSIVE and the end of the transaction
\* holds the lock on the file it has open.
LocksHeld ==
    \A p \in Loggers : pc[p] \in {"backup", "convert", "commit"} => lock[handle[p]] = p

KeptIInv ==
    /\ TypeInv /\ LocksHeld
    /\ HandlesOK /\ ConversionOK
    /\ AcknowledgedKept /\ HistoryKeptOrSlipped

LEMMA InitKept == Init => KeptIInv
  BY InitTyped DEF Init, KeptIInv, HandlesOK, ConversionOK, LocksHeld, AcknowledgedKept,
                   HistoryKeptOrSlipped, WithTemp, WithMain, Converting

\* Nobody takes a lock away, whatever is disturbed.
LEMMA StepLocksHeld ==
    ASSUME TypeInv, LocksHeld, [Next]_vars
    PROVE  LocksHeld'
  <1> DEFINE Busy == {"backup", "convert", "commit"}
  <1>0. /\ pc \in [Loggers -> Steps] /\ handle \in [Loggers -> Files \cup {0}]
        /\ lock \in [Files -> Loggers \cup {NULL}]
        /\ \A p \in Loggers : pc[p] \in Busy => handle[p] \in Files
    BY DEF TypeInv, HandlesTyped, WithTemp, WithMain
  <1>1. ASSUME NEW p \in Loggers, NEW l \in Steps \ Busy, Leave(p, l)
        PROVE  LocksHeld'
    BY <1>0, <1>1 DEF Leave, Goto, LocksHeld
  <1>2. ASSUME NEW p \in Loggers, NEW l, Goto(p, l), UNCHANGED lock,
               \A q \in Loggers \ {p} : handle'[q] = handle[q],
               l \in Busy => pc[p] \in Busy /\ handle'[p] = handle[p]
        PROVE  LocksHeld'
    BY <1>0, <1>2 DEF Goto, LocksHeld
  <1>3. ASSUME NEW p \in Loggers, NEW l, Lock(p, l), ~ LockedOut(p), handle[p] \in Files
        PROVE  LocksHeld'
    BY <1>0, <1>3, LoggersAssumption DEF Lock, LockedOut, Goto, LocksHeld
  <1>4. ASSUME NEW p \in Loggers, CommitSchema(p), ~ Leave(p, "closed")
        PROVE  LocksHeld'
    <2>1. /\ lock' = [lock EXCEPT ![handle[p]] = NULL] /\ lock[handle[p]] = p
          /\ pc' = [pc EXCEPT ![p] = "opened"] /\ UNCHANGED handle
      BY <1>4 DEF CommitSchema, Goto, LocksHeld
    <2> QED
      BY <1>0, <2>1 DEF LocksHeld
  <1>5. ASSUME NEW p \in Loggers,
               \/ EnsureDb(p) \/ OpenTemp(p) \/ UnlinkTemp(p) \/ Rename(p) \/ Discard(p)
               \/ Open(p) \/ UnlinkMain(p) \/ Version(p)
        PROVE  LocksHeld'
    <2>1. /\ \E l \in Steps \ Busy : Goto(p, l)
          /\ UNCHANGED lock
          /\ \A q \in Loggers \ {p} : handle'[q] = handle[q]
      BY <1>0, <1>5 DEF EnsureDb, OpenTemp, UnlinkTemp, Rename, Discard, Open, UnlinkMain,
                        Version, OpenFile, Steps, WithTemp, WithMain, Converting
    <2> QED
      BY <1>2, <2>1
  <1>6. ASSUME NEW p \in Loggers, LockTemp(p) \/ QuickCheck(p) \/ Schema(p)
        PROVE  LocksHeld'
    <2>1. handle[p] \in Files
      BY <1>6 DEF LockTemp, QuickCheck, Schema, TypeInv, HandlesTyped, WithTemp, WithMain
    <2>2. \/ \E l \in {"closed", "unlinkTemp", "unlinkMain"} : Leave(p, l)
          \/ ~ LockedOut(p) /\ (Lock(p, "backup") \/ Lock(p, "commit"))
          \/ \E l \in {"version", "opened"} : Goto(p, l) /\ UNCHANGED <<lock, handle>>
      BY <1>6 DEF LockTemp, QuickCheck, Schema
    <2> QED
      BY <1>1, <1>2, <1>3, <2>1, <2>2 DEF Steps, Converting, WithTemp, WithMain
  <1>7. ASSUME NEW p \in Loggers, \/ Backup(p) \/ Convert(p) \/ Close(p) \/ Die(p)
                                  \/ CommitSchema(p) /\ Leave(p, "closed")
        PROVE  LocksHeld'
    <2>1. \/ \E l \in {"closed", "discard", "rename"} : Leave(p, l)
          \/ pc[p] = "backup" /\ Goto(p, "convert") /\ UNCHANGED <<lock, handle>>
      BY <1>7 DEF Backup, Convert, Close, Die
    <2> QED
      BY <1>1, <1>2, <2>1 DEF Steps, Converting, WithTemp, WithMain
  <1>8. ASSUME NEW p \in Loggers, NEW e \in Events, AddEvent(p, e)
        PROVE  LocksHeld'
    BY <1>8 DEF AddEvent, LocksHeld
  <1>9. CASE UNCHANGED vars
    BY <1>9 DEF vars, LocksHeld
  <1> QED
    BY <1>4, <1>5, <1>6, <1>7, <1>8, <1>9 DEF Next, Progress

\* Nobody writes to a file beside another one, however the files are renamed,
\* removed and made again under those who have them open: of two programs
\* between BEGIN EXCLUSIVE and the end of a transaction each has its own file.
OneWriter ==
    \A p, q \in Loggers :
       /\ pc[p] \in {"backup", "convert", "commit"} /\ pc[q] \in {"backup", "convert", "commit"}
       /\ handle[p] = handle[q]
       => p = q

\* BEGIN EXCLUSIVE keeps transactions apart, whatever fails, dies and is
\* disturbed.
THEOREM TransactionsExclude == Spec => []OneWriter
  <1>1. Init => LocksHeld
    BY DEF Init, LocksHeld
  <1>2. TypeInv /\ [Next]_vars => TypeInv'
    BY StepTyped
  <1>3. TypeInv /\ LocksHeld /\ [Next]_vars => LocksHeld'
    BY StepLocksHeld
  <1>4. LocksHeld => OneWriter
    BY DEF LocksHeld, OneWriter
  <1> QED
    BY <1>1, <1>2, <1>3, <1>4, InitTyped, PTL DEF Spec

\* Who can be busy beside p: programs with el-v1.db open, or about to open it,
\* if p is one of them; programs that try to convert if p tries it too, but
\* then the lock lets only one at the temporary file.
LEMMA OthersAt ==
    ASSUME KeptIInv, Undisturbed, NEW p \in Loggers, NEW q \in Loggers \ {p}
    PROVE  /\ pc[p] \in {"rename", "discard", "unlinkTemp", "unlinkMain"} => pc[q] = "closed"
           /\ pc[p] \in WithMain \cup {"open"} => pc[q] \in WithMain \cup {"closed", "open"}
           /\ pc[p] \in WithTemp \cup {"temp"} => pc[q] \in WithTemp \cup {"closed", "temp"}
           /\ pc[p] \in {"backup", "convert"} => pc[q] \notin {"backup", "convert"}
  <1>1. pc[q] \in Steps /\ pc[p] \in Steps
    BY DEF KeptIInv, TypeInv, HandlesTyped
  <1>2. pc[q] \in {"rename", "discard", "unlinkTemp", "unlinkMain"} => pc[p] = "closed"
    BY DEF Undisturbed
  <1>3. /\ pc[p] \in {"rename", "discard", "unlinkTemp", "unlinkMain"} => pc[q] = "closed"
        /\ pc[p] \in Converting => main = 0 /\ pc[q] # "open"
        /\ pc[q] \in Converting => main = 0 /\ pc[p] # "open"
        /\ pc[p] \in WithMain => main # 0
        /\ pc[q] \in WithMain => main # 0
    BY DEF Undisturbed, KeptIInv, HandlesOK
  <1>4. pc[p] \in WithMain \cup {"open"} => pc[q] \in WithMain \cup {"closed", "open"}
    BY <1>1, <1>2, <1>3 DEF Steps, WithTemp, WithMain, Converting
  <1>5. pc[p] \in WithTemp \cup {"temp"} => pc[q] \in WithTemp \cup {"closed", "temp"}
    BY <1>1, <1>2, <1>3 DEF Steps, WithTemp, WithMain, Converting
  <1>6. pc[p] \in {"backup", "convert"} => pc[q] \notin {"backup", "convert"}
    BY DEF KeptIInv, LocksHeld, HandlesOK, WithTemp
  <1> QED
    BY <1>3, <1>4, <1>5, <1>6

\* Steps of p that change no file, no name and nobody else's handle keep what
\* holds of the files; what p goes on with must be in order.
LEMMA OnlyMoves ==
    ASSUME KeptIInv, TypeInv', LocksHeld', NEW p \in Loggers,
           UNCHANGED <<world, main, temp, content, added, torn>>,
           slipped => slipped', slipped' => world.faults,
           \A q \in Loggers \ {p} : pc'[q] = pc[q] /\ handle'[q] = handle[q],
           pc'[p] \in WithTemp => handle'[p] = temp /\ temp # 0,
           pc'[p] \in WithMain => handle'[p] = main /\ main # 0,
           pc'[p] \in Converting => main = 0,
           pc'[p] \in {"convert", "rename"} => temp # 0 /\ History \in content[temp].rows,
           pc'[p] = "rename" => content[temp].form # "torn",
           pc'[p] = "unlinkMain" => main # 0 /\ content[main].form = "torn",
           pc'[p] = "open" /\ world.old /\ main = 0 => torn \/ slipped'
    PROVE  KeptIInv'
  <1>1. HandlesOK'
    BY DEF KeptIInv, HandlesOK
  <1>2. ConversionOK'
    BY DEF KeptIInv, ConversionOK
  <1> QED
    BY <1>1, <1>2 DEF KeptIInv, AcknowledgedKept, HistoryKeptOrSlipped

LEMMA StepKept ==
    ASSUME KeptIInv, Undisturbed, Undisturbed', [Next]_vars
    PROVE  KeptIInv' /\ (main # 0 /\ main' # main => content[main].form = "torn")
  <1> DEFINE Kept == KeptIInv' /\ (main # 0 /\ main' # main => content[main].form = "torn")
             At(p, l) == pc' = [pc EXCEPT ![p] = l]
             SameFiles == UNCHANGED <<world, main, temp, content, added, torn, slipped>>
  <1>0. /\ TypeInv' /\ LocksHeld'
        /\ pc \in [Loggers -> Steps] /\ handle \in [Loggers -> Files \cup {0}]
        /\ content \in [Files -> [form : Forms, rows : SUBSET (Events \cup {History})]]
        /\ main \in Files \cup {0} /\ temp \in Files \cup {0}
    BY StepTyped, StepLocksHeld DEF KeptIInv, TypeInv, FilesTyped, HandlesTyped
  <1>a. slipped => world.faults
    BY DEF KeptIInv, ConversionOK
  \* Steps that only look, and those that give up what they have open.
  <1>1. ASSUME NEW p \in Loggers, EnsureDb(p)
        PROVE  Kept
    <2>1. /\ SameFiles /\ UNCHANGED handle
          /\ At(p, IF main # 0 \/ ~ world.old THEN "open" ELSE "temp")
      BY <1>1 DEF EnsureDb, Goto, names, ghosts
    <2> QED
      BY <1>0, <2>1, <1>a, OnlyMoves DEF WithTemp, WithMain, Converting
  <1>2. ASSUME NEW p \in Loggers, LockTemp(p)
        PROVE  Kept
    <2>1. SameFiles /\ main = 0 /\ handle[p] = temp /\ temp # 0
      BY <1>2 DEF LockTemp, names, ghosts, KeptIInv, HandlesOK, WithTemp, Converting
    <2>2. \/ \E l \in {"closed", "unlinkTemp"} : At(p, l) /\ handle' = [handle EXCEPT ![p] = 0]
          \/ At(p, "backup") /\ UNCHANGED handle
      BY <1>2 DEF LockTemp, Leave, Lock, Goto
    <2> QED
      BY <1>0, <2>1, <2>2, <1>a, OnlyMoves DEF WithTemp, WithMain, Converting
  <1>3. ASSUME NEW p \in Loggers, QuickCheck(p) \/ Version(p) \/ Schema(p)
        PROVE  Kept
    <2>1. SameFiles /\ handle[p] = main /\ main # 0
      BY <1>3 DEF QuickCheck, Version, Schema, names, ghosts, KeptIInv, HandlesOK, WithMain
    <2>2. \/ At(p, "closed") /\ handle' = [handle EXCEPT ![p] = 0]
          \/ At(p, "unlinkMain") /\ handle' = [handle EXCEPT ![p] = 0]
             /\ content[main].form = "torn"
          \/ \E l \in {"version", "schema", "commit", "opened"} : At(p, l) /\ UNCHANGED handle
      BY <1>3, <2>1 DEF QuickCheck, Version, Schema, Leave, Lock, Goto, Form
    <2> QED
      BY <1>0, <2>1, <2>2, <1>a, OnlyMoves DEF WithTemp, WithMain, Converting
  <1>4. ASSUME NEW p \in Loggers, Close(p)
        PROVE  Kept
    <2>1. SameFiles /\ At(p, "closed") /\ handle' = [handle EXCEPT ![p] = 0]
      BY <1>4 DEF Close, Leave, Goto, names, ghosts
    <2> QED
      BY <1>0, <2>1, <1>a, OnlyMoves DEF WithTemp, WithMain, Converting
  \* The conversion: there is no el-v1.db, and the others wait for the lock.
  <1>5. ASSUME NEW p \in Loggers,
               OpenTemp(p) \/ UnlinkTemp(p) \/ Backup(p) \/ Convert(p) \/ Rename(p) \/ Discard(p)
        PROVE  /\ main = 0 /\ added = {}
               /\ \A q \in Loggers \ {p} : pc[q] \in WithTemp \cup {"closed", "temp"}
               /\ UNCHANGED <<world, added, torn>>
    <2>1. pc[p] \in WithTemp \cup {"temp", "rename", "discard", "unlinkTemp"}
      BY <1>5 DEF OpenTemp, UnlinkTemp, Backup, Convert, Rename, Discard, WithTemp
    <2>2. UNCHANGED <<world, added, torn>>
      BY <1>5 DEF OpenTemp, UnlinkTemp, Backup, Convert, Rename, Discard, names, ghosts
    <2> QED
      BY <2>1, <2>2, OthersAt DEF KeptIInv, HandlesOK, AcknowledgedKept, Converting
  <1>6. ASSUME NEW p \in Loggers, NEW l \in Converting \cup {"closed"}, At(p, l),
               main = 0, added = {},
               \A q \in Loggers \ {p} : /\ pc[q] \in WithTemp \cup {"closed", "temp"}
                                        /\ handle'[q] = handle[q],
               UNCHANGED <<world, added, torn, slipped, main>>,
               l \in WithTemp => handle'[p] = temp' /\ temp' # 0,
               l \in {"convert", "rename"} => temp' # 0 /\ History \in content'[temp'].rows,
               l = "rename" => content'[temp'].form # "torn",
               \/ /\ temp # 0 /\ temp' = temp
                  /\ \/ content'[temp].rows = content[temp].rows
                     \/ \A q \in Loggers \ {p} : pc[q] # "convert"
               \/ temp = 0
               \/ \A q \in Loggers \ {p} : pc[q] = "closed"
        PROVE  Kept
    <2>1. pc'[p] = l /\ \A q \in Loggers \ {p} : pc'[q] = pc[q]
      BY <1>0, <1>6
    <2>2. HandlesOK'
      BY <1>6, <2>1 DEF KeptIInv, HandlesOK, WithTemp, WithMain, Converting
    <2>3. ConversionOK'
      BY <1>6, <2>1 DEF KeptIInv, ConversionOK, HandlesOK, WithTemp, Converting
    <2> QED
      BY <1>0, <1>6, <2>2, <2>3 DEF KeptIInv, AcknowledgedKept, HistoryKeptOrSlipped
  <1>7. ASSUME NEW p \in Loggers, OpenTemp(p)
        PROVE  Kept
    <2>1. CASE OpenFile(p, temp) /\ temp' = handle'[p] /\ Goto(p, "lockTemp")
               /\ UNCHANGED slipped
      <3>1. handle'[p] \in Files /\ At(p, "lockTemp") /\ UNCHANGED main
        BY <1>7, <2>1, OpenTyped DEF OpenTemp, Goto, KeptIInv
      <3>2. /\ temp' # 0 /\ \A q \in Loggers \ {p} : handle'[q] = handle[q]
            /\ temp # 0 => temp' = temp /\ UNCHANGED content
        BY <1>0, <2>1, <3>1 DEF OpenFile, Files
      <3> QED
        BY <1>5, <1>6, <1>7, <2>1, <3>1, <3>2 DEF WithTemp, Converting
    <2>2. CASE /\ UNCHANGED <<temp, content, handle>> /\ world.faults
               /\ \/ Goto(p, "open") /\ slipped' = TRUE
                  \/ Goto(p, "closed") /\ UNCHANGED slipped
      <3>1. /\ UNCHANGED <<world, main, temp, content, added, torn, handle>> /\ world.faults
            /\ \/ At(p, "open") /\ slipped'
               \/ At(p, "closed") /\ slipped' = slipped
        <4>1. UNCHANGED <<world, main, added, torn>> /\ pc[p] = "temp"
          BY <1>7 DEF OpenTemp
        <4> QED
          BY <2>2, <4>1 DEF Goto
      <3> QED
        BY <1>0, <1>a, <3>1, OnlyMoves DEF WithTemp, WithMain, Converting
    <2> QED
      BY <1>7, <2>1, <2>2 DEF OpenTemp
  <1>8. ASSUME NEW p \in Loggers, UnlinkTemp(p) \/ Discard(p)
        PROVE  Kept
    <2>1. At(p, "closed") /\ UNCHANGED <<main, handle, slipped>>
      BY <1>8 DEF UnlinkTemp, Discard, Goto, ghosts
    <2>2. \A q \in Loggers \ {p} : pc[q] = "closed"
      BY <1>8, OthersAt DEF UnlinkTemp, Discard
    <2> QED
      BY <1>5, <1>6, <1>8, <2>1, <2>2 DEF WithTemp, Converting
  <1>9. ASSUME NEW p \in Loggers, Backup(p)
        PROVE  Kept
    <2>1. /\ handle[p] = temp /\ temp # 0 /\ temp \in Files /\ UNCHANGED <<main, temp, slipped>>
          /\ \A q \in Loggers \ {p} : pc[q] # "convert"
      BY <1>0, <1>9, OthersAt DEF Backup, KeptIInv, HandlesOK, WithTemp, names, ghosts
    <2>2. CASE At(p, "discard") /\ handle' = [handle EXCEPT ![p] = 0]
      BY <1>0, <1>5, <1>6, <1>9, <2>1, <2>2 DEF WithTemp, Converting
    <2>3. CASE /\ At(p, "convert") /\ UNCHANGED handle
               /\ content' = [content EXCEPT ![temp] = [form |-> "v0", rows |-> {History}]]
      <3>1. History \in content'[temp].rows
        BY <1>0, <2>1, <2>3
      <3> QED
        BY <1>5, <1>6, <1>9, <2>1, <2>3, <3>1 DEF WithTemp, Converting
    <2> QED
      BY <1>9, <2>1, <2>2, <2>3 DEF Backup, Leave, Goto
  <1>10. ASSUME NEW p \in Loggers, Convert(p)
         PROVE  Kept
    <2>1. /\ handle[p] = temp /\ temp # 0 /\ temp \in Files /\ UNCHANGED <<main, temp, slipped>>
          /\ History \in content[temp].rows /\ handle' = [handle EXCEPT ![p] = 0]
      BY <1>0, <1>10 DEF Convert, KeptIInv, HandlesOK, ConversionOK, WithTemp, Leave, names, ghosts
    <2>2. CASE At(p, "discard") /\ UNCHANGED content
      BY <1>0, <1>5, <1>6, <1>10, <2>1, <2>2 DEF WithTemp, Converting
    <2>3. CASE At(p, "rename") /\ content' = [content EXCEPT ![temp].form = "v1"]
      <3>1. content'[temp].rows = content[temp].rows /\ content'[temp].form = "v1"
        BY <1>0, <2>1, <2>3
      <3> QED
        BY <1>0, <1>5, <1>6, <1>10, <2>1, <2>3, <3>1 DEF WithTemp, Converting
    <2> QED
      BY <1>10, <2>1, <2>2, <2>3 DEF Convert, Leave, Goto
  <1>11. ASSUME NEW p \in Loggers, Rename(p)
         PROVE  Kept
    <2>1. /\ temp # 0 /\ History \in content[temp].rows /\ content[temp].form # "torn"
          /\ At(p, "open") /\ UNCHANGED <<content, handle>>
      BY <1>11 DEF Rename, Goto, KeptIInv, ConversionOK
    <2>2. CASE main' = temp /\ temp' = 0 /\ UNCHANGED slipped
      <3>1. \A q \in Loggers : pc'[q] = IF q = p THEN "open" ELSE "closed"
        BY <1>0, <1>11, <2>1, OthersAt DEF Rename
      <3>2. HandlesOK'
        BY <2>1, <2>2, <3>1 DEF HandlesOK, WithTemp, WithMain, Converting
      <3>3. ConversionOK'
        BY <1>5, <1>11, <1>a, <2>1, <2>2, <3>1 DEF ConversionOK
      <3> QED
        BY <1>0, <1>5, <1>11, <2>1, <2>2, <3>2, <3>3
        DEF KeptIInv, AcknowledgedKept, HistoryKeptOrSlipped
    <2>3. CASE world.faults /\ slipped' = TRUE /\ UNCHANGED names
      <3>1. UNCHANGED <<world, main, temp, content, added, torn, handle>>
        BY <1>5, <1>11, <2>1, <2>3 DEF names
      <3> QED
        BY <1>0, <1>a, <2>1, <2>3, <3>1, OnlyMoves DEF WithTemp, WithMain, Converting
    <2> QED
      BY <1>11, <2>1, <2>2, <2>3 DEF Rename
  \* Getting at el-v1.db.
  <1>12. ASSUME NEW p \in Loggers, Open(p)
         PROVE  Kept
    <2>0. pc[p] = "open" /\ UNCHANGED <<world, temp, added, torn, slipped>>
      BY <1>12 DEF Open, ghosts
    <2>1. \A q \in Loggers \ {p} : pc[q] \in WithMain \cup {"closed", "open"}
      BY <1>0, <2>0, OthersAt
    <2>2. CASE Goto(p, "closed") /\ UNCHANGED <<main, content, handle>>
      <3>1. SameFiles /\ At(p, "closed") /\ UNCHANGED handle
        BY <2>0, <2>2 DEF Goto
      <3> QED
        BY <1>0, <3>1, <1>a, OnlyMoves DEF WithTemp, WithMain, Converting
    <2>3. CASE main # 0 /\ OpenFile(p, main) /\ main' = handle'[p] /\ Goto(p, "check")
      <3>1. SameFiles /\ At(p, "check") /\ handle' = [handle EXCEPT ![p] = main]
        BY <1>0, <2>0, <2>3 DEF OpenFile, Goto
      <3> QED
        BY <1>0, <2>3, <3>1, <1>a, OnlyMoves DEF WithTemp, WithMain, Converting
    <2>4. CASE main = 0 /\ OpenFile(p, main) /\ main' = handle'[p] /\ Goto(p, "check")
      <3>1. FreeFile \in Files /\ FreeFile # 0 /\ FreeFile # temp
        BY <1>0, <2>4, FreeFileIsFree DEF InUse, Files
      <3>2. /\ main' = FreeFile
            /\ content' = [content EXCEPT ![FreeFile] = Empty]
            /\ handle' = [handle EXCEPT ![p] = FreeFile] /\ At(p, "check")
        BY <1>0, <2>4 DEF OpenFile, Goto
      <3>3. added = {} /\ (world.old => torn \/ slipped)
        BY <2>0, <2>4 DEF KeptIInv, ConversionOK, AcknowledgedKept
      <3> HIDE DEF FreeFile
      <3>4. content'[main'] = Empty /\ main' # 0 /\ main' # temp' /\ handle'[p] = main'
        BY <1>0, <2>0, <3>1, <3>2
      <3>5. \A q \in Loggers : pc'[q] \in {"closed", "open"} \/ (q = p /\ pc'[q] = "check")
        BY <1>0, <2>1, <2>4, <3>2 DEF KeptIInv, HandlesOK
      <3>6. HandlesOK'
        BY <3>4, <3>5 DEF HandlesOK, WithTemp, WithMain, Converting
      <3>7. ConversionOK'
        BY <2>0, <1>a, <3>3, <3>4, <3>5 DEF ConversionOK, Empty
      <3> QED
        BY <1>0, <2>0, <2>4, <3>3, <3>6, <3>7
        DEF KeptIInv, AcknowledgedKept, HistoryKeptOrSlipped
    <2> QED
      BY <1>12, <2>2, <2>3, <2>4 DEF Open
  <1>13. ASSUME NEW p \in Loggers, UnlinkMain(p)
         PROVE  Kept
    <2>1. /\ main # 0 /\ content[main].form = "torn" /\ torn /\ added = {}
          /\ main' = 0 /\ UNCHANGED <<world, temp, content, handle, added, torn, slipped>>
      BY <1>13 DEF UnlinkMain, KeptIInv, ConversionOK, ghosts
    <2>2. \A q \in Loggers : pc'[q] \in {"closed", "open"}
      BY <1>0, <1>13, OthersAt DEF UnlinkMain, Goto
    <2>3. HandlesOK'
      BY <2>1, <2>2 DEF HandlesOK, WithTemp, WithMain, Converting
    <2>4. ConversionOK'
      BY <1>a, <2>1, <2>2 DEF ConversionOK
    <2> QED
      BY <1>0, <2>1, <2>3, <2>4 DEF KeptIInv, AcknowledgedKept, HistoryKeptOrSlipped
  \* Steps that write to el-v1.db, as nobody converts beside them.
  <1>14. ASSUME NEW p \in Loggers, NEW l \in {"opened", "closed"},
                pc[p] \in {"commit", "opened"}, At(p, l),
                UNCHANGED <<world, main, temp, slipped>>,
                handle'[p] \in {handle[p], 0}, l = "opened" => handle'[p] = handle[p],
                \A q \in Loggers \ {p} : handle'[q] = handle[q],
                content'[main].form = "torn" => torn' /\ added' = {},
                added' \subseteq content'[main].rows,
                History \in content[main].rows => torn' \/ History \in content'[main].rows,
                torn => torn'
         PROVE  Kept
    <2>1. handle[p] = main /\ main # 0
      BY <1>14 DEF KeptIInv, HandlesOK, WithMain
    <2>2. \A q \in Loggers \ {p} : pc'[q] = pc[q] /\ pc[q] \in WithMain \cup {"closed", "open"}
      BY <1>0, <1>14, OthersAt DEF WithMain
    <2>3. pc'[p] = l
      BY <1>0, <1>14
    <2>4. HandlesOK'
      BY <1>14, <2>1, <2>2, <2>3 DEF KeptIInv, HandlesOK, WithTemp, WithMain, Converting
    <2>5. ConversionOK'
      BY <1>14, <1>a, <2>1, <2>2, <2>3 DEF ConversionOK, WithMain
    <2> QED
      BY <1>0, <1>14, <2>1, <2>4, <2>5 DEF KeptIInv, AcknowledgedKept, HistoryKeptOrSlipped
  <1>15. ASSUME NEW p \in Loggers, CommitSchema(p)
         PROVE  Kept
    <2>1. /\ handle[p] = main /\ main # 0 /\ main \in Files /\ pc[p] = "commit"
          /\ UNCHANGED <<world, main, temp, added, torn, slipped>>
      BY <1>0, <1>15 DEF CommitSchema, KeptIInv, HandlesOK, WithMain, names, ghosts
    <2>2. /\ content'[main].rows = content[main].rows
          /\ content'[main].form = "torn" => content[main].form = "torn"
      BY <1>0, <1>15, <2>1 DEF CommitSchema
    <2>3. \/ At(p, "opened") /\ UNCHANGED handle
          \/ At(p, "closed") /\ handle' = [handle EXCEPT ![p] = 0]
      BY <1>15 DEF CommitSchema, Leave, Goto
    <2>4. added \subseteq content[main].rows /\ (content[main].form = "torn" => torn /\ added = {})
      BY <2>1 DEF KeptIInv, AcknowledgedKept, ConversionOK
    <2> QED
      BY <1>0, <1>14, <2>1, <2>2, <2>3, <2>4
  <1>16. ASSUME NEW p \in Loggers, NEW e \in Events, AddEvent(p, e)
         PROVE  Kept
    <2>1. /\ handle[p] = main /\ main # 0 /\ main \in Files /\ pc[p] = "opened"
          /\ UNCHANGED <<world, main, temp, pc, handle, torn, slipped>>
      BY <1>0, <1>16 DEF AddEvent, KeptIInv, HandlesOK, WithMain, names
    <2>2. /\ content' = [content EXCEPT ![main].rows = @ \cup {e}] /\ added' = added \cup {e}
          /\ content[main].form = "v1"
      BY <1>16, <2>1 DEF AddEvent, Form
    <2>3. content'[main].rows = content[main].rows \cup {e} /\ content'[main].form = "v1"
      BY <1>0, <2>1, <2>2
    <2>4. At(p, "opened") /\ added \subseteq content[main].rows
      BY <1>0, <2>1 DEF KeptIInv, AcknowledgedKept
    <2> QED
      BY <1>14, <2>1, <2>2, <2>3, <2>4
  <1>17. ASSUME NEW p \in Loggers, Die(p)
         PROVE  Kept
    <2>1. /\ At(p, "closed") /\ handle' = [handle EXCEPT ![p] = 0]
          /\ UNCHANGED <<world, main, temp>> /\ pc[p] # "closed"
      BY <1>17 DEF Die, Leave, Goto, names
    <2>2. CASE UNCHANGED <<content, ghosts>>
      BY <1>0, <2>1, <2>2, <1>a, OnlyMoves DEF ghosts, WithTemp, WithMain, Converting
    <2>3. CASE ~ UNCHANGED <<content, ghosts>>
      <3>1. /\ content' = [content EXCEPT ![handle[p]] = [form |-> "torn", rows |-> {}]]
            /\ added' = added \ content[handle[p]].rows
            /\ torn' = (torn \/ handle[p] = main) /\ UNCHANGED slipped
            /\ pc[p] \in {"backup", "convert", "commit", "opened"}
        BY <1>17, <2>3 DEF Die, Tears
      <3>2. CASE pc[p] \in {"backup", "convert"}
        <4>1. main = 0 /\ added = {} /\ handle[p] = temp /\ temp # 0
          BY <3>2 DEF KeptIInv, HandlesOK, AcknowledgedKept, WithTemp, Converting
        <4>2. /\ \A q \in Loggers \ {p} : /\ pc[q] \in WithTemp \cup {"closed", "temp"}
                                          /\ pc[q] # "convert" /\ handle'[q] = handle[q]
          BY <1>0, <2>1, <3>2, OthersAt DEF WithTemp
        <4>3. UNCHANGED <<world, added, main, slipped>>
          BY <2>1, <3>1, <4>1
        <4>4. torn \in BOOLEAN /\ torn' \in BOOLEAN /\ (torn' <=> torn)
          BY <1>0, <3>1, <4>1 DEF KeptIInv, TypeInv, FilesTyped
        <4>5. UNCHANGED torn
          BY <4>4
        <4> QED
          BY <1>6, <2>1, <4>1, <4>2, <4>3, <4>5 DEF WithTemp, Converting
      <3>3. CASE pc[p] \in {"commit", "opened"}
        <4>1. handle[p] = main /\ main \in Files
          BY <1>0, <3>3 DEF KeptIInv, HandlesOK, WithMain
        <4>2. added' = {} /\ torn'
          BY <3>1, <4>1 DEF KeptIInv, AcknowledgedKept
        <4>3. UNCHANGED <<world, main, temp, slipped>>
          BY <2>1, <3>1
        <4> QED
          BY <1>0, <1>14, <2>1, <3>3, <4>2, <4>3
      <3> QED
        BY <3>1, <3>2, <3>3
    <2> QED
      BY <2>2, <2>3
  <1>18. CASE UNCHANGED vars
    <2>1. SameFiles /\ UNCHANGED <<pc, handle>>
      BY <1>18 DEF vars, names, ghosts
    <2> QED
      BY <1>0, <2>1 DEF KeptIInv, HandlesOK, ConversionOK, AcknowledgedKept, HistoryKeptOrSlipped
  <1> QED
    BY <1>1, <1>2, <1>3, <1>4, <1>7, <1>8, <1>9, <1>10, <1>11, <1>12, <1>13,
       <1>15, <1>16, <1>17, <1>18 DEF Next, Progress

LEMMA KeptImplies == KeptIInv => HistoryKeptOrSlipped /\ AcknowledgedKept /\ SameFile
  BY DEF KeptIInv, HandlesOK, SameFile, WithMain

\* However many programs there are, wherever they die and whatever fails:
\* el-v1.db has every event that was acknowledged, but for what a crash in a
\* commit destroyed, all programs have it open, and it has what was in el.db
\* unless a crash destroyed that, el.db could not be opened or the converted
\* file not be renamed, which _ensure_db() takes for a success.
THEOREM UndisturbedKeeps ==
    Spec /\ []Undisturbed => [](HistoryKeptOrSlipped /\ AcknowledgedKept /\ SameFile)
  <1>1. KeptIInv /\ Undisturbed /\ Undisturbed' /\ [Next]_vars => KeptIInv'
    BY StepKept
  <1> QED
    BY InitKept, KeptImplies, <1>1, PTL DEF Spec

\* Where no step fails, el-v1.db has what was in el.db as soon as it exists,
\* with no exception: what the comment in _ensure_db() promises whatever fails.
THEOREM SoundUpgradeKeeps ==
    Spec /\ ~ world.faults /\ []Undisturbed => []HistoryKept
  <1> DEFINE Sound == KeptIInv /\ ~ world.faults /\ ~ torn
  <1>1. Init /\ ~ world.faults => Sound
    BY InitKept DEF Init
  <1>2. Sound /\ Undisturbed /\ Undisturbed' /\ [Next]_vars => Sound'
    <2> SUFFICES ASSUME Sound, Undisturbed, Undisturbed', [Next]_vars
                 PROVE  ~ world'.faults /\ ~ torn'
      BY StepKept
    <2>1. ASSUME NEW p \in Loggers, Die(p)
          PROVE  FALSE
      BY <2>1 DEF Die
    <2>2. UNCHANGED <<world, torn>>
      BY <2>1 DEF Next, vars, Progress, EnsureDb, OpenTemp, LockTemp, UnlinkTemp, Backup,
                  Convert, Rename, Discard, Open, QuickCheck, UnlinkMain, Version, Schema,
                  CommitSchema, AddEvent, Close, ghosts
    <2> QED
      BY <2>2
  <1>3. Sound => HistoryKept
    BY DEF KeptIInv, ConversionOK, HistoryKeptOrSlipped, HistoryKept
  <1> QED
    BY <1>1, <1>2, <1>3, PTL DEF Spec

\* The programs remove a database only if it is corrupted.
THEOREM UndisturbedDeletesOnlyCorrupted ==
    Spec /\ []Undisturbed => OnlyCorruptedDeleted
  <1>1. KeptIInv /\ Undisturbed /\ Undisturbed' /\ [Next]_vars => KeptIInv'
    BY StepKept
  <1>2. KeptIInv /\ Undisturbed /\ Undisturbed' /\ [Next]_vars
          => [main # 0 /\ main' # main => content[main].form = "torn"]_vars
    BY StepKept
  <1> QED
    BY InitKept, <1>1, <1>2, PTL DEF Spec, OnlyCorruptedDeleted

---------------------------------------------------------------------------
(* One program                                                             *)

Alone(u) == world.users \subseteq {u}

\* The programs that are never used stay closed.
OthersClosed(u) ==
    /\ Alone(u) /\ pc \in [Loggers -> Steps]
    /\ \A p \in Loggers \ {u} : pc[p] = "closed"

LEMMA AloneIsUndisturbed ==
    ASSUME NEW u \in Loggers
    PROVE  Spec /\ Alone(u) => []Undisturbed
  <1>1. Init /\ Alone(u) => OthersClosed(u)
    BY DEF Init, OthersClosed, Steps
  <1>2. OthersClosed(u) /\ TypeInv' /\ [Next]_vars => OthersClosed(u)'
    <2> SUFFICES ASSUME OthersClosed(u), TypeInv', [Next]_vars PROVE OthersClosed(u)'
      OBVIOUS
    <2>1. world' = world
      BY DEF Next, vars, Progress, EnsureDb, OpenTemp, LockTemp, UnlinkTemp, Backup, Convert,
             Rename, Discard, Open, QuickCheck, UnlinkMain, Version, Schema, CommitSchema,
             AddEvent, Close, Die
    <2>2. ASSUME NEW p \in Loggers \ {u}
          PROVE  ~ (\/ Progress(p) \/ (\E e \in Events : AddEvent(p, e))
                    \/ Close(p) \/ Die(p))
      BY DEF OthersClosed, Alone, Progress, EnsureDb, OpenTemp, LockTemp, UnlinkTemp, Backup,
             Convert, Rename, Discard, Open, QuickCheck, UnlinkMain, Version, Schema,
             CommitSchema, AddEvent, Close, Die
    <2>3. (\E l \in Steps : pc' = [pc EXCEPT ![u] = l]) \/ pc' = pc
      <3>1. CASE UNCHANGED vars
        BY <3>1 DEF vars
      <3>2. CASE \/ Progress(u) \/ (\E e \in Events : AddEvent(u, e)) \/ Close(u) \/ Die(u)
        <4>1. (\E l : pc' = [pc EXCEPT ![u] = l]) \/ pc' = pc
          BY <3>2 DEF Progress, EnsureDb, OpenTemp, LockTemp, UnlinkTemp, Backup, Convert,
                      Rename, Discard, Open, QuickCheck, UnlinkMain, Version, Schema,
                      CommitSchema, AddEvent, Close, Die, Leave, Lock, Goto
        <4> QED
          BY <4>1 DEF OthersClosed, TypeInv, HandlesTyped
      <3> QED
        BY <2>2, <3>1, <3>2 DEF Next
    <2> QED
      BY <2>1, <2>3 DEF OthersClosed, Alone
  <1>3. OthersClosed(u) => Undisturbed
    BY DEF OthersClosed, Undisturbed, Converting, WithTemp
  <1>4. TypeInv /\ [Next]_vars => TypeInv'
    BY StepTyped
  <1> QED
    BY <1>1, <1>2, <1>3, <1>4, InitTyped, PTL DEF Spec

\* A single program, wherever it dies and whatever fails: el-v1.db has every
\* event it acknowledged and what was in el.db, but for what a crash in a
\* commit destroyed and, of el.db, for a conversion that slipped.
THEOREM SoloKeeps ==
    ASSUME NEW u \in Loggers
    PROVE  Spec /\ Alone(u) => [](HistoryKeptOrSlipped /\ AcknowledgedKept /\ SameFile)
  BY AloneIsUndisturbed, UndisturbedKeeps, PTL

\* A single program removes its database only if it is corrupted.
THEOREM SoloDeletesOnlyCorrupted ==
    ASSUME NEW u \in Loggers
    PROVE  Spec /\ Alone(u) => OnlyCorruptedDeleted
  BY AloneIsUndisturbed, UndisturbedDeletesOnlyCorrupted, PTL

============================================================================
