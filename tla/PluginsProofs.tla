--------------------------- MODULE PluginsProofs ---------------------------
(***************************************************************************)
(* What Plugins keeps for any loggers, plugins and bounds: the mappings of *)
(* a logger promise no more than the tables hold, and lack only what       *)
(* others added later; a plugin is asked about its own service, one that   *)
(* is found has all its rows, and no logger waits with nobody to tell it.  *)
(***************************************************************************)
EXTENDS Plugins, TLAPS

Elements(s) == {s[i] : i \in DOMAIN s}
TableRow == [table : Tables, name : Names \cup PluginNames]
Phases == {"down", "waiting", "creating", "loading", "ready"} \cup Cached

\* The plugin has all its rows.
Complete(p) == \A row \in Elements(Registration(p)) : RegisteredBy(p.name, row)

---------------------------------------------------------------------------
(* Sequences of rows                                                       *)

LEMMA ConcatElements ==
    ASSUME NEW S, NEW a \in Seq(S), NEW b \in Seq(S)
    PROVE  /\ a \o b \in Seq(S)
           /\ Len(a \o b) = Len(a) + Len(b)
           /\ Elements(a \o b) = Elements(a) \cup Elements(b)
  <1>1. a \o b \in Seq(S) /\ Len(a \o b) = Len(a) + Len(b)
    OBVIOUS
  <1>2. \A i \in DOMAIN a : i \in DOMAIN (a \o b) /\ (a \o b)[i] = a[i]
    BY <1>1
  <1>3. \A i \in DOMAIN b : Len(a) + i \in DOMAIN (a \o b) /\ (a \o b)[Len(a) + i] = b[i]
    BY <1>1
  <1>4. \A i \in DOMAIN (a \o b) : \/ i \in DOMAIN a /\ (a \o b)[i] = a[i]
                                   \/ i - Len(a) \in DOMAIN b /\ (a \o b)[i] = b[i - Len(a)]
    BY <1>1
  <1>5. Elements(a) \subseteq Elements(a \o b)
    BY <1>2 DEF Elements
  <1>6. Elements(b) \subseteq Elements(a \o b)
    BY <1>3 DEF Elements
  <1>7. Elements(a \o b) \subseteq Elements(a) \cup Elements(b)
    BY <1>4 DEF Elements
  <1> QED
    BY <1>1, <1>5, <1>6, <1>7

LEMMA TailElements ==
    ASSUME NEW S, NEW s \in Seq(S), s # <<>>
    PROVE  /\ Head(s) \in S /\ Tail(s) \in Seq(S)
           /\ Len(Tail(s)) < Len(s)
           /\ Elements(s) = {Head(s)} \cup Elements(Tail(s))
  <1>1. /\ Head(s) \in S /\ Tail(s) \in Seq(S)
        /\ Len(Tail(s)) = Len(s) - 1 /\ Len(s) \in Nat \ {0}
    OBVIOUS
  <1>2. \A i \in DOMAIN Tail(s) : i + 1 \in DOMAIN s /\ Tail(s)[i] = s[i + 1]
    BY <1>1
  <1>3. 1 \in DOMAIN s /\ s[1] = Head(s)
    BY <1>1
  <1>4. \A i \in DOMAIN s : i = 1 \/ (i - 1 \in DOMAIN Tail(s) /\ Tail(s)[i - 1] = s[i])
    BY <1>1
  <1> QED
    BY <1>1, <1>2, <1>3, <1>4 DEF Elements

LEMMA RowsInTable ==
    ASSUME NEW t \in Tables, NEW names \in Seq(Names \cup PluginNames)
    PROVE  /\ InTable(t, names) \in Seq(TableRow)
           /\ Elements(InTable(t, names))
                = {[table |-> t, name |-> names[i]] : i \in DOMAIN names}
  <1>1. DOMAIN names = 1..Len(names) /\ Len(names) \in Nat
    OBVIOUS
  <1>2. InTable(t, names) = [i \in 1..Len(names) |-> [table |-> t, name |-> names[i]]]
    BY <1>1 DEF InTable
  <1>3. \A i \in 1..Len(names) : [table |-> t, name |-> names[i]] \in TableRow
    BY <1>1 DEF TableRow
  <1> QED
    BY <1>1, <1>2, <1>3 DEF Elements

LEMMA OneRowInTable ==
    ASSUME NEW t \in Tables, NEW n \in Names \cup PluginNames
    PROVE  /\ InTable(t, <<n>>) \in Seq(TableRow)
           /\ Elements(InTable(t, <<n>>)) = {[table |-> t, name |-> n]}
  <1> DEFINE names == <<n>>
  <1>1. /\ names \in Seq(Names \cup PluginNames)
        /\ DOMAIN names = {1} /\ names[1] = n
    OBVIOUS
  <1> HIDE DEF names
  <1>2. {[table |-> t, name |-> names[i]] : i \in DOMAIN names} = {[table |-> t, name |-> n]}
    BY <1>1
  <1>3. /\ InTable(t, names) \in Seq(TableRow)
        /\ Elements(InTable(t, names)) = {[table |-> t, name |-> n]}
    BY <1>1, <1>2, RowsInTable
  <1> QED
    BY <1>3 DEF names

\* The rows of a plugin: its name, its service, its event types and flags.
LEMMA RegistrationRows ==
    ASSUME NEW p \in Plugin
    PROVE  /\ Registration(p) \in Seq(TableRow)
           /\ Registration(p) # <<>>
           /\ Elements(Registration(p)) =
                {[table |-> "Plugins", name |-> p.name], [table |-> "Services", name |-> p.service]}
                \cup {[table |-> "EventTypes", name |-> p.types[i]] : i \in DOMAIN p.types}
                \cup {[table |-> "Flags", name |-> p.flags[i]] : i \in DOMAIN p.flags}
  <1> DEFINE a == InTable("Plugins", <<p.name>>)
             b == InTable("Services", <<p.service>>)
             c == InTable("EventTypes", p.types)
             d == InTable("Flags", p.flags)
  <1>1. /\ p.name \in PluginNames /\ p.service \in Names
        /\ p.types \in Seq(Names) /\ p.flags \in Seq(Names)
    BY DEF Plugin
  <1>2. /\ <<p.name>> \in Seq(Names \cup PluginNames)
        /\ <<p.service>> \in Seq(Names \cup PluginNames)
        /\ p.types \in Seq(Names \cup PluginNames)
        /\ p.flags \in Seq(Names \cup PluginNames)
    BY <1>1
  <1>4. a \in Seq(TableRow) /\ Elements(a) = {[table |-> "Plugins", name |-> p.name]}
    BY <1>1, OneRowInTable DEF Tables, Cached
  <1>5. b \in Seq(TableRow) /\ Elements(b) = {[table |-> "Services", name |-> p.service]}
    BY <1>1, OneRowInTable DEF Tables, Cached
  <1>6. /\ c \in Seq(TableRow)
        /\ Elements(c) = {[table |-> "EventTypes", name |-> p.types[i]] : i \in DOMAIN p.types}
        /\ d \in Seq(TableRow)
        /\ Elements(d) = {[table |-> "Flags", name |-> p.flags[i]] : i \in DOMAIN p.flags}
    BY <1>2, RowsInTable DEF Tables, Cached
  <1> DEFINE ab == a \o b
             abc == ab \o c
  <1>7. Registration(p) = abc \o d
    BY DEF Registration
  <1> HIDE DEF a, b, c, d
  <1>8. ab \in Seq(TableRow) /\ Elements(ab) = Elements(a) \cup Elements(b)
    BY <1>4, <1>5, ConcatElements
  <1> HIDE DEF ab
  <1>9. abc \in Seq(TableRow) /\ Elements(abc) = Elements(ab) \cup Elements(c)
    BY <1>6, <1>8, ConcatElements
  <1> HIDE DEF abc
  <1>10. /\ Registration(p) \in Seq(TableRow)
         /\ Elements(Registration(p)) = Elements(abc) \cup Elements(d)
    BY <1>6, <1>7, <1>9, ConcatElements
  <1>11. Registration(p) # <<>>
    <2>1. Elements(<<>>) = {}
      BY DEF Elements
    <2> QED
      BY <2>1, <1>4, <1>8, <1>9, <1>10
  <1> QED
    BY <1>4, <1>5, <1>6, <1>8, <1>9, <1>10, <1>11

LEMMA ConcatBegins ==
    ASSUME NEW S, NEW a \in Seq(S), NEW b \in Seq(S), Len(a) >= 1
    PROVE  a \o b \in Seq(S) /\ Len(a \o b) >= 1 /\ (a \o b)[1] = a[1]
  <1>1. a \o b \in Seq(S) /\ Len(a \o b) = Len(a) + Len(b)
    OBVIOUS
  <1>2. Len(a) \in Nat /\ Len(b) \in Nat
    OBVIOUS
  <1>3. \A i \in 1..Len(a) : (a \o b)[i] = a[i]
    OBVIOUS
  <1> QED
    BY <1>1, <1>2, <1>3

\* A registration begins with the row in Plugins, the one that is looked for.
LEMMA RegistrationBegins ==
    ASSUME NEW p \in Plugin
    PROVE  Head(Registration(p)) = [table |-> "Plugins", name |-> p.name]
  <1> DEFINE a == InTable("Plugins", <<p.name>>)
             b == InTable("Services", <<p.service>>)
             c == InTable("EventTypes", p.types)
             d == InTable("Flags", p.flags)
  <1>1. /\ p.name \in Names \cup PluginNames /\ p.service \in Names \cup PluginNames
        /\ p.types \in Seq(Names \cup PluginNames) /\ p.flags \in Seq(Names \cup PluginNames)
    BY DEF Plugin
  <1>2. a \in Seq(TableRow) /\ b \in Seq(TableRow) /\ c \in Seq(TableRow) /\ d \in Seq(TableRow)
    <2>1. {"Plugins", "Services", "EventTypes", "Flags"} \subseteq Tables
      BY DEF Tables, Cached
    <2>2. a \in Seq(TableRow) /\ b \in Seq(TableRow)
      BY <1>1, <2>1, OneRowInTable
    <2>3. c \in Seq(TableRow) /\ d \in Seq(TableRow)
      BY <1>1, <2>1, RowsInTable
    <2> QED
      BY <2>2, <2>3
  <1>3. Len(a) = 1 /\ a[1] = [table |-> "Plugins", name |-> p.name]
    <2> DEFINE names == <<p.name>>
    <2>1. DOMAIN names = {1} /\ names[1] = p.name
      OBVIOUS
    <2> HIDE DEF names
    <2>2. /\ DOMAIN InTable("Plugins", names) = {1}
          /\ InTable("Plugins", names)[1] = [table |-> "Plugins", name |-> p.name]
      BY <2>1 DEF InTable
    <2>3. DOMAIN a = {1} /\ a[1] = [table |-> "Plugins", name |-> p.name]
      BY <2>2 DEF names
    <2> HIDE DEF a
    <2> QED
      BY <1>2, <2>3
  <1>4. Registration(p) = ((a \o b) \o c) \o d
    BY DEF Registration
  <1> HIDE DEF a, b, c, d
  <1>5. a \o b \in Seq(TableRow) /\ Len(a \o b) >= 1 /\ (a \o b)[1] = a[1]
    <2>1. Len(a) >= 1
      BY <1>3
    <2>2. a \in Seq(TableRow) /\ b \in Seq(TableRow)
      BY <1>2
    <2> QED
      BY <2>1, <2>2, ConcatBegins
  <1> DEFINE ab == a \o b
             abc == ab \o c
  <1> HIDE DEF ab
  <1>6. abc \in Seq(TableRow) /\ Len(abc) >= 1 /\ abc[1] = a[1]
    <2>1. ab \in Seq(TableRow) /\ Len(ab) >= 1 /\ ab[1] = a[1]
      BY <1>5 DEF ab
    <2> QED
      BY <1>2, <2>1, ConcatBegins
  <1> HIDE DEF abc
  <1>7. abc \o d \in Seq(TableRow) /\ Len(abc \o d) >= 1 /\ (abc \o d)[1] = a[1]
    BY <1>2, <1>6, ConcatBegins
  <1>8. Registration(p) = abc \o d
    BY <1>4 DEF ab, abc
  <1> QED
    BY <1>3, <1>7, <1>8

---------------------------------------------------------------------------
(* The inductive invariant, in parts                                       *)

TablesOK ==
    /\ manifest \in Manifests
    /\ rows = [t \in Tables |-> rows[t]]
    /\ \A t \in Tables : \A n \in DOMAIN rows[t] : rows[t][n] \in PluginNames
    /\ \A t \in Cached : DOMAIN rows[t] \subseteq Names

\* A mapping promises no more than its table holds.
CachesOK ==
    /\ cache \in [Loggers -> [Cached -> (SUBSET Names) \cup {NULL}]]
    /\ \A l \in Loggers, t \in Cached : cache[l][t] # NULL => cache[l][t] \subseteq DOMAIN rows[t]

\* Who did not give up goes on only with a database.
PhasesOK ==
    /\ db \in {"old", "none", "ready"} /\ creating \in Loggers \cup {NULL}
    /\ phase \in [Loggers -> Phases]
    /\ mail \in [Loggers -> 0..MaxMail]
    /\ \A l \in Loggers : (phase[l] = "creating") <=> (creating = l)
    /\ creating # NULL => db = "none"
    /\ \A l \in Loggers \ gaveUp :
          phase[l] \in Cached \cup {"loading", "ready"} => db = "ready"

\* What is left of the scan comes from the manifest, what is left of a
\* registration from its plugin, whose other rows are in the tables.
JobOK(l) ==
    /\ todo[l] # <<>> => phase[l] = "loading"
    /\ Elements(todo[l]) \subseteq Elements(manifest)
    /\ ~Working(l) => job[l].rest = <<>>
    /\ Working(l) => LET p == job[l].plugin IN
          /\ todo[l] # <<>> /\ p = Head(todo[l])
          /\ Elements(job[l].rest) \subseteq Elements(Registration(p))
          /\ Len(job[l].rest) <= Len(Registration(p))
          /\ job[l].rest # <<>> =>
                \A row \in Elements(Registration(p)) :
                    row \in Elements(job[l].rest) \/ RegisteredBy(p.name, row)

JobsOK ==
    /\ todo \in [Loggers -> Seq(Plugin)]
    /\ job \in [Loggers -> [plugin : Plugin \cup {NULL}, rest : Seq(TableRow)]]
    /\ \A l \in Loggers : JobOK(l)

LoadedOK == loaded = [l \in Loggers |-> loaded[l]] /\ LoadedForItsService

FoundOK ==
    \A p \in Elements(manifest) :
        \/ p.name \notin DOMAIN rows["Plugins"]
        \/ Complete(p)
        \/ p.name \in abandoned
        \/ \E l \in Loggers : Started(l) /\ job[l].plugin = p

Base == TablesOK /\ CachesOK /\ PhasesOK /\ JobsOK /\ LoadedOK

LEMMA InitBase == Init => Base /\ FoundOK
  <1> SUFFICES ASSUME Init PROVE Base /\ FoundOK
    OBVIOUS
  <1>1. TablesOK
    BY DEF Init, TablesOK, NoRows, Tables, Cached
  <1>2. CachesOK
    BY DEF Init, CachesOK, Unread, Cached
  <1>3. PhasesOK
    BY BoundsAssumption, NullAssumption DEF Init, PhasesOK, Phases, Cached
  <1>4. JobsOK
    <2>1. \A l \in Loggers : todo[l] = <<>> /\ job[l] = NoJob
      BY DEF Init
    <2>2. NoJob \in [plugin : Plugin \cup {NULL}, rest : Seq(TableRow)]
      BY DEF NoJob
    <2>3. Elements(<<>>) = {} /\ NoJob.plugin = NULL /\ NoJob.rest = <<>>
      BY DEF Elements, NoJob
    <2> QED
      BY <2>1, <2>2, <2>3 DEF Init, JobsOK, JobOK, Working
  <1>5. LoadedOK
    BY DEF Init, LoadedOK, LoadedForItsService, NoRows
  <1>6. FoundOK
    BY DEF Init, FoundOK, NoRows, Tables, Cached
  <1> QED
    BY <1>1, <1>2, <1>3, <1>4, <1>5, <1>6 DEF Base

---------------------------------------------------------------------------
(* What a step leaves alone                                                *)

\* Opening, making the schema, telling: only where the loggers are changes.
Opens(l) ==
    \/ \E answering \in BOOLEAN : Ensure(l, answering)
    \/ IgnoreReopen(l)
    \/ \E ok \in BOOLEAN : CreateEnds(l, ok)
    \/ EndOpen(l)

\* A step inside a plugin's file.
Loads(l) ==
    ReadTable(l) \/ StartPlugin(l) \/ SkipPlugin(l) \/ RegisterRow(l)
        \/ RegisterFails(l) \/ StorePlugin(l)

LEMMA Steps ==
    ASSUME [Next]_vars, ~ UNCHANGED vars
    PROVE  \E l \in Loggers : Opens(l) \/ Loads(l) \/ Die(l)
  BY DEF Next, Progress, Opens, Loads

LEMMA OpensUntouched ==
    ASSUME NEW l \in Loggers, Opens(l)
    PROVE  UNCHANGED <<manifest, rows, cache, todo, job, loaded, abandoned>>
  BY DEF Opens, Ensure, OpenFails, OpenFinds, OpenCreates, OpenGivesUp, IgnoreReopen,
         CreateEnds, EndOpen, inside, history, counts

\* What no step changes, and what only grows.
LEMMA ManifestStays ==
    ASSUME [Next]_vars
    PROVE  UNCHANGED manifest /\ abandoned \subseteq abandoned'
  <1>1. CASE UNCHANGED vars
    BY <1>1 DEF vars, history, counts
  <1>2. ASSUME NEW l \in Loggers, Loads(l)
        PROVE  UNCHANGED manifest /\ abandoned \subseteq abandoned'
    <2>1. CASE ReadTable(l) \/ StartPlugin(l) \/ SkipPlugin(l)
      BY <2>1 DEF ReadTable, StartPlugin, SkipPlugin, history, counts
    <2>2. CASE RegisterRow(l)
      BY <2>2 DEF RegisterRow, history, counts
    <2>3. CASE RegisterFails(l) \/ StorePlugin(l)
      BY <2>3 DEF RegisterFails, StorePlugin, history, counts
    <2> QED
      BY <1>2, <2>1, <2>2, <2>3 DEF Loads
  <1>3. ASSUME NEW l \in Loggers, Die(l)
        PROVE  UNCHANGED manifest /\ abandoned \subseteq abandoned'
    BY <1>3 DEF Die
  <1> QED
    BY <1>1, <1>2, <1>3, Steps, OpensUntouched

\* The row that is inserted is one of its plugin's, and only it is new.
LEMMA InsertedRow ==
    ASSUME Base, NEW l \in Loggers, RegisterRow(l)
    PROVE  \E p \in Plugin, row \in TableRow :
              /\ p = job[l].plugin /\ row = Head(job[l].rest)
              /\ row \in Elements(Registration(p))
              /\ row.table \in Cached => row.name \in Names
              /\ row.table = "Plugins" => row.name = p.name
              /\ row.name \notin DOMAIN rows[row.table]
              /\ rows' = [rows EXCEPT ![row.table] = WithEntry(@, row.name, p.name)]
              /\ job' = [job EXCEPT ![l].rest = Tail(job[l].rest)]
              /\ Tail(job[l].rest) \in Seq(TableRow)
              /\ Len(Tail(job[l].rest)) < Len(job[l].rest)
              /\ Elements(job[l].rest) = {row} \cup Elements(Tail(job[l].rest))
  <1> DEFINE p == job[l].plugin
             rest == job[l].rest
             row == Head(rest)
  <1>1. /\ Working(l) /\ rest # <<>> /\ ~ Present(row)
        /\ rows' = [rows EXCEPT ![row.table] = WithEntry(@, row.name, p.name)]
        /\ job' = [job EXCEPT ![l].rest = Tail(rest)]
    BY DEF RegisterRow
  <1>2. /\ p \in Plugin /\ rest \in Seq(TableRow)
        /\ Elements(rest) \subseteq Elements(Registration(p))
    BY <1>1 DEF Base, JobsOK, JobOK, Working
  <1> HIDE DEF p, rest
  <1>3. /\ row \in TableRow /\ Tail(rest) \in Seq(TableRow) /\ Len(Tail(rest)) < Len(rest)
        /\ Elements(rest) = {row} \cup Elements(Tail(rest))
    BY <1>1, <1>2, TailElements
  <1>4. row \in Elements(Registration(p))
    BY <1>2, <1>3
  <1> HIDE DEF row
  <1>5. /\ row.table \in Cached => row.name \in Names
        /\ row.table = "Plugins" => row.name = p.name
    <2>1. \A n, t : [table |-> t, name |-> n].table = t /\ [table |-> t, name |-> n].name = n
      OBVIOUS
    <2>2. /\ p.service \in Names
          /\ \A i \in DOMAIN p.types : p.types[i] \in Names
          /\ \A i \in DOMAIN p.flags : p.flags[i] \in Names
      BY <1>2 DEF Plugin
    <2>3. \/ row = [table |-> "Plugins", name |-> p.name]
          \/ \E n \in Names, t \in Cached : row = [table |-> t, name |-> n]
      BY <1>2, <1>4, <2>2, RegistrationRows DEF Cached
    <2> QED
      BY <2>1, <2>3 DEF Cached
  <1>6. /\ p = job[l].plugin /\ rest = job[l].rest /\ row = Head(job[l].rest)
    BY DEF p, rest, row
  <1>7. row.name \notin DOMAIN rows[row.table]
    BY <1>1 DEF Present
  <1> QED
    BY <1>1, <1>2, <1>3, <1>4, <1>5, <1>6, <1>7

\* How the tables change with it.
OnlyAdded(row, name) ==
    /\ rows' = [t \in Tables |-> rows'[t]]
    /\ \A t \in Tables :
          /\ DOMAIN rows[t] \subseteq DOMAIN rows'[t]
          /\ \A n \in DOMAIN rows[t] : rows'[t][n] = rows[t][n]
          /\ \A n \in DOMAIN rows'[t] : \/ n \in DOMAIN rows[t]
                                        \/ /\ t = row.table /\ n = row.name
                                           /\ rows'[t][n] = name

LEMMA RowAdded ==
    ASSUME Base, NEW p \in Plugin, NEW row \in TableRow,
           row.name \notin DOMAIN rows[row.table],
           rows' = [rows EXCEPT ![row.table] = WithEntry(@, row.name, p.name)]
    PROVE  /\ RegisteredBy(p.name, row)'
           /\ OnlyAdded(row, p.name)
  <1> DEFINE table == row.table
             name == row.name
             new == WithEntry(rows[table], name, p.name)
  <1>1. table \in Tables /\ rows = [t \in Tables |-> rows[t]]
    BY DEF TableRow, Base, TablesOK
  <1>2. /\ DOMAIN new = DOMAIN rows[table] \cup {name}
        /\ new[name] = p.name
        /\ \A n \in DOMAIN rows[table] : n # name => new[n] = rows[table][n]
    BY DEF WithEntry
  <1>3. /\ rows' = [t \in Tables |-> rows'[t]]
        /\ rows'[table] = new
        /\ \A t \in Tables : t # table => rows'[t] = rows[t]
    BY <1>1
  <1> HIDE DEF new
  <1>4. RegisteredBy(p.name, row)'
    BY <1>1, <1>2, <1>3 DEF RegisteredBy, Present
  <1> QED
    BY <1>1, <1>2, <1>3, <1>4 DEF OnlyAdded

\* Rows stay, with the plugin that registered them.
LEMMA RowsStay ==
    ASSUME Base, [Next]_vars
    PROVE  \A t \in Tables : \A n \in DOMAIN rows[t] :
               n \in DOMAIN rows'[t] /\ rows'[t][n] = rows[t][n]
  <1>1. CASE UNCHANGED rows
    BY <1>1
  <1>2. CASE ~ UNCHANGED rows
    <2>1. PICK l \in Loggers : RegisterRow(l)
      <3>1. ~ UNCHANGED vars
        BY <1>2 DEF vars
      <3> QED
        BY <1>2, <3>1, Steps, OpensUntouched
        DEF Loads, ReadTable, StartPlugin, SkipPlugin, RegisterFails, StorePlugin, Die
    <2> QED
      BY <2>1, InsertedRow, RowAdded DEF OnlyAdded
  <1> QED
    BY <1>1, <1>2

---------------------------------------------------------------------------
(* Each part is kept by every step                                         *)

LEMMA TablesStep ==
    ASSUME Base, [Next]_vars
    PROVE  TablesOK'
  <1>1. UNCHANGED manifest
    BY ManifestStays
  <1>2. CASE UNCHANGED rows
    BY <1>1, <1>2 DEF Base, TablesOK
  <1>3. ASSUME NEW l \in Loggers, RegisterRow(l)
        PROVE  TablesOK'
    <2>1. PICK p \in Plugin, row \in TableRow :
             /\ row.table \in Cached => row.name \in Names
             /\ row.name \notin DOMAIN rows[row.table]
             /\ rows' = [rows EXCEPT ![row.table] = WithEntry(@, row.name, p.name)]
      BY <1>3, InsertedRow
    <2>2. p.name \in PluginNames
      BY DEF Plugin
    <2>3. OnlyAdded(row, p.name)
      <3>1. row.name \notin DOMAIN rows[row.table]
        BY <2>1
      <3>2. rows' = [rows EXCEPT ![row.table] = WithEntry(@, row.name, p.name)]
        BY <2>1
      <3> QED
        BY <3>1, <3>2, RowAdded
    <2>4. \A t \in Cached : t \in Tables /\ DOMAIN rows'[t] \subseteq Names
      <3>1. ASSUME NEW t \in Cached
            PROVE  t \in Tables /\ DOMAIN rows'[t] \subseteq Names
        <4>1. t \in Tables /\ DOMAIN rows[t] \subseteq Names
          BY DEF Base, TablesOK, Tables
        <4>2. ASSUME NEW n \in DOMAIN rows'[t] PROVE n \in Names
          <5>1. n \in DOMAIN rows[t] \/ (t = row.table /\ n = row.name)
            BY <2>3, <4>1, <4>2 DEF OnlyAdded
          <5> QED
            BY <2>1, <4>1, <5>1
        <4> QED
          BY <4>1, <4>2
      <3> QED
        BY <3>1
    <2>5. /\ rows' = [t \in Tables |-> rows'[t]]
          /\ \A t \in Tables : \A n \in DOMAIN rows'[t] : rows'[t][n] \in PluginNames
      BY <2>2, <2>3 DEF Base, TablesOK, OnlyAdded
    <2> QED
      BY <1>1, <2>4, <2>5 DEF Base, TablesOK
  <1> QED
    BY <1>2, <1>3, Steps, OpensUntouched
    DEF vars, Loads, ReadTable, StartPlugin, SkipPlugin, RegisterFails, StorePlugin, Die

\* ReadTable takes what is in the table, and RegisterRow adds to both.
LEMMA CachesStep ==
    ASSUME Base, [Next]_vars
    PROVE  CachesOK'
  <1> USE DEF Base, CachesOK
  <1>1. CASE UNCHANGED cache
    <2>1. Cached \subseteq Tables
      BY DEF Tables
    <2> QED
      BY <1>1, <2>1, RowsStay
  <1>2. ASSUME NEW l \in Loggers, ReadTable(l)
        PROVE  CachesOK'
    <2>1. PICK mapping \in {NULL, DOMAIN rows[phase[l]]} :
             cache' = [cache EXCEPT ![l][phase[l]] = mapping]
      BY <1>2 DEF ReadTable
    <2>2. phase[l] \in Cached /\ UNCHANGED rows
      BY <1>2 DEF ReadTable
    <2>3. mapping \in (SUBSET Names) \cup {NULL}
      BY <2>1, <2>2 DEF TablesOK
    <2> QED
      BY <2>1, <2>2, <2>3
  <1>3. ASSUME NEW l \in Loggers, Die(l)
        PROVE  CachesOK'
    BY <1>3 DEF Die, Unread
  <1>4. ASSUME NEW l \in Loggers, RegisterRow(l), ~ UNCHANGED cache
        PROVE  CachesOK'
    <2>1. PICK p \in Plugin, row \in TableRow :
             /\ row = Head(job[l].rest)
             /\ row.table \in Cached => row.name \in Names
             /\ row.name \notin DOMAIN rows[row.table]
             /\ rows' = [rows EXCEPT ![row.table] = WithEntry(@, row.name, p.name)]
      BY <1>4, InsertedRow
    <2>2. /\ row.table \in Cached /\ cache[l][row.table] # NULL
          /\ cache' = [cache EXCEPT ![l][row.table] = @ \cup {row.name}]
      BY <1>4, <2>1 DEF RegisterRow
    <2>3. row.name \in DOMAIN rows'[row.table]
      BY <2>1, RowAdded DEF RegisteredBy, Present
    <2>4. Cached \subseteq Tables
      BY DEF Tables
    <2>5. cache[l][row.table] \in SUBSET Names
      BY <2>2
    <2>6. /\ cache' \in [Loggers -> [Cached -> (SUBSET Names) \cup {NULL}]]
          /\ cache'[l][row.table] = cache[l][row.table] \cup {row.name}
          /\ \A m \in Loggers, t \in Cached :
                m # l \/ t # row.table => cache'[m][t] = cache[m][t]
      BY <2>1, <2>2, <2>5
    <2>7. \A t \in Cached : DOMAIN rows[t] \subseteq DOMAIN rows'[t]
      BY <2>4, RowsStay
    <2>8. \A m \in Loggers, t \in Cached :
             cache'[m][t] # NULL => cache'[m][t] \subseteq DOMAIN rows'[t]
      BY <2>2, <2>3, <2>6, <2>7
    <2> QED
      BY <2>6, <2>8
  <1> QED
    BY <1>1, <1>2, <1>3, <1>4, Steps, OpensUntouched
    DEF vars, inside, Loads, StartPlugin, SkipPlugin, RegisterFails, StorePlugin

LEMMA PhasesStep ==
    ASSUME Base, [Next]_vars
    PROVE  PhasesOK'
  <1> USE DEF PhasesOK, Base, Phases, Cached, inside, history, counts
  <1>1. \A l \in Loggers : mail[l] > 0 => mail[l] - 1 \in 0..MaxMail
    BY BoundsAssumption
  <1>2. ASSUME NEW l \in Loggers, NEW answering \in BOOLEAN, OpenFails(l, answering)
        PROVE  PhasesOK'
    BY <1>1, <1>2 DEF OpenFails, Enters, GoesTo
  <1>3. ASSUME NEW l \in Loggers, NEW answering \in BOOLEAN, OpenFinds(l, answering)
        PROVE  PhasesOK'
    BY <1>1, <1>3 DEF OpenFinds, Enters, GoesTo
  <1>4. ASSUME NEW l \in Loggers, NEW answering \in BOOLEAN, OpenCreates(l, answering)
        PROVE  PhasesOK'
    BY <1>1, <1>4, NullAssumption DEF OpenCreates, Enters, GoesTo
  <1>5. ASSUME NEW l \in Loggers, NEW answering \in BOOLEAN, OpenGivesUp(l, answering)
        PROVE  PhasesOK'
    BY <1>1, <1>5 DEF OpenGivesUp, Enters, GoesTo
  <1>6. ASSUME NEW l \in Loggers, IgnoreReopen(l)
        PROVE  PhasesOK'
    BY <1>1, <1>6 DEF IgnoreReopen
  <1>7. ASSUME NEW l \in Loggers, NEW ok \in BOOLEAN, CreateEnds(l, ok)
        PROVE  PhasesOK'
    BY <1>7, NullAssumption DEF CreateEnds, GoesTo
  <1>8. ASSUME NEW l \in Loggers, ReadTable(l)
        PROVE  PhasesOK'
    <2>1. /\ UNCHANGED <<db, creating, mail, gaveUp>>
          /\ phase' = [phase EXCEPT ![l] = AfterTable[phase[l]]]
          /\ phase[l] \in Cached
      BY <1>8 DEF ReadTable, GoesTo
    <2>2. AfterTable["Services"] = "EventTypes" /\ AfterTable["EventTypes"] = "Flags"
          /\ AfterTable["Flags"] = "loading"
      BY DEF AfterTable
    <2> QED
      BY <2>1, <2>2
  <1>9. ASSUME NEW l \in Loggers, RegisterRow(l)
        PROVE  PhasesOK'
    BY <1>9 DEF RegisterRow
  <1>10. ASSUME NEW l \in Loggers, StartPlugin(l) \/ SkipPlugin(l) \/ RegisterFails(l) \/ StorePlugin(l)
         PROVE  PhasesOK'
    BY <1>10 DEF StartPlugin, SkipPlugin, RegisterFails, StorePlugin
  <1>11. ASSUME NEW l \in Loggers, EndOpen(l)
         PROVE  PhasesOK'
    <2>1. mail' \in [Loggers -> 0..MaxMail]
      BY <1>11, BoundsAssumption DEF EndOpen, DbReopen
    <2> QED
      BY <1>11, <2>1 DEF EndOpen, GoesTo
  <1>12. ASSUME NEW l \in Loggers, Die(l)
         PROVE  PhasesOK'
    <2>1. mail' \in [Loggers -> 0..MaxMail]
      BY <1>12, BoundsAssumption DEF Die
    <2> QED
      BY <1>12, <2>1, NullAssumption DEF Die, GoesTo
  <1>13. CASE UNCHANGED vars
    BY <1>13 DEF vars
  <1> QED
    BY <1>2, <1>3, <1>4, <1>5, <1>6, <1>7, <1>8, <1>9, <1>10, <1>11, <1>12, <1>13
    DEF Next, Progress, Ensure

LEMMA RegisteredStays ==
    ASSUME Base, [Next]_vars, NEW q, NEW row \in TableRow, RegisteredBy(q, row)
    PROVE  RegisteredBy(q, row)'
  BY RowsStay DEF RegisteredBy, Present, TableRow

LEMMA RegistrationInTables ==
    ASSUME NEW p \in Plugin
    PROVE  Elements(Registration(p)) \subseteq TableRow
  <1>1. Registration(p) \in Seq(TableRow)
    BY RegistrationRows
  <1> QED
    BY <1>1 DEF Elements

\* A logger is not disturbed by what another one does.
LEMMA OtherJob ==
    ASSUME Base, [Next]_vars, NEW m \in Loggers, UNCHANGED <<manifest, job[m], todo[m]>>,
           todo[m] = <<>> \/ UNCHANGED phase[m]
    PROVE  JobOK(m)'
  <1>1. JobOK(m) /\ (Working(m) => job[m].plugin \in Plugin)
    BY DEF Base, JobsOK, Working
  <1>2. CASE Working(m)
    <2>1. PICK p \in Plugin : p = job[m].plugin
      BY <1>1, <1>2
    <2>2. \A row \in Elements(Registration(p)) :
             RegisteredBy(p.name, row) => RegisteredBy(p.name, row)'
      BY RegistrationInTables, RegisteredStays
    <2>3. job'[m].plugin = p /\ job'[m].rest = job[m].rest
      BY <2>1
    <2> QED
      BY <1>1, <1>2, <2>1, <2>2, <2>3 DEF JobOK, Working
  <1>3. CASE ~Working(m)
    BY <1>1, <1>3 DEF JobOK, Working
  <1> QED
    BY <1>2, <1>3

\* The rest of the scan, once a plugin's file has been dealt with.
LEMMA ClosedJob ==
    ASSUME Base, NEW l \in Loggers, Closed(l), todo[l] # <<>>, UNCHANGED <<manifest, phase>>
    PROVE  /\ todo' \in [Loggers -> Seq(Plugin)]
           /\ job' \in [Loggers -> [plugin : Plugin \cup {NULL}, rest : Seq(TableRow)]]
           /\ JobOK(l)'
           /\ \A m \in Loggers : m # l => UNCHANGED <<todo[m], job[m]>>
  <1>1. /\ todo \in [Loggers -> Seq(Plugin)]
        /\ job \in [Loggers -> [plugin : Plugin \cup {NULL}, rest : Seq(TableRow)]]
        /\ phase[l] = "loading" /\ Elements(todo[l]) \subseteq Elements(manifest)
    BY DEF Base, JobsOK, JobOK
  <1>2. /\ Tail(todo[l]) \in Seq(Plugin)
        /\ Elements(Tail(todo[l])) \subseteq Elements(todo[l])
    BY <1>1, TailElements
  <1>3. todo' = [todo EXCEPT ![l] = Tail(todo[l])] /\ job' = [job EXCEPT ![l] = NoJob]
    BY DEF Closed
  <1>4. /\ NoJob \in [plugin : Plugin \cup {NULL}, rest : Seq(TableRow)]
        /\ NoJob.plugin = NULL /\ NoJob.rest = <<>>
    BY DEF NoJob
  <1> QED
    BY <1>1, <1>2, <1>3, <1>4 DEF JobOK, Working

LEMMA JobsStep ==
    ASSUME Base, [Next]_vars
    PROVE  JobsOK'
  <1>0. /\ todo \in [Loggers -> Seq(Plugin)] /\ manifest \in Seq(Plugin)
        /\ job \in [Loggers -> [plugin : Plugin \cup {NULL}, rest : Seq(TableRow)]]
        /\ \A m \in Loggers : JobOK(m)
    BY ManifestsAssumption DEF Base, JobsOK, TablesOK
  <1>1. ASSUME NEW l \in Loggers, Opens(l)
        PROVE  JobsOK'
    <2>1. UNCHANGED <<manifest, job, todo>>
      BY <1>1, OpensUntouched
    <2>2. \A m \in Loggers : m # l => UNCHANGED phase[m]
      BY <1>1 DEF Opens, Ensure, OpenFails, OpenFinds, OpenCreates, OpenGivesUp, IgnoreReopen,
                  CreateEnds, EndOpen, GoesTo, Base, PhasesOK
    <2>3. todo[l] = <<>>
      <3>1. todo[l] = <<>> \/ phase[l] # "loading"
        BY <1>1 DEF Opens, Ensure, OpenFails, OpenFinds, OpenCreates, OpenGivesUp, Enters,
                    IgnoreReopen, CreateEnds, EndOpen, Base, PhasesOK
      <3> QED
        BY <3>1, <1>0 DEF JobOK
    <2> QED
      BY <1>0, <2>1, <2>2, <2>3, OtherJob DEF JobsOK
  <1>2. ASSUME NEW l \in Loggers, ReadTable(l)
        PROVE  JobsOK'
    <2>1. /\ UNCHANGED <<manifest, job>>
          /\ phase' = [phase EXCEPT ![l] = AfterTable[phase[l]]]
          /\ todo' = [todo EXCEPT ![l] = IF phase[l] = "Flags" THEN manifest ELSE todo[l]]
          /\ phase[l] \in Cached
      BY <1>2 DEF ReadTable, GoesTo
    <2>2. \A m \in Loggers : m # l => JobOK(m)'
      BY <1>0, <2>1, OtherJob DEF Base, PhasesOK
    <2>3. todo[l] = <<>> /\ ~Working(l) /\ job[l].rest = <<>>
      BY <1>0, <2>1 DEF JobOK, Cached
    <2>4. Elements(<<>>) \subseteq Elements(manifest)
      BY DEF Elements
    <2>5. phase[l] = "Flags" => phase'[l] = "loading"
      BY <2>1 DEF AfterTable, Base, PhasesOK
    <2>6. JobOK(l)'
      BY <1>0, <2>1, <2>3, <2>4, <2>5 DEF JobOK, Working
    <2> QED
      BY <1>0, <2>1, <2>2, <2>6 DEF JobsOK
  <1>3. ASSUME NEW l \in Loggers, StartPlugin(l)
        PROVE  JobsOK'
    <2>1. UNCHANGED <<manifest, todo, phase>> /\ todo[l] # <<>> /\ phase[l] = "loading"
      BY <1>3 DEF StartPlugin
    <2>2. PICK p \in Plugin : p = Head(todo[l])
      BY <1>0, <2>1, TailElements
    <2>3. /\ <<>> \in Seq(TableRow) /\ Registration(p) \in Seq(TableRow)
          /\ Elements(<<>>) = {} /\ Len(<<>>) = 0 /\ Len(Registration(p)) \in Nat
      BY <2>2, RegistrationRows DEF Elements
    <2>4. PICK rest \in Seq(TableRow) :
             /\ rest \in {<<>>, Registration(p)}
             /\ job' = [job EXCEPT ![l] = [plugin |-> p, rest |-> rest]]
      BY <1>3, <2>2, <2>3 DEF StartPlugin
    <2>5. job'[l].plugin = p /\ job'[l].rest = rest
      BY <1>0, <2>4
    <2>6. JobOK(l)'
      <3>1. /\ Elements(rest) \subseteq Elements(Registration(p))
            /\ Len(rest) <= Len(Registration(p))
            /\ rest # <<>> => \A row \in Elements(Registration(p)) : row \in Elements(rest)
        BY <2>3, <2>4
      <3>2. JobOK(l) /\ p # NULL
        BY <1>0, NullAssumption
      <3> QED
        BY <2>1, <2>2, <2>5, <3>1, <3>2 DEF JobOK, Working
    <2>7. \A m \in Loggers : m # l => JobOK(m)'
      BY <1>0, <2>1, <2>4, OtherJob
    <2>8. job' \in [Loggers -> [plugin : Plugin \cup {NULL}, rest : Seq(TableRow)]]
      BY <1>0, <2>2, <2>4
    <2> QED
      BY <1>0, <2>1, <2>6, <2>7, <2>8 DEF JobsOK
  <1>4. ASSUME NEW l \in Loggers, SkipPlugin(l) \/ RegisterFails(l) \/ StorePlugin(l)
        PROVE  JobsOK'
    <2>1. Closed(l) /\ UNCHANGED <<manifest, phase>> /\ todo[l] # <<>>
      BY <1>0, <1>4 DEF SkipPlugin, RegisterFails, StorePlugin, JobOK
    <2> QED
      BY <2>1, ClosedJob, OtherJob DEF JobsOK
  <1>5. ASSUME NEW l \in Loggers, RegisterRow(l)
        PROVE  JobsOK'
    <2>1. PICK p \in Plugin, row \in TableRow :
             /\ p = job[l].plugin
             /\ row.name \notin DOMAIN rows[row.table]
             /\ rows' = [rows EXCEPT ![row.table] = WithEntry(@, row.name, p.name)]
             /\ job' = [job EXCEPT ![l].rest = Tail(job[l].rest)]
             /\ Tail(job[l].rest) \in Seq(TableRow)
             /\ Len(Tail(job[l].rest)) < Len(job[l].rest)
             /\ Elements(job[l].rest) = {row} \cup Elements(Tail(job[l].rest))
      BY <1>5, InsertedRow
    <2>2. UNCHANGED <<manifest, todo, phase>> /\ Working(l) /\ job[l].rest # <<>>
      BY <1>5 DEF RegisterRow
    <2>3. /\ job' \in [Loggers -> [plugin : Plugin \cup {NULL}, rest : Seq(TableRow)]]
          /\ job'[l].plugin = p /\ job'[l].rest = Tail(job[l].rest)
          /\ \A m \in Loggers : m # l => UNCHANGED job[m]
      BY <1>0, <2>1
    <2>4. RegisteredBy(p.name, row)'
      BY <2>1, RowAdded
    <2>5. \A other \in Elements(Registration(p)) :
             RegisteredBy(p.name, other) => RegisteredBy(p.name, other)'
      BY RegistrationInTables, RegisteredStays
    <2>6. JobOK(l) /\ Len(Registration(p)) \in Nat /\ Len(job[l].rest) \in Nat
          /\ Len(Tail(job[l].rest)) \in Nat
      BY <1>0, <2>1, RegistrationRows
    <2>7. JobOK(l)'
      BY <2>1, <2>2, <2>3, <2>4, <2>5, <2>6 DEF JobOK, Working
    <2> QED
      BY <1>0, <2>2, <2>3, <2>7, OtherJob DEF JobsOK
  <1>6. ASSUME NEW l \in Loggers, Die(l)
        PROVE  JobsOK'
    <2>1. /\ UNCHANGED manifest
          /\ phase' = [phase EXCEPT ![l] = "down"]
          /\ todo' = [todo EXCEPT ![l] = <<>>]
          /\ job' = [job EXCEPT ![l] = NoJob]
      BY <1>6 DEF Die, GoesTo
    <2>2. /\ NoJob \in [plugin : Plugin \cup {NULL}, rest : Seq(TableRow)]
          /\ NoJob.plugin = NULL /\ NoJob.rest = <<>> /\ Elements(<<>>) = {}
      BY DEF NoJob, Elements
    <2>3. JobOK(l)'
      BY <1>0, <2>1, <2>2 DEF JobOK, Working
    <2>4. \A m \in Loggers : m # l => JobOK(m)'
      BY <1>0, <2>1, OtherJob DEF Base, PhasesOK
    <2> QED
      BY <1>0, <2>1, <2>2, <2>3, <2>4 DEF JobsOK
  <1>7. CASE UNCHANGED vars
    BY <1>0, <1>7, OtherJob DEF vars, inside, JobsOK
  <1> QED
    BY <1>1, <1>2, <1>3, <1>4, <1>5, <1>6, <1>7, Steps DEF Loads

LEMMA LoadedStep ==
    ASSUME Base, [Next]_vars
    PROVE  LoadedOK'
  <1>1. "Services" \in Tables
    BY DEF Tables, Cached
  <1>2. \A n \in DOMAIN rows["Services"] :
           n \in DOMAIN rows'["Services"] /\ rows'["Services"][n] = rows["Services"][n]
    BY <1>1, RowsStay
  <1>3. CASE UNCHANGED loaded
    BY <1>2, <1>3 DEF Base, LoadedOK, LoadedForItsService
  <1>4. ASSUME NEW l \in Loggers, StorePlugin(l)
        PROVE  LoadedOK'
    <2> DEFINE p == job[l].plugin.name
               s == ServiceOf(p)
    <2>1. s = NULL \/ (s \in DOMAIN rows["Services"] /\ rows["Services"][s] = p)
      BY DEF ServiceOf
    <2>2. loaded' = [loaded EXCEPT ![l] = WithEntry(loaded[l], s, p)]
      BY <1>4 DEF StorePlugin
    <2> HIDE DEF p, s
    <2>3. /\ DOMAIN WithEntry(loaded[l], s, p) = DOMAIN loaded[l] \cup {s}
          /\ WithEntry(loaded[l], s, p)[s] = p
          /\ \A n \in DOMAIN loaded[l] : n # s => WithEntry(loaded[l], s, p)[n] = loaded[l][n]
      BY DEF WithEntry
    <2>4. /\ loaded' = [m \in Loggers |-> loaded'[m]]
          /\ loaded'[l] = WithEntry(loaded[l], s, p)
          /\ \A m \in Loggers : m # l => loaded'[m] = loaded[m]
      BY <2>2 DEF Base, LoadedOK
    <2> QED
      BY <1>2, <2>1, <2>3, <2>4 DEF Base, LoadedOK, LoadedForItsService
  <1>5. ASSUME NEW l \in Loggers, Die(l)
        PROVE  LoadedOK'
    <2>1. loaded' = [loaded EXCEPT ![l] = NoRows] /\ DOMAIN NoRows = {}
      BY <1>5 DEF Die, NoRows
    <2> QED
      BY <1>2, <2>1 DEF Base, LoadedOK, LoadedForItsService
  <1> QED
    BY <1>3, <1>4, <1>5, Steps, OpensUntouched
    DEF vars, inside, Loads, ReadTable, StartPlugin, SkipPlugin, RegisterRow, RegisterFails

\* The base of the invariant is kept by every step.
LEMMA BaseStep ==
    ASSUME Base, [Next]_vars
    PROVE  Base'
  BY TablesStep, CachesStep, PhasesStep, JobsStep, LoadedStep DEF Base

---------------------------------------------------------------------------
(* "Let's assume everything is initialized"                                *)

\* No two plugins that are installed have the same name.
DistinctNames ==
    \A p, q \in Elements(manifest) : p.name = q.name => p = q

LEMMA CompleteStays ==
    ASSUME Base, [Next]_vars, NEW p \in Plugin, Complete(p)
    PROVE  Complete(p)'
  BY RegistrationInTables, RegisteredStays DEF Complete

\* The plugin whose registration goes on with this step has all its rows, or
\* more to come.
LEMMA RegistrarGoesOn ==
    ASSUME Base, [Next]_vars, NEW l \in Loggers, NEW p \in Plugin,
           RegisterRow(l), p = job[l].plugin
    PROVE  Complete(p)' \/ (Started(l) /\ job[l].plugin = p)'
  <1>1. PICK row \in TableRow :
           /\ RegisteredBy(p.name, row)'
           /\ job' = [job EXCEPT ![l].rest = Tail(job[l].rest)]
           /\ Len(Tail(job[l].rest)) < Len(job[l].rest)
           /\ Elements(job[l].rest) = {row} \cup Elements(Tail(job[l].rest))
           /\ Tail(job[l].rest) \in Seq(TableRow)
    <2>1. PICK row \in TableRow :
             /\ row.name \notin DOMAIN rows[row.table]
             /\ rows' = [rows EXCEPT ![row.table] = WithEntry(@, row.name, p.name)]
             /\ job' = [job EXCEPT ![l].rest = Tail(job[l].rest)]
             /\ Tail(job[l].rest) \in Seq(TableRow)
             /\ Len(Tail(job[l].rest)) < Len(job[l].rest)
             /\ Elements(job[l].rest) = {row} \cup Elements(Tail(job[l].rest))
      BY InsertedRow
    <2>2. RegisteredBy(p.name, row)'
      BY <2>1, RowAdded
    <2> QED
      BY <2>1, <2>2
  <1>2. Working(l) /\ job[l].rest # <<>> /\ JobOK(l)
        /\ job[l].rest \in Seq(TableRow) /\ Registration(p) \in Seq(TableRow)
    BY RegistrationRows DEF RegisterRow, Base, JobsOK
  <1>3. job'[l].plugin = p /\ job'[l].rest = Tail(job[l].rest)
    BY <1>1 DEF Base, JobsOK
  <1>4. CASE Tail(job[l].rest) = <<>>
    <2>1. Elements(<<>>) = {}
      BY DEF Elements
    <2>2. \A other \in Elements(Registration(p)) : other = row \/ RegisteredBy(p.name, other)
      BY <1>1, <1>2, <1>4, <2>1 DEF JobOK
    <2> QED
      BY <1>1, <2>2, RegistrationInTables, RegisteredStays DEF Complete
  <1>5. CASE Tail(job[l].rest) # <<>>
    <2>1. Len(job'[l].rest) < Len(Registration(p))
      <3>1. Len(job[l].rest) <= Len(Registration(p))
        BY <1>2 DEF JobOK
      <3>2. /\ Len(job[l].rest) \in Nat /\ Len(Registration(p)) \in Nat
            /\ Len(Tail(job[l].rest)) \in Nat
        BY <1>1, <1>2
      <3>3. Len(Tail(job[l].rest)) < Len(job[l].rest)
        BY <1>1
      <3>4. Len(Tail(job[l].rest)) < Len(Registration(p))
        BY <3>1, <3>2, <3>3
      <3> QED
        BY <1>3, <3>4
    <2>2. job'[l].rest # Registration(p)
      BY <1>2, <2>1
    <2>3. p # NULL
      BY NullAssumption
    <2> QED
      BY <1>3, <1>5, <2>2, <2>3 DEF Started, Working
  <1> QED
    BY <1>4, <1>5

LEMMA FoundStep ==
    ASSUME Base, FoundOK, DistinctNames, [Next]_vars
    PROVE  FoundOK' /\ DistinctNames'
  <1>1. UNCHANGED manifest /\ abandoned \subseteq abandoned'
    BY ManifestStays
  <1>2. Elements(manifest) \subseteq Plugin
    BY ManifestsAssumption DEF Base, TablesOK, Elements
  <1> SUFFICES ASSUME NEW p \in Elements(manifest), p.name \in DOMAIN rows'["Plugins"],
                      ~ Complete(p)', p.name \notin abandoned'
               PROVE  \E l \in Loggers : (Started(l) /\ job[l].plugin = p)'
    BY <1>1 DEF FoundOK, DistinctNames
  <1>3. p \in Plugin /\ ~ Complete(p) /\ p.name \notin abandoned
    BY <1>1, <1>2, CompleteStays
  <1>4. CASE p.name \in DOMAIN rows["Plugins"]
    <2>1. PICK l \in Loggers : Started(l) /\ job[l].plugin = p
      BY <1>3, <1>4 DEF FoundOK
    <2>2. CASE RegisterRow(l)
      BY <1>3, <2>1, <2>2, RegistrarGoesOn
    <2>3. CASE ~ RegisterRow(l)
      <3>1. UNCHANGED job[l]
        <4>1. ~ StartPlugin(l) /\ ~ SkipPlugin(l) /\ ~ StorePlugin(l)
          BY <2>1 DEF Started, StartPlugin, SkipPlugin, StorePlugin
        <4>2. ~ RegisterFails(l) /\ ~ Die(l)
          BY <1>1, <2>1, <1>3 DEF RegisterFails, Die
        <4>3. \A m \in Loggers : Loads(m) /\ m # l => UNCHANGED job[l]
          BY DEF Loads, ReadTable, StartPlugin, SkipPlugin, StorePlugin, RegisterRow,
                 RegisterFails, Closed, Base, JobsOK
        <4>4. \A m \in Loggers : Die(m) /\ m # l => UNCHANGED job[l]
          BY DEF Die, Base, JobsOK
        <4>5. ReadTable(l) => UNCHANGED job[l]
          BY DEF ReadTable
        <4> QED
          BY <2>3, <4>1, <4>2, <4>3, <4>4, <4>5, Steps, OpensUntouched DEF vars, inside, Loads
      <3> QED
        BY <2>1, <3>1 DEF Started, Working
    <2> QED
      BY <2>2, <2>3
  <1>5. CASE p.name \notin DOMAIN rows["Plugins"]
    <2>1. PICK l \in Loggers : RegisterRow(l)
      <3>1. ~ UNCHANGED rows
        BY <1>5
      <3>2. ~ UNCHANGED vars
        BY <3>1 DEF vars
      <3> QED
        BY <3>1, <3>2, Steps, OpensUntouched
        DEF Loads, ReadTable, StartPlugin, SkipPlugin, RegisterFails, StorePlugin, Die
    <2>2. PICK q \in Plugin, row \in TableRow :
             /\ q = job[l].plugin
             /\ row.table = "Plugins" => row.name = q.name
             /\ row.name \notin DOMAIN rows[row.table]
             /\ rows' = [rows EXCEPT ![row.table] = WithEntry(@, row.name, q.name)]
      BY <2>1, InsertedRow
    <2>3. row.table = "Plugins" /\ row.name = p.name
      <3>1. "Plugins" \in Tables /\ rows = [t \in Tables |-> rows[t]]
        BY DEF Tables, Base, TablesOK
      <3>2. rows' = [rows EXCEPT ![row.table] = WithEntry(@, row.name, q.name)]
        BY <2>2
      <3>3. row.table = "Plugins"
        BY <1>5, <3>1, <3>2
      <3>4. rows'["Plugins"] = WithEntry(rows["Plugins"], row.name, q.name)
        BY <3>1, <3>2, <3>3
      <3>5. DOMAIN rows'["Plugins"] = DOMAIN rows["Plugins"] \cup {row.name}
        BY <3>4 DEF WithEntry
      <3> QED
        BY <1>5, <3>3, <3>5
    <2>4. q \in Elements(manifest)
      <3>1. /\ Working(l) /\ todo[l] \in Seq(Plugin) /\ todo[l] # <<>> /\ q = Head(todo[l])
            /\ Elements(todo[l]) \subseteq Elements(manifest)
        BY <2>1, <2>2 DEF RegisterRow, Base, JobsOK, JobOK
      <3> QED
        BY <3>1, TailElements
    <2>5. q = p
      BY <2>2, <2>3, <2>4 DEF DistinctNames
    <2> QED
      BY <2>1, <2>2, <2>5, RegistrarGoesOn
  <1> QED
    BY <1>4, <1>5

---------------------------------------------------------------------------
(* What a logger knows of the plugins it has loaded                        *)

\* What a mapping lacks of its table came after the logger had read it.
MappingsOK ==
    /\ missed = [l \in Loggers |-> missed[l]]
    /\ \A l \in Loggers, t \in Cached : cache[l][t] # NULL =>
          \A n \in DOMAIN rows[t] :
             n \in cache[l][t] \/ [table |-> t, name |-> n] \in missed[l]

\* A plugin that is loaded is in the table, and so is one whose registration
\* has begun.
KnownOK ==
    \A l \in Loggers :
       /\ \A s \in DOMAIN loaded[l] : loaded[l][s] \in DOMAIN rows["Plugins"]
       /\ Working(l) => \/ job[l].rest = Registration(job[l].plugin)
                         \/ job[l].plugin.name \in DOMAIN rows["Plugins"]

LEMMA InitKnown == Init => MappingsOK /\ KnownOK
  BY DEF Init, MappingsOK, KnownOK, Unread, NoRows, NoJob, Working

LEMMA MappingsStep ==
    ASSUME Base, MappingsOK, [Next]_vars
    PROVE  MappingsOK'
  <1>1. CASE UNCHANGED <<rows, cache, missed>>
    BY <1>1 DEF MappingsOK
  <1>2. ASSUME NEW l \in Loggers, ReadTable(l)
        PROVE  MappingsOK'
    <2>1. PICK mapping \in {NULL, DOMAIN rows[phase[l]]} :
             cache' = [cache EXCEPT ![l][phase[l]] = mapping]
      BY <1>2 DEF ReadTable
    <2>2. phase[l] \in Cached /\ UNCHANGED <<rows, missed>>
      BY <1>2 DEF ReadTable
    <2> QED
      BY <2>1, <2>2 DEF Base, CachesOK, MappingsOK
  <1>3. ASSUME NEW l \in Loggers, RegisterRow(l)
        PROVE  MappingsOK'
    <2>1. PICK p \in Plugin, row \in TableRow :
             /\ row = Head(job[l].rest)
             /\ row.name \notin DOMAIN rows[row.table]
             /\ rows' = [rows EXCEPT ![row.table] = WithEntry(@, row.name, p.name)]
      BY <1>3, InsertedRow
    <2>2. OnlyAdded(row, p.name)
      BY <2>1, RowAdded
    <2>3. /\ missed' = [m \in Loggers |->
                 IF m # l /\ row.table \in Cached /\ cache[m][row.table] # NULL
                 THEN missed[m] \cup {row} ELSE missed[m]]
          /\ cache' = IF row.table \in Cached /\ cache[l][row.table] # NULL
                      THEN [cache EXCEPT ![l][row.table] = @ \cup {row.name}] ELSE cache
      BY <1>3, <2>1 DEF RegisterRow, Misses
    <2>4. /\ \A m \in Loggers, t \in Cached : cache'[m][t] # NULL =>
                cache[m][t] # NULL /\ cache[m][t] \subseteq cache'[m][t]
          /\ \A m \in Loggers : missed[m] \subseteq missed'[m]
      BY <2>3 DEF Base, CachesOK
    <2>5. ASSUME NEW m \in Loggers, NEW t \in Cached, cache'[m][t] # NULL,
                 NEW n \in DOMAIN rows'[t]
          PROVE  n \in cache'[m][t] \/ [table |-> t, name |-> n] \in missed'[m]
      <3>1. CASE n \in DOMAIN rows[t]
        BY <2>4, <2>5, <3>1 DEF MappingsOK
      <3>2. CASE n \notin DOMAIN rows[t]
        <4>1. t = row.table /\ n = row.name
          BY <2>2, <2>5, <3>2 DEF OnlyAdded, Tables
        <4>2. row = [table |-> t, name |-> n]
          BY <4>1 DEF TableRow
        <4>3. CASE m = l
          BY <2>3, <2>4, <2>5, <4>1, <4>3 DEF Base, CachesOK
        <4>4. CASE m # l
          BY <2>3, <2>4, <2>5, <4>1, <4>2, <4>4
        <4> QED
          BY <4>3, <4>4
      <3> QED
        BY <3>1, <3>2
    <2>6. missed' = [m \in Loggers |-> missed'[m]]
      BY <2>3
    <2> QED
      BY <2>5, <2>6 DEF MappingsOK
  <1>4. ASSUME NEW l \in Loggers, Die(l)
        PROVE  MappingsOK'
    <2>1. /\ UNCHANGED rows /\ cache' = [cache EXCEPT ![l] = Unread]
          /\ missed' = [missed EXCEPT ![l] = {}]
      BY <1>4 DEF Die
    <2> QED
      BY <2>1 DEF Base, CachesOK, MappingsOK, Unread
  <1>5. ASSUME NEW l \in Loggers, Opens(l)
        PROVE  UNCHANGED missed
    BY <1>5 DEF Opens, Ensure, OpenFails, OpenFinds, OpenCreates, OpenGivesUp, IgnoreReopen,
                CreateEnds, EndOpen, history
  <1> QED
    BY <1>1, <1>2, <1>3, <1>4, <1>5, Steps, OpensUntouched
    DEF vars, inside, history, Loads, StartPlugin, SkipPlugin, RegisterFails, StorePlugin

LEMMA KnownStep ==
    ASSUME Base, KnownOK, [Next]_vars
    PROVE  KnownOK'
  <1>0. /\ \A n \in DOMAIN rows["Plugins"] : n \in DOMAIN rows'["Plugins"]
        /\ job \in [Loggers -> [plugin : Plugin \cup {NULL}, rest : Seq(TableRow)]]
        /\ loaded = [l \in Loggers |-> loaded[l]]
    BY RowsStay DEF Tables, Base, JobsOK, LoadedOK
  <1>1. CASE UNCHANGED <<job, loaded>>
    BY <1>0, <1>1 DEF KnownOK, Working
  <1>2. ASSUME NEW l \in Loggers, StartPlugin(l)
        PROVE  KnownOK'
    <2>1. PICK p : /\ p = Head(todo[l]) /\ UNCHANGED <<rows, loaded>>
                   /\ job' = [job EXCEPT ![l] = [plugin |-> p, rest |->
                                 IF p.name \in DOMAIN rows["Plugins"] THEN <<>>
                                 ELSE Registration(p)]]
      BY <1>2 DEF StartPlugin
    <2> QED
      BY <1>0, <2>1 DEF KnownOK, Working
  <1>3. ASSUME NEW l \in Loggers, SkipPlugin(l) \/ RegisterFails(l)
        PROVE  KnownOK'
    <2>1. UNCHANGED <<rows, loaded>> /\ job' = [job EXCEPT ![l] = NoJob]
      BY <1>3 DEF SkipPlugin, RegisterFails, Closed
    <2> QED
      BY <1>0, <2>1 DEF KnownOK, Working, NoJob
  <1>4. ASSUME NEW l \in Loggers, RegisterRow(l)
        PROVE  KnownOK'
    <2>1. PICK p \in Plugin, row \in TableRow :
             /\ p = job[l].plugin /\ row = Head(job[l].rest)
             /\ row.table = "Plugins" => row.name = p.name
             /\ row.name \notin DOMAIN rows[row.table]
             /\ rows' = [rows EXCEPT ![row.table] = WithEntry(@, row.name, p.name)]
             /\ job' = [job EXCEPT ![l].rest = Tail(job[l].rest)]
      BY <1>4, InsertedRow
    <2>2. UNCHANGED loaded /\ Working(l)
      BY <1>4 DEF RegisterRow
    <2>3. p.name \in DOMAIN rows'["Plugins"]
      <3>1. CASE job[l].rest = Registration(p)
        <4>1. row = [table |-> "Plugins", name |-> p.name]
          BY <2>1, <3>1, RegistrationBegins
        <4>2. RegisteredBy(p.name, row)'
          BY <2>1, RowAdded
        <4> QED
          BY <4>1, <4>2 DEF RegisteredBy, Present
      <3>2. CASE job[l].rest # Registration(p)
        BY <1>0, <2>1, <2>2, <3>2 DEF KnownOK
      <3> QED
        BY <3>1, <3>2
    <2> QED
      BY <1>0, <2>1, <2>2, <2>3 DEF KnownOK, Working
  <1>5. ASSUME NEW l \in Loggers, StorePlugin(l)
        PROVE  KnownOK'
    <2> DEFINE p == job[l].plugin.name
               s == ServiceOf(p)
    <2>1. /\ UNCHANGED rows /\ Working(l) /\ job[l].rest = <<>>
          /\ loaded' = [loaded EXCEPT ![l] = WithEntry(loaded[l], s, p)]
          /\ job' = [job EXCEPT ![l] = NoJob]
      BY <1>5 DEF StorePlugin, Closed
    <2>2. p \in DOMAIN rows["Plugins"]
      BY <1>0, <2>1, RegistrationRows DEF KnownOK, Working
    <2> HIDE DEF p, s
    <2>3. /\ DOMAIN WithEntry(loaded[l], s, p) = DOMAIN loaded[l] \cup {s}
          /\ WithEntry(loaded[l], s, p)[s] = p
          /\ \A n \in DOMAIN loaded[l] : n # s => WithEntry(loaded[l], s, p)[n] = loaded[l][n]
      BY DEF WithEntry
    <2>4. /\ loaded'[l] = WithEntry(loaded[l], s, p)
          /\ \A m \in Loggers : m # l => loaded'[m] = loaded[m]
      BY <1>0, <2>1
    <2>5. \A m \in Loggers : Working(m)' => job'[m] = job[m] /\ Working(m)
      BY <1>0, <2>1 DEF Working, NoJob
    <2> QED
      BY <2>1, <2>2, <2>3, <2>4, <2>5 DEF KnownOK
  <1>6. ASSUME NEW l \in Loggers, Die(l)
        PROVE  KnownOK'
    <2>1. /\ UNCHANGED rows /\ job' = [job EXCEPT ![l] = NoJob]
          /\ loaded' = [loaded EXCEPT ![l] = NoRows] /\ DOMAIN NoRows = {}
      BY <1>6 DEF Die, NoRows
    <2> QED
      BY <1>0, <2>1 DEF KnownOK, Working, NoJob
  <1> QED
    BY <1>1, <1>2, <1>3, <1>4, <1>5, <1>6, Steps, OpensUntouched
    DEF vars, inside, Loads, ReadTable

---------------------------------------------------------------------------

\* The invariant holds for any loggers, plugins and bounds.
THEOREM PluginsInvariant == Spec => []Base
  <1>1. Init => Base
    BY InitBase
  <1>2. Base /\ [Next]_vars => Base'
    BY BaseStep
  <1> QED
    BY <1>1, <1>2, PTL DEF Spec

\* Tables, mappings and registrations keep their types.
THEOREM PluginsTypeCorrect == Spec => []TypeOK
  <1>1. Base => TypeOK
    BY DEF Base, TablesOK, CachesOK, PhasesOK, JobsOK, JobOK, TypeOK, Phases
  <1> QED
    BY <1>1, PluginsInvariant, PTL

\* An event that a logger accepts has the rows every listing joins it with.
THEOREM AcceptedIsListed == Spec => []EventsStayVisible
  <1>1. Base => EventsStayVisible
    BY DEF Base, CachesOK, EventsStayVisible, Accepts, Cached
  <1> QED
    BY <1>1, PluginsInvariant, PTL

\* Plugins are asked about events of their own services.
THEOREM AskedAboutItsService == Spec => []LoadedForItsService
  <1>1. Base => LoadedForItsService
    BY DEF Base, LoadedOK
  <1> QED
    BY <1>1, PluginsInvariant, PTL

\* If plugins have different names, one that is found in the table Plugins has
\* all its rows, or its registration is under way or was broken off.
THEOREM FoundHasItsRows == Spec /\ DistinctNames => []FoundIsRegistered
  <1>1. Base /\ FoundOK => FoundIsRegistered
    <2> SUFFICES ASSUME Base, FoundOK, NEW k \in DOMAIN manifest, NEW p, p = manifest[k],
                        Complete(p)
                 PROVE  /\ RegisteredBy(p.name, [table |-> "Services", name |-> p.service])
                        /\ \A i \in DOMAIN p.types :
                              RegisteredBy(p.name, [table |-> "EventTypes", name |-> p.types[i]])
                        /\ \A i \in DOMAIN p.flags :
                              RegisteredBy(p.name, [table |-> "Flags", name |-> p.flags[i]])
      BY DEF FoundOK, FoundIsRegistered, Elements
    <2>1. p \in Plugin
      BY ManifestsAssumption DEF Base, TablesOK
    <2> QED
      BY <2>1, RegistrationRows DEF Complete
  <1>2. Base /\ FoundOK /\ DistinctNames /\ [Next]_vars => (Base /\ FoundOK /\ DistinctNames)'
    BY BaseStep, FoundStep
  <1>3. Init => Base /\ FoundOK
    BY InitBase
  <1> QED
    BY <1>1, <1>2, <1>3, PTL DEF Spec

\* If plugins have different names, a logger knows the names of those it has
\* loaded, where it has a mapping at all: what it does not know was registered
\* by another logger after it had read the table.
THEOREM LoadedAreKnown == Spec /\ DistinctNames => []LoadedCanBeUsed
  <1>1. Base /\ FoundOK /\ MappingsOK /\ KnownOK => LoadedCanBeUsed
    <2> SUFFICES ASSUME Base, FoundOK, MappingsOK, KnownOK, NEW l \in Loggers,
                        NEW k \in DOMAIN manifest, NEW p, p = manifest[k],
                        NEW s \in DOMAIN loaded[l], loaded[l][s] = p.name,
                        p.name \notin abandoned,
                        ~ \E m \in Loggers : Started(m) /\ job[m].plugin = p,
                        NEW i \in DOMAIN Registration(p), NEW row, row = Registration(p)[i],
                        row.table \in Cached, cache[l][row.table] # NULL
                 PROVE  row.name \in cache[l][row.table] \/ row \in missed[l]
      BY DEF LoadedCanBeUsed
    <2>1. p \in Elements(manifest) /\ p.name \in DOMAIN rows["Plugins"]
      BY DEF KnownOK, Elements
    <2>2. Complete(p)
      BY <2>1 DEF FoundOK
    <2>3. row \in TableRow /\ row \in Elements(Registration(p))
      <3>1. p \in Plugin
        BY ManifestsAssumption DEF Base, TablesOK
      <3> QED
        BY <3>1, RegistrationInTables DEF Elements
    <2>4. row.name \in DOMAIN rows[row.table]
      BY <2>2, <2>3 DEF Complete, RegisteredBy, Present
    <2>5. row = [table |-> row.table, name |-> row.name]
      BY <2>3 DEF TableRow
    <2> QED
      BY <2>4, <2>5 DEF MappingsOK
  <1>2. /\ Base /\ FoundOK /\ DistinctNames /\ MappingsOK /\ KnownOK /\ [Next]_vars
        => (Base /\ FoundOK /\ DistinctNames /\ MappingsOK /\ KnownOK)'
    BY BaseStep, FoundStep, MappingsStep, KnownStep
  <1>3. Init => Base /\ FoundOK /\ MappingsOK /\ KnownOK
    BY InitBase, InitKnown
  <1> QED
    BY <1>1, <1>2, <1>3, PTL DEF Spec

---------------------------------------------------------------------------
(* No DbReopen is lost on a logger that waits                              *)

\* Whoever waits while the database is there has a DbReopen to dispatch, or
\* somebody who will send one is in the middle of opening, unless it came
\* after the database was ready and failed all the same.
WakeupUnderWay ==
    db = "ready" /\ ~ Disturbed =>
        \A l \in Loggers : phase[l] = "waiting" =>
            \/ mail[l] > 0
            \/ \E k \in Loggers : phase[k] \in Cached \cup {"loading"} /\ announces[k]
            \/ l \in refused

\* As long as there is no database nobody says so, which is why the first to
\* have it was not answering and says so.
FirstAnnounces ==
    /\ announces \in [Loggers -> BOOLEAN] /\ deaths \in Nat
    /\ ~ Disturbed =>
          /\ \A l \in Loggers : phase[l] = "creating" => announces[l]
          /\ db # "ready" => \A l \in Loggers : mail[l] = 0

LEMMA InitWakeup == Init => FirstAnnounces /\ WakeupUnderWay
  BY DEF Init, FirstAnnounces, WakeupUnderWay

\* A disturbance is never over.
LEMMA DisturbedStays ==
    ASSUME FirstAnnounces, [Next]_vars
    PROVE  deaths' \in Nat /\ (Disturbed => Disturbed')
  <1>1. CASE UNCHANGED vars
    BY <1>1 DEF vars, history, counts, FirstAnnounces, Disturbed
  <1>2. ASSUME NEW l \in Loggers, Loads(l)
        PROVE  deaths' = deaths /\ gaveUp' = gaveUp
    BY <1>2 DEF Loads, ReadTable, StartPlugin, SkipPlugin, RegisterRow, RegisterFails,
                StorePlugin, history, counts
  <1>3. ASSUME NEW l \in Loggers, Opens(l)
        PROVE  deaths' = deaths /\ gaveUp \subseteq gaveUp'
    BY <1>3 DEF Opens, Ensure, OpenFails, OpenFinds, OpenCreates, OpenGivesUp, IgnoreReopen,
                CreateEnds, EndOpen, history, counts
  <1>4. ASSUME NEW l \in Loggers, Die(l)
        PROVE  deaths' = deaths + 1
    BY <1>4 DEF Die
  <1> QED
    BY <1>1, <1>2, <1>3, <1>4, Steps DEF FirstAnnounces, Disturbed

\* Steps inside a call tell nobody anything and do not concern who waits.
LEMMA LoadsQuietly ==
    ASSUME Base, NEW l \in Loggers, Loads(l)
    PROVE  /\ UNCHANGED <<db, announces, mail, refused>>
           /\ \A k \in Loggers : phase'[k] # phase[k] =>
                 phase[k] \in Cached /\ phase'[k] \in Cached \cup {"loading"}
  <1>1. CASE ReadTable(l)
    <2>1. /\ UNCHANGED <<db, announces, mail, refused>> /\ phase[l] \in Cached
          /\ phase' = [phase EXCEPT ![l] = AfterTable[phase[l]]]
      BY <1>1 DEF ReadTable, GoesTo, history, counts
    <2>2. AfterTable[phase[l]] \in Cached \cup {"loading"}
      BY <2>1 DEF AfterTable, Cached
    <2> QED
      BY <2>1, <2>2 DEF Base, PhasesOK
  <1>2. CASE ~ ReadTable(l)
    BY <1>2 DEF Loads, StartPlugin, SkipPlugin, RegisterRow, RegisterFails, StorePlugin, history
  <1> QED
    BY <1>1, <1>2

LEMMA WakeupStep ==
    ASSUME Base, FirstAnnounces, WakeupUnderWay, [Next]_vars, MaxMail > 0
    PROVE  FirstAnnounces' /\ WakeupUnderWay'
  <1> DEFINE Going == Cached \cup {"loading"}
             At(l, where) == phase' = [phase EXCEPT ![l] = where]
             Sends(l, yes) == announces' = [announces EXCEPT ![l] = yes]
             Told(l, answering) ==
                 IF answering THEN /\ phase[l] = "waiting" /\ mail[l] > 0
                                   /\ mail' = [mail EXCEPT ![l] = @ - 1]
                              ELSE phase[l] \in {"down", "waiting"} /\ UNCHANGED mail
  <1>0. /\ announces \in [Loggers -> BOOLEAN] /\ mail \in [Loggers -> Nat] /\ MaxMail \in Nat
        /\ phase \in [Loggers -> Phases] /\ deaths' \in Nat
        /\ Disturbed => Disturbed'
    BY DisturbedStays, BoundsAssumption DEF Base, PhasesOK, FirstAnnounces
  <1>1. CASE UNCHANGED vars
    BY <1>1 DEF vars, history, counts, FirstAnnounces, WakeupUnderWay, Disturbed
  <1>2. ASSUME NEW l \in Loggers, Loads(l)
        PROVE  FirstAnnounces' /\ WakeupUnderWay'
    <2>1. /\ UNCHANGED <<db, announces, mail, refused>>
          /\ \A k \in Loggers : phase'[k] # phase[k] => phase[k] \in Going /\ phase'[k] \in Going
      BY <1>2, LoadsQuietly
    <2>2. "creating" \notin Going /\ "waiting" \notin Going
      BY DEF Cached
    <2>3. FirstAnnounces'
      BY <1>0, <2>1, <2>2 DEF FirstAnnounces
    <2>4. WakeupUnderWay'
      BY <1>0, <2>1, <2>2 DEF WakeupUnderWay
    <2> QED
      BY <2>3, <2>4
  <1>3. ASSUME NEW l \in Loggers, Die(l)
        PROVE  FirstAnnounces' /\ WakeupUnderWay'
    <2>1. Sends(l, TRUE) /\ deaths' = deaths + 1 /\ deaths \in Nat
      BY <1>3 DEF Die, Announces, FirstAnnounces
    <2> QED
      BY <1>0, <2>1 DEF FirstAnnounces, WakeupUnderWay, Disturbed
  \* Opening, by one who starts, is called, or answers.
  <1>4. ASSUME NEW l \in Loggers, NEW answering \in BOOLEAN, OpenFails(l, answering)
        PROVE  FirstAnnounces' /\ WakeupUnderWay'
    <2>1. /\ Told(l, answering) /\ At(l, "waiting") /\ UNCHANGED <<db, announces>>
          /\ refused' = IF db = "ready" THEN refused \cup {l} ELSE refused
      BY <1>4 DEF OpenFails, Enters, GoesTo
    <2>2. \A k \in Loggers : mail[k] = 0 => mail'[k] = 0
      BY <1>0, <2>1
    <2>3. phase[l] \in {"down", "waiting"}
      BY <2>1
    <2>4. \A k \in Loggers \ {l} : mail'[k] = mail[k] /\ phase'[k] = phase[k]
      BY <1>0, <2>1
    <2>5. FirstAnnounces'
      BY <1>0, <2>1, <2>2 DEF FirstAnnounces
    <2>6. WakeupUnderWay'
      <3> SUFFICES ASSUME db = "ready", ~ Disturbed, NEW k \in Loggers \ {l}, phase[k] = "waiting"
                   PROVE  \/ mail'[k] > 0
                          \/ \E m \in Loggers : phase'[m] \in Going /\ announces'[m]
                          \/ k \in refused'
        BY <1>0, <2>1, <2>4 DEF WakeupUnderWay
      <3>1. CASE \E m \in Loggers : phase[m] \in Going /\ announces[m]
        <4>1. PICK m \in Loggers : phase[m] \in Going /\ announces[m]
          BY <3>1
        <4>2. m # l
          BY <2>3, <4>1 DEF Cached
        <4> QED
          BY <2>1, <2>4, <4>1, <4>2
      <3>2. CASE mail[k] > 0 \/ k \in refused
        BY <2>1, <2>4, <3>2
      <3> QED
        BY <3>1, <3>2 DEF WakeupUnderWay
    <2> QED
      BY <2>5, <2>6
  <1>5. ASSUME NEW l \in Loggers, NEW answering \in BOOLEAN, OpenFinds(l, answering)
        PROVE  FirstAnnounces' /\ WakeupUnderWay'
    <2>1. /\ Told(l, answering) /\ At(l, "Services") /\ Sends(l, ~ answering)
          /\ db' = "ready" /\ phase[l] \in {"down", "waiting"} /\ refused' = refused \ {l}
      BY <1>5 DEF OpenFinds, Enters, GoesTo, Announces
    <2>2. \A k \in Loggers \ {l} :
             mail'[k] = mail[k] /\ phase'[k] = phase[k] /\ announces'[k] = announces[k]
      BY <1>0, <2>1
    <2>3. phase'[l] = "Services" /\ announces'[l] = ~ answering
      BY <1>0, <2>1
    <2>4. FirstAnnounces'
      BY <1>0, <2>1, <2>2, <2>3 DEF FirstAnnounces
    <2>5. CASE db = "ready" \/ Disturbed
      <3>1. SUFFICES ASSUME ~ Disturbed', NEW k \in Loggers, phase'[k] = "waiting"
                     PROVE  \/ mail'[k] > 0 \/ k \in refused'
                            \/ \E m \in Loggers : phase'[m] \in Going /\ announces'[m]
        BY <2>4 DEF WakeupUnderWay
      <3>2. db = "ready" /\ ~ Disturbed
        BY <1>0, <2>5, <3>1
      <3>3. k # l /\ mail'[k] = mail[k] /\ phase[k] = "waiting"
        BY <2>2, <2>3, <3>1
      <3>4. CASE mail[k] > 0 \/ k \in refused
        BY <2>1, <3>3, <3>4
      <3>5. CASE \E m \in Loggers : phase[m] \in Going /\ announces[m]
        <4>1. PICK m \in Loggers : phase[m] \in Going /\ announces[m]
          BY <3>5
        <4>2. m # l
          BY <2>1, <4>1 DEF Cached
        <4>3. phase'[m] \in Going /\ announces'[m]
          BY <2>2, <4>1, <4>2
        <4> QED
          BY <4>3
      <3> QED
        BY <3>2, <3>3, <3>4, <3>5 DEF WakeupUnderWay
    <2>6. CASE db # "ready" /\ ~ Disturbed
      <3>1. mail[l] = 0
        BY <2>6 DEF FirstAnnounces
      <3>2. ~ answering
        BY <2>1, <3>1
      <3>3. phase'[l] \in Going /\ announces'[l]
        BY <2>3, <3>2 DEF Cached
      <3>4. \E k \in Loggers : phase'[k] \in Going /\ announces'[k]
        BY <3>3
      <3> HIDE DEF Going
      <3> QED
        BY <2>4, <3>4 DEF WakeupUnderWay, Going
    <2> QED
      BY <2>4, <2>5, <2>6
  <1>6. ASSUME NEW l \in Loggers, NEW answering \in BOOLEAN, OpenCreates(l, answering)
        PROVE  FirstAnnounces' /\ WakeupUnderWay'
    <2>1. /\ Told(l, answering) /\ At(l, "creating") /\ Sends(l, ~ answering)
          /\ UNCHANGED db /\ db # "ready"
      BY <1>6 DEF OpenCreates, Enters, GoesTo, Announces
    <2>2. \A k \in Loggers : mail[k] = 0 => mail'[k] = 0
      BY <1>0, <2>1
    <2>3. ASSUME ~ Disturbed
          PROVE  announces'[l]
      <3>1. mail[l] = 0
        BY <2>1, <2>3 DEF FirstAnnounces
      <3>2. ~ answering
        BY <2>1, <3>1
      <3>3. announces' = [announces EXCEPT ![l] = TRUE]
        BY <2>1, <3>2
      <3> QED
        BY <1>0, <3>3
    <2>4. \A k \in Loggers \ {l} : phase'[k] = phase[k] /\ announces'[k] = announces[k]
      BY <1>0, <2>1
    <2>5. announces' \in [Loggers -> BOOLEAN] /\ db' # "ready"
      BY <1>0, <2>1
    <2>6. ASSUME ~ Disturbed'
          PROVE  /\ \A k \in Loggers : phase'[k] = "creating" => announces'[k]
                 /\ \A k \in Loggers : mail'[k] = 0
      <3>1. \A k \in Loggers : mail'[k] = 0
        BY <1>0, <2>1, <2>2, <2>6 DEF FirstAnnounces
      <3>2. \A k \in Loggers \ {l} : phase'[k] = "creating" => announces'[k]
        BY <1>0, <2>4, <2>6 DEF FirstAnnounces
      <3> QED
        BY <1>0, <2>3, <2>6, <3>1, <3>2
    <2>7. FirstAnnounces'
      BY <1>0, <2>5, <2>6 DEF FirstAnnounces
    <2>8. WakeupUnderWay'
      BY <2>5, Zenon DEF WakeupUnderWay
    <2> QED
      BY <2>7, <2>8
  <1>7. ASSUME NEW l \in Loggers, NEW answering \in BOOLEAN, OpenGivesUp(l, answering)
        PROVE  FirstAnnounces' /\ WakeupUnderWay'
    <2>1. Sends(l, ~ answering) /\ gaveUp' # {}
      BY <1>7 DEF OpenGivesUp, Announces
    <2> QED
      BY <1>0, <2>1 DEF FirstAnnounces, WakeupUnderWay, Disturbed
  <1>8. ASSUME NEW l \in Loggers, NEW ok \in BOOLEAN, CreateEnds(l, ok)
        PROVE  FirstAnnounces' /\ WakeupUnderWay'
    <2>1. /\ phase[l] = "creating" /\ UNCHANGED mail
          /\ Sends(l, ok => announces[l])
          /\ At(l, IF ok THEN "Services" ELSE "waiting")
          /\ db' = IF ok THEN "ready" ELSE db
          /\ db # "ready"
      BY <1>8, NullAssumption DEF CreateEnds, GoesTo, Announces, Base, PhasesOK
    <2>2. ~ Disturbed => announces'[l]
      BY <1>0, <2>1 DEF FirstAnnounces
    <2>3. FirstAnnounces'
      BY <1>0, <2>1 DEF FirstAnnounces
    <2>4. phase'[l] = IF ok THEN "Services" ELSE "waiting"
      BY <1>0, <2>1
    <2>5. WakeupUnderWay'
      BY <1>0, <2>1, <2>2, <2>4 DEF WakeupUnderWay, Cached
    <2> QED
      BY <2>3, <2>5
  \* The main loop, and the one who has opened tells the others.
  <1>9. ASSUME NEW l \in Loggers, IgnoreReopen(l)
        PROVE  FirstAnnounces' /\ WakeupUnderWay'
    <2>1. /\ phase[l] = "ready" /\ mail[l] > 0 /\ mail' = [mail EXCEPT ![l] = @ - 1]
          /\ UNCHANGED <<db, phase, announces, refused>>
      BY <1>9 DEF IgnoreReopen, history
    <2> QED
      BY <1>0, <2>1 DEF FirstAnnounces, WakeupUnderWay
  <1>10. ASSUME NEW l \in Loggers, EndOpen(l)
         PROVE  FirstAnnounces' /\ WakeupUnderWay'
    <2>1. /\ phase[l] = "loading" /\ At(l, "ready") /\ Sends(l, TRUE) /\ UNCHANGED db
          /\ mail' = IF announces[l] THEN DbReopen ELSE mail
          /\ gaveUp' = gaveUp /\ refused' = refused
      BY <1>10 DEF EndOpen, GoesTo, Announces, history, counts
    <2>2. ~ Disturbed => db = "ready"
      BY <2>1 DEF Disturbed, Base, PhasesOK
    <2>3. FirstAnnounces'
      BY <1>0, <2>1, <2>2 DEF FirstAnnounces
    <2>4. CASE announces[l]
      <3>1. \A k \in Loggers : phase[k] # "down" => mail'[k] > 0
        BY <1>0, <2>1, <2>4 DEF DbReopen
      <3>2. \A k \in Loggers : phase'[k] = "waiting" => phase[k] # "down"
        BY <1>0, <2>1
      <3> QED
        BY <2>3, <3>1, <3>2 DEF WakeupUnderWay
    <2>5. CASE ~ announces[l]
      <3>1. \A k \in Loggers \ {l} : phase'[k] = phase[k] /\ announces'[k] = announces[k]
        BY <1>0, <2>1
      <3>2. UNCHANGED mail /\ phase'[l] = "ready"
        BY <1>0, <2>1, <2>5
      <3>3. WakeupUnderWay'
        BY <1>0, <2>1, <2>5, <3>1, <3>2 DEF WakeupUnderWay
      <3> QED
        BY <2>3, <3>3
    <2> QED
      BY <2>4, <2>5
  <1> QED
    BY <1>1, <1>2, <1>3, <1>4, <1>5, <1>6, <1>7, <1>8, <1>9, <1>10, Steps DEF Opens, Ensure

\* The safety half of WaitingAreTold: unless a process dies or a logger gives
\* up, no logger waits for a database that is there with nobody to tell it,
\* but for those whose own attempt failed when it was there already.
THEOREM WakeupsAreNotLost ==
    ASSUME MaxMail > 0
    PROVE  Spec => []WakeupUnderWay
  <1>1. Base /\ [Next]_vars => Base'
    BY BaseStep
  <1>2. Base /\ FirstAnnounces /\ WakeupUnderWay /\ [Next]_vars
          => FirstAnnounces' /\ WakeupUnderWay'
    BY WakeupStep
  <1> QED
    BY <1>1, <1>2, InitBase, InitWakeup, PTL DEF Spec

============================================================================
