------------------------------ MODULE Plugins ------------------------------
(***************************************************************************)
(* How logger objects of several processes come to know the services,      *)
(* event types and flags.  _ensure_db() opens the database, reads three    *)
(* tables into mappings that the logger keeps for life, and loads the      *)
(* plugins; a plugin nobody has registered yet is registered row by row,   *)
(* each row a transaction of its own.  A logger that cannot open the       *)
(* database waits until it is called again or somebody sends DbReopen.     *)
(*                                                                         *)
(* Rows of these tables are never deleted and their names are UNIQUE, so   *)
(* a name stands for the id of its row.                                    *)
(***************************************************************************)
EXTENDS Sequences, Naturals

CONSTANTS
    Loggers,
    PluginNames,
    Names,      \* of services, event types and flags
    Manifests,  \* the plugins that may be installed, in the order of the scan
    MaxMail,    \* bound: DbReopen messages one logger has waiting
    MaxDeaths,  \* bound: processes that end
    MaxFaults,  \* bound: openings and SELECTs that fail with nobody in the way
    NULL

Plugin == [name : PluginNames, service : Names, types : Seq(Names), flags : Seq(Names)]

ASSUME ManifestsAssumption == Manifests \subseteq Seq(Plugin)
ASSUME BoundsAssumption == MaxMail \in Nat /\ MaxDeaths \in Nat /\ MaxFaults \in Nat
ASSUME NullAssumption ==
    /\ NULL \notin Names \cup PluginNames \cup Loggers \cup Plugin
    /\ \A mapping \in SUBSET Names : mapping # NULL

VARIABLES
    manifest,   \* the installed plugins
    db,         \* "old": to be converted, "none": no schema yet, "ready"
    creating,   \* the logger whose schema transaction holds the lock, or NULL
    rows,       \* table -> (name -> the plugin that registered it)
    phase,      \* where each logger is in _ensure_db()
    announces,  \* its argument reopen (TRUE outside of it)
    cache,      \* the mappings: table -> set of names, NULL if it has none
    todo,       \* the plugins of the scan not looked at yet
    job,        \* the _init_plugin() under way: its plugin, or NULL, and the
                \* rows still to be inserted
    loaded,     \* priv->plugins: service, or NULL for the id 0 -> plugin
    mail,       \* DbReopen messages not dispatched yet
    gaveUp,     \* loggers that opened while another one made the schema
    refused,    \* loggers that failed to open although the database was there
    abandoned,  \* plugins whose registration ended half way
    missed,     \* rows that others added after a logger had read their table
    deaths,     \* processes that have ended
    faults      \* openings and SELECTs that have failed

inside == <<cache, todo, job, loaded>>
counts == <<deaths, faults>>
history == <<gaveUp, refused, abandoned, missed, counts>>
vars == <<manifest, db, creating, rows, phase, announces, inside, mail, history>>

Cached == {"Services", "EventTypes", "Flags"}
Tables == Cached \cup {"Plugins"}
NoRows == [n \in {} |-> NULL]
Unread == [t \in Cached |-> NULL]
NoJob == [plugin |-> NULL, rest |-> <<>>]

---------------------------------------------------------------------------
(* _ensure_db(): opening.  The logger is "down" if its process does not    *)
(* run, and "waiting" if priv->db is NULL.                                 *)

\* Whoever starts a logger, calls one that has no database, or dispatches
\* DbReopen to one enters _ensure_db(); only the last does not announce.
Enters(l, answering) ==
    /\ IF answering
       THEN /\ phase[l] = "waiting" /\ mail[l] > 0
            /\ mail' = [mail EXCEPT ![l] = @ - 1]
       ELSE phase[l] \in {"down", "waiting"} /\ UNCHANGED mail

Fault == faults < MaxFaults /\ faults' = faults + 1

Announces(l, yes) == announces' = [announces EXCEPT ![l] = yes]
GoesTo(l, where) == phase' = [phase EXCEPT ![l] = where]

\* The old database cannot be converted now, quick_check runs into the lock
\* of the one who makes the schema; or, at any time, into that of some other
\* transaction, or the disk is full, or the directory cannot be made.
OpenFails(l, answering) ==
    /\ Enters(l, answering)
    /\ GoesTo(l, "waiting")
    /\ IF db = "old" \/ creating # NULL THEN UNCHANGED faults ELSE Fault
    /\ refused' = IF db = "ready" THEN refused \cup {l} ELSE refused
    /\ UNCHANGED <<manifest, db, creating, rows, announces, inside, gaveUp, abandoned,
                   missed, deaths>>

\* The schema is there, or comes with the conversion.
OpenFinds(l, answering) ==
    /\ Enters(l, answering)
    /\ db # "none" /\ creating = NULL
    /\ db' = "ready"
    /\ Announces(l, ~answering)
    /\ GoesTo(l, "Services")
    /\ refused' = refused \ {l}
    /\ UNCHANGED <<manifest, creating, rows, inside, gaveUp, abandoned, missed, counts>>

OpenCreates(l, answering) ==
    /\ Enters(l, answering)
    /\ db = "none" /\ creating = NULL
    /\ creating' = l
    /\ Announces(l, ~answering)
    /\ GoesTo(l, "creating")
    /\ UNCHANGED <<manifest, db, rows, inside, history>>

\* "If db is in use, that means schema is already installed, or is being
\* installed right now": user_version was 0 and BEGIN EXCLUSIVE timed out.
OpenGivesUp(l, answering) ==
    /\ Enters(l, answering)
    /\ db = "none" /\ creating # NULL
    /\ gaveUp' = gaveUp \cup {l}
    /\ Announces(l, ~answering)
    /\ GoesTo(l, "Services")
    /\ UNCHANGED <<manifest, db, creating, rows, inside, refused, abandoned, missed, counts>>

\* Mutant of CreateEnds: a failed creation stays on record.
CreateEndsForgetful(l, ok) ==
    /\ creating = l
    /\ creating' = IF ok THEN NULL ELSE l
    /\ db' = IF ok THEN "ready" ELSE db
    /\ GoesTo(l, IF ok THEN "Services" ELSE "waiting")
    /\ Announces(l, ok => announces[l])
    /\ UNCHANGED <<manifest, rows, inside, mail, history>>

\* The schema transaction ends: COMMIT, or a failed statement and close.
CreateEnds(l, ok) ==
    /\ creating = l
    /\ creating' = NULL
    /\ db' = IF ok THEN "ready" ELSE db
    /\ GoesTo(l, IF ok THEN "Services" ELSE "waiting")
    /\ Announces(l, ok => announces[l])
    /\ UNCHANGED <<manifest, rows, inside, mail, history>>

\* Somebody who waits gets DbReopen, so does everybody else who runs.
DbReopen == [l \in Loggers |-> IF phase[l] # "down" /\ mail[l] < MaxMail
                               THEN mail[l] + 1 ELSE mail[l]]

\* A logger that has its database ignores DbReopen.
IgnoreReopen(l) ==
    /\ phase[l] = "ready" /\ mail[l] > 0
    /\ mail' = [mail EXCEPT ![l] = @ - 1]
    /\ UNCHANGED <<manifest, db, creating, rows, phase, announces, inside, history>>

---------------------------------------------------------------------------
(* _build_db_representation(): phase is the table to be read next          *)

AfterTable == [Services |-> "EventTypes", EventTypes |-> "Flags", Flags |-> "loading"]

\* rtcom_el_db_cache_lookup_table() returns no mapping if the SELECT fails,
\* which it does when there is no such table, and may do at any time: on a
\* lock that is not released for too long, on an I/O error.
ReadTable(l) ==
    LET t == phase[l]
    IN  /\ t \in Cached
        /\ \/ /\ db = "ready" /\ UNCHANGED faults
              /\ cache' = [cache EXCEPT ![l][t] = DOMAIN rows[t]]
           \/ /\ IF db = "ready" THEN Fault ELSE UNCHANGED faults
              /\ cache' = [cache EXCEPT ![l][t] = NULL]
        /\ GoesTo(l, AfterTable[t])
        /\ todo' = [todo EXCEPT ![l] = IF t = "Flags" THEN manifest ELSE @]
        /\ UNCHANGED <<manifest, db, creating, rows, announces, job, loaded, mail,
                       gaveUp, refused, abandoned, missed, deaths>>

---------------------------------------------------------------------------
(* _load_plugins(), _load_plugin() and _init_plugin()                      *)

InTable(t, names) == [i \in DOMAIN names |-> [table |-> t, name |-> names[i]]]

\* The table with an entry under this name.
WithEntry(table, name, entry) ==
    [n \in DOMAIN table \cup {name} |-> IF n = name THEN entry ELSE table[n]]

\* Mutant of Registration: the flags are left out.
RegistrationWithoutFlags(p) ==
    InTable("Plugins", <<p.name>>) \o InTable("Services", <<p.service>>)
        \o InTable("EventTypes", p.types)

\* The rows that register a plugin, in the order of their INSERTs.
Registration(p) ==
    InTable("Plugins", <<p.name>>) \o InTable("Services", <<p.service>>)
        \o InTable("EventTypes", p.types) \o InTable("Flags", p.flags)

Present(row) == row.name \in DOMAIN rows[row.table]

Working(l) == job[l].plugin # NULL

Closed(l) ==
    /\ job' = [job EXCEPT ![l] = NoJob]
    /\ todo' = [todo EXCEPT ![l] = Tail(@)]

\* SELECT id FROM Plugins.  "Found!  The plugin is already in the table.
\* Let's assume everything is initialized".
StartPlugin(l) ==
    LET p == Head(todo[l])
        found == p.name \in DOMAIN rows["Plugins"]
    IN  /\ phase[l] = "loading" /\ ~Working(l) /\ todo[l] # <<>>
        /\ db = "ready"
        /\ job' = [job EXCEPT ![l] = [plugin |-> p,
                                     rest |-> IF found THEN <<>> ELSE Registration(p)]]
        /\ UNCHANGED <<manifest, db, creating, rows, phase, announces, cache, todo,
                       loaded, mail, history>>

\* The file is no plugin, or the SELECT fails.
SkipPlugin(l) ==
    /\ phase[l] = "loading" /\ ~Working(l) /\ todo[l] # <<>>
    /\ Closed(l)
    /\ UNCHANGED <<manifest, db, creating, rows, phase, announces, cache, loaded,
                   mail, history>>

\* The name is in the logger's own mapping: another plugin has it.
Clash(l, row) == row.table \in Cached /\ cache[l][row.table] # NULL
                 /\ row.name \in cache[l][row.table]

\* The others that have read the table do not get to know of the new row.
Misses(l, row) ==
    missed' = [m \in Loggers |->
                  IF m # l /\ row.table \in Cached /\ cache[m][row.table] # NULL
                  THEN missed[m] \cup {row} ELSE missed[m]]

\* Mutant of RegisterRow: the flags are not entered in the mapping.
RegisterRowUnmapped(l) ==
    LET p == job[l].plugin
        row == Head(job[l].rest)
    IN  /\ Working(l) /\ job[l].rest # <<>>
        /\ ~Clash(l, row) /\ ~Present(row)
        /\ rows' = [rows EXCEPT ![row.table] = WithEntry(@, row.name, p.name)]
        /\ cache' = IF row.table \in Cached \ {"Flags"} /\ cache[l][row.table] # NULL
                    THEN [cache EXCEPT ![l][row.table] = @ \cup {row.name}] ELSE cache
        /\ job' = [job EXCEPT ![l].rest = Tail(@)]
        /\ Misses(l, row)
        /\ UNCHANGED <<manifest, db, creating, phase, announces, todo, loaded,
                       mail, gaveUp, refused, abandoned, counts>>

\* One INSERT, and the entry in the mapping (if there is a mapping).
RegisterRow(l) ==
    LET p == job[l].plugin
        row == Head(job[l].rest)
    IN  /\ Working(l) /\ job[l].rest # <<>>
        /\ ~Clash(l, row) /\ ~Present(row)
        /\ rows' = [rows EXCEPT ![row.table] = WithEntry(@, row.name, p.name)]
        /\ cache' = IF row.table \in Cached /\ cache[l][row.table] # NULL
                    THEN [cache EXCEPT ![l][row.table] = @ \cup {row.name}] ELSE cache
        /\ job' = [job EXCEPT ![l].rest = Tail(@)]
        /\ Misses(l, row)
        /\ UNCHANGED <<manifest, db, creating, phase, announces, todo, loaded,
                       mail, gaveUp, refused, abandoned, counts>>

Started(l) == Working(l) /\ job[l].rest # <<>> /\ job[l].rest # Registration(job[l].plugin)

\* Mutant of RegisterFails: the ROLLBACK takes the plugin's rows away.
RegisterUndone(l) ==
    /\ Working(l) /\ job[l].rest # <<>>
    /\ Closed(l)
    /\ rows' = [t \in Tables |->
                   [n \in {n \in DOMAIN rows[t] : rows[t][n] # job[l].plugin.name} |-> rows[t][n]]]
    /\ abandoned' = abandoned
    /\ UNCHANGED <<manifest, db, creating, phase, announces, cache, loaded, mail,
                   gaveUp, refused, missed, counts>>

\* A name that is taken, or any other error: the ROLLBACK is refused, there
\* is no transaction, and the rows inserted so far stay.
RegisterFails(l) ==
    /\ Working(l) /\ job[l].rest # <<>>
    /\ Closed(l)
    /\ abandoned' = IF Started(l) THEN abandoned \cup {job[l].plugin.name} ELSE abandoned
    /\ UNCHANGED <<manifest, db, creating, rows, phase, announces, cache, loaded, mail,
                   gaveUp, refused, missed, counts>>

\* Mutant of ServiceOf: WHERE name.
ServiceNamedBy(p) ==
    LET its == {s \in DOMAIN rows["Services"] :
                  \E i \in DOMAIN manifest : manifest[i].name = p /\ manifest[i].service = s}
    IN  IF its = {} THEN NULL ELSE CHOOSE s \in its : TRUE

\* SELECT id FROM Services WHERE plugin_id; it stays 0 if there is none.
ServiceOf(p) ==
    LET its == {s \in DOMAIN rows["Services"] : rows["Services"][s] = p}
    IN  IF its = {} THEN NULL ELSE CHOOSE s \in its : TRUE

\* Registered or found: the plugin replaces what was stored for that id.
StorePlugin(l) ==
    LET p == job[l].plugin.name
    IN  /\ Working(l) /\ job[l].rest = <<>>
        /\ loaded' = [loaded EXCEPT ![l] = WithEntry(@, ServiceOf(p), p)]
        /\ Closed(l)
        /\ UNCHANGED <<manifest, db, creating, rows, phase, announces, cache, mail, history>>

\* Mutant of EndOpen: nobody is told.
EndOpenQuiet(l) ==
    /\ phase[l] = "loading" /\ todo[l] = <<>>
    /\ GoesTo(l, "ready")
    /\ UNCHANGED <<manifest, db, creating, rows, announces, inside, mail, history>>

\* The end of _ensure_db().
EndOpen(l) ==
    /\ phase[l] = "loading" /\ todo[l] = <<>>
    /\ GoesTo(l, "ready")
    /\ Announces(l, TRUE)
    /\ mail' = IF announces[l] THEN DbReopen ELSE mail
    /\ UNCHANGED <<manifest, db, creating, rows, inside, history>>

---------------------------------------------------------------------------
\* _add_event_precheck(): the service and the event type are looked up in
\* the mappings, independently of each other.
Accepts(l, service, type) ==
    /\ phase[l] = "ready"
    /\ cache[l]["Services"] # NULL /\ service \in cache[l]["Services"]
    /\ cache[l]["EventTypes"] # NULL /\ type \in cache[l]["EventTypes"]

\* The process ends, in the middle of anything.
Die(l) ==
    /\ phase[l] # "down" /\ deaths < MaxDeaths
    /\ GoesTo(l, "down")
    /\ creating' = IF creating = l THEN NULL ELSE creating
    /\ cache' = [cache EXCEPT ![l] = Unread]
    /\ todo' = [todo EXCEPT ![l] = <<>>]
    /\ job' = [job EXCEPT ![l] = NoJob]
    /\ loaded' = [loaded EXCEPT ![l] = NoRows]
    /\ mail' = [mail EXCEPT ![l] = 0]
    /\ gaveUp' = gaveUp \ {l} /\ refused' = refused \ {l}
    /\ missed' = [missed EXCEPT ![l] = {}]
    /\ abandoned' = IF Started(l) THEN abandoned \cup {job[l].plugin.name} ELSE abandoned
    /\ deaths' = deaths + 1
    /\ Announces(l, TRUE)
    /\ UNCHANGED <<manifest, db, rows, faults>>

---------------------------------------------------------------------------

Init ==
    /\ manifest \in Manifests
    /\ db \in {"old", "none"}
    /\ creating = NULL
    /\ rows = [t \in Tables |-> NoRows]
    /\ phase = [l \in Loggers |-> "down"]
    /\ announces = [l \in Loggers |-> TRUE]
    /\ cache = [l \in Loggers |-> Unread]
    /\ todo = [l \in Loggers |-> <<>>]
    /\ job = [l \in Loggers |-> NoJob]
    /\ loaded = [l \in Loggers |-> NoRows]
    /\ mail = [l \in Loggers |-> 0]
    /\ missed = [l \in Loggers |-> {}]
    /\ gaveUp = {} /\ refused = {} /\ abandoned = {} /\ deaths = 0 /\ faults = 0

Ensure(l, answering) ==
    \/ OpenFails(l, answering)
    \/ OpenFinds(l, answering)
    \/ OpenCreates(l, answering)
    \/ OpenGivesUp(l, answering)

\* What goes on inside a call, and what the main loop dispatches.
Progress(l) ==
    \/ Ensure(l, TRUE)
    \/ IgnoreReopen(l)
    \/ \E ok \in BOOLEAN : CreateEnds(l, ok)
    \/ ReadTable(l)
    \/ StartPlugin(l)
    \/ SkipPlugin(l)
    \/ RegisterRow(l)
    \/ RegisterFails(l)
    \/ StorePlugin(l)
    \/ EndOpen(l)

Next == \E l \in Loggers :
    \/ Progress(l)
    \/ Ensure(l, FALSE)
    \/ Die(l)

Spec == Init /\ [][Next]_vars
FairSpec == Spec /\ \A l \in Loggers : WF_vars(Progress(l))

---------------------------------------------------------------------------
(* Properties                                                              *)

\* The tables and mappings have their types; only a logger inside
\* _ensure_db() has plugins to load, and only one makes the schema.
TypeOK ==
    /\ manifest \in Manifests
    /\ db \in {"old", "none", "ready"}
    /\ creating \in Loggers \cup {NULL}
    /\ \A t \in Tables : \A n \in DOMAIN rows[t] : rows[t][n] \in PluginNames
    /\ phase \in [Loggers -> {"down", "waiting", "creating", "loading", "ready"} \cup Cached]
    /\ \A l \in Loggers :
          /\ (phase[l] = "creating") <=> (creating = l)
          /\ \A t \in Cached : cache[l][t] = NULL \/ cache[l][t] \subseteq Names
          /\ todo[l] # <<>> => phase[l] = "loading"
          /\ Working(l) => todo[l] # <<>> /\ job[l].plugin = Head(todo[l])
          /\ mail[l] \in 0..MaxMail
    /\ creating # NULL => db = "none"

\* Queries join Events with Services and EventTypes: an event whose service
\* or type has no row would be stored and never listed.
EventsStayVisible ==
    \A l \in Loggers : \A service, type \in Names :
        Accepts(l, service, type)
            => service \in DOMAIN rows["Services"] /\ type \in DOMAIN rows["EventTypes"]

RegisteredBy(p, row) == Present(row) /\ rows[row.table][row.name] = p

\* "Let's assume everything is initialized": a plugin that is found in the
\* table Plugins has all its rows, unless its registration is under way or
\* was broken off.
FoundIsRegistered ==
    \A k \in DOMAIN manifest : LET p == manifest[k] IN
        \/ p.name \notin DOMAIN rows["Plugins"]
        \/ /\ RegisteredBy(p.name, [table |-> "Services", name |-> p.service])
           /\ \A i \in DOMAIN p.types :
                 RegisteredBy(p.name, [table |-> "EventTypes", name |-> p.types[i]])
           /\ \A i \in DOMAIN p.flags :
                 RegisteredBy(p.name, [table |-> "Flags", name |-> p.flags[i]])
        \/ p.name \in abandoned
        \/ \E l \in Loggers : Started(l) /\ job[l].plugin = p

\* A plugin is asked about the events of its own service and no other:
\* rtcom_el_iter_get_full() looks it up by the service id of the event.
LoadedForItsService ==
    \A l \in Loggers : \A s \in DOMAIN loaded[l] \ {NULL} :
        /\ s \in DOMAIN rows["Services"]
        /\ rows["Services"][s] = loaded[l][s]

\* A logger that has loaded a plugin knows its service, types and flags: the
\* names are in its mappings, unless a mapping could not be read at all, or
\* the plugin was found, and what registered it came later than the reading.
LoadedCanBeUsed ==
    \A l \in Loggers : \A k \in DOMAIN manifest : LET p == manifest[k] IN
        \/ \A s \in DOMAIN loaded[l] : loaded[l][s] # p.name
        \/ p.name \in abandoned
        \/ \E m \in Loggers : Started(m) /\ job[m].plugin = p
        \/ \A i \in DOMAIN Registration(p) : LET row == Registration(p)[i] IN
              row.table \in Cached =>
                 \/ cache[l][row.table] = NULL
                 \/ row.name \in cache[l][row.table]
                 \/ row \in missed[l]

\* A logger that waits for the database gets it once it is there, without
\* being called: whoever opened it says so, once.  Three things break it: a
\* process that ends between opening and saying so, one that said so although
\* the schema then was not made, for who answers says nothing, and an opening
\* that failed after all was ready, for nobody says so again.
Disturbed == deaths > 0 \/ gaveUp # {}
WaitingAreTold ==
    \A l \in Loggers : (phase[l] = "waiting" /\ db = "ready")
                       ~> (phase[l] # "waiting" \/ l \in refused \/ Disturbed)

============================================================================
