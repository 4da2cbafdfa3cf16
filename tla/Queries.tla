------------------------------ MODULE Queries ------------------------------
(***************************************************************************)
(* RTComElQuery: the settings a program makes on a query, the WHERE clause *)
(* that rtcom_el_query_prepare() builds from its conditions, and the SQL   *)
(* text that is only as new as the last prepare or refresh.  A condition   *)
(* is a record of the type of its column, its operator and what it admits; *)
(* a WHERE clause is the sequence of its conditions.                       *)
(***************************************************************************)
EXTENDS Integers, Sequences, FiniteSets, FiniteSetsExt, SequencesExt

CONSTANTS
    Viewers,     \* programs with a query
    Ids,         \* of events
    Contacts,    \* whom an event is with; its group is that of its contact
    Conditions,  \* what programs pass to rtcom_el_query_prepare()
    Settings,    \* the limits, offsets and groupings they set
    Worlds,      \* bounds: how much of what may happen in an execution
    NULL

\* The columns of an event that a condition can be about.
Contents == [read : BOOLEAN, contact : Contacts]
Comparisons == {"=", "<>", ">", ">=", "<", "<="}
Condition == [type : {"int", "string", "unknown"},
              op   : Comparisons \cup {"IN", "ENDS WITH", "LIKE"},
              holds : SUBSET Contents]
\* Grouping by contacts and by the uids of contacts are the same here.  A
\* listing by groups joins the rows of GroupCache, the table of EventStore,
\* and has no place in this module.
Setting == [limit : Int, offset : Nat, groupBy : {"none", "contact"}]

ASSUME IdsAssumption == Ids \subseteq Nat \ {0} /\ IsFiniteSet(Ids)
ASSUME ConditionsAssumption == Conditions \subseteq Condition
World == [edits : Nat, looks : Nat, changes : Nat, deaths : Nat, faults : Nat]
ASSUME WorldsAssumption == Worlds \subseteq World
ASSUME SettingsAssumption == Settings \subseteq Setting
ASSUME NullAssumption == NULL \notin Seq(Condition) /\ NULL \notin Contents

VARIABLES
    world,  \* the bounds of this execution
    edits,  \* how often a query was changed
    query, \* of each program: its setting, where clause and sql
    asked  \* the conditions of the last prepare, NULL if it failed

NewQuery == [setting |-> [limit |-> -1, offset |-> 0, groupBy |-> "none"],
             where |-> NULL, sql |-> NULL]

---------------------------------------------------------------------------
(* Changing the query                                                      *)

Edit == edits < world.edits /\ edits' = edits + 1

\* rtcom_el_query_set_limit(), set_offset(), set_group_by().
Set(p, setting) ==
    /\ Edit
    /\ query' = [query EXCEPT ![p].setting = setting]
    /\ UNCHANGED <<world, asked>>

Sql(setting, where) == [setting |-> setting, where |-> where]
SqlText == [setting : Setting, where : Seq(Condition) \cup {NULL}]

Refresh(p) ==
    /\ Edit
    /\ query' = [query EXCEPT ![p].sql = Sql(query[p].setting, query[p].where)]
    /\ UNCHANGED <<world, asked>>

\* _build_operator() has no string for the operators that only strings have.
Builds(c) ==
    /\ c.type # "unknown"
    /\ c.op \in Comparisons \/ c.type = "string"

\* Mutant of Clause: the old clause is freed last.
ClauseOrOld(p, conditions) ==
    IF \E i \in DOMAIN conditions : ~Builds(conditions[i]) THEN query[p].where
    ELSE IF conditions = <<>> THEN NULL ELSE conditions

Clause(p, conditions) ==
    IF conditions = <<>> \/ \E i \in DOMAIN conditions : ~Builds(conditions[i])
    THEN NULL ELSE conditions

\* A condition that cannot be built leaves the query without clause and sql.
Prepare(p, conditions) ==
    LET ok == \A i \in DOMAIN conditions : Builds(conditions[i])
        where == Clause(p, conditions)
    IN  /\ Edit
        /\ query' = [query EXCEPT ![p].where = where,
                                  ![p].sql =
                        IF ok THEN Sql(query[p].setting, where) ELSE NULL]
        /\ asked' = [asked EXCEPT ![p] = IF ok THEN conditions ELSE NULL]
        /\ UNCHANGED world

---------------------------------------------------------------------------
(* What a query lists: s is the table Events, id -> content or NULL        *)

Admits(where, content) ==
    content # NULL /\ (where # NULL => \A i \in DOMAIN where : content \in where[i].holds)

Stored(s) == {id \in Ids : s[id] # NULL}
Matching(where, s) == {id \in Ids : Admits(where, s[id])}

\* The last event of each contact among ids.
Latest(s, ids) ==
    {id \in ids : \A other \in ids : s[other].contact = s[id].contact => other <= id}

\* GROUP BY with MAX(Events.id) among its columns takes the last matching
\* event of a contact.
Candidates(sql, s) ==
    IF sql.setting.groupBy = "none" THEN Matching(sql.where, s)
    ELSE Latest(s, Matching(sql.where, s))

Descending(ids) ==
    CHOOSE seq \in [1..Cardinality(ids) -> ids] :
        \A i, j \in DOMAIN seq : i < j => seq[i] > seq[j]

\* ORDER BY id DESC LIMIT OFFSET; a negative limit is none.
Page(setting, ids) ==
    LET all == Descending(ids)
        last == IF setting.limit < 0 THEN Len(all) ELSE setting.offset + setting.limit
    IN  SubSeq(all, setting.offset + 1, IF last > Len(all) THEN Len(all) ELSE last)

Rows(sql, s) == Page(sql.setting, Candidates(sql, s))

============================================================================
