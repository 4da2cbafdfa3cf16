---------------------------- MODULE EventStore ----------------------------
(***************************************************************************)
(* The event log proper: the Events table, the GroupCache table that the   *)
(* triggers of db.c and update_group_cache() of eventlogger.c maintain     *)
(* beside it, and the group-uid each logger object remembers.              *)
(*                                                                         *)
(* One action is one call of the library that ran to its end: every call   *)
(* that writes is one SQLite transaction (BEGIN ... COMMIT, or a single    *)
(* statement), so calls of different processes are serialised by the lock  *)
(* on the database file.  A call that ends in ROLLBACK leaves both tables  *)
(* as they were, which supposes that what it deleted still fits in the     *)
(* page cache (the deleting calls run with journal_mode = OFF).            *)
(***************************************************************************)
EXTENDS Integers, FiniteSets, FiniteSetsExt

CONSTANTS
    Loggers,   \* RTComEl objects, each in a process of its own
    Services,  \* rows of the Services table
    Groups,    \* group uids
    Bits,      \* bit positions used by the flags of the services
    NULL,      \* SQL NULL, a NULL pointer
    UNSET,     \* a field of an RTComElEvent whose _is_set_ bit is clear
    IOFaults,  \* whether statements may fail: database locked, disk full
    MaxId,     \* bound: no event gets an id above it
    MaxTotal   \* bound: no cached total_events goes above it

ASSUME BoundsAssumption == MaxId \in Nat /\ MaxTotal \in Nat
ASSUME BitsAssumption   == Bits \subseteq 0..30
ASSUME NullAssumption   == NULL \notin Groups
ASSUME FaultsAssumption == IOFaults \in BOOLEAN

VARIABLES
    events,      \* Events: id -> row
    groupCache,  \* GroupCache: <<service_id, group_uid>> -> the other columns
    lastGroup,   \* priv->last_group_uid of each logger
    error        \* why the last call that failed did so, "none" after a success

tables == <<events, groupCache>>
vars == <<events, groupCache, lastGroup, error>>

EventRow == [service : Services, group : Groups \cup {NULL},
             is_read : 0..1, flags : SUBSET Bits]

\* A flags column is the set of its bit positions.
CacheRow == [event_id : Nat, total_events : Nat, read_events : Int,
             flags : SUBSET (0..30)]

Failures == {"none", "constraint", "garbled", "io"}

Members(evs, g)     == {i \in DOMAIN evs : evs[i].group = g}
ReadMembers(evs, g) == {i \in Members(evs, g) : evs[i].is_read = 1}

---------------------------------------------------------------------------
(* Constraints and triggers of the schema                                  *)

\* INTEGER PRIMARY KEY without AUTOINCREMENT: one above the largest id in use.
IsNextId(ids, id) == /\ \A i \in ids : i < id
                     /\ id = 1 \/ id - 1 \in ids

\* Mutant of EventIdUnique: the column is not UNIQUE.
EventIdNotUnique(gc) == TRUE

\* event_id INTEGER UNIQUE
EventIdUnique(gc) ==
    \A k, l \in DOMAIN gc : gc[k].event_id = gc[l].event_id => k = l

\* Mutant of WithPlaceholder: trigger gc_update_ev_add1 is missing.
WithoutPlaceholder(gc, s, g) == gc

\* Trigger gc_update_ev_add1: INSERT OR IGNORE, so a row with the same
\* (service, group) or with the same event_id, 0, keeps the new one out.
WithPlaceholder(gc, s, g) ==
    IF <<s, g>> \in DOMAIN gc \/ \E k \in DOMAIN gc : gc[k].event_id = 0
    THEN gc
    ELSE [k \in DOMAIN gc \cup {<<s, g>>} |->
            IF k \in DOMAIN gc THEN gc[k]
            ELSE [event_id |-> 0, total_events |-> 0, read_events |-> 0,
                  flags |-> {}]]

\* Mutants of Counted: the WHERE names the service too, event_id is not set,
\* there is no WHERE at all.
CountedOf(gc, rows, eventId(_), ev) ==
    [k \in DOMAIN gc |->
        IF k \in rows
        THEN [event_id     |-> eventId(k),
              total_events |-> gc[k].total_events + 1,
              read_events  |-> gc[k].read_events + ev.is_read,
              flags        |-> gc[k].flags \cup ev.flags]
        ELSE gc[k]]
CountedInService(gc, id, ev) ==
    CountedOf(gc, {<<ev.service, ev.group>>}, LAMBDA k : id, ev)
CountedNotPointed(gc, id, ev) ==
    CountedOf(gc, {k \in DOMAIN gc : k[2] = ev.group},
              LAMBDA k : gc[k].event_id, ev)
CountedEverywhere(gc, id, ev) == CountedOf(gc, DOMAIN gc, LAMBDA k : id, ev)

\* Trigger gc_update_ev_add4: its WHERE names the group only, so the rows
\* of that group under every service are updated.
Counted(gc, id, ev) ==
    [k \in DOMAIN gc |->
        IF k[2] = ev.group
        THEN [event_id     |-> id,
              total_events |-> gc[k].total_events + 1,
              read_events  |-> gc[k].read_events + ev.is_read,
              flags        |-> gc[k].flags \cup ev.flags]
        ELSE gc[k]]

\* Both insert triggers of Events; they skip an event without a group.
AfterInsert(gc, id, ev) ==
    IF ev.group = NULL THEN gc
    ELSE Counted(WithPlaceholder(gc, ev.service, ev.group), id, ev)

\* Mutants of AfterUpdate: the old is_read is not subtracted, the old flags
\* are not cleared.
Updated(gc, old_read, old_flags, new) ==
    [k \in DOMAIN gc |->
        IF new.group # NULL /\ k[2] = new.group
        THEN [event_id     |-> gc[k].event_id,
              total_events |-> gc[k].total_events,
              read_events  |-> gc[k].read_events - old_read + new.is_read,
              flags        |-> (gc[k].flags \ old_flags) \cup new.flags]
        ELSE gc[k]]
AfterUpdateAdding(gc, old, new) == Updated(gc, 0, old.flags, new)
AfterUpdateKeeping(gc, old, new) == Updated(gc, old.is_read, {}, new)

\* Trigger gc_update_ev_update.
AfterUpdate(gc, old, new) ==
    [k \in DOMAIN gc |->
        IF new.group # NULL /\ k[2] = new.group
        THEN [event_id     |-> gc[k].event_id,
              total_events |-> gc[k].total_events,
              read_events  |-> gc[k].read_events - old.is_read + new.is_read,
              flags        |-> (gc[k].flags \ old.flags) \cup new.flags]
        ELSE gc[k]]

---------------------------------------------------------------------------
(* update_group_cache(): recompute the rows of the groups on a list        *)

FlagsValue(F) == MapThenSumSet(LAMBDA b : 2 ^ b, F)
BitsOf(n)     == {b \in 0..30 : (n \div 2 ^ b) % 2 = 1}
SumOfFlags(evs, g) ==
    MapThenSumSet(LAMBDA i : FlagsValue(evs[i].flags), Members(evs, g))

\* Mutant of Summary: COUNT(is_read) instead of SUM(is_read).
SummaryCountingAll(evs, g) ==
    [event_id     |-> Max(Members(evs, g)),
     total_events |-> Cardinality(Members(evs, g)),
     read_events  |-> Cardinality(Members(evs, g)),
     flags        |-> BitsOf(SumOfFlags(evs, g))]

\* MAX(id), COUNT( * ), SUM(is_read) and SUM(flags) over the group.
Summary(evs, g) ==
    [event_id     |-> Max(Members(evs, g)),
     total_events |-> Cardinality(Members(evs, g)),
     read_events  |-> Cardinality(ReadMembers(evs, g)),
     flags        |-> BitsOf(SumOfFlags(evs, g))]

\* The key of the summary: service_id is the one of the MAX(id) row.
SummaryKey(evs, g) == <<evs[Max(Members(evs, g))].service, g>>

\* INSERT OR REPLACE of the summaries removes each row that shares the key
\* or the event_id with one of them.
Replaced(evs, gc, gs) ==
    LET live == {g \in gs \ {NULL} : Members(evs, g) # {}}
        new  == {SummaryKey(evs, g) : g \in live}
        ids  == {Max(Members(evs, g)) : g \in live}
        kept == {k \in DOMAIN gc : gc[k].event_id \notin ids}
    IN  [k \in kept \cup new |-> IF k \in new THEN Summary(evs, k[2]) ELSE gc[k]]

\* The DELETE after it removes the rows of groups that have no event left.
Cleaned(evs, gc) ==
    [k \in {l \in DOMAIN gc : Members(evs, l[2]) # {}} |-> gc[k]]

\* The loop that writes the groups of the list into the statement frees the
\* whole list (g_slist_free) when it has done with the first node, and goes on
\* to the freed second one.  With one node nothing is wrong; with more, what
\* the statement names after the first is anybody's guess.
Several(gs) == \E g, h \in gs : g # h

NamesRead(gs) == IF Several(gs) THEN SUBSET (Groups \cup {NULL}) ELSE {gs}

\* With an empty list nothing runs, not even the DELETE.
UpdateGroupCache(evs, gc, gs, named) ==
    IF gs = {} THEN gc ELSE Cleaned(evs, Replaced(evs, gc, named))

---------------------------------------------------------------------------
(* The calls                                                               *)

NoRows == [k \in {} |-> NULL]

Init == /\ events = NoRows
        /\ groupCache = NoRows
        /\ lastGroup = [p \in Loggers |-> NULL]
        /\ error = "none"

\* Mutant of GroupFor: the field is used although it is not set.
GroupOfField(p, field) == field

\* The group an event is stored with: its own, or the remembered one.
GroupFor(p, field) == IF field = UNSET THEN lastGroup[p] ELSE field

\* rtcom_el_add_event() up to the INSERT: the group-uid is remembered first.
StartAdd(p, field) == lastGroup' = [lastGroup EXCEPT ![p] = GroupFor(p, field)]

AddEvent(p, field, ev, id) ==
    /\ \A k \in DOMAIN groupCache : groupCache[k].total_events < MaxTotal
    /\ ev.group = GroupFor(p, field)
    /\ IsNextId(DOMAIN events, id)
    /\ EventIdUnique(AfterInsert(groupCache, id, ev))
    /\ StartAdd(p, field)
    /\ events' = [i \in DOMAIN events \cup {id} |->
                    IF i = id THEN ev ELSE events[i]]
    /\ groupCache' = AfterInsert(groupCache, id, ev)
    /\ error' = "none"

\* The trigger breaks UNIQUE(event_id): the INSERT fails, then ROLLBACK.
AddEventRefused(p, field, ev, id) ==
    /\ ev.group = GroupFor(p, field)
    /\ IsNextId(DOMAIN events, id)
    /\ ~ EventIdUnique(AfterInsert(groupCache, id, ev))
    /\ StartAdd(p, field)
    /\ error' = "constraint"
    /\ UNCHANGED tables

\* Any statement inside the transaction hits a full disk or an I/O error.
AddEventFails(p, field) ==
    /\ IOFaults
    /\ StartAdd(p, field)
    /\ error' = "io"
    /\ UNCHANGED tables

\* UPDATE Events ... WHERE id = ..., with its trigger; an absent id is no error.
UpdateEvent(id, new) ==
    /\ IF id \in DOMAIN events
       THEN /\ events' = [events EXCEPT ![id] = new]
            /\ groupCache' = AfterUpdate(groupCache, events[id], new)
       ELSE UNCHANGED tables
    /\ error' = "none"
    /\ UNCHANGED lastGroup

SetReadEvent(id, read) == UpdateEvent(id, [events[id] EXCEPT !.is_read = read])

SetEventFlag(id, b) ==
    UpdateEvent(id, [events[id] EXCEPT !.flags = @ \cup {b}])

UnsetEventFlag(id, b) ==
    UpdateEvent(id, [events[id] EXCEPT !.flags = @ \ {b}])

\* end_time is not modelled, but the trigger fires on this UPDATE as well.
SetEndTime(id) == UpdateEvent(id, events[id])

Without(ids) == [i \in DOMAIN events \ ids |-> events[i]]

\* get_event_group_uids(): SELECT DISTINCT group_uid of the rows to delete.
GroupUids(ids) == {events[i].group : i \in ids \cap DOMAIN events}

\* rtcom_el_delete_event() of one id (present or not) and
\* rtcom_el_delete_events() of the rows that match a query.
DeleteEvents(ids, named) ==
    /\ named \in NamesRead(GroupUids(ids))
    /\ events' = Without(ids)
    /\ groupCache' =
           UpdateGroupCache(Without(ids), groupCache, GroupUids(ids), named)
    /\ error' = "none"
    /\ UNCHANGED lastGroup

\* The same call when the freed nodes hold something else by then: the
\* statement is malformed and there is a ROLLBACK, or the process dies and
\* takes its transaction with it.  (What the nodes that are freed a second
\* time do to the heap later on is not modelled.)
DeleteEventsGarbled(ids) ==
    /\ Several(GroupUids(ids))
    /\ error' = "garbled"
    /\ \/ UNCHANGED lastGroup
       \/ \E p \in Loggers : lastGroup' = [lastGroup EXCEPT ![p] = NULL]
    /\ UNCHANGED tables

\* The same call when the SELECT fails (database locked for two seconds):
\* get_event_group_uids() returns NULL, which reads as "no group concerned".
\* An I/O error there ends the transaction as well: the DELETE commits by
\* itself, and only the COMMIT that follows reports a failure.
DeleteEventsUnlisted(ids) ==
    /\ IOFaults
    /\ events' = Without(ids)
    /\ error' \in {"none", "io"}
    /\ UNCHANGED <<groupCache, lastGroup>>

\* The same call when the last statement, whose result nobody looks at, fails:
\* the summaries are committed, the rows of emptied groups stay.
DeleteEventsUncleaned(ids, named) ==
    /\ IOFaults
    /\ GroupUids(ids) # {}
    /\ named \in NamesRead(GroupUids(ids))
    /\ events' = Without(ids)
    /\ groupCache' = Replaced(Without(ids), groupCache, named)
    /\ error' = "none"
    /\ UNCHANGED lastGroup

DeleteByService(s) ==
    /\ events' = Without({i \in DOMAIN events : events[i].service = s})
    /\ groupCache' = [k \in {l \in DOMAIN groupCache : l[1] # s} |->
                        groupCache[k]]
    /\ error' = "none"
    /\ UNCHANGED lastGroup

DeleteByGroupUids(gs) ==
    /\ events' = Without({i \in DOMAIN events : events[i].group \in gs})
    /\ groupCache' = [k \in {l \in DOMAIN groupCache : l[2] \notin gs} |->
                        groupCache[k]]
    /\ error' = "none"
    /\ UNCHANGED lastGroup

\* rtcom_el_delete_all(): DELETE FROM Events only.
DeleteAll ==
    /\ events' = NoRows
    /\ error' = "none"
    /\ UNCHANGED <<groupCache, lastGroup>>

\* The object is finalised, and its process makes a new one.
Restart(p) ==
    /\ lastGroup' = [lastGroup EXCEPT ![p] = NULL]
    /\ error' = "none"
    /\ UNCHANGED tables

Fields == Groups \cup {NULL, UNSET}

Add(p) ==
    \E field \in Fields :
        \/ \E ev \in EventRow, id \in 1..MaxId : AddEvent(p, field, ev, id)
        \/ \E ev \in EventRow, id \in 1..MaxId : AddEventRefused(p, field, ev, id)
        \/ AddEventFails(p, field)

Update ==
    \E id \in 1..MaxId :
        \/ \E read \in 0..1 : SetReadEvent(id, read)
        \/ \E b \in Bits : SetEventFlag(id, b)
        \/ \E b \in Bits : UnsetEventFlag(id, b)
        \/ SetEndTime(id)

Delete ==
    \/ \E ids \in SUBSET (1..MaxId) :
           \/ \E named \in SUBSET (Groups \cup {NULL}) :
                  DeleteEvents(ids, named) \/ DeleteEventsUncleaned(ids, named)
           \/ DeleteEventsGarbled(ids)
           \/ DeleteEventsUnlisted(ids)
    \/ \E s \in Services : DeleteByService(s)
    \/ \E gs \in SUBSET Groups : DeleteByGroupUids(gs)
    \/ DeleteAll

Next == \/ \E p \in Loggers : Add(p) \/ Restart(p)
        \/ Update
        \/ Delete

Spec == Init /\ [][Next]_vars

---------------------------------------------------------------------------
(* Invariants                                                              *)

IsTable(t, Keys, Row) == /\ t = [k \in DOMAIN t |-> t[k]]
                         /\ DOMAIN t \subseteq Keys
                         /\ \A k \in DOMAIN t : t[k] \in Row

\* The columns keep their types; in particular the remembered group-uid is
\* never the content of a field that the caller left unset.
TypeOK == /\ IsTable(events, 1..MaxId, EventRow)
          /\ IsTable(groupCache, Services \X Groups, CacheRow)
          /\ lastGroup \in [Loggers -> Groups \cup {NULL}]
          /\ error \in Failures

\* The schema allows one cache row per (service, group), yet the trigger
\* and the queries of get_group_info() select by group alone: a group uid
\* must never have rows under two services.
OneRowPerGroup ==
    \A k, l \in DOMAIN groupCache : k[2] = l[2] => k = l

\* Every stored event of a group has its cache row, under its own service,
\* and that row does not point to an event older than it.
GroupedEventsCached ==
    \A i \in DOMAIN events : events[i].group # NULL =>
        LET k == <<events[i].service, events[i].group>>
        IN  k \in DOMAIN groupCache /\ groupCache[k].event_id >= i

\* Between calls no placeholder row of gc_update_ev_add1 survives (it would
\* silently keep every later group out), and no two rows share an event.
NoPlaceholder ==
    /\ \A k \in DOMAIN groupCache : groupCache[k].event_id # 0
    /\ EventIdUnique(groupCache)

\* A row that points to a stored event of some group points to an event of
\* its own group, however often ids were reused: this is what keeps INSERT
\* OR REPLACE from removing the row of an unrelated group.
RowsPointHome ==
    \A k \in DOMAIN groupCache :
        LET i == groupCache[k].event_id
        IN  i \in DOMAIN events /\ events[i].group # NULL
                => events[i].group = k[2]

\* The unread and read counts of get_group_info() are never too low.
NeverUndercounts ==
    \A k \in DOMAIN groupCache :
        LET row  == groupCache[k]
            all  == Cardinality(Members(events, k[2]))
            read == Cardinality(ReadMembers(events, k[2]))
        IN  /\ row.read_events >= read
            /\ row.total_events - row.read_events >= all - read

\* What get_group_info() and a listing by group report of g is the truth
\* (flags apart): a row exactly if there are events, the newest of them,
\* how many there are and how many are read.
Exact(evs, gc, g) ==
    IF Members(evs, g) = {}
    THEN \A k \in DOMAIN gc : k[2] # g
    ELSE /\ SummaryKey(evs, g) \in DOMAIN gc
         /\ LET row == gc[SummaryKey(evs, g)]
            IN  /\ row.event_id     = Max(Members(evs, g))
                /\ row.total_events = Cardinality(Members(evs, g))
                /\ row.read_events  = Cardinality(ReadMembers(evs, g))

\* No call makes the cached counts of any group wrong, apart from delete_all(),
\* which leaves the cache alone, a deletion that could not read the groups of
\* its events, one that lost g among several groups (see NamesRead), and one
\* that emptied a group and could not remove its row.
CountsStayExact ==
    [][\A g \in Groups :
         Exact(events, groupCache, g) /\ ~ Exact(events', groupCache', g)
            => \/ DeleteAll
               \/ \E ids \in SUBSET (1..MaxId) :
                     \/ DeleteEventsUnlisted(ids)
                     \/ \E named \in SUBSET (Groups \cup {NULL}) :
                           \/ /\ DeleteEvents(ids, named)
                              /\ Several(GroupUids(ids)) /\ g \notin named
                           \/ /\ DeleteEventsUncleaned(ids, named)
                              /\ \/ Members(events', g) = {}
                                 \/ Several(GroupUids(ids)) /\ g \notin named]_vars

\* While a group holds a single event and its counts are right, its cached
\* flags are those of the event (they may be neither more nor less).
SingleEventFlagsExact ==
    \A k \in DOMAIN groupCache, i \in DOMAIN events :
        Members(events, k[2]) = {i} /\ Exact(events, groupCache, k[2])
            => groupCache[k].flags = events[i].flags

\* An event is refused by the UNIQUE constraint of the cache only if its
\* group belongs to another service or the cache of some group is wrong.
RefusedForACause ==
    \A ev \in EventRow, id \in 1..MaxId :
        /\ IsNextId(DOMAIN events, id)
        /\ ~ EventIdUnique(AfterInsert(groupCache, id, ev))
        => \/ \E k \in DOMAIN groupCache : k[2] = ev.group /\ k[1] # ev.service
           \/ \E g \in Groups : ~ Exact(events, groupCache, g)

===========================================================================
