------------------------- MODULE EventStoreProofs -------------------------
(***************************************************************************)
(* Proofs about EventStore, for every number of loggers, services, groups, *)
(* flag bits and events.                                                   *)
(***************************************************************************)
EXTENDS EventStore, TLAPS, FiniteSetTheorems, WellFoundedInduction

(* Every set of ids is finite.                                             *)
LEMMA FiniteIds ==
    ASSUME NEW S, S \subseteq 1..MaxId
    PROVE  IsFiniteSet(S)
<1>1. MaxId \in Int /\ S \in SUBSET (1..MaxId)
  BY BoundsAssumption
<1>2. IsFiniteSet(1..MaxId)
  BY <1>1, FS_Interval
<1>3. QED
  BY <1>1, <1>2, FS_Subset

(* The newest event of a group exists: a set of ids has a maximum.         *)
LEMMA MaxOfIds ==
    ASSUME NEW S, S \subseteq 1..MaxId, S # {}
    PROVE  /\ Max(S) \in S
           /\ \A i \in S : i <= Max(S)
<1>1. S \subseteq Int /\ IsFiniteSet(S)
  <2>1. S \subseteq Int
    BY BoundsAssumption
  <2>2. QED
    BY <2>1, FiniteIds
<1> DEFINE Above(i) == {j \in S : j > i}
           Aboves   == {Above(i) : i \in S}
<1>2. Aboves \subseteq FiniteSubsetsOf(S)
  BY <1>1, FS_Subset DEF FiniteSubsetsOf
<1>3. PICK A \in Aboves : \A B \in Aboves : <<B, A>> \notin StrictSubsetOrdering(S)
  <2> HIDE DEF Aboves
  <2>1. Aboves # {}
    BY DEF Aboves
  <2>2. IsWellFoundedOn(StrictSubsetOrdering(S), FiniteSubsetsOf(S))
    BY FS_StrictSubsetOrderingWellFounded
  <2>3. QED
    BY <1>2, <2>1, <2>2, WFMin
<1>4. PICK top \in S : A = Above(top)
  OBVIOUS
<1>5. \A i \in S : top >= i
  <2>1. SUFFICES ASSUME NEW i \in S, i > top
                 PROVE  FALSE
    BY <1>1
  <2>2. Above(i) \subseteq Above(top) /\ Above(i) # Above(top)
    <3>1. \A j \in S : j > i => j > top
      BY <1>1, <2>1
    <3>2. ~ (i > i)
      BY <1>1, <2>1
    <3>3. i \in Above(top) /\ i \notin Above(i)
      BY <2>1, <3>2
    <3>4. QED
      BY <3>1, <3>3
  <2>3. <<Above(i), A>> \in StrictSubsetOrdering(S)
    BY <1>4, <2>2 DEF StrictSubsetOrdering
  <2>4. QED
    BY <1>3, <2>3
<1>6. Max(S) \in S /\ \A i \in S : Max(S) >= i
  BY <1>5 DEF Max
<1>7. QED
  BY <1>1, <1>6

---------------------------------------------------------------------------
(* The inductive invariant.  The properties lean on each other: a deletion *)
(* keeps one row per group because REPLACE hits no row of another group    *)
(* (RowsPointHome), and finds the row it replaces because each group has   *)
(* one under the service of its events (GroupedEventsCached); an insertion *)
(* gets its row because no placeholder is in the way (NoPlaceholder).      *)
IInv == /\ TypeOK
        /\ OneRowPerGroup
        /\ GroupedEventsCached
        /\ NoPlaceholder
        /\ RowsPointHome

KeyOf(ev) == <<ev.service, ev.group>>

(* What the two insert triggers do to the cache when they break no         *)
(* constraint: the group of the event gets one row, which points to it,    *)
(* and every other row stays as it is.                                     *)
LEMMA InsertedRows ==
    ASSUME IInv, NEW ev \in EventRow, ev.group # NULL, NEW id \in 1..MaxId,
           EventIdUnique(AfterInsert(groupCache, id, ev))
    PROVE  LET gc == AfterInsert(groupCache, id, ev)
           IN  /\ IsTable(gc, Services \X Groups, CacheRow)
               /\ DOMAIN gc = DOMAIN groupCache \cup {KeyOf(ev)}
               /\ gc[KeyOf(ev)].event_id = id
               /\ \A k \in DOMAIN gc :
                      IF k[2] = ev.group THEN k = KeyOf(ev)
                                         ELSE /\ k \in DOMAIN groupCache
                                              /\ gc[k] = groupCache[k]
<1> DEFINE key == KeyOf(ev)
           gc0 == WithPlaceholder(groupCache, ev.service, ev.group)
           gc  == AfterInsert(groupCache, id, ev)
<1>1. /\ ev.service \in Services /\ ev.group \in Groups
      /\ ev.is_read \in 0..1 /\ ev.flags \in SUBSET (0..30)
  BY BitsAssumption DEF EventRow
<1>2. key \in Services \X Groups /\ key[2] = ev.group
  BY <1>1 DEF KeyOf
<1>3. /\ DOMAIN gc0 = DOMAIN groupCache \cup {key}
      /\ \A k \in DOMAIN gc0 : gc0[k] \in CacheRow
      /\ \A k \in DOMAIN groupCache : gc0[k] = groupCache[k]
  <2>1. ~ \E k \in DOMAIN groupCache : groupCache[k].event_id = 0
    BY DEF IInv, NoPlaceholder
  <2>2. \A k \in DOMAIN groupCache : groupCache[k] \in CacheRow
    BY DEF IInv, TypeOK, IsTable
  <2>3. [event_id |-> 0, total_events |-> 0, read_events |-> 0, flags |-> {}]
            \in CacheRow
    BY DEF CacheRow
  <2>4. CASE key \in DOMAIN groupCache
    <3>1. gc0 = groupCache
      BY <2>4 DEF WithPlaceholder, KeyOf
    <3>2. QED
      BY <2>2, <2>4, <3>1
  <2>5. CASE key \notin DOMAIN groupCache
    <3>1. gc0 = [k \in DOMAIN groupCache \cup {key} |->
                   IF k \in DOMAIN groupCache THEN groupCache[k]
                   ELSE [event_id |-> 0, total_events |-> 0,
                         read_events |-> 0, flags |-> {}]]
      BY <2>1, <2>5 DEF WithPlaceholder, KeyOf
    <3>2. QED
      BY <2>2, <2>3, <3>1
  <2>6. QED
    BY <2>4, <2>5
<1>4. gc = [k \in DOMAIN gc0 |->
              IF k[2] = ev.group
              THEN [event_id     |-> id,
                    total_events |-> gc0[k].total_events + 1,
                    read_events  |-> gc0[k].read_events + ev.is_read,
                    flags        |-> gc0[k].flags \cup ev.flags]
              ELSE gc0[k]]
  BY DEF AfterInsert, Counted
<1> HIDE DEF gc0, gc
<1>5. \A k \in DOMAIN gc : gc[k] \in CacheRow
  <2>1. TAKE k \in DOMAIN gc
  <2>2. gc0[k] \in CacheRow
    BY <1>3, <1>4
  <2>3. CASE k[2] = ev.group
    <3>1. gc[k] = [event_id     |-> id,
                   total_events |-> gc0[k].total_events + 1,
                   read_events  |-> gc0[k].read_events + ev.is_read,
                   flags        |-> gc0[k].flags \cup ev.flags]
      BY <1>4, <2>3
    <3>2. id \in Nat
      BY BoundsAssumption
    <3>3. QED
      BY <1>1, <2>2, <3>1, <3>2 DEF CacheRow
  <2>4. CASE k[2] # ev.group
    BY <1>4, <2>2, <2>4
  <2>5. QED
    BY <2>3, <2>4
<1>6. DOMAIN gc = DOMAIN groupCache \cup {key}
  BY <1>3, <1>4
<1>7. IsTable(gc, Services \X Groups, CacheRow)
  <2>1. DOMAIN groupCache \subseteq Services \X Groups
    BY DEF IInv, TypeOK, IsTable
  <2>2. gc = [k \in DOMAIN gc |-> gc[k]]
    BY <1>4
  <2>3. QED
    BY <1>2, <1>5, <1>6, <2>1, <2>2 DEF IsTable
<1>8. \A k \in DOMAIN gc : k[2] = ev.group => gc[k].event_id = id
  BY <1>4
<1>9. \A k \in DOMAIN gc : k[2] = ev.group => k = key
  <2>1. EventIdUnique(gc)
    BY DEF gc
  <2>2. QED
    BY <1>2, <1>6, <1>8, <2>1 DEF EventIdUnique
<1>10. \A k \in DOMAIN gc : k[2] # ev.group =>
           k \in DOMAIN groupCache /\ gc[k] = groupCache[k]
  BY <1>2, <1>3, <1>4, <1>6
<1>11. QED
  BY <1>2, <1>6, <1>7, <1>8, <1>9, <1>10 DEF gc

(* The cache after the INSERT OR REPLACE of update_group_cache().           *)
RowsReplaced(gc, evs, gs) ==
    /\ IsTable(gc, Services \X Groups, CacheRow)
    /\ DOMAIN gc = DOMAIN groupCache
    /\ \A k \in DOMAIN gc :
          IF k[2] \in gs /\ Members(evs, k[2]) # {}
          THEN gc[k] = Summary(evs, k[2])
          ELSE gc[k] = groupCache[k]

(* The INSERT OR REPLACE of update_group_cache() adds and removes no row:   *)
(* the row of a listed group that has an event left becomes its summary,   *)
(* and no other row changes.                                               *)
LEMMA ReplacedRows ==
    ASSUME IInv, NEW gs \in SUBSET (Groups \cup {NULL}),
           NEW evs, \E ids : evs = Without(ids),
           NEW gc, gc = Replaced(evs, groupCache, gs)
    PROVE  RowsReplaced(gc, evs, gs)
<1> DEFINE live == {g \in gs \ {NULL} : Members(evs, g) # {}}
           new  == {SummaryKey(evs, g) : g \in live}
           tops == {Max(Members(evs, g)) : g \in live}
           kept == {k \in DOMAIN groupCache : groupCache[k].event_id \notin tops}
<1>1. /\ \A i \in DOMAIN evs : i \in DOMAIN events /\ evs[i] = events[i]
      /\ DOMAIN evs \subseteq 1..MaxId
  BY DEF Without, IInv, TypeOK, IsTable
<1>2. ASSUME NEW g \in Groups, Members(evs, g) # {}
      PROVE  /\ Max(Members(evs, g)) \in DOMAIN events
             /\ events[Max(Members(evs, g))].group = g
             /\ SummaryKey(evs, g) \in DOMAIN groupCache
             /\ SummaryKey(evs, g)[2] = g
  <2>1. Members(evs, g) \subseteq 1..MaxId
    BY <1>1 DEF Members
  <2>2. Max(Members(evs, g)) \in Members(evs, g)
    BY <1>2, <2>1, MaxOfIds
  <2>3. /\ Max(Members(evs, g)) \in DOMAIN events
        /\ events[Max(Members(evs, g))].group = g
        /\ evs[Max(Members(evs, g))] = events[Max(Members(evs, g))]
    BY <1>1, <2>2 DEF Members
  <2>4. SummaryKey(evs, g) = KeyOf(events[Max(Members(evs, g))])
    BY <2>3 DEF SummaryKey, KeyOf
  <2>5. g # NULL
    BY NullAssumption
  <2>6. QED
    BY <2>3, <2>4, <2>5 DEF IInv, GroupedEventsCached, KeyOf
<1>3. \A g \in live : g \in Groups
  OBVIOUS
<1>4. \A k \in DOMAIN groupCache : k[2] \in Groups
  BY DEF IInv, TypeOK, IsTable
<1>5. \A k \in DOMAIN groupCache : k \in new <=> k[2] \in live
  <2>1. TAKE k \in DOMAIN groupCache
  <2>2. ASSUME k \in new PROVE k[2] \in live
    BY <1>2, <1>3, <2>2
  <2>3. ASSUME k[2] \in live PROVE k \in new
    <3>1. SummaryKey(evs, k[2]) \in DOMAIN groupCache
      BY <1>2, <1>3, <2>3
    <3>2. SummaryKey(evs, k[2]) = k
      BY <1>2, <1>3, <2>3, <3>1 DEF IInv, OneRowPerGroup
    <3>3. QED
      BY <2>3, <3>2
  <2>4. QED
    BY <2>2, <2>3
<1>6. new \subseteq DOMAIN groupCache
  BY <1>2, <1>3
<1>7. \A k \in DOMAIN groupCache : groupCache[k].event_id \in tops => k \in new
  <2>1. SUFFICES ASSUME NEW k \in DOMAIN groupCache, NEW g \in live,
                        groupCache[k].event_id = Max(Members(evs, g))
                 PROVE  k[2] = g
    BY <1>5
  <2>2. g # NULL /\ g \in Groups
    OBVIOUS
  <2>3. QED
    BY <1>2, <2>1, <2>2 DEF IInv, RowsPointHome
<1>8. kept \cup new = DOMAIN groupCache
  BY <1>6, <1>7
<1>9. gc = [k \in kept \cup new |->
              IF k \in new THEN Summary(evs, k[2]) ELSE groupCache[k]]
  BY DEF Replaced
<1>10. DOMAIN gc = DOMAIN groupCache
  BY <1>8, <1>9
<1>11. \A k \in DOMAIN gc :
          gc[k] = IF k[2] \in gs /\ Members(evs, k[2]) # {}
                  THEN Summary(evs, k[2]) ELSE groupCache[k]
  <2>1. TAKE k \in DOMAIN gc
  <2>2. k \in DOMAIN groupCache
    BY <1>10
  <2>3. k \in new <=> k[2] \in gs /\ Members(evs, k[2]) # {}
    BY <1>4, <1>5, <2>2, NullAssumption
  <2>4. QED
    BY <1>8, <1>9, <2>2, <2>3
<1>12. \A k \in DOMAIN gc : gc[k] \in CacheRow
  <2>1. TAKE k \in DOMAIN gc
  <2>2. k \in DOMAIN groupCache
    BY <1>10
  <2>3. groupCache[k] \in CacheRow
    BY <2>2 DEF IInv, TypeOK, IsTable
  <2>4. ASSUME Members(evs, k[2]) # {} PROVE Summary(evs, k[2]) \in CacheRow
    <3>1. Members(evs, k[2]) \in SUBSET (1..MaxId)
      BY <1>1 DEF Members
    <3>2. Max(Members(evs, k[2])) \in Nat
      BY <2>4, <3>1, MaxOfIds, BoundsAssumption
    <3>3. IsFiniteSet(Members(evs, k[2])) /\ IsFiniteSet(ReadMembers(evs, k[2]))
      BY <3>1, FiniteIds DEF ReadMembers
    <3>4. /\ Cardinality(Members(evs, k[2])) \in Nat
          /\ Cardinality(ReadMembers(evs, k[2])) \in Nat
      BY <3>3, FS_CardinalityType
    <3>5. BitsOf(SumOfFlags(evs, k[2])) \in SUBSET (0..30)
      BY DEF BitsOf
    <3>6. QED
      BY <3>2, <3>4, <3>5 DEF Summary, CacheRow
  <2>5. QED
    BY <1>11, <2>3, <2>4
<1>13. IsTable(gc, Services \X Groups, CacheRow)
  <2>1. gc = [k \in DOMAIN gc |-> gc[k]]
    BY <1>9
  <2>2. DOMAIN gc \subseteq Services \X Groups
    BY <1>10 DEF IInv, TypeOK, IsTable
  <2>3. QED
    BY <1>12, <2>1, <2>2 DEF IsTable
<1>14. QED
  BY <1>10, <1>11, <1>13 DEF RowsReplaced

---------------------------------------------------------------------------
(* Each call keeps the invariant.                                          *)

(* The empty database satisfies the invariant.                             *)
LEMMA InitIInv == Init => IInv
<1> SUFFICES ASSUME Init PROVE IInv
  OBVIOUS
<1>1. DOMAIN events = {} /\ DOMAIN groupCache = {}
  BY DEF Init, NoRows
<1>2. TypeOK
  BY <1>1 DEF Init, NoRows, TypeOK, IsTable, Failures
<1>3. QED
  BY <1>1, <1>2 DEF IInv, OneRowPerGroup, GroupedEventsCached, NoPlaceholder,
                    EventIdUnique, RowsPointHome

(* rtcom_el_add_event() remembers a group-uid or NULL, never an unset field. *)
LEMMA RememberedGroup ==
    ASSUME TypeOK, NEW p \in Loggers, NEW field \in Fields, StartAdd(p, field)
    PROVE  lastGroup' \in [Loggers -> Groups \cup {NULL}]
<1>1. GroupFor(p, field) \in Groups \cup {NULL}
  BY DEF TypeOK, GroupFor, Fields
<1>2. QED
  BY <1>1 DEF TypeOK, StartAdd

(* A call that rolled back, or touched no table, keeps the invariant.      *)
LEMMA SameTables ==
    ASSUME IInv, UNCHANGED tables, error' \in Failures,
           lastGroup' \in [Loggers -> Groups \cup {NULL}]
    PROVE  IInv'
BY DEF IInv, tables, TypeOK, OneRowPerGroup, GroupedEventsCached,
       NoPlaceholder, EventIdUnique, RowsPointHome

(* An accepted event keeps the invariant, whatever its id was used for.    *)
LEMMA AddEventIInv ==
    ASSUME IInv, NEW p \in Loggers, NEW field \in Fields, NEW ev \in EventRow,
           NEW id \in 1..MaxId, AddEvent(p, field, ev, id)
    PROVE  IInv'
<1>1. /\ DOMAIN events' = DOMAIN events \cup {id}
      /\ events'[id] = ev
      /\ \A i \in DOMAIN events : i < id /\ events'[i] = events[i]
  <2>1. \A i \in DOMAIN events : i < id
    BY DEF AddEvent, IsNextId
  <2>2. id \notin DOMAIN events
    BY <2>1, BoundsAssumption
  <2>3. QED
    BY <2>1, <2>2 DEF AddEvent
<1>2. IsTable(events', 1..MaxId, EventRow)
  BY <1>1 DEF IInv, TypeOK, IsTable, AddEvent
<1>3. lastGroup' \in [Loggers -> Groups \cup {NULL}]
  BY RememberedGroup DEF IInv, AddEvent
<1>4. CASE ev.group = NULL
  <2>1. groupCache' = groupCache
    BY <1>4 DEF AddEvent, AfterInsert
  <2>2. TypeOK'
    BY <1>2, <1>3, <2>1 DEF IInv, TypeOK, AddEvent, Failures
  <2>3. GroupedEventsCached'
    BY <1>1, <1>4, <2>1 DEF IInv, GroupedEventsCached
  <2>4. RowsPointHome'
    BY <1>1, <1>4, <2>1 DEF IInv, RowsPointHome
  <2>5. OneRowPerGroup' /\ NoPlaceholder'
    BY <2>1 DEF IInv, OneRowPerGroup, NoPlaceholder, EventIdUnique
  <2>6. QED
    BY <2>2, <2>3, <2>4, <2>5 DEF IInv
<1>5. CASE ev.group # NULL
  <2> DEFINE key == KeyOf(ev)
  <2>1. key[2] = ev.group
    BY DEF KeyOf
  <2>2. /\ IsTable(groupCache', Services \X Groups, CacheRow)
        /\ DOMAIN groupCache' = DOMAIN groupCache \cup {key}
        /\ groupCache'[key].event_id = id
        /\ \A k \in DOMAIN groupCache' :
              IF k[2] = ev.group THEN k = key
                                 ELSE /\ k \in DOMAIN groupCache
                                      /\ groupCache'[k] = groupCache[k]
    <3>1. /\ EventIdUnique(AfterInsert(groupCache, id, ev))
          /\ groupCache' = AfterInsert(groupCache, id, ev)
      BY DEF AddEvent
    <3>2. QED
      BY <1>5, <3>1, InsertedRows
  <2>3. EventIdUnique(groupCache')
    BY DEF AddEvent
  <2> HIDE DEF key
  <2>4. TypeOK'
    BY <1>2, <1>3, <2>2 DEF TypeOK, AddEvent, Failures
  <2>5. OneRowPerGroup'
    BY <2>2 DEF IInv, OneRowPerGroup
  <2>6. NoPlaceholder'
    BY <2>2, <2>3 DEF IInv, NoPlaceholder, EventIdUnique
  <2>7. GroupedEventsCached'
    <3>1. SUFFICES ASSUME NEW i \in DOMAIN events', events'[i].group # NULL
                   PROVE  /\ KeyOf(events'[i]) \in DOMAIN groupCache'
                          /\ groupCache'[KeyOf(events'[i])].event_id >= i
      BY DEF GroupedEventsCached, KeyOf
    <3>2. CASE i = id
      BY <1>1, <2>2, <3>2 DEF key
    <3>3. CASE i # id
      <4>1. /\ i \in DOMAIN events /\ i < id
            /\ events'[i] = events[i]
        BY <1>1, <3>3
      <4>2. /\ KeyOf(events[i]) \in DOMAIN groupCache
            /\ groupCache[KeyOf(events[i])].event_id >= i
        BY <3>1, <4>1 DEF IInv, GroupedEventsCached, KeyOf
      <4>3. i \in Int /\ id \in Int
        BY <4>1 DEF IInv, TypeOK, IsTable
      <4>4. QED
        BY <2>2, <4>1, <4>2, <4>3
    <3>4. QED
      BY <3>2, <3>3
  <2>8. RowsPointHome'
    <3>1. SUFFICES ASSUME NEW k \in DOMAIN groupCache',
                          groupCache'[k].event_id \in DOMAIN events',
                          events'[groupCache'[k].event_id].group # NULL
                   PROVE  events'[groupCache'[k].event_id].group = k[2]
      BY DEF RowsPointHome
    <3>2. CASE k[2] = ev.group
      BY <1>1, <2>2, <3>2
    <3>3. CASE k[2] # ev.group
      <4>1. k \in DOMAIN groupCache /\ groupCache'[k] = groupCache[k]
        BY <2>2, <3>3
      <4>2. groupCache'[k].event_id # id
        BY <2>1, <2>2, <2>3, <3>3 DEF EventIdUnique, key
      <4>3. QED
        BY <1>1, <3>1, <4>1, <4>2 DEF IInv, RowsPointHome
    <3>4. QED
      BY <3>2, <3>3
  <2>9. QED
    BY <2>4, <2>5, <2>6, <2>7, <2>8 DEF IInv
<1>6. QED
  BY <1>4, <1>5

\* An UPDATE of one row that keeps its group and service keeps the invariant.
LEMMA UpdateEventIInv ==
    ASSUME IInv, NEW id, NEW new, UpdateEvent(id, new),
           id \in DOMAIN events => /\ new \in EventRow
                                  /\ new.group = events[id].group
                                  /\ new.service = events[id].service
    PROVE  IInv'
<1>1. CASE id \notin DOMAIN events
  BY <1>1, SameTables DEF UpdateEvent, Failures, IInv, TypeOK
<1>2. CASE id \in DOMAIN events
  <2>1. /\ DOMAIN events' = DOMAIN events
        /\ events' = [i \in DOMAIN events' |-> events'[i]]
        /\ \A i \in DOMAIN events : /\ events'[i] \in EventRow
                                    /\ events'[i].group = events[i].group
                                    /\ events'[i].service = events[i].service
    BY <1>2 DEF UpdateEvent, IInv, TypeOK, IsTable
  <2>2. groupCache' = AfterUpdate(groupCache, events[id], new)
    BY <1>2 DEF UpdateEvent
  <2>3. /\ DOMAIN groupCache' = DOMAIN groupCache
        /\ groupCache' = [k \in DOMAIN groupCache' |-> groupCache'[k]]
        /\ \A k \in DOMAIN groupCache :
              /\ groupCache'[k] \in CacheRow
              /\ groupCache'[k].event_id = groupCache[k].event_id
    <3>1. /\ DOMAIN groupCache' = DOMAIN groupCache
          /\ groupCache' = [k \in DOMAIN groupCache' |-> groupCache'[k]]
      BY <2>2 DEF AfterUpdate
    <3>2. ASSUME NEW k \in DOMAIN groupCache
          PROVE  /\ groupCache'[k] \in CacheRow
                 /\ groupCache'[k].event_id = groupCache[k].event_id
      <4>1. groupCache[k] \in CacheRow
        BY DEF IInv, TypeOK, IsTable
      <4>2. /\ events[id].is_read \in Int /\ new.is_read \in Int
            /\ new.flags \in SUBSET (0..30)
        BY <1>2, BitsAssumption DEF IInv, TypeOK, IsTable, EventRow
      <4>3. \/ groupCache'[k] = groupCache[k]
            \/ groupCache'[k] =
                 [event_id     |-> groupCache[k].event_id,
                  total_events |-> groupCache[k].total_events,
                  read_events  |-> groupCache[k].read_events
                                     - events[id].is_read + new.is_read,
                  flags        |-> (groupCache[k].flags \ events[id].flags)
                                     \cup new.flags]
        BY <2>2 DEF AfterUpdate
      <4>4. QED
        BY <4>1, <4>2, <4>3 DEF CacheRow
    <3>3. QED
      BY <3>1, <3>2
  <2>4. TypeOK'
    BY <2>1, <2>3 DEF IInv, TypeOK, IsTable, UpdateEvent, Failures
  <2>5. OneRowPerGroup' /\ NoPlaceholder' /\ RowsPointHome'
    BY <2>1, <2>3 DEF IInv, OneRowPerGroup, NoPlaceholder, EventIdUnique,
                      RowsPointHome
  <2>6. GroupedEventsCached'
    BY <2>1, <2>3 DEF IInv, GroupedEventsCached
  <2>7. QED
    BY <2>4, <2>5, <2>6 DEF IInv
<1>3. QED
  BY <1>1, <1>2

(* What every deletion has in common: events go, each remaining cache row  *)
(* keeps its event or becomes the summary of its group, and a group with   *)
(* an event left keeps its row.                                            *)
LEMMA DeletionIInv ==
    ASSUME IInv, NEW ids, events' = Without(ids),
           UNCHANGED lastGroup, error' \in Failures,
           IsTable(groupCache', Services \X Groups, CacheRow),
           DOMAIN groupCache' \subseteq DOMAIN groupCache,
           \A k \in DOMAIN groupCache' :
               \/ groupCache'[k] = groupCache[k]
               \/ /\ Members(events', k[2]) # {}
                  /\ groupCache'[k] = Summary(events', k[2]),
           \A i \in DOMAIN events' : events'[i].group # NULL
               => KeyOf(events'[i]) \in DOMAIN groupCache'
    PROVE  IInv'
<1>1. /\ DOMAIN events' \subseteq DOMAIN events
      /\ events' = [i \in DOMAIN events' |-> events'[i]]
      /\ \A i \in DOMAIN events' : events'[i] = events[i]
  BY DEF Without
<1>2. DOMAIN events \subseteq 1..MaxId
  BY DEF IInv, TypeOK, IsTable
<1>3. \A k \in DOMAIN groupCache' : k[2] \in Groups /\ k[2] # NULL
  BY NullAssumption DEF IsTable
<1>4. ASSUME NEW k \in DOMAIN groupCache', groupCache'[k] # groupCache[k]
      PROVE  LET top == groupCache'[k].event_id
             IN  /\ top \in DOMAIN events' /\ top # 0
                 /\ events'[top].group = k[2] /\ events[top].group = k[2]
                 /\ \A i \in DOMAIN events' : events'[i].group = k[2] => i <= top
  <2>1. /\ Members(events', k[2]) # {}
        /\ groupCache'[k].event_id = Max(Members(events', k[2]))
    BY <1>4 DEF Summary
  <2>2. Members(events', k[2]) \subseteq 1..MaxId
    BY <1>1, <1>2 DEF Members
  <2>3. /\ groupCache'[k].event_id \in Members(events', k[2])
        /\ \A i \in Members(events', k[2]) : i <= groupCache'[k].event_id
    BY <2>1, <2>2, MaxOfIds
  <2>4. groupCache'[k].event_id # 0
    BY <2>2, <2>3, BoundsAssumption
  <2>5. QED
    BY <1>1, <2>3, <2>4 DEF Members
<1>5. TypeOK'
  BY <1>1, <1>2 DEF IInv, TypeOK, IsTable
<1>6. OneRowPerGroup'
  BY DEF IInv, OneRowPerGroup
<1>7. GroupedEventsCached'
  <2>1. SUFFICES ASSUME NEW i \in DOMAIN events', events'[i].group # NULL
                 PROVE  groupCache'[KeyOf(events'[i])].event_id >= i
    BY DEF GroupedEventsCached, KeyOf
  <2> DEFINE k == KeyOf(events'[i])
  <2>2. k \in DOMAIN groupCache' /\ k[2] = events'[i].group
    BY <2>1 DEF KeyOf
  <2>3. groupCache[k].event_id >= i
    BY <1>1, <2>1 DEF IInv, GroupedEventsCached, KeyOf
  <2>4. groupCache'[k].event_id \in Int /\ i \in Int
    BY <1>1, <1>2, <2>2 DEF IsTable, CacheRow
  <2> HIDE DEF k
  <2>5. CASE groupCache'[k] = groupCache[k]
    BY <2>3, <2>5 DEF k
  <2>6. CASE groupCache'[k] # groupCache[k]
    <3>1. i <= groupCache'[k].event_id
      BY <1>4, <2>2, <2>6
    <3>2. QED
      BY <2>4, <3>1 DEF k
  <2>7. QED
    BY <2>5, <2>6
<1>8. NoPlaceholder'
  <2>1. \A k \in DOMAIN groupCache' : groupCache'[k].event_id # 0
    BY <1>4 DEF IInv, NoPlaceholder
  <2>2. ASSUME NEW k \in DOMAIN groupCache', NEW l \in DOMAIN groupCache',
               groupCache'[k].event_id = groupCache'[l].event_id
        PROVE  k[2] = l[2]
    <3>1. ASSUME NEW m \in DOMAIN groupCache', NEW n \in DOMAIN groupCache',
                 groupCache'[m].event_id = groupCache'[n].event_id,
                 groupCache'[m] # groupCache[m]
          PROVE  m[2] = n[2]
      <4>1. CASE groupCache'[n] = groupCache[n]
        <5>1. /\ groupCache[n].event_id \in DOMAIN events
              /\ events[groupCache[n].event_id].group = m[2]
          BY <1>1, <1>4, <3>1, <4>1
        <5>2. QED
          BY <1>3, <5>1 DEF IInv, RowsPointHome
      <4>2. CASE groupCache'[n] # groupCache[n]
        BY <1>4, <3>1, <4>2
      <4>3. QED
        BY <4>1, <4>2
    <3>2. CASE groupCache'[k] = groupCache[k] /\ groupCache'[l] = groupCache[l]
      BY <2>2, <3>2 DEF IInv, NoPlaceholder, EventIdUnique
    <3>3. QED
      BY <2>2, <3>1, <3>2
  <2>3. QED
    BY <1>6, <2>1, <2>2 DEF NoPlaceholder, EventIdUnique, OneRowPerGroup
<1>9. RowsPointHome'
  BY <1>1, <1>4 DEF IInv, RowsPointHome
<1>10. QED
  BY <1>5, <1>6, <1>7, <1>8, <1>9 DEF IInv

(* The four calls that change a column of an event keep the invariant.     *)
LEMMA UpdateIInv == ASSUME IInv, Update PROVE IInv'
<1>1. \A i \in DOMAIN events : events[i] \in EventRow
  BY DEF IInv, TypeOK, IsTable
<1>2. ASSUME NEW id \in 1..MaxId, NEW read \in 0..1, SetReadEvent(id, read)
      PROVE  IInv'
  <2> DEFINE new == [events[id] EXCEPT !.is_read = read]
  <2>1. id \in DOMAIN events => /\ new \in EventRow
                               /\ new.group = events[id].group
                               /\ new.service = events[id].service
    BY <1>1 DEF EventRow
  <2>2. UpdateEvent(id, new)
    BY <1>2 DEF SetReadEvent
  <2>3. QED
    BY <2>1, <2>2, UpdateEventIInv
<1>3. ASSUME NEW id \in 1..MaxId, NEW b \in Bits,
             SetEventFlag(id, b) \/ UnsetEventFlag(id, b)
      PROVE  IInv'
  <2> DEFINE set   == [events[id] EXCEPT !.flags = @ \cup {b}]
             unset == [events[id] EXCEPT !.flags = @ \ {b}]
  <2>1. id \in DOMAIN events => /\ set \in EventRow
                               /\ set.group = events[id].group
                               /\ set.service = events[id].service
    BY <1>1 DEF EventRow
  <2>2. id \in DOMAIN events => /\ unset \in EventRow
                               /\ unset.group = events[id].group
                               /\ unset.service = events[id].service
    BY <1>1 DEF EventRow
  <2>3. UpdateEvent(id, set) \/ UpdateEvent(id, unset)
    BY <1>3 DEF SetEventFlag, UnsetEventFlag
  <2> HIDE DEF set, unset
  <2>4. QED
    BY <2>1, <2>2, <2>3, UpdateEventIInv
<1>4. ASSUME NEW id \in 1..MaxId, SetEndTime(id)
      PROVE  IInv'
  BY <1>1, <1>4, UpdateEventIInv DEF SetEndTime
<1>5. QED
  BY <1>2, <1>3, <1>4 DEF Update

(* A deletion followed by update_group_cache() keeps the invariant, also   *)
(* when the last statement of update_group_cache() fails.                  *)
LEMMA DeleteEventsIInv ==
    ASSUME IInv, NEW ids, NEW named \in SUBSET (Groups \cup {NULL}),
           DeleteEvents(ids, named) \/ DeleteEventsUncleaned(ids, named)
    PROVE  IInv'
<1> DEFINE evs == Without(ids)
           gc  == Replaced(evs, groupCache, named)
<1>1. events' = evs /\ UNCHANGED lastGroup /\ error' \in Failures
  BY DEF DeleteEvents, DeleteEventsUncleaned, Failures
<1>2. \A i \in DOMAIN evs : i \in DOMAIN events /\ evs[i] = events[i]
  BY DEF Without
<1>3. \A i \in DOMAIN events : events[i].group # NULL =>
          KeyOf(events[i]) \in DOMAIN groupCache
  BY DEF IInv, GroupedEventsCached, KeyOf
<1>4. CASE groupCache' = groupCache
  <2>1. IsTable(groupCache', Services \X Groups, CacheRow)
    BY <1>4 DEF IInv, TypeOK
  <2>2. QED
    BY <1>1, <1>2, <1>3, <1>4, <2>1, DeletionIInv
<1>5. RowsReplaced(gc, evs, named)
  <2>1. \E x : evs = Without(x)
    OBVIOUS
  <2> HIDE DEF evs
  <2>2. QED
    BY <2>1, ReplacedRows
<1>6. CASE groupCache' = gc \/ groupCache' = Cleaned(evs, gc)
  <2>1. /\ groupCache' = [k \in DOMAIN groupCache' |-> groupCache'[k]]
        /\ DOMAIN groupCache' \subseteq DOMAIN gc
        /\ \A k \in DOMAIN groupCache' : groupCache'[k] = gc[k]
        /\ \A k \in DOMAIN gc : Members(evs, k[2]) # {} => k \in DOMAIN groupCache'
    <3>1. gc = [k \in DOMAIN gc |-> gc[k]]
      BY <1>5 DEF RowsReplaced, IsTable
    <3> HIDE DEF gc, evs
    <3>2. QED
      BY <1>6, <3>1 DEF Cleaned
  <2> HIDE DEF gc
  <2>2. IsTable(groupCache', Services \X Groups, CacheRow)
    BY <1>5, <2>1 DEF RowsReplaced, IsTable
  <2>3. \A i \in DOMAIN evs : i \in Members(evs, KeyOf(evs[i])[2])
    BY DEF Members, KeyOf
  <2> HIDE DEF evs
  <2>4. \A i \in DOMAIN events' : events'[i].group # NULL =>
            KeyOf(events'[i]) \in DOMAIN groupCache'
    BY <1>1, <1>2, <1>3, <1>5, <2>1, <2>3 DEF RowsReplaced
  <2>5. \A k \in DOMAIN groupCache' :
            \/ groupCache'[k] = groupCache[k]
            \/ /\ Members(events', k[2]) # {}
               /\ groupCache'[k] = Summary(events', k[2])
    BY <1>1, <1>5, <2>1 DEF RowsReplaced
  <2>6. DOMAIN groupCache' \subseteq DOMAIN groupCache
    BY <1>5, <2>1 DEF RowsReplaced
  <2>7. QED
    BY <1>1, <2>2, <2>4, <2>5, <2>6, DeletionIInv DEF evs
<1>7. QED
  BY <1>4, <1>6 DEF DeleteEvents, DeleteEventsUncleaned, UpdateGroupCache

(* Every other deletion does too, delete_all() with its stale rows included. *)
LEMMA DeleteIInv == ASSUME IInv, Delete PROVE IInv'
<1>1. \A i \in DOMAIN events : events[i].group # NULL =>
          KeyOf(events[i]) \in DOMAIN groupCache
  BY DEF IInv, GroupedEventsCached, KeyOf
<1>2. IsTable(groupCache, Services \X Groups, CacheRow)
  BY DEF IInv, TypeOK
<1>3. ASSUME NEW ids, events' = Without(ids), UNCHANGED <<groupCache, lastGroup>>,
             error' \in Failures
      PROVE  IInv'
  <2>1. \A i \in DOMAIN events' : i \in DOMAIN events /\ events'[i] = events[i]
    BY <1>3 DEF Without
  <2>2. QED
    BY <1>1, <1>2, <1>3, <2>1, DeletionIInv
<1>4. ASSUME NEW ids, NEW gone, events' = Without(ids),
             UNCHANGED lastGroup, error' \in Failures,
             groupCache' = [k \in DOMAIN groupCache \ gone |-> groupCache[k]],
             \A i \in DOMAIN events \ ids : KeyOf(events[i]) \notin gone
      PROVE  IInv'
  <2>1. \A i \in DOMAIN events' : /\ i \in DOMAIN events \ ids
                                 /\ events'[i] = events[i]
    BY <1>4 DEF Without
  <2>2. /\ DOMAIN groupCache' = DOMAIN groupCache \ gone
        /\ groupCache' = [k \in DOMAIN groupCache' |-> groupCache'[k]]
        /\ \A k \in DOMAIN groupCache' : groupCache'[k] = groupCache[k]
    BY <1>4
  <2>3. IsTable(groupCache', Services \X Groups, CacheRow)
    BY <1>2, <2>2 DEF IsTable
  <2>4. \A i \in DOMAIN events' : events'[i].group # NULL =>
            KeyOf(events'[i]) \in DOMAIN groupCache'
    BY <1>1, <1>4, <2>1, <2>2
  <2>5. QED
    BY <1>4, <2>2, <2>3, <2>4, DeletionIInv
<1>5. ASSUME NEW s \in Services, DeleteByService(s)
      PROVE  IInv'
  <2> DEFINE ids == {i \in DOMAIN events : events[i].service = s}
             gone == {l \in DOMAIN groupCache : l[1] = s}
  <2>1. \A i \in DOMAIN events \ ids : KeyOf(events[i]) \notin gone
    BY DEF KeyOf
  <2>2. groupCache' = [k \in DOMAIN groupCache \ gone |-> groupCache[k]]
    BY <1>5 DEF DeleteByService
  <2>3. events' = Without(ids) /\ UNCHANGED lastGroup /\ error' \in Failures
    BY <1>5 DEF DeleteByService, Failures
  <2> HIDE DEF ids, gone
  <2>4. QED
    BY <1>4, <2>1, <2>2, <2>3
<1>6. ASSUME NEW gs \in SUBSET Groups, DeleteByGroupUids(gs)
      PROVE  IInv'
  <2> DEFINE ids == {i \in DOMAIN events : events[i].group \in gs}
             gone == {l \in DOMAIN groupCache : l[2] \in gs}
  <2>1. \A i \in DOMAIN events \ ids : KeyOf(events[i]) \notin gone
    BY DEF KeyOf
  <2>2. groupCache' = [k \in DOMAIN groupCache \ gone |-> groupCache[k]]
    BY <1>6 DEF DeleteByGroupUids
  <2>3. events' = Without(ids) /\ UNCHANGED lastGroup /\ error' \in Failures
    BY <1>6 DEF DeleteByGroupUids, Failures
  <2> HIDE DEF ids, gone
  <2>4. QED
    BY <1>4, <2>1, <2>2, <2>3
<1>7. ASSUME DeleteAll PROVE IInv'
  <2>1. events' = Without(DOMAIN events)
    BY <1>7 DEF DeleteAll, NoRows, Without
  <2>2. QED
    BY <1>3, <1>7, <2>1 DEF DeleteAll, Failures
<1>8. ASSUME NEW ids, DeleteEventsUnlisted(ids) PROVE IInv'
  BY <1>3, <1>8 DEF DeleteEventsUnlisted, Failures
<1>9. ASSUME NEW ids, DeleteEventsGarbled(ids) PROVE IInv'
  <2>1. UNCHANGED tables /\ error' \in Failures
    BY <1>9 DEF DeleteEventsGarbled, Failures
  <2>2. lastGroup' \in [Loggers -> Groups \cup {NULL}]
    BY <1>9 DEF DeleteEventsGarbled, IInv, TypeOK
  <2>3. QED
    BY <2>1, <2>2, SameTables
<1>10. QED
  BY <1>5, <1>6, <1>7, <1>8, <1>9, DeleteEventsIInv DEF Delete

---------------------------------------------------------------------------
(* IInv holds in every state of every behaviour.                           *)
THEOREM StoreInvariant == Spec => []IInv
<1>1. IInv /\ [Next]_vars => IInv'
  <2> SUFFICES ASSUME IInv, [Next]_vars PROVE IInv'
    OBVIOUS
  <2>1. ASSUME NEW p \in Loggers, Add(p) PROVE IInv'
    <3>1. PICK field \in Fields :
            \/ \E ev \in EventRow, id \in 1..MaxId : AddEvent(p, field, ev, id)
            \/ \E ev \in EventRow, id \in 1..MaxId :
                   AddEventRefused(p, field, ev, id)
            \/ AddEventFails(p, field)
      BY <2>1 DEF Add
    <3>2. CASE \E ev \in EventRow, id \in 1..MaxId : AddEvent(p, field, ev, id)
      BY <3>2, AddEventIInv
    <3>3. ASSUME StartAdd(p, field), UNCHANGED tables, error' \in Failures
          PROVE  IInv'
      BY <3>3, RememberedGroup, SameTables DEF IInv
    <3>4. QED
      BY <3>1, <3>2, <3>3 DEF AddEventRefused, AddEventFails, Failures
  <2>2. ASSUME NEW p \in Loggers, Restart(p) PROVE IInv'
    <3>1. lastGroup' \in [Loggers -> Groups \cup {NULL}]
      BY <2>2 DEF Restart, IInv, TypeOK
    <3>2. QED
      BY <2>2, <3>1, SameTables DEF Restart, Failures
  <2>3. CASE Update
    BY <2>3, UpdateIInv
  <2>4. CASE Delete
    BY <2>4, DeleteIInv
  <2>5. CASE UNCHANGED vars
    BY <2>5, SameTables DEF vars, tables, IInv, TypeOK
  <2>6. QED
    BY <2>1, <2>2, <2>3, <2>4, <2>5 DEF Next
<1>2. QED
  BY <1>1, InitIInv, PTL DEF Spec

(* The columns of both tables and the remembered group-uids keep their     *)
(* types through every call, refused and failed ones included.             *)
THEOREM TypeCorrect == Spec => []TypeOK
<1>1. IInv => TypeOK
  BY DEF IInv
<1>2. QED
  BY <1>1, StoreInvariant, PTL

(* No group ever has cache rows under two services: the triggers and the   *)
(* queries of get_group_info() that select by group alone hit one row.     *)
THEOREM GroupsHaveOneRow == Spec => []OneRowPerGroup
<1>1. IInv => OneRowPerGroup
  BY DEF IInv
<1>2. QED
  BY <1>1, StoreInvariant, PTL

(* A listing by group never misses a group: every stored event of a group  *)
(* has the cache row of the group, under its service, and that row does    *)
(* not point to an older event.                                            *)
THEOREM GroupsAreListed == Spec => []GroupedEventsCached
<1>1. IInv => GroupedEventsCached
  BY DEF IInv
<1>2. QED
  BY <1>1, StoreInvariant, PTL

(* The placeholder of gc_update_ev_add1 never outlives the INSERT that     *)
(* made it, and no two cache rows claim one event.                         *)
THEOREM PlaceholderNeverLeft == Spec => []NoPlaceholder
<1>1. IInv => NoPlaceholder
  BY DEF IInv
<1>2. QED
  BY <1>1, StoreInvariant, PTL

(* However ids are reused, a cache row that points to a stored event of    *)
(* some group points to an event of its own group.                         *)
THEOREM RowsAlwaysPointHome == Spec => []RowsPointHome
<1>1. IInv => RowsPointHome
  BY DEF IInv
<1>2. QED
  BY <1>1, StoreInvariant, PTL

===========================================================================
