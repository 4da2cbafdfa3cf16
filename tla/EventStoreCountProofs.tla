---------------------- MODULE EventStoreCountProofs ----------------------
(***************************************************************************)
(* What the GroupCache table says of the Events table: proofs that the     *)
(* counts get_group_info() reports are never too low, that rows that are    *)
(* right stay right, that a call is refused only for a stated cause, and   *)
(* that the flags of a group of one event are those of the event.          *)
(***************************************************************************)
EXTENDS EventStoreProofs

(* The maximum of a set of ids is the one that bounds the others.          *)
LEMMA MaxIs ==
    ASSUME NEW S, S \subseteq 1..MaxId, NEW m \in S, \A i \in S : i <= m
    PROVE  Max(S) = m
<1>1. Max(S) \in S /\ \A i \in S : i <= Max(S)
  BY MaxOfIds
<1>2. m \in 1..MaxId /\ Max(S) \in 1..MaxId
  BY <1>1
<1>3. m <= Max(S) /\ Max(S) <= m
  BY <1>1
<1>4. QED
  BY <1>2, <1>3, BoundsAssumption

(* The counts of a group are numbers, and the read events are some of all.  *)
LEMMA CountsAreNumbers ==
    ASSUME NEW evs, DOMAIN evs \subseteq 1..MaxId, NEW g
    PROVE  /\ IsFiniteSet(Members(evs, g)) /\ IsFiniteSet(ReadMembers(evs, g))
           /\ Cardinality(Members(evs, g)) \in Nat
           /\ Cardinality(ReadMembers(evs, g)) \in Nat
           /\ Members(evs, g) \subseteq 1..MaxId
           /\ ReadMembers(evs, g) \subseteq Members(evs, g)
<1>1. /\ Members(evs, g) \subseteq 1..MaxId
      /\ ReadMembers(evs, g) \subseteq Members(evs, g)
  BY DEF Members, ReadMembers
<1>2. IsFiniteSet(Members(evs, g)) /\ IsFiniteSet(ReadMembers(evs, g))
  BY <1>1, FiniteIds
<1>3. QED
  BY <1>1, <1>2, FS_CardinalityType

(* What an INSERT does to the counts of the groups.                        *)
LEMMA CountsAdded ==
    ASSUME NEW evs, DOMAIN evs \subseteq 1..MaxId, NEW id, id \notin DOMAIN evs,
           NEW ev, ev.is_read \in 0..1,
           NEW new, new = [i \in DOMAIN evs \cup {id} |-> IF i = id THEN ev ELSE evs[i]]
    PROVE  /\ Members(new, ev.group) = Members(evs, ev.group) \cup {id}
           /\ Cardinality(Members(new, ev.group)) = Cardinality(Members(evs, ev.group)) + 1
           /\ Cardinality(ReadMembers(new, ev.group))
                  = Cardinality(ReadMembers(evs, ev.group)) + ev.is_read
           /\ \A g : g # ev.group => /\ Members(new, g) = Members(evs, g)
                                     /\ ReadMembers(new, g) = ReadMembers(evs, g)
<1> DEFINE g0 == ev.group
<1>1. \A i : i \in DOMAIN new <=> i \in DOMAIN evs \/ i = id
  OBVIOUS
<1>2. new[id] = ev /\ \A i \in DOMAIN evs : new[i] = evs[i]
  OBVIOUS
<1>3. Members(new, g0) = Members(evs, g0) \cup {id}
  BY <1>1, <1>2 DEF Members
<1>4. ev.is_read = 1 => ReadMembers(new, g0) = ReadMembers(evs, g0) \cup {id}
  BY <1>2, <1>3 DEF ReadMembers, Members
<1>5. ev.is_read = 0 => ReadMembers(new, g0) = ReadMembers(evs, g0)
  BY <1>2, <1>3 DEF ReadMembers, Members
<1>6. id \notin Members(evs, g0) /\ id \notin ReadMembers(evs, g0)
  BY DEF Members, ReadMembers
<1>7. /\ IsFiniteSet(Members(evs, g0)) /\ IsFiniteSet(ReadMembers(evs, g0))
      /\ Cardinality(ReadMembers(evs, g0)) \in Nat
  BY CountsAreNumbers
<1>8. Cardinality(Members(new, g0)) = Cardinality(Members(evs, g0)) + 1
  BY <1>3, <1>6, <1>7, FS_AddElement
<1>9. Cardinality(ReadMembers(new, g0)) = Cardinality(ReadMembers(evs, g0)) + ev.is_read
  <2>1. CASE ev.is_read = 1
    BY <1>4, <1>6, <1>7, <2>1, FS_AddElement
  <2>2. CASE ev.is_read = 0
    BY <1>5, <1>7, <2>2
  <2>3. QED
    BY <2>1, <2>2
<1>10. ASSUME NEW g, g # g0
       PROVE  Members(new, g) = Members(evs, g) /\ ReadMembers(new, g) = ReadMembers(evs, g)
  <2>1. Members(new, g) = Members(evs, g)
    BY <1>1, <1>2, <1>10 DEF Members
  <2>2. QED
    BY <1>2, <2>1 DEF ReadMembers, Members
<1>11. QED
  BY <1>3, <1>8, <1>9, <1>10

(* What an UPDATE that keeps the group does to them.                       *)
LEMMA CountsUpdated ==
    ASSUME NEW evs, DOMAIN evs \subseteq 1..MaxId, NEW id \in DOMAIN evs,
           NEW new, DOMAIN new = DOMAIN evs,
           \A i \in DOMAIN evs : i # id => new[i] = evs[i],
           new[id].group = evs[id].group,
           new[id].is_read \in 0..1, evs[id].is_read \in 0..1
    PROVE  /\ \A g : Members(new, g) = Members(evs, g)
           /\ Cardinality(ReadMembers(new, evs[id].group))
                  = Cardinality(ReadMembers(evs, evs[id].group)) - evs[id].is_read + new[id].is_read
           /\ \A g : g # evs[id].group => ReadMembers(new, g) = ReadMembers(evs, g)
<1> DEFINE g0 == evs[id].group
           old == ReadMembers(evs, g0)
           now == ReadMembers(new, g0)
<1>2. \A g : Members(new, g) = Members(evs, g)
  BY DEF Members
<1>3. \A g : g # evs[id].group => ReadMembers(new, g) = ReadMembers(evs, g)
  BY <1>2 DEF ReadMembers, Members
<1>4. id \in Members(evs, g0)
  BY DEF Members
<1>5. /\ (id \in now) <=> new[id].is_read = 1
      /\ (id \in old) <=> evs[id].is_read = 1
      /\ \A i : i # id => (i \in now <=> i \in old)
  BY <1>2, <1>4 DEF ReadMembers, Members
<1>6. IsFiniteSet(old) /\ Cardinality(old) \in Nat
  BY CountsAreNumbers
<1> HIDE DEF old, now, g0
<1>7. ASSUME new[id].is_read = evs[id].is_read
      PROVE  Cardinality(now) = Cardinality(old) - evs[id].is_read + new[id].is_read
  <2>1. now = old
    BY <1>5, <1>7
  <2>2. QED
    BY <1>6, <1>7, <2>1
<1>8. ASSUME new[id].is_read = 1 /\ evs[id].is_read = 0
      PROVE  Cardinality(now) = Cardinality(old) - evs[id].is_read + new[id].is_read
  <2>1. now = old \cup {id} /\ id \notin old
    BY <1>5, <1>8
  <2>2. Cardinality(now) = Cardinality(old) + 1
    BY <1>6, <2>1, FS_AddElement
  <2>3. QED
    BY <1>6, <1>8, <2>2
<1>9. ASSUME new[id].is_read = 0 /\ evs[id].is_read = 1
      PROVE  Cardinality(now) = Cardinality(old) - evs[id].is_read + new[id].is_read
  <2>1. now = old \ {id} /\ id \in old
    BY <1>5, <1>9
  <2>2. Cardinality(now) = Cardinality(old) - 1
    BY <1>6, <2>1, FS_RemoveElement
  <2>3. QED
    BY <1>6, <1>9, <2>2
<1>10. Cardinality(now) = Cardinality(old) - evs[id].is_read + new[id].is_read
  BY <1>7, <1>8, <1>9
<1>11. QED
  BY <1>2, <1>3, <1>10 DEF old, now, g0

(* A deletion raises neither the read nor the unread count of a group.     *)
LEMMA CountsDeleted ==
    ASSUME NEW evs, DOMAIN evs \subseteq 1..MaxId,
           NEW new, DOMAIN new \subseteq DOMAIN evs, \A i \in DOMAIN new : new[i] = evs[i],
           NEW g
    PROVE  /\ Members(new, g) \subseteq Members(evs, g)
           /\ Cardinality(ReadMembers(new, g)) <= Cardinality(ReadMembers(evs, g))
           /\ Cardinality(Members(new, g)) - Cardinality(ReadMembers(new, g))
                  <= Cardinality(Members(evs, g)) - Cardinality(ReadMembers(evs, g))
<1> DEFINE Unread(x) == Members(x, g) \ ReadMembers(x, g)
<1>1. DOMAIN new \subseteq 1..MaxId
  OBVIOUS
<1>2. /\ Members(new, g) \subseteq Members(evs, g)
      /\ ReadMembers(new, g) \subseteq ReadMembers(evs, g)
      /\ Unread(new) \subseteq Unread(evs)
  BY DEF Members, ReadMembers
<1>3. ASSUME NEW x, DOMAIN x \subseteq 1..MaxId
      PROVE  /\ IsFiniteSet(Unread(x)) /\ Cardinality(Unread(x)) \in Nat
             /\ Cardinality(Unread(x)) = Cardinality(Members(x, g)) - Cardinality(ReadMembers(x, g))
  <2>1. /\ IsFiniteSet(Members(x, g)) /\ IsFiniteSet(ReadMembers(x, g))
        /\ Cardinality(Members(x, g)) \in Nat /\ Cardinality(ReadMembers(x, g)) \in Nat
        /\ Members(x, g) \subseteq 1..MaxId
        /\ ReadMembers(x, g) \subseteq Members(x, g)
    BY <1>3, CountsAreNumbers
  <2>2. Unread(x) \subseteq 1..MaxId
    BY <2>1
  <2>3. IsFiniteSet(Unread(x))
    BY <2>2, FiniteIds
  <2>4. Cardinality(Unread(x)) \in Nat
    BY <2>3, FS_CardinalityType
  <2>5. /\ Unread(x) \cup ReadMembers(x, g) = Members(x, g)
        /\ Unread(x) \cap ReadMembers(x, g) = {}
    BY <2>1
  <2> HIDE DEF Unread
  <2>6. Cardinality(Members(x, g)) = Cardinality(Unread(x)) + Cardinality(ReadMembers(x, g))
                                       - Cardinality({})
    BY <2>1, <2>3, <2>5, FS_Union
  <2>7. Cardinality({}) = 0
    BY FS_EmptySet
  <2>8. QED
    BY <2>1, <2>3, <2>4, <2>6, <2>7
<1>4. Cardinality(Unread(new)) <= Cardinality(Unread(evs))
  <2>1. IsFiniteSet(Unread(evs))
    BY <1>3
  <2> HIDE DEF Unread
  <2>2. QED
    BY <1>2, <2>1, FS_Subset
<1>5. Cardinality(ReadMembers(new, g)) <= Cardinality(ReadMembers(evs, g))
  BY <1>2, CountsAreNumbers, FS_Subset
<1> HIDE DEF Unread
<1>6. QED
  BY <1>1, <1>2, <1>3, <1>4, <1>5

(* The cache after the insert triggers, whether or not UNIQUE refuses it.   *)
NoCount == [event_id |-> 0, total_events |-> 0, read_events |-> 0, flags |-> {}]
CountOf(key) == IF key \in DOMAIN groupCache THEN groupCache[key] ELSE NoCount

TriggersRan(gc, id, ev) ==
    /\ DOMAIN gc = DOMAIN groupCache \cup {KeyOf(ev)}
    /\ \A k \in DOMAIN gc : k[2] # ev.group =>
           k \in DOMAIN groupCache /\ gc[k] = groupCache[k]
    /\ \A k \in DOMAIN gc : k[2] = ev.group => gc[k].event_id = id
    /\ gc[KeyOf(ev)].total_events = CountOf(KeyOf(ev)).total_events + 1
    /\ gc[KeyOf(ev)].read_events = CountOf(KeyOf(ev)).read_events + ev.is_read
    /\ gc[KeyOf(ev)].flags = CountOf(KeyOf(ev)).flags \cup ev.flags

(* What the insert triggers do: the row of the event's group counts it.     *)
LEMMA TriggersCount ==
    ASSUME IInv, NEW ev \in EventRow, ev.group # NULL, NEW id
    PROVE  TriggersRan(AfterInsert(groupCache, id, ev), id, ev)
<1> DEFINE key == KeyOf(ev)
           gc == AfterInsert(groupCache, id, ev)
           gc0 == WithPlaceholder(groupCache, ev.service, ev.group)
<1>1. key[2] = ev.group
  BY DEF KeyOf
<1>2. ~ \E k \in DOMAIN groupCache : groupCache[k].event_id = 0
  BY DEF IInv, NoPlaceholder
<1>3. gc0 = [k \in DOMAIN groupCache \cup {key} |->
               IF k \in DOMAIN groupCache THEN groupCache[k] ELSE NoCount]
  <2>1. CASE key \in DOMAIN groupCache
    <3>1. gc0 = groupCache
      BY <2>1 DEF WithPlaceholder, KeyOf
    <3>2. groupCache = [k \in DOMAIN groupCache |-> groupCache[k]]
      BY DEF IInv, TypeOK, IsTable
    <3>3. DOMAIN groupCache \cup {key} = DOMAIN groupCache
      BY <2>1
    <3> HIDE DEF gc0, key
    <3>4. QED
      BY <3>1, <3>2, <3>3
  <2>2. CASE key \notin DOMAIN groupCache
    BY <1>2, <2>2 DEF WithPlaceholder, KeyOf, NoCount
  <2>3. QED
    BY <2>1, <2>2
<1>4. gc = [k \in DOMAIN gc0 |->
              IF k[2] = ev.group
              THEN [event_id     |-> id,
                    total_events |-> gc0[k].total_events + 1,
                    read_events  |-> gc0[k].read_events + ev.is_read,
                    flags        |-> gc0[k].flags \cup ev.flags]
              ELSE gc0[k]]
  BY DEF AfterInsert, Counted
<1> HIDE DEF gc0, key, gc
<1>5. DOMAIN gc = DOMAIN groupCache \cup {key}
  BY <1>3, <1>4
<1>6. \A k \in DOMAIN gc : k[2] # ev.group =>
          k \in DOMAIN groupCache /\ gc[k] = groupCache[k]
  BY <1>1, <1>3, <1>4
<1>7. \A k \in DOMAIN gc : k[2] = ev.group => gc[k].event_id = id
  BY <1>4
<1>8. key \in DOMAIN gc
  BY <1>5
<1>9. gc[key] = [event_id     |-> id,
                 total_events |-> gc0[key].total_events + 1,
                 read_events  |-> gc0[key].read_events + ev.is_read,
                 flags        |-> gc0[key].flags \cup ev.flags]
  BY <1>1, <1>4, <1>5, <1>3
<1>10. gc0[key] = IF key \in DOMAIN groupCache THEN groupCache[key] ELSE NoCount
  BY <1>3
<1>11. /\ gc[key].total_events = gc0[key].total_events + 1
       /\ gc[key].read_events = gc0[key].read_events + ev.is_read
       /\ gc[key].flags = gc0[key].flags \cup ev.flags
  BY <1>9
<1>12. QED
  BY <1>5, <1>6, <1>7, <1>10, <1>11 DEF key, gc, TriggersRan, CountOf

(* Refusing an event needs a cause: without a row under another service,   *)
(* and with a cache that is right, no row has the id that the event gets.  *)
LEMMA NoCauseNoRefusal == IInv => RefusedForACause
<1> SUFFICES ASSUME IInv, NEW ev \in EventRow, NEW id \in 1..MaxId,
                    IsNextId(DOMAIN events, id),
                    \A k \in DOMAIN groupCache : k[2] = ev.group => k[1] = ev.service,
                    \A g \in Groups : Exact(events, groupCache, g)
             PROVE  EventIdUnique(AfterInsert(groupCache, id, ev))
  BY DEF RefusedForACause
<1> DEFINE key == KeyOf(ev)
           gc  == AfterInsert(groupCache, id, ev)
<1>1. EventIdUnique(groupCache)
  BY DEF IInv, NoPlaceholder
<1>2. CASE ev.group = NULL
  BY <1>1, <1>2 DEF AfterInsert
<1>3. CASE ev.group # NULL
  <2>1. /\ DOMAIN gc = DOMAIN groupCache \cup {key}
        /\ \A k \in DOMAIN gc : k[2] # ev.group =>
               k \in DOMAIN groupCache /\ gc[k] = groupCache[k]
        /\ \A k \in DOMAIN gc : k[2] = ev.group => gc[k].event_id = id
    BY <1>3, TriggersCount DEF TriggersRan
  <2> HIDE DEF gc
  <2>2. \A k \in DOMAIN groupCache : k \in Services \X Groups
    BY DEF IInv, TypeOK, IsTable
  <2>3. \A k \in DOMAIN gc : k[2] = ev.group => k = key
    BY <2>1, <2>2 DEF KeyOf
  <2>4. ASSUME NEW k \in DOMAIN groupCache, groupCache[k].event_id = id
        PROVE  FALSE
    <3> DEFINE g == k[2]
    <3>1. g \in Groups /\ Exact(events, groupCache, g)
      BY <2>2
    <3>2. Members(events, g) # {}
      BY <3>1 DEF Exact
    <3>3. SummaryKey(events, g) = k
      BY <3>1, <3>2 DEF Exact, IInv, OneRowPerGroup, SummaryKey
    <3>4. id = Max(Members(events, g))
      BY <2>4, <3>1, <3>2, <3>3 DEF Exact
    <3>5. Members(events, g) \subseteq 1..MaxId
      BY DEF IInv, TypeOK, IsTable, Members
    <3>6. id \in DOMAIN events
      BY <3>2, <3>4, <3>5, MaxOfIds DEF Members
    <3>7. QED
      BY <3>6, BoundsAssumption DEF IsNextId
  <2>5. QED
    BY <1>1, <2>1, <2>3, <2>4 DEF EventIdUnique, gc
<1>4. QED
  BY <1>2, <1>3

---------------------------------------------------------------------------
(* The counts.  A row counts at least one event: with that and what the    *)
(* property says, the counts are never too low.                            *)
RowsCountEvents == \A k \in DOMAIN groupCache : groupCache[k].total_events >= 1

CInv == IInv /\ NeverUndercounts /\ RowsCountEvents

(* The counts of one row are not too low.                                  *)
NotTooLow(evs, row, g) ==
    /\ row.read_events >= Cardinality(ReadMembers(evs, g))
    /\ row.total_events - row.read_events
           >= Cardinality(Members(evs, g)) - Cardinality(ReadMembers(evs, g))
    /\ row.total_events >= 1

LEMMA CInvRows ==
    ASSUME CInv, NEW k \in DOMAIN groupCache
    PROVE  NotTooLow(events, groupCache[k], k[2])
BY DEF CInv, NeverUndercounts, RowsCountEvents, NotTooLow

LEMMA CInvFromRows ==
    ASSUME IInv', \A k \in DOMAIN groupCache' : NotTooLow(events', groupCache'[k], k[2])
    PROVE  CInv'
BY DEF CInv, NeverUndercounts, RowsCountEvents, NotTooLow

(* The events with a group have a row, so a group without a row is empty.  *)
LEMMA NoRowNoMembers ==
    ASSUME IInv, NEW g, g # NULL, \A k \in DOMAIN groupCache : k[2] # g
    PROVE  Members(events, g) = {}
<1>1. ASSUME NEW i \in Members(events, g) PROVE FALSE
  <2>1. i \in DOMAIN events /\ events[i].group = g
    BY <1>1 DEF Members
  <2>2. <<events[i].service, g>> \in DOMAIN groupCache
    BY <2>1 DEF IInv, GroupedEventsCached
  <2>3. QED
    BY <2>2
<1>2. QED
  BY <1>1

(* The triggers count the event they were fired for.                       *)
LEMMA AddCounts ==
    ASSUME CInv, IInv', NEW p \in Loggers, NEW field \in Fields, NEW ev \in EventRow,
           NEW id \in 1..MaxId, AddEvent(p, field, ev, id)
    PROVE  CInv'
<1>1. /\ DOMAIN events \subseteq 1..MaxId /\ id \notin DOMAIN events
      /\ ev.is_read \in 0..1
      /\ events' = [i \in DOMAIN events \cup {id} |-> IF i = id THEN ev ELSE events[i]]
      /\ groupCache' = AfterInsert(groupCache, id, ev)
      /\ EventIdUnique(AfterInsert(groupCache, id, ev))
  BY BoundsAssumption DEF CInv, IInv, TypeOK, IsTable, EventRow, AddEvent, IsNextId
<1>2. /\ Cardinality(Members(events', ev.group)) = Cardinality(Members(events, ev.group)) + 1
      /\ Cardinality(ReadMembers(events', ev.group))
             = Cardinality(ReadMembers(events, ev.group)) + ev.is_read
      /\ \A g : g # ev.group => /\ Members(events', g) = Members(events, g)
                                /\ ReadMembers(events', g) = ReadMembers(events, g)
  BY <1>1, CountsAdded
<1>3. ASSUME NEW k \in DOMAIN groupCache, k[2] # ev.group
      PROVE  NotTooLow(events', groupCache[k], k[2])
  BY <1>2, <1>3, CInvRows DEF NotTooLow
<1>4. CASE ev.group = NULL
  <2>1. groupCache' = groupCache
    BY <1>1, <1>4 DEF AfterInsert
  <2>2. \A k \in DOMAIN groupCache : k[2] # ev.group
    BY <1>4, NullAssumption DEF CInv, IInv, TypeOK, IsTable
  <2>3. QED
    BY <1>3, <2>1, <2>2, CInvFromRows
<1>5. CASE ev.group # NULL
  <2> DEFINE key == KeyOf(ev)
             row == groupCache'[key]
  <2>1. TriggersRan(groupCache', id, ev)
    BY <1>1, <1>5, TriggersCount DEF CInv
  <2>2. \A k \in DOMAIN groupCache' : k[2] = ev.group => k = key
    <3>1. \A k \in DOMAIN AfterInsert(groupCache, id, ev) :
              k[2] = ev.group => k = key
      BY <1>1, <1>5, InsertedRows DEF CInv
    <3>2. QED
      BY <1>1, <3>1
  <2>3. key \in DOMAIN groupCache' /\ key[2] = ev.group
    BY <2>1 DEF TriggersRan, KeyOf
  <2>4. /\ Cardinality(Members(events, ev.group)) \in Nat
        /\ Cardinality(ReadMembers(events, ev.group)) \in Nat
    BY <1>1, CountsAreNumbers
  <2>5. /\ row.total_events = CountOf(key).total_events + 1
        /\ row.read_events = CountOf(key).read_events + ev.is_read
    BY <2>1 DEF TriggersRan
  <2>6. NotTooLow(events', row, ev.group)
    <3>1. CASE key \in DOMAIN groupCache
      <4>1. groupCache[key].total_events \in Nat /\ groupCache[key].read_events \in Int
        BY <3>1 DEF CInv, IInv, TypeOK, IsTable, CacheRow
      <4>2. NotTooLow(events, groupCache[key], ev.group)
        BY <2>3, <3>1, CInvRows
      <4>3. CountOf(key) = groupCache[key]
        BY <3>1 DEF CountOf
      <4> HIDE DEF key, row
      <4>4. QED
        BY <1>1, <1>2, <2>4, <2>5, <4>1, <4>2, <4>3 DEF NotTooLow
    <3>2. CASE key \notin DOMAIN groupCache
      <4>1. \A k \in DOMAIN groupCache : k[2] # ev.group
        BY <2>1, <2>2, <3>2 DEF TriggersRan
      <4>2. Members(events, ev.group) = {}
        BY <1>5, <4>1, NoRowNoMembers DEF CInv
      <4>3. ReadMembers(events, ev.group) = {}
        BY <4>2 DEF ReadMembers
      <4>4. CountOf(key).total_events = 0 /\ CountOf(key).read_events = 0
        BY <3>2 DEF CountOf, NoCount
      <4>5. Cardinality({}) = 0
        BY FS_EmptySet
      <4> HIDE DEF key, row
      <4>6. QED
        BY <1>1, <1>2, <2>5, <4>2, <4>3, <4>4, <4>5 DEF NotTooLow
    <3>3. QED
      BY <3>1, <3>2
  <2>7. \A k \in DOMAIN groupCache' : NotTooLow(events', groupCache'[k], k[2])
    <3>1. TAKE k \in DOMAIN groupCache'
    <3>2. CASE k[2] = ev.group
      BY <2>2, <2>6, <3>2
    <3>3. CASE k[2] # ev.group
      BY <1>3, <2>1, <3>3 DEF TriggersRan
    <3>4. QED
      BY <3>2, <3>3
  <2>8. QED
    BY <2>7, CInvFromRows
<1>6. QED
  BY <1>4, <1>5

(* An update moves one event between read and unread, in the cache too.     *)
LEMMA UpdateCounts ==
    ASSUME CInv, IInv', NEW id, NEW new, UpdateEvent(id, new),
           id \in DOMAIN events => new \in EventRow /\ new.group = events[id].group
    PROVE  CInv'
<1>1. CASE id \notin DOMAIN events
  BY <1>1 DEF UpdateEvent, CInv, NeverUndercounts, RowsCountEvents, tables
<1>2. CASE id \in DOMAIN events
  <2> DEFINE g0 == new.group
  <2>1. /\ DOMAIN events \subseteq 1..MaxId
        /\ events[id].is_read \in 0..1 /\ new.is_read \in 0..1
        /\ events' = [events EXCEPT ![id] = new]
        /\ groupCache' = AfterUpdate(groupCache, events[id], new)
        /\ new.group = events[id].group
    BY <1>2 DEF CInv, IInv, TypeOK, IsTable, EventRow, UpdateEvent
  <2>2. /\ \A g : Members(events', g) = Members(events, g)
        /\ Cardinality(ReadMembers(events', g0))
               = Cardinality(ReadMembers(events, g0)) - events[id].is_read + new.is_read
        /\ \A g : g # g0 => ReadMembers(events', g) = ReadMembers(events, g)
    <3>1. /\ DOMAIN events' = DOMAIN events /\ events'[id] = new
          /\ \A i \in DOMAIN events : i # id => events'[i] = events[i]
          /\ events'[id].group = events[id].group
          /\ events'[id].is_read \in 0..1
      BY <1>2, <2>1
    <3>2. /\ \A g : Members(events', g) = Members(events, g)
          /\ Cardinality(ReadMembers(events', events[id].group))
                 = Cardinality(ReadMembers(events, events[id].group))
                      - events[id].is_read + events'[id].is_read
          /\ \A g : g # events[id].group => ReadMembers(events', g) = ReadMembers(events, g)
      <4>1. DOMAIN events \subseteq 1..MaxId /\ events[id].is_read \in 0..1
        BY <2>1
      <4>2. QED
        BY <1>2, <3>1, <4>1, CountsUpdated
    <3>3. QED
      BY <2>1, <3>1, <3>2
  <2>3. DOMAIN groupCache' = DOMAIN groupCache
    BY <2>1 DEF AfterUpdate
  <2>4. ASSUME NEW k \in DOMAIN groupCache'
        PROVE  NotTooLow(events', groupCache'[k], k[2])
    <3>1. /\ k \in DOMAIN groupCache /\ k[2] # NULL
          /\ groupCache[k].total_events \in Nat /\ groupCache[k].read_events \in Int
      BY <2>3, NullAssumption DEF CInv, IInv, TypeOK, IsTable, CacheRow
    <3>2. NotTooLow(events, groupCache[k], k[2])
      BY <3>1, CInvRows
    <3>3. CASE k[2] = g0
      <4>1. groupCache'[k] = [event_id     |-> groupCache[k].event_id,
                              total_events |-> groupCache[k].total_events,
                              read_events  |-> groupCache[k].read_events
                                                  - events[id].is_read + new.is_read,
                              flags        |-> (groupCache[k].flags \ events[id].flags)
                                                  \cup new.flags]
        BY <2>1, <3>1, <3>3 DEF AfterUpdate
      <4>2. /\ groupCache'[k].total_events = groupCache[k].total_events
            /\ groupCache'[k].read_events
                  = groupCache[k].read_events - events[id].is_read + new.is_read
        BY <4>1
      <4>3. /\ Cardinality(Members(events, g0)) \in Nat
            /\ Cardinality(ReadMembers(events, g0)) \in Nat
        BY <2>1, CountsAreNumbers
      <4>4. Members(events', g0) = Members(events, g0)
        BY <2>2
      <4>5. NotTooLow(events, groupCache[k], g0)
        BY <3>2, <3>3
      <4> HIDE DEF g0
      <4>6. NotTooLow(events', groupCache'[k], g0)
        BY <2>1, <2>2, <3>1, <4>2, <4>3, <4>4, <4>5 DEF NotTooLow
      <4>7. QED
        BY <3>3, <4>6
    <3>4. CASE k[2] # g0
      <4>1. groupCache'[k] = groupCache[k]
        BY <2>1, <3>1, <3>4 DEF AfterUpdate
      <4>2. QED
        BY <2>2, <3>2, <3>4, <4>1 DEF NotTooLow
    <3>5. QED
      BY <3>3, <3>4
  <2>5. QED
    BY <2>4, CInvFromRows
<1>3. QED
  BY <1>1, <1>2

(* What a deletion with update_group_cache() leaves of the cache.          *)
RowsDeleted(gs) ==
    /\ DOMAIN groupCache' \subseteq DOMAIN groupCache
    /\ \A k \in DOMAIN groupCache' :
          IF k[2] \in gs /\ Members(events', k[2]) # {}
          THEN groupCache'[k] = Summary(events', k[2])
          ELSE groupCache'[k] = groupCache[k]
    /\ \A k \in DOMAIN groupCache :
          Members(events', k[2]) # {} \/ k[2] \notin gs => k \in DOMAIN groupCache'

LEMMA DeleteEventsRows ==
    ASSUME IInv, NEW ids, NEW named \in SUBSET (Groups \cup {NULL}),
           DeleteEventsUncleaned(ids, named)
    PROVE  RowsDeleted(named)
<1>1. \E x : events' = Without(x)
  BY DEF DeleteEventsUncleaned
<1>2. groupCache' = Replaced(events', groupCache, named)
  BY DEF DeleteEventsUncleaned
<1>3. RowsReplaced(groupCache', events', named)
  BY <1>1, <1>2, ReplacedRows
<1>4. QED
  BY <1>3 DEF RowsReplaced, RowsDeleted

(* With the final DELETE, no group without events keeps its row, whichever *)
(* groups the statement before it named; without a group to rebuild        *)
(* neither of the two runs.                                                *)
LEMMA DeleteEventsCleanRows ==
    ASSUME IInv, NEW ids, NEW named \in SUBSET (Groups \cup {NULL}),
           DeleteEvents(ids, named)
    PROVE  /\ DOMAIN groupCache' \subseteq DOMAIN groupCache
           /\ \A k \in DOMAIN groupCache' :
                 IF GroupUids(ids) # {} /\ k[2] \in named
                 THEN groupCache'[k] = Summary(events', k[2])
                 ELSE groupCache'[k] = groupCache[k]
           /\ \A k \in DOMAIN groupCache' :
                 GroupUids(ids) # {} => Members(events', k[2]) # {}
           /\ \A k \in DOMAIN groupCache :
                 Members(events', k[2]) # {} => k \in DOMAIN groupCache'
<1> DEFINE gs == GroupUids(ids)
           gc == Replaced(events', groupCache, named)
<1>2. events' = Without(ids)
  BY DEF DeleteEvents
<1>3. RowsReplaced(gc, events', named)
  BY <1>2, ReplacedRows
<1>4. groupCache' = IF gs = {} THEN groupCache ELSE Cleaned(events', gc)
  BY <1>2 DEF DeleteEvents, UpdateGroupCache
<1> HIDE DEF gs, gc
<1>5. CASE gs = {}
  BY <1>4, <1>5 DEF gs
<1>6. CASE gs # {}
  <2>1. /\ \A k : k \in DOMAIN groupCache' <=> k \in DOMAIN gc /\ Members(events', k[2]) # {}
        /\ \A k \in DOMAIN groupCache' : groupCache'[k] = gc[k]
    BY <1>4, <1>6 DEF Cleaned
  <2>2. DOMAIN gc = DOMAIN groupCache
    BY <1>3 DEF RowsReplaced
  <2>3. \A k \in DOMAIN groupCache' :
            groupCache'[k] = IF k[2] \in named THEN Summary(events', k[2])
                                               ELSE groupCache[k]
    BY <1>3, <2>1 DEF RowsReplaced
  <2>4. QED
    BY <1>6, <2>1, <2>2, <2>3 DEF gs
<1>7. QED
  BY <1>5, <1>6

(* What every deletion leaves: fewer rows, each as it was or a summary.    *)
Deletes ==
    /\ DOMAIN events' \subseteq DOMAIN events
    /\ \A i \in DOMAIN events' : events'[i] = events[i]
    /\ DOMAIN groupCache' \subseteq DOMAIN groupCache
    /\ \A k \in DOMAIN groupCache' :
          \/ groupCache'[k] = groupCache[k]
          \/ /\ Members(events', k[2]) # {}
             /\ groupCache'[k] = Summary(events', k[2])

LEMMA DeletionDeletes == ASSUME IInv, Delete PROVE Deletes
<1>1. ASSUME NEW ids, events' = Without(ids)
      PROVE  /\ DOMAIN events' \subseteq DOMAIN events
             /\ \A i \in DOMAIN events' : events'[i] = events[i]
  BY <1>1 DEF Without
<1>2. ASSUME NEW ids, NEW named \in SUBSET (Groups \cup {NULL}),
             DeleteEvents(ids, named)
      PROVE  Deletes
  <2>1. events' = Without(ids)
    BY <1>2 DEF DeleteEvents
  <2>2. QED
    BY <1>1, <1>2, <2>1, DeleteEventsCleanRows DEF Deletes
<1>3. ASSUME NEW ids, NEW named \in SUBSET (Groups \cup {NULL}),
             DeleteEventsUncleaned(ids, named)
      PROVE  Deletes
  <2>1. events' = Without(ids)
    BY <1>3 DEF DeleteEventsUncleaned
  <2>2. RowsDeleted(named)
    BY <1>3, DeleteEventsRows
  <2>3. QED
    BY <1>1, <2>1, <2>2 DEF Deletes, RowsDeleted
<1>4. ASSUME NEW ids, DeleteEventsGarbled(ids) \/ DeleteEventsUnlisted(ids) PROVE Deletes
  <2>1. groupCache' = groupCache
    BY <1>4 DEF DeleteEventsGarbled, DeleteEventsUnlisted, tables
  <2>2. events' = events \/ events' = Without(ids)
    BY <1>4 DEF DeleteEventsGarbled, DeleteEventsUnlisted, tables
  <2>3. QED
    BY <1>1, <2>1, <2>2 DEF Deletes
<1>5. ASSUME NEW s, DeleteByService(s) PROVE Deletes
  BY <1>1, <1>5 DEF DeleteByService, Deletes
<1>6. ASSUME NEW gs, DeleteByGroupUids(gs) PROVE Deletes
  BY <1>1, <1>6 DEF DeleteByGroupUids, Deletes
<1>7. ASSUME DeleteAll PROVE Deletes
  BY <1>7 DEF DeleteAll, NoRows, Deletes
<1>8. QED
  BY <1>2, <1>3, <1>4, <1>5, <1>6, <1>7 DEF Delete

(* A deletion keeps the counts from being too low: a row that stays counts *)
(* no fewer events than there were, and a summary counts those there are.  *)
LEMMA DeleteCounts == ASSUME CInv, IInv', Delete PROVE CInv'
<1>1. Deletes
  BY DeletionDeletes DEF CInv
<1>2. DOMAIN events \subseteq 1..MaxId /\ DOMAIN events' \subseteq 1..MaxId
  BY DEF CInv, IInv, TypeOK, IsTable
<1>3. ASSUME NEW k \in DOMAIN groupCache'
      PROVE  NotTooLow(events', groupCache'[k], k[2])
  <2> DEFINE g == k[2]
  <2>1. /\ Cardinality(Members(events', g)) \in Nat
        /\ Cardinality(ReadMembers(events', g)) \in Nat
        /\ IsFiniteSet(Members(events', g))
    BY <1>2, CountsAreNumbers
  <2>2. CASE groupCache'[k] = groupCache[k]
    <3>1. k \in DOMAIN groupCache
      BY <1>1 DEF Deletes
    <3>2. NotTooLow(events, groupCache[k], g)
      BY <3>1, CInvRows
    <3>3. groupCache[k].total_events \in Nat /\ groupCache[k].read_events \in Int
      BY <3>1 DEF CInv, IInv, TypeOK, IsTable, CacheRow
    <3>4. /\ Cardinality(Members(events, g)) \in Nat
          /\ Cardinality(ReadMembers(events, g)) \in Nat
      BY <1>2, CountsAreNumbers
    <3>5. /\ Cardinality(ReadMembers(events', g)) <= Cardinality(ReadMembers(events, g))
          /\ Cardinality(Members(events', g)) - Cardinality(ReadMembers(events', g))
                <= Cardinality(Members(events, g)) - Cardinality(ReadMembers(events, g))
      <4>1. /\ DOMAIN events' \subseteq DOMAIN events
            /\ \A i \in DOMAIN events' : events'[i] = events[i]
        BY <1>1 DEF Deletes
      <4>2. QED
        BY <1>2, <4>1, CountsDeleted
    <3> HIDE DEF g
    <3>6. NotTooLow(events', groupCache[k], g)
      BY <2>1, <3>2, <3>3, <3>4, <3>5 DEF NotTooLow
    <3>7. QED
      BY <2>2, <3>6 DEF g
  <2>3. CASE Members(events', g) # {} /\ groupCache'[k] = Summary(events', g)
    <3>1. Cardinality(Members(events', g)) # 0
      BY <2>1, <2>3, FS_EmptySet
    <3>2. /\ groupCache'[k].total_events = Cardinality(Members(events', g))
          /\ groupCache'[k].read_events = Cardinality(ReadMembers(events', g))
      BY <2>3 DEF Summary
    <3> HIDE DEF g
    <3>3. NotTooLow(events', groupCache'[k], g)
      BY <2>1, <3>1, <3>2 DEF NotTooLow
    <3>4. QED
      BY <3>3 DEF g
  <2>4. QED
    BY <1>1, <2>2, <2>3 DEF Deletes
<1>4. QED
  BY <1>3, CInvFromRows

(* The four calls that change a column are UPDATEs of one row that keep its *)
(* group and its service.                                                  *)
LEMMA UpdateIsOfOneRow ==
    ASSUME IInv, Update
    PROVE  \E id \in 1..MaxId : \E new :
              /\ UpdateEvent(id, new)
              /\ id \in DOMAIN events => /\ new \in EventRow
                                         /\ new.group = events[id].group
                                         /\ new.service = events[id].service
<1> DEFINE Fits(id, new) == id \in DOMAIN events => /\ new \in EventRow
                                                    /\ new.group = events[id].group
                                                    /\ new.service = events[id].service
<1>1. \A i \in DOMAIN events : events[i] \in EventRow
  BY DEF IInv, TypeOK, IsTable
<1>2. ASSUME NEW id \in 1..MaxId, NEW read \in 0..1
      PROVE  Fits(id, [events[id] EXCEPT !.is_read = read])
  BY <1>1 DEF EventRow
<1>3. ASSUME NEW id \in 1..MaxId, NEW b \in Bits
      PROVE  Fits(id, [events[id] EXCEPT !.flags = @ \cup {b}])
  BY <1>1 DEF EventRow
<1>4. ASSUME NEW id \in 1..MaxId, NEW b \in Bits
      PROVE  Fits(id, [events[id] EXCEPT !.flags = @ \ {b}])
  BY <1>1 DEF EventRow
<1>5. ASSUME NEW id \in 1..MaxId PROVE Fits(id, events[id])
  BY <1>1
<1>6. PICK id \in 1..MaxId : \/ \E read \in 0..1 : SetReadEvent(id, read)
                             \/ \E b \in Bits : SetEventFlag(id, b)
                             \/ \E b \in Bits : UnsetEventFlag(id, b)
                             \/ SetEndTime(id)
  BY DEF Update
<1> HIDE DEF Fits
<1>7. \E new : UpdateEvent(id, new) /\ Fits(id, new)
  <2>1. ASSUME NEW read \in 0..1, SetReadEvent(id, read)
        PROVE  \E new : UpdateEvent(id, new) /\ Fits(id, new)
    BY <1>2, <2>1 DEF SetReadEvent
  <2>2. ASSUME NEW b \in Bits, SetEventFlag(id, b)
        PROVE  \E new : UpdateEvent(id, new) /\ Fits(id, new)
    BY <1>3, <2>2 DEF SetEventFlag
  <2>3. ASSUME NEW b \in Bits, UnsetEventFlag(id, b)
        PROVE  \E new : UpdateEvent(id, new) /\ Fits(id, new)
    BY <1>4, <2>3 DEF UnsetEventFlag
  <2>4. ASSUME SetEndTime(id)
        PROVE  \E new : UpdateEvent(id, new) /\ Fits(id, new)
    BY <1>5, <2>4 DEF SetEndTime
  <2>5. QED
    BY <1>6, <2>1, <2>2, <2>3, <2>4
<1>8. QED
  BY <1>7 DEF Fits

(* The steps that change the tables: everything else is a rollback, or a   *)
(* logger object that begins anew.                                         *)
LEMMA StepsOfTheTables ==
    ASSUME [Next]_vars
    PROVE  \/ UNCHANGED tables
           \/ \E p \in Loggers, field \in Fields, ev \in EventRow, id \in 1..MaxId :
                 AddEvent(p, field, ev, id)
           \/ Update
           \/ Delete
<1>1. ASSUME NEW p \in Loggers, Restart(p) PROVE UNCHANGED tables
  BY <1>1 DEF Restart
<1>2. ASSUME NEW p \in Loggers, NEW field \in Fields, AddEventFails(p, field)
      PROVE  UNCHANGED tables
  BY <1>2 DEF AddEventFails
<1>3. ASSUME NEW p \in Loggers, NEW field \in Fields, NEW ev, NEW id,
             AddEventRefused(p, field, ev, id)
      PROVE  UNCHANGED tables
  BY <1>3 DEF AddEventRefused
<1>4. UNCHANGED vars => UNCHANGED tables
  BY DEF vars, tables
<1>5. QED
  BY <1>1, <1>2, <1>3, <1>4 DEF Next, Add

LEMMA InitCounts == Init => CInv
BY InitIInv DEF Init, NoRows, CInv, NeverUndercounts, RowsCountEvents

LEMMA StepCounts == ASSUME CInv, IInv', [Next]_vars PROVE CInv'
<1>1. CASE UNCHANGED tables
  BY <1>1 DEF tables, CInv, NeverUndercounts, RowsCountEvents
<1>2. CASE Update
  <2>1. PICK id \in 1..MaxId : \E new :
              /\ UpdateEvent(id, new)
              /\ id \in DOMAIN events => new \in EventRow /\ new.group = events[id].group
    BY <1>2, UpdateIsOfOneRow DEF CInv
  <2>2. QED
    BY <2>1, UpdateCounts
<1>3. QED
  BY <1>1, <1>2, StepsOfTheTables, AddCounts, DeleteCounts

(* However often ids are reused and rows are left behind by failures, the  *)
(* cached read and unread counts of a group are never below the truth.     *)
THEOREM CountsAreNeverTooLow == Spec => []NeverUndercounts
<1>1. CInv => NeverUndercounts
  BY DEF CInv
<1>2. CInv /\ IInv' /\ [Next]_vars => CInv'
  BY StepCounts
<1>3. QED
  BY <1>1, <1>2, InitCounts, StoreInvariant, PTL DEF Spec

(* UNIQUE refuses an event only if its group has a row under another       *)
(* service, or if what the cache says of some group is wrong.              *)
THEOREM RefusalsHaveCauses == Spec => []RefusedForACause
<1>1. IInv => RefusedForACause
  BY NoCauseNoRefusal
<1>2. QED
  BY <1>1, StoreInvariant, PTL

---------------------------------------------------------------------------
(* Rows that are right stay right                                          *)

(* A step that leaves the events of a group and its row alone leaves the   *)
(* row as right as it was.                                                 *)
LEMMA ExactKept ==
    ASSUME NEW g,
           Members(events', g) = Members(events, g),
           ReadMembers(events', g) = ReadMembers(events, g),
           Members(events, g) \subseteq 1..MaxId,
           \A i \in Members(events, g) : events'[i].service = events[i].service,
           \A k : k[2] = g => (k \in DOMAIN groupCache' <=> k \in DOMAIN groupCache),
           \A k \in DOMAIN groupCache : k[2] = g => groupCache'[k] = groupCache[k]
    PROVE  Exact(events', groupCache', g) <=> Exact(events, groupCache, g)
<1> DEFINE key == SummaryKey(events, g)
<1>1. CASE Members(events, g) = {}
  BY <1>1 DEF Exact
<1>2. CASE Members(events, g) # {}
  <2>1. Max(Members(events, g)) \in Members(events, g)
    BY <1>2, MaxOfIds
  <2>2. SummaryKey(events', g) = key /\ key[2] = g
    BY <2>1 DEF SummaryKey
  <2> HIDE DEF key
  <2>3. QED
    BY <1>2, <2>2 DEF Exact, key
<1>3. QED
  BY <1>1, <1>2

(* The row of a group that is right is the one of its newest event.        *)
OneRow(gc) == \A k, l \in DOMAIN gc : k[2] = l[2] => k = l

LEMMA ExactRow ==
    ASSUME NEW evs, NEW gc, OneRow(gc),
           NEW g, Exact(evs, gc, g), NEW k \in DOMAIN gc, k[2] = g
    PROVE  /\ Members(evs, g) # {}
           /\ k = SummaryKey(evs, g)
           /\ gc[k].event_id = Max(Members(evs, g))
           /\ gc[k].total_events = Cardinality(Members(evs, g))
           /\ gc[k].read_events = Cardinality(ReadMembers(evs, g))
<1>1. Members(evs, g) # {}
  BY DEF Exact
<1>2. SummaryKey(evs, g) \in DOMAIN gc /\ SummaryKey(evs, g)[2] = g
  BY <1>1 DEF Exact, SummaryKey
<1>3. k = SummaryKey(evs, g)
  BY <1>2 DEF OneRow
<1>4. QED
  BY <1>1, <1>3 DEF Exact

(* A stored event of a group is under the service of the group's row.      *)
LEMMA MembersShareRow ==
    ASSUME IInv, NEW g, g # NULL, NEW i \in Members(events, g)
    PROVE  /\ KeyOf(events[i]) \in DOMAIN groupCache
           /\ KeyOf(events[i])[2] = g
           /\ \A j \in Members(events, g) : events[j].service = events[i].service
           /\ \A k \in DOMAIN groupCache : k[2] = g => k = KeyOf(events[i])
<1>1. \A j \in Members(events, g) :
          KeyOf(events[j]) \in DOMAIN groupCache /\ KeyOf(events[j])[2] = g
  BY DEF IInv, GroupedEventsCached, Members, KeyOf
<1>2. \A k \in DOMAIN groupCache : k[2] = g => k = KeyOf(events[i])
  BY <1>1 DEF IInv, OneRowPerGroup
<1>3. ASSUME NEW j \in Members(events, g) PROVE events[j].service = events[i].service
  <2>1. KeyOf(events[j]) = KeyOf(events[i])
    BY <1>1, <1>2
  <2>2. QED
    BY <2>1 DEF KeyOf
<1>4. QED
  BY <1>1, <1>2, <1>3

(* rtcom_el_add_event() leaves the other groups alone.                     *)
LEMMA AddElsewhere ==
    ASSUME IInv, NEW p \in Loggers, NEW field \in Fields, NEW ev \in EventRow,
           NEW id \in 1..MaxId, AddEvent(p, field, ev, id),
           NEW g, g # NULL, g # ev.group
    PROVE  /\ Exact(events', groupCache', g) <=> Exact(events, groupCache, g)
           /\ Members(events', g) = Members(events, g)
           /\ \A i \in Members(events, g) : events'[i] = events[i]
           /\ \A k : k[2] = g => (k \in DOMAIN groupCache' <=> k \in DOMAIN groupCache)
           /\ \A k \in DOMAIN groupCache : k[2] = g => groupCache'[k] = groupCache[k]
<1>1. /\ DOMAIN events \subseteq 1..MaxId /\ id \notin DOMAIN events
      /\ ev.is_read \in 0..1
      /\ events' = [i \in DOMAIN events \cup {id} |-> IF i = id THEN ev ELSE events[i]]
      /\ groupCache' = AfterInsert(groupCache, id, ev)
      /\ EventIdUnique(AfterInsert(groupCache, id, ev))
  BY BoundsAssumption DEF IInv, TypeOK, IsTable, EventRow, AddEvent, IsNextId
<1>2. /\ Members(events', ev.group) = Members(events, ev.group) \cup {id}
      /\ Cardinality(Members(events', ev.group)) = Cardinality(Members(events, ev.group)) + 1
      /\ Cardinality(ReadMembers(events', ev.group))
             = Cardinality(ReadMembers(events, ev.group)) + ev.is_read
      /\ \A h : h # ev.group => /\ Members(events', h) = Members(events, h)
                                /\ ReadMembers(events', h) = ReadMembers(events, h)
  BY <1>1, CountsAdded
<1>3. /\ Members(events, g) \subseteq 1..MaxId /\ Members(events, g) \subseteq DOMAIN events
      /\ \A i \in DOMAIN events : i < id
  BY <1>1 DEF Members, AddEvent, IsNextId
<1>4. \A i \in Members(events, g) : events'[i] = events[i]
  BY <1>1, <1>3
<1>5. /\ \A k : k[2] = g => (k \in DOMAIN groupCache' <=> k \in DOMAIN groupCache)
      /\ \A k \in DOMAIN groupCache : k[2] = g => groupCache'[k] = groupCache[k]
  <2>1. CASE ev.group = NULL
    BY <1>1, <2>1 DEF AfterInsert
  <2>2. CASE ev.group # NULL
    <3>1. TriggersRan(groupCache', id, ev)
      BY <1>1, <2>2, TriggersCount
    <3>2. KeyOf(ev)[2] = ev.group
      BY DEF KeyOf
    <3>3. QED
      BY <3>1, <3>2 DEF TriggersRan
  <2>3. QED
    BY <2>1, <2>2
<1>6. QED
  BY <1>2, <1>3, <1>4, <1>5, ExactKept

(* rtcom_el_add_event() keeps the row of every group right.                *)
LEMMA AddKeepsExact ==
    ASSUME IInv, NEW p \in Loggers, NEW field \in Fields, NEW ev \in EventRow,
           NEW id \in 1..MaxId, AddEvent(p, field, ev, id),
           NEW g \in Groups, Exact(events, groupCache, g)
    PROVE  Exact(events', groupCache', g)
<1>1. /\ DOMAIN events \subseteq 1..MaxId /\ id \notin DOMAIN events
      /\ ev.is_read \in 0..1
      /\ events' = [i \in DOMAIN events \cup {id} |-> IF i = id THEN ev ELSE events[i]]
      /\ groupCache' = AfterInsert(groupCache, id, ev)
      /\ EventIdUnique(AfterInsert(groupCache, id, ev))
  BY BoundsAssumption DEF IInv, TypeOK, IsTable, EventRow, AddEvent, IsNextId
<1>2. /\ Members(events', ev.group) = Members(events, ev.group) \cup {id}
      /\ Cardinality(Members(events', ev.group)) = Cardinality(Members(events, ev.group)) + 1
      /\ Cardinality(ReadMembers(events', ev.group))
             = Cardinality(ReadMembers(events, ev.group)) + ev.is_read
      /\ \A h : h # ev.group => /\ Members(events', h) = Members(events, h)
                                /\ ReadMembers(events', h) = ReadMembers(events, h)
  BY <1>1, CountsAdded
<1>3. /\ Members(events, g) \subseteq 1..MaxId /\ Members(events, g) \subseteq DOMAIN events
      /\ \A i \in DOMAIN events : i < id
  BY <1>1 DEF Members, AddEvent, IsNextId
<1>4. g # NULL
  BY NullAssumption
<1>5. CASE g # ev.group
  BY <1>4, <1>5, AddElsewhere
<1>6. CASE g = ev.group
  <2> DEFINE key == KeyOf(ev)
  <2>1. TriggersRan(groupCache', id, ev)
    BY <1>1, <1>4, <1>6, TriggersCount
  <2>2. \A k \in DOMAIN groupCache' : k[2] = g => k = key
    <3>1. \A k \in DOMAIN AfterInsert(groupCache, id, ev) : k[2] = ev.group => k = key
      BY <1>1, <1>4, <1>6, InsertedRows
    <3>2. QED
      BY <1>1, <1>6, <3>1
  <2>3. /\ key \in DOMAIN groupCache' /\ key[2] = g
        /\ groupCache'[key].event_id = id
        /\ groupCache'[key].total_events = CountOf(key).total_events + 1
        /\ groupCache'[key].read_events = CountOf(key).read_events + ev.is_read
    BY <1>6, <2>1 DEF TriggersRan, KeyOf
  <2>4. Members(events', g) # {} /\ Max(Members(events', g)) = id
    <3>1. id \in Members(events', g) /\ Members(events', g) \subseteq 1..MaxId
      BY <1>2, <1>3, <1>6
    <3>2. \A i \in Members(events', g) : i <= id
      BY <1>1, <1>2, <1>3, <1>6, BoundsAssumption
    <3>3. QED
      BY <3>1, <3>2, MaxIs
  <2>5. SummaryKey(events', g) = key
    BY <1>1, <1>6, <2>4 DEF SummaryKey, KeyOf
  <2>6. /\ CountOf(key).total_events = Cardinality(Members(events, g))
        /\ CountOf(key).read_events = Cardinality(ReadMembers(events, g))
    <3>1. CASE key \in DOMAIN groupCache
      <4>1. OneRow(groupCache)
        BY DEF IInv, OneRowPerGroup, OneRow
      <4>2. QED
        BY <2>3, <3>1, <4>1, ExactRow DEF CountOf
    <3>2. CASE key \notin DOMAIN groupCache
      <4>1. \A k \in DOMAIN groupCache : k[2] # g
        BY <2>1, <2>2, <3>2 DEF TriggersRan
      <4>2. Members(events, g) = {}
        BY <1>4, <4>1, NoRowNoMembers
      <4>3. ReadMembers(events, g) = {}
        BY <4>2 DEF ReadMembers
      <4>4. QED
        BY <3>2, <4>2, <4>3, FS_EmptySet DEF CountOf, NoCount
    <3>3. QED
      BY <3>1, <3>2
  <2> HIDE DEF key
  <2>7. QED
    BY <1>2, <1>6, <2>3, <2>4, <2>5, <2>6 DEF Exact
<1>7. QED
  BY <1>5, <1>6

(* An update makes no row right or wrong.                                  *)
LEMMA UpdateKeepsExact ==
    ASSUME IInv, NEW id \in DOMAIN events, NEW new \in EventRow,
           new.group = events[id].group, new.service = events[id].service,
           UpdateEvent(id, new), NEW g \in Groups
    PROVE  Exact(events', groupCache', g) <=> Exact(events, groupCache, g)
<1>1. /\ DOMAIN events \subseteq 1..MaxId
      /\ events[id].is_read \in 0..1 /\ new.is_read \in 0..1
      /\ DOMAIN events' = DOMAIN events /\ events'[id] = new
      /\ \A i \in DOMAIN events : i # id => events'[i] = events[i]
      /\ groupCache' = AfterUpdate(groupCache, events[id], new)
  BY DEF IInv, TypeOK, IsTable, EventRow, UpdateEvent
<1>2. /\ \A h : Members(events', h) = Members(events, h)
      /\ Cardinality(ReadMembers(events', events[id].group))
             = Cardinality(ReadMembers(events, events[id].group))
                  - events[id].is_read + events'[id].is_read
      /\ \A h : h # events[id].group => ReadMembers(events', h) = ReadMembers(events, h)
  BY <1>1, CountsUpdated
<1>3. Members(events, g) \subseteq 1..MaxId /\ Members(events, g) \subseteq DOMAIN events
  BY <1>1 DEF Members
<1>4. \A i \in Members(events, g) : events'[i].service = events[i].service
  BY <1>1, <1>3
<1>5. DOMAIN groupCache' = DOMAIN groupCache
  BY <1>1 DEF AfterUpdate
<1>6. CASE g # new.group
  <2>1. \A k \in DOMAIN groupCache : k[2] = g => groupCache'[k] = groupCache[k]
    BY <1>1, <1>6 DEF AfterUpdate
  <2>2. QED
    BY <1>2, <1>3, <1>4, <1>5, <1>6, <2>1, ExactKept
<1>7. CASE g = new.group
  <2> DEFINE key == SummaryKey(events, g)
  <2>1. id \in Members(events, g) /\ Members(events, g) # {}
    BY <1>7 DEF Members
  <2>2. Max(Members(events, g)) \in Members(events, g)
    BY <1>3, <2>1, MaxOfIds
  <2>3. SummaryKey(events', g) = key /\ key[2] = g
    BY <1>2, <1>4, <2>2 DEF SummaryKey
  <2>4. ASSUME key \in DOMAIN groupCache
        PROVE  /\ groupCache'[key].event_id = groupCache[key].event_id
               /\ groupCache'[key].total_events = groupCache[key].total_events
               /\ groupCache'[key].read_events
                      = groupCache[key].read_events - events[id].is_read + new.is_read
               /\ groupCache[key].read_events \in Int
    <3>1. groupCache'[key] = [event_id     |-> groupCache[key].event_id,
                              total_events |-> groupCache[key].total_events,
                              read_events  |-> groupCache[key].read_events
                                                  - events[id].is_read + new.is_read,
                              flags        |-> (groupCache[key].flags \ events[id].flags)
                                                  \cup new.flags]
      BY <1>1, <1>7, <2>3, <2>4, NullAssumption DEF AfterUpdate
    <3>2. groupCache[key] \in CacheRow
      BY <2>4 DEF IInv, TypeOK, IsTable
    <3> HIDE DEF key
    <3>3. QED
      BY <3>1, <3>2 DEF CacheRow
  <2>5. Cardinality(ReadMembers(events, g)) \in Nat
    BY <1>1, CountsAreNumbers
  <2>6. Cardinality(ReadMembers(events', g))
            = Cardinality(ReadMembers(events, g)) - events[id].is_read + new.is_read
    BY <1>1, <1>2, <1>7
  <2>7. Members(events', g) = Members(events, g)
    BY <1>2
  <2>8. ASSUME key \in DOMAIN groupCache
        PROVE  groupCache'[key].read_events = Cardinality(ReadMembers(events', g))
                   <=> groupCache[key].read_events = Cardinality(ReadMembers(events, g))
    BY <1>1, <2>4, <2>5, <2>6, <2>8
  <2> HIDE DEF key
  <2>9. QED
    BY <1>5, <2>1, <2>3, <2>4, <2>7, <2>8 DEF Exact, key
<1>8. QED
  BY <1>6, <1>7

(* A group none of whose events were deleted, and whose row was left alone,  *)
(* stays right.                                                            *)
LEMMA UntouchedStaysExact ==
    ASSUME IInv, NEW ids, events' = Without(ids), NEW g,
           \A i \in ids \cap DOMAIN events : events[i].group # g,
           \A k : k[2] = g => (k \in DOMAIN groupCache' <=> k \in DOMAIN groupCache),
           \A k \in DOMAIN groupCache : k[2] = g => groupCache'[k] = groupCache[k]
    PROVE  /\ Members(events', g) = Members(events, g)
           /\ Exact(events', groupCache', g) <=> Exact(events, groupCache, g)
<1>1. /\ \A i : i \in DOMAIN events' <=> i \in DOMAIN events /\ i \notin ids
      /\ \A i \in DOMAIN events' : events'[i] = events[i]
  BY DEF Without
<1>2. \A i : i \in Members(events', g) <=> i \in Members(events, g)
  BY <1>1 DEF Members
<1>3. Members(events', g) = Members(events, g)
  BY <1>2
<1>4. Members(events, g) \subseteq 1..MaxId /\ Members(events, g) \subseteq DOMAIN events'
  BY <1>3 DEF Members, IInv, TypeOK, IsTable
<1>5. ReadMembers(events', g) = ReadMembers(events, g)
  BY <1>1, <1>3, <1>4 DEF ReadMembers
<1>6. \A i \in Members(events, g) : events'[i].service = events[i].service
  BY <1>1, <1>4
<1>7. QED
  BY <1>3, <1>4, <1>5, <1>6, ExactKept

(* A group with events left gets a row that is right from                  *)
(* update_group_cache().                                                   *)
LEMMA SummaryIsExact ==
    ASSUME IInv, NEW ids, events' = Without(ids), NEW g \in Groups,
           Members(events', g) # {},
           \A k \in DOMAIN groupCache : k[2] = g =>
               k \in DOMAIN groupCache' /\ groupCache'[k] = Summary(events', g)
    PROVE  Exact(events', groupCache', g)
<1> DEFINE top == Max(Members(events', g))
<1>1. /\ DOMAIN events' \subseteq DOMAIN events
      /\ \A i \in DOMAIN events' : events'[i] = events[i]
  BY DEF Without
<1>2. Members(events', g) \subseteq 1..MaxId
  BY <1>1 DEF Members, IInv, TypeOK, IsTable
<1>3. top \in Members(events', g)
  BY <1>2, MaxOfIds
<1>4. /\ top \in DOMAIN events' /\ events'[top] = events[top]
      /\ top \in Members(events, g)
  BY <1>1, <1>3 DEF Members
<1>5. g # NULL
  BY NullAssumption
<1>6. SummaryKey(events', g) = KeyOf(events[top])
  BY <1>3, <1>4 DEF SummaryKey, KeyOf, Members
<1>7. KeyOf(events[top]) \in DOMAIN groupCache /\ KeyOf(events[top])[2] = g
  BY <1>4, <1>5, MembersShareRow
<1> HIDE DEF top
<1>8. QED
  BY <1>6, <1>7 DEF Exact, Summary

(* A deletion that reaches the end of update_group_cache() keeps the rows   *)
(* right; without the final DELETE those of groups with events left.       *)
LEMMA DeleteEventsKeepsExact ==
    ASSUME IInv, NEW ids, NEW named \in SUBSET (Groups \cup {NULL}),
           NEW g \in Groups, Exact(events, groupCache, g),
           Several(GroupUids(ids)) => g \in named,
           \/ DeleteEvents(ids, named)
           \/ DeleteEventsUncleaned(ids, named) /\ Members(events', g) # {}
    PROVE  Exact(events', groupCache', g)
<1> DEFINE gs == GroupUids(ids)
<1>0. g \in gs => g \in named
  BY DEF DeleteEvents, DeleteEventsUncleaned, NamesRead
<1>1. events' = Without(ids)
  BY DEF DeleteEvents, DeleteEventsUncleaned
<1>2. /\ DOMAIN groupCache' \subseteq DOMAIN groupCache
      /\ \A k \in DOMAIN groupCache' :
            IF gs # {} /\ k[2] \in named /\ Members(events', k[2]) # {}
            THEN groupCache'[k] = Summary(events', k[2])
            ELSE groupCache'[k] = groupCache[k]
      /\ \A k \in DOMAIN groupCache : Members(events', k[2]) # {} => k \in DOMAIN groupCache'
  <2>1. CASE DeleteEvents(ids, named)
    BY <2>1, DeleteEventsCleanRows
  <2>2. CASE DeleteEventsUncleaned(ids, named)
    <3>1. gs # {}
      BY <2>2 DEF DeleteEventsUncleaned
    <3>2. QED
      BY <2>2, <3>1, DeleteEventsRows DEF RowsDeleted
  <2>3. QED
    BY <2>1, <2>2
<1>3. CASE g \notin gs
  <2>1. \A i \in ids \cap DOMAIN events : events[i].group # g
    BY <1>3 DEF GroupUids
  <2>2. Members(events', g) = Members(events, g)
    BY <1>1, <2>1 DEF Without, Members
  <2>3. \A k \in DOMAIN groupCache : k[2] = g => Members(events', k[2]) # {}
    BY <2>2 DEF Exact
  <2>4. \A k : k[2] = g => (k \in DOMAIN groupCache' <=> k \in DOMAIN groupCache)
    BY <1>2, <2>3
  <2>5. CASE gs = {} \/ g \notin named
    <3>1. \A k \in DOMAIN groupCache : k[2] = g => groupCache'[k] = groupCache[k]
      BY <1>2, <2>4, <2>5
    <3>2. QED
      BY <1>1, <2>1, <2>4, <3>1, UntouchedStaysExact
  <2>6. CASE gs # {} /\ g \in named /\ Members(events', g) # {}
    BY <1>1, <1>2, <2>6, SummaryIsExact
  <2>7. CASE Members(events', g) = {}
    BY <1>2, <2>2, <2>7 DEF Exact
  <2>8. QED
    BY <2>5, <2>6, <2>7
<1>4. CASE g \in gs /\ Members(events', g) # {}
  BY <1>0, <1>1, <1>2, <1>4, SummaryIsExact
<1>5. CASE g \in gs /\ Members(events', g) = {}
  <2>1. DeleteEvents(ids, named)
    BY <1>5
  <2>2. \A k \in DOMAIN groupCache' : k[2] # g
    BY <1>5, <2>1, DeleteEventsCleanRows
  <2>3. QED
    BY <1>5, <2>2 DEF Exact
<1>6. QED
  BY <1>3, <1>4, <1>5

(* The deletions by service and by groups take the rows with the events.   *)
LEMMA DeleteByKeepsExact ==
    ASSUME IInv, NEW g \in Groups, Exact(events, groupCache, g),
           \/ \E s \in Services : DeleteByService(s)
           \/ \E gs \in SUBSET Groups : DeleteByGroupUids(gs)
    PROVE  Exact(events', groupCache', g)
<1>0. g # NULL
  BY NullAssumption
<1>1. ASSUME NEW s \in Services, DeleteByService(s) PROVE Exact(events', groupCache', g)
  <2> DEFINE ids == {i \in DOMAIN events : events[i].service = s}
  <2>1. /\ events' = Without(ids)
        /\ \A k : k \in DOMAIN groupCache' <=> k \in DOMAIN groupCache /\ k[1] # s
        /\ \A k \in DOMAIN groupCache' : groupCache'[k] = groupCache[k]
    BY <1>1 DEF DeleteByService
  <2>2. CASE \E i \in Members(events, g) : events[i].service = s
    <3>1. PICK i \in Members(events, g) : events[i].service = s
      BY <2>2
    <3>2. /\ \A j \in Members(events, g) : events[j].service = s
          /\ \A k \in DOMAIN groupCache : k[2] = g => k = KeyOf(events[i])
      BY <1>0, <3>1, MembersShareRow
    <3>3. Members(events', g) = {}
      BY <2>1, <3>2 DEF Without, Members
    <3>4. KeyOf(events[i])[1] = s
      BY <3>1 DEF KeyOf
    <3>5. \A k \in DOMAIN groupCache' : k[2] # g
      BY <2>1, <3>2, <3>4
    <3>6. QED
      BY <3>3, <3>5 DEF Exact
  <2>3. CASE \A i \in Members(events, g) : events[i].service # s
    <3>1. \A i \in ids \cap DOMAIN events : events[i].group # g
      BY <2>3 DEF Members
    <3>2. \A k \in DOMAIN groupCache : k[2] = g => k[1] # s
      <4>1. SUFFICES ASSUME NEW k \in DOMAIN groupCache, k[2] = g PROVE k[1] # s
        OBVIOUS
      <4>2. PICK i \in Members(events, g) : TRUE
        BY <4>1 DEF Exact
      <4>3. k = KeyOf(events[i])
        BY <1>0, <4>1, <4>2, MembersShareRow
      <4>4. QED
        BY <2>3, <4>2, <4>3 DEF KeyOf
    <3> HIDE DEF ids
    <3>3. /\ \A k : k[2] = g => (k \in DOMAIN groupCache' <=> k \in DOMAIN groupCache)
          /\ \A k \in DOMAIN groupCache : k[2] = g => groupCache'[k] = groupCache[k]
      BY <2>1, <3>2
    <3>4. QED
      BY <2>1, <3>1, <3>3, UntouchedStaysExact
  <2>4. QED
    BY <2>2, <2>3
<1>2. ASSUME NEW gs \in SUBSET Groups, DeleteByGroupUids(gs)
      PROVE  Exact(events', groupCache', g)
  <2> DEFINE ids == {i \in DOMAIN events : events[i].group \in gs}
  <2>1. /\ events' = Without(ids)
        /\ \A k : k \in DOMAIN groupCache' <=> k \in DOMAIN groupCache /\ k[2] \notin gs
        /\ \A k \in DOMAIN groupCache' : groupCache'[k] = groupCache[k]
    BY <1>2 DEF DeleteByGroupUids
  <2>2. CASE g \in gs
    <3>1. Members(events', g) = {}
      BY <2>1, <2>2 DEF Without, Members
    <3>2. QED
      BY <2>1, <2>2, <3>1 DEF Exact
  <2>3. CASE g \notin gs
    <3>1. \A i \in ids \cap DOMAIN events : events[i].group # g
      BY <2>3
    <3> HIDE DEF ids
    <3>2. /\ \A k : k[2] = g => (k \in DOMAIN groupCache' <=> k \in DOMAIN groupCache)
          /\ \A k \in DOMAIN groupCache : k[2] = g => groupCache'[k] = groupCache[k]
      BY <2>1, <2>3
    <3>3. QED
      BY <2>1, <3>1, <3>2, UntouchedStaysExact
  <2>4. QED
    BY <2>2, <2>3
<1>3. QED
  BY <1>1, <1>2

(* The calls after which a row that was right may be wrong.                *)
Spoils(g) ==
    \/ DeleteAll
    \/ \E ids \in SUBSET (1..MaxId) :
          \/ DeleteEventsUnlisted(ids)
          \/ \E named \in SUBSET (Groups \cup {NULL}) :
                \/ /\ DeleteEvents(ids, named)
                   /\ Several(GroupUids(ids)) /\ g \notin named
                \/ /\ DeleteEventsUncleaned(ids, named)
                   /\ \/ Members(events', g) = {}
                      \/ Several(GroupUids(ids)) /\ g \notin named

LEMMA StepKeepsExact ==
    ASSUME IInv, [Next]_vars, NEW g \in Groups, Exact(events, groupCache, g), ~ Spoils(g)
    PROVE  Exact(events', groupCache', g)
<1>1. CASE UNCHANGED tables
  BY <1>1 DEF tables
<1>2. CASE Update
  <2>1. PICK id \in 1..MaxId : \E new :
              /\ UpdateEvent(id, new)
              /\ id \in DOMAIN events => /\ new \in EventRow
                                         /\ new.group = events[id].group
                                         /\ new.service = events[id].service
    BY <1>2, UpdateIsOfOneRow
  <2>2. CASE id \in DOMAIN events
    BY <2>1, <2>2, UpdateKeepsExact
  <2>3. CASE id \notin DOMAIN events
    BY <1>1, <2>1, <2>3 DEF UpdateEvent
  <2>4. QED
    BY <2>2, <2>3
<1>3. CASE Delete
  <2>1. \/ \E ids : \E named \in SUBSET (Groups \cup {NULL}) :
              /\ Several(GroupUids(ids)) => g \in named
              /\ \/ DeleteEvents(ids, named)
                 \/ DeleteEventsUncleaned(ids, named) /\ Members(events', g) # {}
        \/ \E ids : DeleteEventsGarbled(ids)
        \/ \E s \in Services : DeleteByService(s)
        \/ \E gs \in SUBSET Groups : DeleteByGroupUids(gs)
    BY <1>3 DEF Delete, Spoils
  <2>2. QED
    BY <1>1, <2>1, DeleteEventsKeepsExact, DeleteByKeepsExact DEF DeleteEventsGarbled
<1>4. QED
  BY <1>1, <1>2, <1>3, StepsOfTheTables, AddKeepsExact

(* No call makes the cached counts of a group wrong, apart from            *)
(* rtcom_el_delete_all(), the deletions whose failures leave the cache     *)
(* behind, and those that lose the group among several.                    *)
THEOREM RightCountsStayRight == Spec => CountsStayExact
<1>1. ASSUME IInv, [Next]_vars
      PROVE  [\A g \in Groups :
                Exact(events, groupCache, g) /\ ~ Exact(events', groupCache', g)
                   => Spoils(g)]_vars
  BY <1>1, StepKeepsExact
<1>2. QED
  BY <1>1, StoreInvariant, PTL DEF Spec, CountsStayExact, Spoils

---------------------------------------------------------------------------
(* Flags as numbers: update_group_cache() adds up the flags of the events  *)
(* of a group, and reads bits off the sum.                                 *)

(* Powers of two, as numbers of subsets.                                   *)
LEMMA PowersOfTwo ==
    /\ 2^0 = 1
    /\ \A n \in Nat : 2^n \in Nat /\ 2^n > 0 /\ 2^(n + 1) = 2 * 2^n
<1>1. \A n \in Nat : /\ IsFiniteSet(SUBSET (1..n)) /\ Cardinality(SUBSET (1..n)) = 2^n
                     /\ 2^n \in Nat /\ 2^n > 0
  <2>1. TAKE n \in Nat
  <2>2. IsFiniteSet(1..n) /\ Cardinality(1..n) = n
    BY FS_Interval
  <2>3. IsFiniteSet(SUBSET (1..n)) /\ Cardinality(SUBSET (1..n)) = 2^n
    BY <2>2, FS_SUBSET
  <2>4. 2^n \in Nat /\ 2^n # 0
    <3>1. {} \in SUBSET (1..n)
      OBVIOUS
    <3>2. QED
      BY <2>3, <3>1, FS_CardinalityType, FS_EmptySet
  <2>5. QED
    BY <2>3, <2>4
<1>2. ASSUME NEW n \in Nat PROVE 2^(n + 1) = 2 * 2^n
  <2> DEFINE Small == SUBSET (1..n)
             Large == {T \cup {n + 1} : T \in Small}
  <2>1. SUBSET (1..(n + 1)) = Small \cup Large
    <3>1. 1..(n + 1) = (1..n) \cup {n + 1}
      OBVIOUS
    <3>2. \A T \in SUBSET (1..(n + 1)) : T \in Small \/ T \in Large
      <4>1. TAKE T \in SUBSET (1..(n + 1))
      <4>2. CASE n + 1 \in T
        <5>1. T \ {n + 1} \in Small /\ T = (T \ {n + 1}) \cup {n + 1}
          BY <3>1, <4>2
        <5>2. QED
          BY <5>1
      <4>3. CASE n + 1 \notin T
        BY <3>1, <4>3
      <4>4. QED
        BY <4>2, <4>3
    <3>3. Small \subseteq SUBSET (1..(n + 1)) /\ Large \subseteq SUBSET (1..(n + 1))
      BY <3>1
    <3>4. QED
      BY <3>2, <3>3
  <2>2. \A T \in Small : n + 1 \notin T
    OBVIOUS
  <2>3. Small \cap Large = {}
    BY <2>2
  <2>4. IsFiniteSet(Large) /\ Cardinality(Large) = Cardinality(Small)
    <3> DEFINE f == [T \in Small |-> T \cup {n + 1}]
    <3>1. f \in Surjection(Small, Large)
      BY DEF Surjection
    <3>2. f \in Injection(Small, Large)
      <4>1. \A T, U \in Small : f[T] = f[U] => T = U
        BY <2>2
      <4>2. f \in [Small -> Large] /\ DOMAIN f = Small
        OBVIOUS
      <4> HIDE DEF f, Small, Large
      <4>3. QED
        BY <4>1, <4>2 DEF Injection, IsInjective
    <3>3. IsFiniteSet(Small)
      BY <1>1
    <3> HIDE DEF f, Small, Large
    <3>4. QED
      BY <3>1, <3>2, <3>3, FS_Surjection
  <2>5. /\ IsFiniteSet(Small) /\ Cardinality(Small) = 2^n /\ 2^n \in Nat
        /\ Cardinality(SUBSET (1..(n + 1))) = 2^(n + 1)
    BY <1>1
  <2> HIDE DEF Small, Large
  <2>6. Cardinality(Small \cup Large) = 2^n + 2^n
    <3>1. Cardinality(Small \cap Large) = 0
      BY <2>3, FS_EmptySet
    <3>2. Cardinality(Small \cup Large)
            = Cardinality(Small) + Cardinality(Large) - Cardinality(Small \cap Large)
      BY <2>4, <2>5, FS_Union
    <3>3. QED
      BY <2>4, <2>5, <3>1, <3>2
  <2>7. 2^(n + 1) = Cardinality(Small \cup Large)
    BY <2>1, <2>5, Zenon
  <2>8. PICK p \in Nat : p = 2^n
    BY <2>5
  <2>9. 2^(n + 1) = p + p
    BY <2>6, <2>7, <2>8, Zenon
  <2>10. QED
    BY <2>8, <2>9
<1>3. 2^0 = 1
  OBVIOUS
<1>4. QED
  BY <1>1, <1>2, <1>3

(* A set of bits as a number: with each bit x, the subsets of the x bits   *)
(* below it.                                                               *)
Units(F) == {u \in F \X SUBSET (0..30) : u[2] \subseteq 0..(u[1] - 1)}
Weight(F) == Cardinality(Units(F))

(* Weights are numbers, and no bits weigh nothing.                         *)
LEMMA WeightOfBits ==
    ASSUME NEW F \in SUBSET (0..30)
    PROVE  /\ IsFiniteSet(F) /\ IsFiniteSet(Units(F)) /\ Weight(F) \in Nat
           /\ F = {} => Weight(F) = 0
<1>1. IsFiniteSet(F) /\ IsFiniteSet(SUBSET (0..30))
  <2>1. IsFiniteSet(0..30)
    <3>1. 0 \in Int /\ 30 \in Int
      OBVIOUS
    <3>2. QED
      BY <3>1, FS_Interval
  <2>2. QED
    BY <2>1, FS_Subset, FS_SUBSET
<1>2. IsFiniteSet(F \X SUBSET (0..30))
  BY <1>1, FS_Product
<1>3. IsFiniteSet(Units(F))
  BY <1>2, FS_Subset DEF Units
<1>4. F = {} => Units(F) = {}
  BY DEF Units
<1>5. QED
  BY <1>1, <1>3, <1>4, FS_EmptySet, FS_CardinalityType DEF Weight

(* Sets of different bits add up.                                         *)
LEMMA WeightsAdd ==
    ASSUME NEW F \in SUBSET (0..30), NEW G \in SUBSET (0..30), F \cap G = {}
    PROVE  Weight(F \cup G) = Weight(F) + Weight(G)
<1>1. Units(F \cup G) = Units(F) \cup Units(G) /\ Units(F) \cap Units(G) = {}
  BY DEF Units
<1>2. /\ IsFiniteSet(Units(F)) /\ Weight(F) \in Nat
      /\ IsFiniteSet(Units(G)) /\ Weight(G) \in Nat
  BY WeightOfBits
<1>3. Cardinality(Units(F) \cup Units(G))
        = Cardinality(Units(F)) + Cardinality(Units(G)) - Cardinality(Units(F) \cap Units(G))
  BY <1>2, FS_Union
<1>4. Cardinality(Units(F) \cap Units(G)) = 0
  BY <1>1, FS_EmptySet
<1>5. Weight(F \cup G) = Cardinality(Units(F) \cup Units(G))
  BY <1>1 DEF Weight
<1>6. /\ Cardinality(Units(F)) \in Nat /\ Cardinality(Units(F)) = Weight(F)
      /\ Cardinality(Units(G)) \in Nat /\ Cardinality(Units(G)) = Weight(G)
  BY <1>2 DEF Weight
<1>7. QED
  BY <1>3, <1>4, <1>5, <1>6

(* A bit weighs its power of two.                                          *)
LEMMA WeightOfOne ==
    ASSUME NEW x \in 0..30
    PROVE  Weight({x}) = 2^x
<1> DEFINE Below == SUBSET (0..(x - 1))
           f == [T \in Below |-> <<x, T>>]
<1>1. IsFiniteSet(Below) /\ Cardinality(Below) = 2^x
  <2>1. IsFiniteSet(0..(x - 1)) /\ Cardinality(0..(x - 1)) = x
    BY FS_Interval
  <2>2. QED
    BY <2>1, FS_SUBSET
<1>2. Units({x}) = {<<x, T>> : T \in Below}
  <2>1. 0..(x - 1) \subseteq 0..30
    OBVIOUS
  <2>2. \A T \in Below : T \in SUBSET (0..30)
    BY <2>1
  <2>3. \A u \in Units({x}) : u[2] \in Below /\ u = <<x, u[2]>>
    BY DEF Units
  <2>4. \A T \in Below : <<x, T>> \in {x} \X SUBSET (0..30) /\ T \subseteq 0..(x - 1)
    BY <2>2
  <2>5. \A T \in Below : <<x, T>> \in Units({x})
    BY <2>4 DEF Units
  <2> HIDE DEF Below
  <2>6. QED
    BY <2>3, <2>5
<1>3. f \in Injection(Below, Units({x})) /\ f \in Surjection(Below, Units({x}))
  BY <1>2 DEF Injection, IsInjective, Surjection
<1> HIDE DEF f, Below
<1>4. QED
  BY <1>1, <1>3, FS_Surjection DEF Weight

(* The bits below a bit weigh less than it.                                *)
LEMMA LowBitsWeighLess ==
    ASSUME NEW b \in 0..30, NEW F \in SUBSET (0..(b - 1))
    PROVE  Weight(F) < 2^b
<1> DEFINE Below == SUBSET (0..(b - 1))
           f == [u \in Units(F) |-> u[2] \cup {u[1]}]
<1>1. IsFiniteSet(Below) /\ Cardinality(Below) = 2^b /\ 2^b \in Nat
  <2>1. IsFiniteSet(0..(b - 1)) /\ Cardinality(0..(b - 1)) = b
    BY FS_Interval
  <2>2. IsFiniteSet(Below) /\ Cardinality(Below) = 2^b
    BY <2>1, FS_SUBSET
  <2>3. 2^b \in Nat
    BY PowersOfTwo
  <2>4. QED
    BY <2>2, <2>3
<1>2. IsFiniteSet(Below \ {{}}) /\ Cardinality(Below \ {{}}) = 2^b - 1
  <2>1. {} \in Below
    OBVIOUS
  <2> HIDE DEF Below
  <2>2. QED
    BY <1>1, <2>1, FS_RemoveElement
<1>3. \A u \in Units(F) : /\ u[1] \in 0..(b - 1) /\ u[1] \in Int
                          /\ \A y \in u[2] : y \in Int /\ 0 <= y /\ y < u[1]
                          /\ u = <<u[1], u[2]>>
  <2>1. \A x \in F : x \in 0..(b - 1) /\ x \in Int
    OBVIOUS
  <2>2. TAKE u \in Units(F)
  <2>3. u \in F \X SUBSET (0..30) /\ u[2] \subseteq 0..(u[1] - 1)
    BY DEF Units
  <2>4. u[1] \in F /\ u = <<u[1], u[2]>>
    BY <2>3
  <2>5. u[1] \in 0..(b - 1) /\ u[1] \in Int
    BY <2>1, <2>4
  <2>6. \A y \in u[2] : y \in Int /\ 0 <= y /\ y < u[1]
    BY <2>3, <2>5
  <2>7. QED
    BY <2>4, <2>5, <2>6
<1>4. f \in [Units(F) -> Below \ {{}}]
  <2>1. \A u \in Units(F) : u[2] \cup {u[1]} \in Below \ {{}}
    <3>1. TAKE u \in Units(F)
    <3>2. \A y \in u[2] : y \in 0..(b - 1)
      BY <1>3
    <3>3. QED
      BY <1>3, <3>2
  <2>2. QED
    BY <2>1
<1>5. \A u, v \in Units(F) : f[u] = f[v] => u = v
  <2>1. SUFFICES ASSUME NEW u \in Units(F), NEW v \in Units(F),
                        u[2] \cup {u[1]} = v[2] \cup {v[1]}
                 PROVE  u = v
    OBVIOUS
  <2>2. u[1] = v[1]
    <3>1. u[1] \in v[2] \cup {v[1]} /\ v[1] \in u[2] \cup {u[1]}
      BY <2>1
    <3>2. u[1] <= v[1] /\ v[1] <= u[1]
      BY <1>3, <3>1
    <3>3. QED
      BY <1>3, <3>2
  <2>3. u[1] \notin u[2] /\ v[1] \notin v[2]
    BY <1>3
  <2>4. u[2] = v[2]
    <3>1. u[2] = (u[2] \cup {u[1]}) \ {u[1]} /\ v[2] = (v[2] \cup {v[1]}) \ {v[1]}
      BY <2>3
    <3>2. QED
      BY <2>1, <2>2, <3>1, Zenon
  <2>5. QED
    BY <1>3, <2>2, <2>4
<1>6. f \in Injection(Units(F), Below \ {{}})
  BY <1>4, <1>5 DEF Injection, IsInjective
<1>7. Weight(F) \in Nat
  <2>1. F \in SUBSET (0..30)
    OBVIOUS
  <2>2. QED
    BY <2>1, WeightOfBits
<1> HIDE DEF f, Below
<1>8. Weight(F) <= 2^b - 1
  BY <1>2, <1>6, FS_Injection DEF Weight
<1>9. QED
  BY <1>1, <1>7, <1>8

(* The powers from d on are multiples of that of d.                        *)
Multiple(n, d) == \E k \in Nat : n = d * k

(* 2^x is a multiple of 2^d from x = d on.                                 *)
LEMMA HighPowers ==
    ASSUME NEW d \in Nat, NEW x \in Nat, x >= d
    PROVE  Multiple(2^x, 2^d)
<1> DEFINE Bad == {n \in Nat : n >= d /\ ~ Multiple(2^n, 2^d)}
<1>1. SUFFICES ASSUME Bad # {} PROVE FALSE
  OBVIOUS
<1>2. PICK n \in Bad : \A m \in Bad : ~ (<<m, n>> \in OpToRel(<, Nat))
  <2> HIDE DEF Bad
  <2>1. Bad \subseteq Nat
    BY DEF Bad
  <2>2. QED
    BY <1>1, <2>1, NatLessThanWellFounded, WFMin
<1>3. \A m \in Bad : ~ (m < n)
  BY <1>2 DEF OpToRel
<1>4. 2^d \in Nat
  BY PowersOfTwo
<1>5. CASE n = d
  <2>1. 2^n = 2^d * 1
    BY <1>4, <1>5
  <2>2. QED
    BY <2>1 DEF Multiple
<1>6. CASE n # d
  <2>1. n - 1 \in Nat /\ n - 1 >= d /\ n - 1 < n /\ (n - 1) + 1 = n
    BY <1>6
  <2>2. Multiple(2^(n - 1), 2^d)
    BY <1>3, <2>1
  <2>3. PICK k \in Nat : 2^(n - 1) = 2^d * k
    BY <2>2 DEF Multiple
  <2>4. 2^n = 2 * 2^(n - 1)
    BY <2>1, PowersOfTwo
  <2>5. 2^n = 2^d * (2 * k) /\ 2 * k \in Nat
    BY <1>4, <2>3, <2>4
  <2>6. QED
    BY <2>5 DEF Multiple
<1>7. QED
  BY <1>5, <1>6

(* The bits from a bit on weigh a multiple of it.                          *)
LEMMA HighBitsAreMultiples ==
    ASSUME NEW d \in Nat, NEW F \in SUBSET (0..30), \A x \in F : x >= d
    PROVE  Multiple(Weight(F), 2^d)
<1> DEFINE Bad == {G \in SUBSET F : ~ Multiple(Weight(G), 2^d)}
<1>1. SUFFICES ASSUME Bad # {} PROVE FALSE
  OBVIOUS
<1>2. PICK G \in Bad : \A H \in Bad : <<H, G>> \notin StrictSubsetOrdering(F)
  <2>1. IsFiniteSet(F)
    BY WeightOfBits
  <2>2. Bad \subseteq FiniteSubsetsOf(F)
    BY <2>1, FS_Subset DEF FiniteSubsetsOf
  <2>3. IsWellFoundedOn(StrictSubsetOrdering(F), FiniteSubsetsOf(F))
    BY FS_StrictSubsetOrderingWellFounded
  <2> HIDE DEF Bad
  <2>4. QED
    BY <1>1, <2>2, <2>3, WFMin
<1>3. 2^d \in Nat
  BY PowersOfTwo
<1>4. CASE G = {}
  <2>1. Weight(G) = 2^d * 0
    BY <1>3, <1>4, WeightOfBits
  <2>2. QED
    BY <2>1 DEF Multiple
<1>5. CASE G # {}
  <2>1. PICK x \in G : TRUE
    BY <1>5
  <2>2. x \in 0..30 /\ x \in Nat /\ x >= d
    OBVIOUS
  <2>3. PICK rest \in SUBSET F : rest = G \ {x}
    OBVIOUS
  <2>4. Multiple(Weight(rest), 2^d)
    <3>1. rest \subseteq G /\ rest # G /\ G \in SUBSET F
      BY <2>1, <2>3
    <3>2. <<rest, G>> \in StrictSubsetOrdering(F)
      BY <3>1 DEF StrictSubsetOrdering
    <3>3. rest \notin Bad
      BY <1>2, <3>2
    <3>4. QED
      BY <3>3
  <2>5. Weight(G) = Weight(rest) + 2^x
    <3>1. rest \cup {x} = G /\ rest \cap {x} = {}
      BY <2>3
    <3>2. {x} \in SUBSET (0..30) /\ rest \in SUBSET (0..30)
      BY <2>2, <2>3
    <3>3. QED
      BY <2>2, <3>1, <3>2, WeightsAdd, WeightOfOne
  <2>6. PICK i \in Nat : Weight(rest) = 2^d * i
    BY <2>4 DEF Multiple
  <2>7. PICK j \in Nat : 2^x = 2^d * j
    BY <2>2, HighPowers DEF Multiple
  <2>8. Weight(G) = 2^d * (i + j) /\ i + j \in Nat
    BY <1>3, <2>5, <2>6, <2>7
  <2>9. QED
    BY <2>8 DEF Multiple
<1>6. QED
  BY <1>4, <1>5

(* The bits of the number of a set are the set.                            *)
LEMMA BitsOfWeight ==
    ASSUME NEW F \in SUBSET (0..30)
    PROVE  BitsOf(Weight(F)) = F
<1>1. ASSUME NEW b \in 0..30
      PROVE  (Weight(F) \div 2^b) % 2 = IF b \in F THEN 1 ELSE 0
  <2> DEFINE Low == {x \in F : x < b}
             High == {x \in F : x > b}
             Mid == F \cap {b}
  <2>1. 2^b \in Nat /\ 2^b > 0 /\ 2^(b + 1) = 2 * 2^b
    BY PowersOfTwo
  <2>0. b \in Int /\ \A x \in F : x \in 0..30 /\ x \in Int /\ 0 <= x
    OBVIOUS
  <2>2. Weight(Low) \in Nat /\ Weight(Low) < 2^b
    <3>1. \A x \in Low : x \in 0..(b - 1) /\ x \in 0..30
      BY <2>0
    <3> HIDE DEF Low
    <3>2. QED
      BY <3>1, LowBitsWeighLess, WeightOfBits
  <2>3. PICK k \in Nat : Weight(High) = 2^(b + 1) * k
    <3>1. (\A x \in High : x \in 0..30 /\ x >= b + 1) /\ b + 1 \in Nat
      BY <2>0
    <3> HIDE DEF High
    <3>2. QED
      BY <3>1, HighBitsAreMultiples DEF Multiple
  <2>4. PICK c \in {0, 1} : c = (IF b \in F THEN 1 ELSE 0)
    OBVIOUS
  <2>5. Weight(Mid) = 2^b * c
    <3>1. CASE b \in F
      <4>1. Mid = {b} /\ c = 1
        BY <2>4, <3>1
      <4>2. Weight(Mid) = 2^b
        BY <4>1, WeightOfOne
      <4> HIDE DEF Mid
      <4>3. QED
        BY <2>1, <4>1, <4>2
    <3>2. CASE b \notin F
      <4>1. Mid = {} /\ Mid \in SUBSET (0..30) /\ c = 0
        BY <2>4, <3>2
      <4> HIDE DEF Mid
      <4>2. Weight(Mid) = 0
        BY <4>1, WeightOfBits
      <4>3. QED
        BY <2>1, <4>1, <4>2
    <3>3. QED
      BY <3>1, <3>2
  <2>6. Weight(F) = Weight(Low) + Weight(Mid) + Weight(High)
    <3>1. /\ Low \in SUBSET (0..30) /\ Mid \in SUBSET (0..30) /\ High \in SUBSET (0..30)
          /\ Low \cup Mid \in SUBSET (0..30)
      <4>1. Low \subseteq F /\ Mid \subseteq F /\ High \subseteq F /\ F \subseteq 0..30
        OBVIOUS
      <4> HIDE DEF Low, Mid, High
      <4>2. QED
        BY <4>1
    <3>0. Low \cap Mid = {} /\ (Low \cup Mid) \cap High = {}
      <4>1. \A x \in F : ~ (x < b /\ x = b) /\ ~ ((x < b \/ x = b) /\ x > b)
        BY <2>0
      <4>2. QED
        BY <4>1
    <3>2. (Low \cup Mid) \cup High = F
      <4>1. \A x \in F : x < b \/ x = b \/ x > b
        BY <2>0
      <4>2. QED
        BY <4>1
    <3> HIDE DEF Low, Mid, High
    <3>3. /\ Weight(Low \cup Mid) = Weight(Low) + Weight(Mid)
          /\ Weight((Low \cup Mid) \cup High) = Weight(Low \cup Mid) + Weight(High)
      BY <3>0, <3>1, WeightsAdd
    <3>4. QED
      BY <3>2, <3>3
  <2>7. PICK r \in Nat : r = Weight(Low) /\ r < 2^b
    BY <2>2
  <2>8. Weight(F) = 2^b * (c + 2 * k) + r /\ c + 2 * k \in Nat
    BY <2>1, <2>3, <2>4, <2>5, <2>6, <2>7
  <2>9. Weight(F) \div 2^b = c + 2 * k
    BY <2>1, <2>7, <2>8
  <2>10. (c + 2 * k) % 2 = c
    BY <2>4
  <2>11. QED
    BY <2>4, <2>9, <2>10
<1>2. \A b \in 0..30 : (Weight(F) \div 2^b) % 2 = 1 <=> b \in F
  <2>1. TAKE b \in 0..30
  <2>2. CASE b \in F
    BY <1>1, <2>2, Zenon
  <2>3. CASE b \notin F
    <3>1. (Weight(F) \div 2^b) % 2 = 0
      BY <1>1, <2>3, Zenon
    <3>2. QED
      BY <2>3, <3>1
  <2>4. QED
    BY <2>2, <2>3
<1>3. QED
  BY <1>2, Zenon DEF BitsOf

(* Adding up the powers of the bits one by one gives their weight.         *)
LEMMA FlagsValueIsWeight ==
    ASSUME NEW F \in SUBSET (0..30)
    PROVE  FlagsValue(F) = Weight(F)
<1> DEFINE Pick(s) == CHOOSE x \in s : TRUE
           Step(iter, s) == IF s = {} THEN 0 ELSE 2^Pick(s) + iter[s \ {Pick(s)}]
           Iter == CHOOSE iter : iter = [s \in SUBSET F |-> Step(iter, s)]
           sums == [s \in SUBSET F |-> Weight(s)]
<1>1. FlagsValue(F) = Iter[F]
  BY DEF FlagsValue, MapThenSumSet, MapThenFoldSet
<1>2. \A s \in SUBSET F : s # {} => Pick(s) \in s /\ s \ {Pick(s)} \in SUBSET F
  OBVIOUS
<1> HIDE DEF Pick
<1>3. \A s \in SUBSET F : Weight(s) = IF s = {} THEN 0
                                      ELSE 2^Pick(s) + Weight(s \ {Pick(s)})
  <2>1. TAKE s \in SUBSET F
  <2>2. CASE s = {}
    BY <2>2, WeightOfBits
  <2>3. CASE s # {}
    <3>1. PICK x \in s : x = Pick(s)
      BY <1>2, <2>3
    <3>2. PICK rest \in SUBSET F : rest = s \ {x}
      BY <1>2, <2>3, <3>1
    <3>3. /\ x \in 0..30 /\ {x} \in SUBSET (0..30) /\ rest \in SUBSET (0..30)
          /\ {x} \cap rest = {} /\ {x} \cup rest = s
      BY <3>2
    <3>4. Weight(s) = 2^x + Weight(rest)
      BY <3>3, WeightsAdd, WeightOfOne
    <3>5. QED
      BY <2>3, <3>1, <3>2, <3>4
  <2>4. QED
    BY <2>2, <2>3
<1>4. \A s \in SUBSET F : Step(sums, s) = Weight(s)
  <2>1. TAKE s \in SUBSET F
  <2>2. CASE s = {}
    BY <1>3, <2>2
  <2>3. CASE s # {}
    <3>1. sums[s \ {Pick(s)}] = Weight(s \ {Pick(s)})
      BY <1>2, <2>3
    <3>2. QED
      BY <1>3, <2>3, <3>1
  <2>4. QED
    BY <2>2, <2>3
<1>5. sums = [s \in SUBSET F |-> Step(sums, s)]
  BY <1>4
<1> HIDE DEF Step, sums
<1>6. Iter = [s \in SUBSET F |-> Step(Iter, s)]
  BY <1>5
<1> HIDE DEF Iter
<1> DEFINE Bad == {s \in SUBSET F : Iter[s] # Weight(s)}
<1>7. Bad = {}
  <2>1. SUFFICES ASSUME Bad # {} PROVE FALSE
    OBVIOUS
  <2>2. PICK s \in Bad : \A t \in Bad : <<t, s>> \notin StrictSubsetOrdering(F)
    <3>1. IsFiniteSet(F)
      BY WeightOfBits
    <3>2. Bad \subseteq FiniteSubsetsOf(F)
      BY <3>1, FS_Subset DEF FiniteSubsetsOf
    <3>3. IsWellFoundedOn(StrictSubsetOrdering(F), FiniteSubsetsOf(F))
      BY FS_StrictSubsetOrderingWellFounded
    <3> HIDE DEF Bad
    <3>4. QED
      BY <2>1, <3>2, <3>3, WFMin
  <2>3. s \in SUBSET F /\ Iter[s] # Weight(s) /\ Iter[s] = Step(Iter, s)
    BY <1>6
  <2>4. s # {}
    BY <1>3, <2>3 DEF Step
  <2>5. PICK rest \in SUBSET F : rest = s \ {Pick(s)} /\ rest \subseteq s /\ rest # s
    BY <1>2, <2>3, <2>4
  <2>6. <<rest, s>> \in StrictSubsetOrdering(F)
    BY <2>3, <2>5 DEF StrictSubsetOrdering
  <2>7. Iter[rest] = Weight(rest)
    <3>1. rest \notin Bad
      BY <2>2, <2>6
    <3>2. QED
      BY <3>1
  <2>8. Step(Iter, s) = 2^Pick(s) + Weight(rest)
    BY <2>4, <2>5, <2>7 DEF Step
  <2>9. QED
    BY <1>3, <2>3, <2>4, <2>5, <2>8
<1>8. QED
  BY <1>1, <1>7

(* A set of flags is kept by the way to a number and back.                 *)
LEMMA FlagsAreKept ==
    ASSUME NEW F \in SUBSET (0..30)
    PROVE  FlagsValue(F) \in Nat /\ BitsOf(FlagsValue(F)) = F
  BY FlagsValueIsWeight, WeightOfBits, BitsOfWeight

---------------------------------------------------------------------------
(* The flags of a group of one event                                       *)

(* SUM(flags) over a single row is its flags.                              *)
LEMMA SumOfOne ==
    ASSUME NEW evs, NEW g, NEW i, Members(evs, g) = {i}, FlagsValue(evs[i].flags) \in Nat
    PROVE  SumOfFlags(evs, g) = FlagsValue(evs[i].flags)
<1> DEFINE v == FlagsValue(evs[i].flags)
           Step(iter, s) == IF s = {} THEN 0
                            ELSE FlagsValue(evs[CHOOSE x \in s : TRUE].flags)
                                    + iter[s \ {CHOOSE x \in s : TRUE}]
           Iter == CHOOSE iter : iter = [s \in SUBSET {i} |-> Step(iter, s)]
           sums == [s \in SUBSET {i} |-> IF s = {} THEN 0 ELSE v]
<1>1. SumOfFlags(evs, g) = Iter[{i}]
  BY DEF SumOfFlags, MapThenSumSet, MapThenFoldSet
<1>2. \A s \in SUBSET {i} : s = {} \/ (s = {i} /\ (CHOOSE x \in s : TRUE) = i)
  OBVIOUS
<1> HIDE DEF v
<1>3. \A s \in SUBSET {i} : Step(sums, s) = IF s = {} THEN 0 ELSE v
  <2>1. TAKE s \in SUBSET {i}
  <2>2. CASE s = {}
    BY <2>2
  <2>3. CASE s = {i} /\ (CHOOSE x \in s : TRUE) = i
    <3>1. Step(sums, s) = FlagsValue(evs[i].flags) + sums[{i} \ {i}]
      BY <2>3
    <3>2. {i} \ {i} = {}
      OBVIOUS
    <3>3. sums[{}] = 0
      OBVIOUS
    <3>4. QED
      BY <2>3, <3>1, <3>2, <3>3 DEF v
  <2>4. QED
    BY <1>2, <2>2, <2>3
<1>4. sums = [s \in SUBSET {i} |-> Step(sums, s)]
  BY <1>3
<1> HIDE DEF Step, sums
<1>5. Iter = [s \in SUBSET {i} |-> Step(Iter, s)]
  BY <1>4
<1> HIDE DEF Iter
<1>6. Iter[{}] = 0
  BY <1>5 DEF Step
<1>7. Iter[{i}] = v + Iter[{}]
  <2>1. Iter[{i}] = Step(Iter, {i})
    BY <1>5
  <2>2. (CHOOSE x \in {i} : TRUE) = i /\ {i} # {} /\ {i} \ {i} = {}
    BY <1>2
  <2>3. QED
    BY <2>1, <2>2 DEF Step, v
<1>8. QED
  BY <1>1, <1>6, <1>7 DEF v

(* What SingleEventFlagsExact says of one row.                             *)
FlagsRight(evs, gc, k) ==
    \A i \in DOMAIN evs : Members(evs, k[2]) = {i} /\ Exact(evs, gc, k[2])
                              => gc[k].flags = evs[i].flags

LEMMA AddKeepsFlags ==
    ASSUME CInv, SingleEventFlagsExact, IInv', NEW p \in Loggers, NEW field \in Fields,
           NEW ev \in EventRow, NEW id \in 1..MaxId, AddEvent(p, field, ev, id),
           NEW k \in DOMAIN groupCache'
    PROVE  FlagsRight(events', groupCache', k)
<1> DEFINE g == k[2]
<1> SUFFICES ASSUME NEW i \in DOMAIN events', Members(events', g) = {i},
                    Exact(events', groupCache', g)
             PROVE  groupCache'[k].flags = events'[i].flags
  BY DEF FlagsRight
<1>1. g \in Groups /\ g # NULL
  BY NullAssumption DEF IInv, TypeOK, IsTable
<1>2. CASE g # ev.group
  <2>1. /\ Exact(events', groupCache', g) <=> Exact(events, groupCache, g)
        /\ Members(events', g) = Members(events, g)
        /\ \A j \in Members(events, g) : events'[j] = events[j]
        /\ \A l : l[2] = g => (l \in DOMAIN groupCache' <=> l \in DOMAIN groupCache)
        /\ \A l \in DOMAIN groupCache : l[2] = g => groupCache'[l] = groupCache[l]
    BY <1>1, <1>2, AddElsewhere DEF CInv
  <2>2. i \in DOMAIN events /\ events'[i] = events[i]
    BY <2>1 DEF Members
  <2>3. k \in DOMAIN groupCache /\ groupCache'[k] = groupCache[k]
    BY <2>1
  <2>4. QED
    BY <2>1, <2>2, <2>3 DEF SingleEventFlagsExact
<1>3. CASE g = ev.group
  <2> DEFINE key == KeyOf(ev)
  <2>1. /\ DOMAIN events \subseteq 1..MaxId /\ id \notin DOMAIN events
        /\ ev.is_read \in 0..1
        /\ events' = [j \in DOMAIN events \cup {id} |-> IF j = id THEN ev ELSE events[j]]
        /\ groupCache' = AfterInsert(groupCache, id, ev)
        /\ EventIdUnique(AfterInsert(groupCache, id, ev))
    BY BoundsAssumption DEF CInv, IInv, TypeOK, IsTable, EventRow, AddEvent, IsNextId
  <2>2. i = id /\ events'[i] = ev
    <3>1. id \in Members(events', g)
      BY <1>3, <2>1 DEF Members
    <3>2. QED
      BY <2>1, <3>1
  <2>3. TriggersRan(groupCache', id, ev)
    BY <1>1, <1>3, <2>1, TriggersCount DEF CInv
  <2>4. k = key
    <3>1. \A l \in DOMAIN AfterInsert(groupCache, id, ev) : l[2] = ev.group => l = key
      BY <1>1, <1>3, <2>1, InsertedRows DEF CInv
    <3>2. QED
      BY <1>3, <2>1, <3>1
  <2>5. groupCache'[k].total_events = 1
    <3>0. OneRow(groupCache')
      BY DEF IInv, OneRowPerGroup, OneRow
    <3>1. groupCache'[k].total_events = Cardinality(Members(events', g))
      BY <3>0, ExactRow
    <3>2. QED
      BY <3>1, FS_Singleton
  <2>6. key \notin DOMAIN groupCache
    <3>1. SUFFICES ASSUME key \in DOMAIN groupCache PROVE FALSE
      OBVIOUS
    <3>2. groupCache[key].total_events \in Nat /\ groupCache[key].total_events >= 1
      BY <3>1 DEF CInv, RowsCountEvents, IInv, TypeOK, IsTable, CacheRow
    <3>3. groupCache'[k].total_events = groupCache[key].total_events + 1
      BY <2>3, <2>4, <3>1 DEF TriggersRan, CountOf
    <3> HIDE DEF key
    <3>4. QED
      BY <2>5, <3>2, <3>3
  <2>7. groupCache'[k].flags = {} \cup ev.flags
    BY <2>3, <2>4, <2>6 DEF TriggersRan, CountOf, NoCount
  <2>8. QED
    BY <2>2, <2>7
<1>4. QED
  BY <1>2, <1>3

LEMMA UpdateKeepsFlags ==
    ASSUME CInv, SingleEventFlagsExact, NEW id \in DOMAIN events, NEW new \in EventRow,
           new.group = events[id].group, new.service = events[id].service,
           UpdateEvent(id, new), NEW k \in DOMAIN groupCache'
    PROVE  FlagsRight(events', groupCache', k)
<1> DEFINE g == k[2]
<1> SUFFICES ASSUME NEW i \in DOMAIN events', Members(events', g) = {i},
                    Exact(events', groupCache', g)
             PROVE  groupCache'[k].flags = events'[i].flags
  BY DEF FlagsRight
<1>1. /\ DOMAIN events' = DOMAIN events /\ events'[id] = new
      /\ \A j \in DOMAIN events : j # id => events'[j] = events[j]
      /\ groupCache' = AfterUpdate(groupCache, events[id], new)
  BY DEF UpdateEvent
<1>2. k \in DOMAIN groupCache /\ g \in Groups /\ g # NULL
  BY <1>1, NullAssumption DEF AfterUpdate, CInv, IInv, TypeOK, IsTable
<1>3. Members(events', g) = Members(events, g)
  BY <1>1 DEF Members
<1>4. Exact(events, groupCache, g)
  BY <1>2, UpdateKeepsExact DEF CInv
<1>5. groupCache[k].flags = events[i].flags
  BY <1>1, <1>2, <1>3, <1>4 DEF SingleEventFlagsExact
<1>6. CASE g = new.group
  <2>1. id \in Members(events, g)
    BY <1>6 DEF Members
  <2>2. i = id
    BY <1>3, <2>1
  <2>3. groupCache'[k].flags = (groupCache[k].flags \ events[id].flags) \cup new.flags
    BY <1>1, <1>2, <1>6 DEF AfterUpdate
  <2>4. QED
    BY <1>1, <1>5, <2>2, <2>3
<1>7. CASE g # new.group
  <2>1. i # id
    <3>1. events[i].group = g
      BY <1>3 DEF Members
    <3>2. QED
      BY <1>7, <3>1
  <2>2. groupCache'[k] = groupCache[k]
    BY <1>1, <1>2, <1>7 DEF AfterUpdate
  <2>3. QED
    BY <1>1, <1>5, <2>1, <2>2
<1>8. QED
  BY <1>6, <1>7

LEMMA DeleteKeepsFlags ==
    ASSUME CInv, SingleEventFlagsExact, IInv', Delete,
           NEW k \in DOMAIN groupCache'
    PROVE  FlagsRight(events', groupCache', k)
<1> DEFINE g == k[2]
<1> SUFFICES ASSUME NEW i \in DOMAIN events', Members(events', g) = {i},
                    Exact(events', groupCache', g)
             PROVE  groupCache'[k].flags = events'[i].flags
  BY DEF FlagsRight
<1>1. Deletes
  BY DeletionDeletes DEF CInv
<1>2. events'[i].flags \in SUBSET Bits
  BY DEF IInv, TypeOK, IsTable, EventRow
<1>3. CASE groupCache'[k] = Summary(events', g)
  <2>1. SumOfFlags(events', g) = FlagsValue(events'[i].flags)
    BY <1>2, SumOfOne, FlagsAreKept, BitsAssumption
  <2>2. groupCache'[k].flags = BitsOf(FlagsValue(events'[i].flags))
    BY <1>3, <2>1 DEF Summary
  <2>3. QED
    BY <1>2, <2>2, FlagsAreKept, BitsAssumption
<1>4. CASE groupCache'[k] = groupCache[k]
  <2>1. /\ k \in DOMAIN groupCache
        /\ DOMAIN events' \subseteq DOMAIN events
        /\ \A j \in DOMAIN events' : events'[j] = events[j]
    BY <1>1 DEF Deletes
  <2>2. DOMAIN events \subseteq 1..MaxId
    BY DEF CInv, IInv, TypeOK, IsTable
  <2>3. groupCache'[k].total_events = 1
    <3>0. OneRow(groupCache')
      BY DEF IInv, OneRowPerGroup, OneRow
    <3>1. groupCache'[k].total_events = Cardinality(Members(events', g))
      BY <3>0, ExactRow
    <3>2. QED
      BY <3>1, FS_Singleton
  <2>4. /\ IsFiniteSet(Members(events, g)) /\ Cardinality(Members(events, g)) \in Nat
        /\ Cardinality(ReadMembers(events, g)) \in Nat
        /\ Members(events, g) \subseteq 1..MaxId
    BY <2>2, CountsAreNumbers
  <2>5. Cardinality(Members(events, g)) <= 1
    <3>1. NotTooLow(events, groupCache[k], g)
      BY <2>1, CInvRows
    <3>2. groupCache[k].read_events \in Int /\ groupCache[k].total_events = 1
      BY <1>4, <2>1, <2>3 DEF CInv, IInv, TypeOK, IsTable, CacheRow
    <3> HIDE DEF g
    <3>3. QED
      BY <2>4, <3>1, <3>2 DEF NotTooLow
  <2>6. Members(events, g) = {i}
    <3>1. {i} \in SUBSET Members(events, g)
      BY <2>1, <2>2, CountsDeleted
    <3>2. Cardinality({i}) = 1
      BY FS_Singleton
    <3>3. /\ Cardinality({i}) <= Cardinality(Members(events, g))
          /\ Cardinality(Members(events, g)) = Cardinality({i}) => Members(events, g) = {i}
      BY <2>4, <3>1, FS_Subset
    <3> HIDE DEF g
    <3>4. QED
      BY <2>4, <2>5, <3>2, <3>3
  <2>7. i \in DOMAIN events /\ events'[i] = events[i]
    BY <2>1
  <2>8. Exact(events, groupCache, g)
    <3>1. ReadMembers(events', g) = ReadMembers(events, g)
      BY <2>6, <2>7 DEF ReadMembers
    <3>2. \A l \in DOMAIN groupCache : l[2] = g => l = k
      BY <2>1 DEF CInv, IInv, OneRowPerGroup
    <3>3. \A l \in DOMAIN groupCache' : l[2] = g => l = k
      BY DEF IInv, OneRowPerGroup
    <3>4. /\ \A l : l[2] = g => (l \in DOMAIN groupCache' <=> l \in DOMAIN groupCache)
          /\ \A l \in DOMAIN groupCache : l[2] = g => groupCache'[l] = groupCache[l]
      BY <1>4, <2>1, <3>2, <3>3
    <3>5. \A j \in Members(events, g) : events'[j].service = events[j].service
      BY <2>6, <2>7
    <3> HIDE DEF g
    <3>6. QED
      BY <2>4, <2>6, <3>1, <3>4, <3>5, ExactKept
  <2>9. groupCache[k].flags = events[i].flags
    BY <2>1, <2>6, <2>7, <2>8 DEF SingleEventFlagsExact
  <2>10. QED
    BY <1>4, <2>7, <2>9
<1>5. QED
  BY <1>1, <1>3, <1>4 DEF Deletes

LEMMA StepKeepsFlags ==
    ASSUME CInv, SingleEventFlagsExact, IInv', [Next]_vars
    PROVE  SingleEventFlagsExact'
<1>1. CASE UNCHANGED tables
  BY <1>1 DEF tables, SingleEventFlagsExact
<1>2. ASSUME \A k \in DOMAIN groupCache' : FlagsRight(events', groupCache', k)
      PROVE  SingleEventFlagsExact'
  BY <1>2 DEF FlagsRight, SingleEventFlagsExact
<1>3. CASE Update
  <2>1. PICK id \in 1..MaxId : \E new :
              /\ UpdateEvent(id, new)
              /\ id \in DOMAIN events => /\ new \in EventRow
                                         /\ new.group = events[id].group
                                         /\ new.service = events[id].service
    BY <1>3, UpdateIsOfOneRow DEF CInv
  <2>2. CASE id \in DOMAIN events
    BY <1>2, <2>1, <2>2, UpdateKeepsFlags
  <2>3. CASE id \notin DOMAIN events
    BY <1>1, <2>1, <2>3 DEF UpdateEvent
  <2>4. QED
    BY <2>2, <2>3
<1>4. CASE Delete
  BY <1>2, <1>4, DeleteKeepsFlags
<1>5. ASSUME NEW p \in Loggers, NEW field \in Fields, NEW ev \in EventRow,
             NEW id \in 1..MaxId, AddEvent(p, field, ev, id)
      PROVE  SingleEventFlagsExact'
  BY <1>2, <1>5, AddKeepsFlags
<1>6. QED
  BY <1>1, <1>3, <1>4, <1>5, StepsOfTheTables

(* The flags of a group of one event are those of the event, if the counts *)
(* of the group are right: no bit is left over from an event that is gone. *)
THEOREM SingleEventFlagsAreItsOwn == Spec => []SingleEventFlagsExact
<1>1. Init => SingleEventFlagsExact
  BY DEF Init, NoRows, SingleEventFlagsExact
<1>2. CInv /\ IInv' /\ [Next]_vars => CInv'
  BY StepCounts
<1>3. CInv /\ IInv' /\ SingleEventFlagsExact /\ [Next]_vars => SingleEventFlagsExact'
  BY StepKeepsFlags
<1>4. QED
  BY <1>1, <1>2, <1>3, InitCounts, StoreInvariant, PTL DEF Spec

===========================================================================
