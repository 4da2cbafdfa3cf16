---------------------------- MODULE ClientView ----------------------------
(***************************************************************************)
(* The composition of Signals, Queries and Iterators: programs that change *)
(* the log, and viewers, which show the result of a query, read it with an *)
(* iterator, and keep it up to date by the signals.  A viewer reads an     *)
(* event again when a signal names it, and lists everything again after    *)
(* AllDeleted and RefreshHint, when its query has changed, and when a      *)
(* listing ended early.                                                    *)
(***************************************************************************)
EXTENDS Signals, Iterators

VARIABLES
    shows, \* the sql of the last listing of each viewer
    view,  \* what it shows: id -> content, NULL if not shown
    stale, \* the viewers that know they have to list again
    mixed, \* ids a sorted listing delivered though its viewer had changed them
    unread \* ids whose last reading failed, which the viewer took for no event

queries == <<world, edits, query, asked>>
signals == <<store, call, mail, untold, changes, deaths>>
iterators == <<iter, attached, looks, failed, misused>>
views == <<shows, view, stale, mixed, unread>>
vars == <<queries, signals, iterators, views>>

Empty == [id \in Ids |-> NULL]
Restarting(p) ==
    /\ p \in Viewers
    /\ \/ iter[p] # NULL /\ iter[p].stmt = "reset"
       \/ attached[p] # NULL /\ attached[p].stmt = "reset"
Free(p) == Idle(p) /\ ~Restarting(p)

---------------------------------------------------------------------------
(* Calls that change the log                                               *)

\* A commit waits for the readers of other connections (or fails, which
\* changes nothing).  Programs heed the note in eventlogger.h: no changes
\* while they have an atomic iterator.
InAtomic(p) == p \in Viewers /\ iter[p] # NULL /\ iter[p].atomic
Heeds(p) == ~Restarting(p) /\ ~InAtomic(p)
MayCommit(p) == Heeds(p) /\ \A q \in Viewers \ {p} : ~Holds(q)

\* Its own iterators read on.
Touch(p) ==
    LET changed == {id \in Ids : store'[id] # store[id]}
    IN  /\ iter' = IF p \in Viewers /\ iter[p] # NULL
                   THEN [iter EXCEPT ![p].pass.touched = @ \cup changed] ELSE iter
        /\ attached' = IF p \in Viewers /\ attached[p] # NULL
                       THEN [attached EXCEPT ![p].touched = @ \/ attached[p].row.id \in changed]
                       ELSE attached

Change(p) ==
    /\ MayCommit(p)
    /\ \/ \E contact \in Contacts : AddEvent(p, contact) \/ DeleteBy(p, contact)
       \/ \E id \in Ids : DeleteEvent(p, id)
       \/ DeleteAll(p)
       \/ UpdateNext(p)
       \/ p \in Viewers /\ DeleteEvents(p)
    /\ Touch(p)
    /\ UNCHANGED <<queries, looks, failed, misused, views>>

StartBatch(p) ==
    /\ Heeds(p)
    /\ \E ids \in Batches, read \in BOOLEAN : SetReadEvents(p, ids, read)
    /\ UNCHANGED <<queries, iterators, views>>

FailBatch(p) == UpdateFails(p) /\ UNCHANGED <<queries, iterators, views>>

Announce(p) == Emit(p) /\ UNCHANGED <<queries, iterators, views>>

---------------------------------------------------------------------------
(* Viewers                                                                 *)

ListAgain(p) ==
    /\ view' = [view EXCEPT ![p] = Empty]
    /\ stale' = stale \cup {p}
    /\ mixed' = [mixed EXCEPT ![p] = {}]
    /\ unread' = [unread EXCEPT ![p] = {}]
    /\ UNCHANGED shows

\* A query is changed between two listings.
EditQuery(p) ==
    /\ Free(p) /\ iter[p] = NULL
    /\ \/ \E setting \in Settings : Set(p, setting)
       \/ Refresh(p)
       \/ \E conditions \in {<<>>} \cup SeqOf(Conditions, 2) : Prepare(p, conditions)
    /\ ListAgain(p)
    /\ UNCHANGED <<signals, iterators>>

Shown(p, id) == IF Admits(shows[p].where, store[id]) THEN store[id] ELSE NULL

\* An event is read again, by a query of its own: if that cannot be opened it
\* looks as if there were no such event.
Reread(p, id) ==
    \/ /\ view' = [view EXCEPT ![p][id] = Shown(p, id)]
       /\ unread' = [unread EXCEPT ![p] = @ \ {id}]
    \/ /\ MayNotOpen /\ Shown(p, id) # NULL
       /\ view' = [view EXCEPT ![p][id] = NULL]
       /\ unread' = [unread EXCEPT ![p] = @ \cup {id}]

HandleSignal(p) ==
    LET signal == Head(mail[p])
    IN  /\ Free(p)
        /\ Dispatch(p)
        /\ IF signal.id = NULL THEN ListAgain(p)
           ELSE /\ IF p \in stale THEN UNCHANGED <<view, unread>>
                                  ELSE Reread(p, signal.id)
                /\ mixed' = [mixed EXCEPT ![p] = @ \ {signal.id}]
                /\ UNCHANGED <<shows, stale>>
        /\ UNCHANGED <<queries, iterators>>

\* The row that a step of the iterator has delivered.
Enter(p) ==
    LET row == iter'[p].columns
        starts == Len(iter'[p].pass.got) = 1
    IN  /\ view' = [view EXCEPT ![p] = [(IF starts THEN Empty ELSE @)
                                         EXCEPT ![row.id] = row.content]]
        /\ mixed' = [mixed EXCEPT ![p] = (IF starts THEN {} ELSE @) \cup
                        (iter'[p].pass.touched \cap (IF iter'[p].sorted THEN {row.id} ELSE {}))]
        /\ unread' = [unread EXCEPT ![p] = IF starts THEN {} ELSE @ \ {row.id}]

StartListing(p) ==
    /\ Free(p) /\ p \in stale
    /\ \E atomic, sorted \in BOOLEAN : Open(p, atomic, sorted, store)
    /\ Enter(p)
    /\ shows' = [shows EXCEPT ![p] = query[p].sql]
    /\ stale' = stale \ {p}
    /\ UNCHANGED <<queries, signals>>

\* rtcom_el_get_events() returns no iterator: there is nothing to show, or the
\* viewer takes it so.
NothingToList(p) ==
    /\ Free(p) /\ p \in stale
    /\ \/ OpenEmpty(p, store) /\ UNCHANGED unread
       \/ /\ OpenFails(p)
          /\ unread' = [unread EXCEPT ![p] = Matching(query[p].sql.where, store)]
    /\ shows' = [shows EXCEPT ![p] = query[p].sql]
    /\ stale' = stale \ {p}
    /\ UNCHANGED <<queries, signals, view, mixed>>

ListNext(p) ==
    /\ Idle(p) /\ NextRow(p, store)
    /\ IF p \in stale THEN UNCHANGED <<view, mixed, unread>> ELSE Enter(p)
    /\ UNCHANGED <<queries, signals, shows, stale>>

\* A pass that began anew and found nothing leaves nothing to show.
ListEnds(p) ==
    /\ Idle(p) /\ NextEnds(p, store)
    /\ view' = IF iter'[p].pass.got = <<>> THEN [view EXCEPT ![p] = Empty] ELSE view
    /\ UNCHANGED <<queries, signals, shows, stale, mixed, unread>>

ListFails(p) ==
    /\ Idle(p) /\ NextFails(p)
    /\ ListAgain(p)
    /\ UNCHANGED <<queries, signals>>

ListAnew(p) ==
    /\ Free(p) /\ First(p)
    /\ UNCHANGED <<queries, signals, views>>

CloseDangling(p) ==
    /\ Free(p) /\ UseDangling(p)
    /\ UNCHANGED <<queries, signals, views>>

\* Looking at the attachments of an event.
LookAtAttachments(p) ==
    /\ \/ Free(p) /\ (OpenAttachments(p, store) \/ FirstAttachment(p))
       \/ Idle(p) /\ (RestartAttachments(p, store) \/ CloseAttachments(p))
    /\ UNCHANGED <<queries, signals, views>>

CloseListing(p) ==
    /\ Free(p) /\ Unref(p)
    /\ IF iter[p].stmt = "done" THEN UNCHANGED views ELSE ListAgain(p)
    /\ UNCHANGED <<queries, signals>>

\* The program ends; it starts again with a new query.
Die(p) ==
    /\ End(p)
    /\ IF p \in Viewers
       THEN /\ iter' = [iter EXCEPT ![p] = NULL]
            /\ attached' = [attached EXCEPT ![p] = NULL]
            /\ query' = [query EXCEPT ![p] = NewQuery]
            /\ asked' = [asked EXCEPT ![p] = NULL]
            /\ ListAgain(p)
       ELSE UNCHANGED <<iter, attached, query, asked, views>>
    /\ UNCHANGED <<world, edits, looks, failed, misused>>

---------------------------------------------------------------------------

Init ==
    /\ world \in Worlds
    /\ edits = 0 /\ looks = 0 /\ changes = 0 /\ deaths = 0
    /\ query = [v \in Viewers |-> NewQuery]
    /\ asked = [v \in Viewers |-> NULL]
    /\ store = Empty
    /\ call = [p \in Programs |-> Nothing]
    /\ mail = [v \in Viewers |-> <<>>]
    /\ untold = {} /\ failed = {} /\ misused = {}
    /\ iter = [v \in Viewers |-> NULL]
    /\ attached = [v \in Viewers |-> NULL]
    /\ shows = [v \in Viewers |-> NULL]
    /\ view = [v \in Viewers |-> Empty]
    /\ stale = Viewers
    /\ mixed = [v \in Viewers |-> {}]
    /\ unread = [v \in Viewers |-> {}]

Calls(p) == Change(p) \/ StartBatch(p) \/ FailBatch(p) \/ Announce(p) \/ Die(p)

Listing(p) ==
    \/ StartListing(p) \/ NothingToList(p)
    \/ ListNext(p) \/ ListEnds(p) \/ ListFails(p)

Next ==
    \/ \E p \in Programs : Calls(p)
    \/ \E p \in Viewers :
          \/ EditQuery(p) \/ HandleSignal(p)
          \/ Listing(p)
          \/ ListAnew(p) \/ CloseListing(p) \/ CloseDangling(p)
          \/ LookAtAttachments(p)

Spec == Init /\ [][Next]_vars

FairSpec ==
    /\ Spec
    /\ \A p \in Programs : WF_vars((Change(p) /\ UpdateNext(p)) \/ FailBatch(p) \/ Announce(p))
    /\ \A p \in Viewers : /\ WF_vars(HandleSignal(p))
                           /\ WF_vars(Listing(p) \/ CloseListing(p) \/ CloseDangling(p))
                           /\ WF_vars(LookAtAttachments(p))

---------------------------------------------------------------------------
(* Properties                                                              *)

\* Where the sql of a listing has a limit or a grouping, what it shows
\* depends on more events than the signal names.
Plain(sql) == sql.setting = NewQuery.setting

Listed(p) == iter[p] = NULL \/ iter[p].stmt = "done"

\* A signal that concerns the event is still to be sent or to be dispatched.
IsAnnounced(p, id) ==
    \/ \E q \in Programs : call[q].emit # NULL /\ id \in Concerns(call[q].emit)
    \/ \E i \in DOMAIN mail[p] : id \in Concerns(mail[p][i])

\* The listing under way will come to the event.
IsAhead(p, id) ==
    /\ ~Listed(p)
    /\ iter[p].stmt = "reset" \/ \E i \in DOMAIN Ahead(iter[p], store) : Ahead(iter[p], store)[i].id = id

\* What a viewer shows of a query without limit and grouping, where that is
\* not what the log has, is on its way to it.  There are three holes: a program
\* ended before it told what it changed; the viewer changed the event itself
\* before a sorted listing gave it; or the event was due when the viewer last
\* read it, and opening the listing failed, which looks as if there were none.
StaleIsAnnounced ==
    \A p \in Viewers \ stale : Plain(shows[p]) =>
        \A id \in Ids : \/ view[p][id] = Shown(p, id)
                        \/ IsAnnounced(p, id) \/ IsAhead(p, id)
                        \/ id \in untold \/ id \in mixed[p] \/ id \in unread[p]

\* A listing gives each event once, from the last to the first, and when it
\* ends it has given all that its viewer has not changed meanwhile.  With a
\* limit one change can push another event off the page.
ScansMissNothing ==
    \A p \in Viewers : iter[p] # NULL =>
        LET pass == iter[p].pass
            due == Rows(iter[p].sql, pass.base)
        IN  /\ \A i, j \in DOMAIN pass.got : i < j => pass.got[i] > pass.got[j]
            /\ iter[p].stmt = "done" /\ (pass.touched = {} \/ Plain(iter[p].sql))
                  => \A i \in DOMAIN due : due[i] \in pass.touched
                                          \/ \E j \in DOMAIN pass.got : pass.got[j] = due[i]

\* rtcom_el_iter_get_full() and rtcom_el_iter_get_attachments() put the row
\* together with what the tables hold now under its id: the same event, if
\* the program has not changed it itself since the listing began and no step
\* has failed, for they answer only while the statement is there.
\* The attachments listed belong to the row for as long as they are listed,
\* wherever the iterator has gone; those asked for after a failed step, or
\* listed anew, to the event that had the id then.
WholeEventIsStored == \A p \in Viewers :
    /\ iter[p] # NULL /\ GivesWhole(iter[p]) /\ iter[p].stmt \notin {"reset", "dangling"} =>
          LET row == Values(iter[p])
          IN  store[row.id] = row.content \/ row.id \in iter[p].pass.touched
    /\ attached[p] # NULL /\ attached[p].stmt = "active" =>
          LET row == attached[p].row
          IN  store[row.id] = row.content \/ attached[p].touched

\* rtcom_el_delete_events() removes what the last conditions given to
\* rtcom_el_query_prepare() admit, whatever happened to the query since.
DeletesOnlyAsked ==
    [][\A p \in Viewers : DeleteEvents(p) =>
          \A id \in Ids : store'[id] # store[id]
                            => asked[p] # NULL /\ Admits(asked[p], store[id])]_vars

\* A statement is used after it was finalised only if a step of it failed.
MisusedAfterFailure == misused \subseteq failed

\* A viewer always gets to show the log as it is, but for the three holes and
\* the queries above, and unless its query has no sql.
Settled(p) ==
    \/ query[p].sql = NULL
    \/ p \notin stale /\ Listed(p)
       /\ (Plain(shows[p]) => \A id \in Ids : view[p][id] = Shown(p, id)
                                              \/ id \in untold \/ id \in mixed[p]
                                              \/ id \in unread[p])
ViewsSettle == \A p \in Viewers : []<>Settled(p)

============================================================================
