# rtcom-eventlogger in TLA+

rtcom-eventlogger is a C library on GLib and SQLite with which the programs of a
phone share one log of calls and messages.  Every program links the library and
opens the same file, `~/.rtcom-eventlogger/el-v1.db`.  There is no server: what
the programs have in common is the database file with SQLite's locks, a
directory of attachments, and D-Bus signals that say what changed.

This directory models what the library does with that log, checks the models
with TLC, and proves their safety properties with TLAPS for every value of the constants.  Line numbers
refer to `src/src/eventlogger.c` unless another file is named.

## The system

| Component | State | Operations | Interacts with | What makes it correct |
|---|---|---|---|---|
| Event store (`eventlogger.c`, schema in `db.c`) | tables Events and GroupCache; `last_group_uid` of each logger object | add, set/unset flag, set read, set end time, delete (by id, query, service, groups, all) | triggers of the schema keep GroupCache; `update_group_cache()` rebuilds rows after deletions | the cache has one row per group, counts never too low, points to events of its own group |
| Transactions (`db.c`) | the transaction and the locks of each connection, `journal_mode` | transaction, commit, rollback, exec with a busy loop of bounded time | all calls; the other processes through locks | calls take effect as a whole or not at all, leave nothing open, and return |
| Iterators (`eventlogger-iter.c`, `eventlogger-attach-iter.c`) | an unfinished SELECT, the row it gave last, perhaps a transaction | first, next, get values, the whole event, headers and attachments, finalise | share the connection with later calls, keep other programs from committing | an atomic iterator sees one snapshot; a listing gives each event once and misses none; what it gives belongs together; no statement is used after it was finalised |
| Headers and attachments | tables Headers, Attachments; files | add_event_full, add_header, add_attachment, delete trigger | event ids, directories named by the minute | every attachment has its own file; details go with their event |
| Remote contacts | table Remotes | add_event, update_remote_contacts, remove_abook_uids | address book programs | the row says what was stored last |
| Opening (`db.c`, `_ensure_db()`) | files `el-v1.db`, `el-v1.db.temp`, `el.db` | convert the old format, check, repair, create the schema | all processes that start at about the same time | no acknowledged event is lost, everybody gets the same file open |
| Plugins, services, event types, flags | four tables, and mappings cached in each logger | `_load_plugin()`, `_init_plugin()`, `_ensure_db()` | read at open, written by whoever loads a new plugin; `DbReopen` to those who wait | names a logger accepts are in the tables; a plugin that is found is registered whole; who waits is told |
| D-Bus signals | messages in transit | `_emit_dbus()`, `_dbus_filter_callback()` | sent after commits; receivers read the event again | what a receiver shows wrongly, a signal is on its way to correct |
| Queries (`eventlogger-query.c`) | settings, WHERE clause, SQL text | set, refresh, prepare | read by iterators and by `rtcom_el_delete_events()` | deletions remove only what the conditions last asked for admit |
| Event objects (`event.c`) | a record with a bit per field | new, equals, free | arguments and results of calls | (not modelled) |

What is hard in this code: several statements per call between which other
processes run, a statement fails or the process dies; a cache kept by triggers
under an ever reused id; error paths that must roll back; deletions that run
without a journal; files looked at before they are locked; names chosen before
they are made; ids used after the event is gone; signals sent after the commit and
handled later still; mappings read once and kept for life; statements that stay
open while the table changes.  `PROJECT.json` lists these as
hazards, each at its line and with the properties that watch it.

## The modules

| Module | Models |
|---|---|
| `EventStore` | the tables Events and GroupCache and the remembered group-uid, one action per call |
| `EventStoreDocs` | a sentence of `eventlogger.h` about deletions, which does not hold |
| `EventStoreProofs` | the inductive invariant of EventStore and its proof |
| `EventStoreCountProofs` | the counts and flags of the cache, and the refusals: proofs about cardinalities and sums |
| `Transactions` | the same calls statement by statement, several processes, SQLite's locks, iterators, death |
| `TransactionsProofs` | its inductive invariant and proof, and the simulation of CallLog |
| `CallLog` | the abstract specification of Transactions: calls that take effect at one instant |
| `EventDetails` | headers, attachments and files, step by step |
| `EventDetailsProofs` | its inductive invariant and the proof |
| `Remotes` | the contacts |
| `RemotesProofs` | its inductive invariant and the proof |
| `DbOpen` | conversion, opening, repair and schema by several processes |
| `DbOpenProofs` | types, handles and locks in all circumstances, and the circumstances in which nothing can be lost, with proofs |
| `Plugins` | `_ensure_db()` of several processes: opening, mappings, plugins and their registration, `DbReopen` |
| `PluginsProofs` | its inductive invariant and the proof |
| `Queries` | the settings, the clause and the SQL of a query, and what it lists |
| `Signals` | calls of several programs that change events, each with its commit, then its signal, and the queues of receivers |
| `Iterators` | an iterator and its iterator over attachments, over a table that changes |
| `ClientView` | the composition of the last three: a program that shows a query and follows the signals |
| `ClientViewProofs` | its inductive invariant and the proof, with that of what a pass over the rows gives |
| `MC...` | constants and symmetry sets for TLC |

**EventStore.**  `events` is the table Events, `groupCache` the table GroupCache
as a function from its key (service, group) to the other columns.  The triggers
and constraints are operators (`WithPlaceholder` for `gc_update_ev_add1`,
`Counted` for `gc_update_ev_add4`, `AfterUpdate` for `gc_update_ev_update`,
`EventIdUnique`), `UpdateGroupCache` is `update_group_cache()`, and one action is one
call that ran to its end.  That is justified by Transactions: calls are serialised by
the file lock, and a call that fails is rolled back.  The loop of
`update_group_cache()` frees its whole list of groups with the first node (line 2002) and
goes on reading it.  With one group that is harmless; with several, `NamesRead` lets the
statement name any groups, and `DeleteEventsGarbled` is the call whose statement cannot
be executed, or whose process dies there.  What the second freeing does to the heap later
on is outside of the model.  Failures that leave something behind are actions of
their own too: `DeleteEventsUnlisted` (the group list could not be read and counts as
empty) and `DeleteEventsUncleaned` (the unchecked DELETE at the end of
`update_group_cache()`).  An UNSET group field takes the remembered group, which
is overwritten before the INSERT and stays when it fails.  Flags are sets of bits;
the `SUM(flags)` of a rebuild is the sum of numbers, as in the code.

**Transactions.**  `call[p].rest` is the list of statements a call has yet to run.
`Begin`, `Write`, `CommitWaits`/`CommitStarts`/`CommitEnds`, `Rollback` move through
it with the locks of SQLite's rollback journal (shared, reserved, pending,
exclusive).  `GiveUp` is the time bound of `rtcom_el_db_iterate()`, `Fault` any
other error (with or without SQLite's automatic rollback), `AfterFailure` the
error path of each kind of call.  `own[p]` is what a connection has written and
not committed.  Deletions run with `journal_mode = OFF`, so `Die` inside their
COMMIT may damage the file, and `Remake` stands for what the next open does.
The note in `eventlogger.h:327-336` (no addition or modification while an atomic
iterator lives) is the variable `contract`: a program heeds it or it does not.
If it does not, a deletion is refused by `rtcom_el_db_transaction()` and its error
path rolls back the transaction of the iterator; an update becomes part of that
transaction, and the COMMIT in `rtcom_el_iter_finalize()`, whose result is
ignored, may fail and leave it open.  All that is in the model, and
`CommittedWhole` holds in spite of it.

**CallLog** is the specification of Transactions: `Invoke`, `Apply`, `Return`,
`Crash`, `Recreate`.  Transactions implements it under the mapping in its operator
`Promise` (the log is the committed content; a call has taken effect when
nothing but the report of its success is left).

**EventDetails.**  Ids are reused, so each event carries a serial number that is
not in the code, and so do the rows meant for it.  `rtcom_el_add_attachment()` is a
chain of steps (`CheckBase`, `MakeBase`, `PickName`, `MakeDir`, `Copy`,
`InsertAttachment`) between which another process may take the name or make the
directory; none of them is in a transaction unless `add_event_full()` opened one.

**Remotes.**  `Fetched` is `_fetch_remote_data()` with its columns one off (a read
of column 2 of 2 gives NULL): the address book uid an event brings is compared
with the stored *name*.  `latest` remembers what the row should say.

**DbOpen.**  A file keeps its identity when its name is unlinked or renamed: names
(`main`, `temp`) and handles refer to numbered files with a form and rows.  `world`
fixes the circumstances of an execution: which programs run, whether there is an
old `el.db`, whether processes die and statements fail, and whether
`sqlite3_backup_init()` accepts a destination that has a transaction open.  The
code opens that transaction first (`db.c:543`) and makes the backup into it
(`db.c:576`); current SQLite refuses, so that with it the conversion never
succeeds, which the world `NoUpgrade` describes.  Two failures look like a success to
`_ensure_db()`, which then makes a new `el-v1.db`: an `el.db` that `sqlite3_open()` does not
open (`OpenTemp`, `db.c:517-520`) and a `g_rename()` that fails (`Rename`, `db.c:622`).
`slipped`, which is not in the code, remembers that one of them happened.

**Plugins.**  A logger goes through `phase`: *down*, *waiting* (`priv->db` is NULL),
*creating* (it holds the lock of the schema's transaction), the three tables of
`_build_db_representation()`, *loading*, *ready*.  `rows` are the tables with, for
each name, the plugin that registered it; `cache` the mappings, NULL if the SELECT
failed; `todo` the scan of the plugin directories and `job` the `_init_plugin()` under
way, whose INSERTs are a step each (`RegisterRow`).  `RegisterFails` is its label
`db_error`: the ROLLBACK is refused, because there is no transaction, and the rows
stay.  `OpenGivesUp` is `db.c:711-718`: a database that is locked counts as one with a
schema.  Names stand for row ids, which are never deleted and UNIQUE by name.
`OpenFails` happens without bound while the old database cannot be converted or the
schema is being made, and otherwise, for a full disk, an I/O error or somebody else's
lock (lines 193-197 name the first), as often as `MaxFaults` allows; so does a
`ReadTable` whose SELECT fails and leaves no mapping.  `refused` and `missed` are not in
the code: the loggers that failed to open a database that was there, and the rows that
others registered after a logger had read their table.
`Accepts` is the part of `_add_event_precheck()` that looks names up.

**Queries, Signals, Iterators, ClientView.**  A condition is a record of its column's
type, its operator and the contents it admits; `Clause` is the WHERE clause, which
`Prepare` drops first and which stays when the limit changes.  `Rows` is what the
SELECT lists; its order (`Descending`) is the one sequence of all its ids that goes
down.  Grouping by group is left out: it joins GroupCache, which is stale after
`rtcom_el_delete_all()`.  In Signals a call commits (`AddEvent`, ..., `UpdateNext`) and then has a
signal to send (`Emit`), which goes to everybody, the sender too; `UpdateFails` ends
the loop of `rtcom_el_set_read_events()`.  `untold` remembers the events whose change
was never told, because the program ended first.  In Iterators a listing walks down
the ids and looks at each event when it comes to it, or it is sorted and gives what it
saw at its start: which of the two is SQLite's choice, except that groupings sort.
`stmt` is *active*, *reset* (inside `rtcom_el_iter_first()`), *done* (finalised and
forgotten) or *dangling* (finalised after a failed step, and not forgotten).  `Holds` is
the shared lock: no other connection commits.  ClientView lets a viewer read the event
a signal names again, and list everything again after AllDeleted and RefreshHint,
after a change of its query, and when a listing ended early or failed.  A listing that
cannot be opened (the statement, the BEGIN or the first step fails, lines 1601-1640)
returns NULL like one without rows, so the viewer takes it for that (`OpenFails`,
`NothingToList`), also when it reads one event again (`Reread`); `unread` remembers the events
that it did not get to see for this reason.  The viewer is
not code of this repository; it stands for the programs the signals are made for, and
it heeds the note in `eventlogger.h:327-336`.

## The runs

Every run is exhaustive within its bounds.

| Run | Properties | Instance |
|---|---|---|
| `EventStore` | TypeOK, OneRowPerGroup, GroupedEventsCached, NoPlaceholder, RowsPointHome, NeverUndercounts, RefusedForACause, SingleEventFlagsExact, CountsStayExact | 2 services, 2 groups, 1 flag bit, ids up to 2, totals up to 3, failing statements; 223,800 states |
| `Transactions` | TypeOK, CommittedWhole, NothingLeftOpen, AtomicSnapshot | 2 processes, one event (and two contacts), programs that heed the note and programs that do not, failing statements, death; 2.1 million states |
| `TransactionsFair` | CallsAreAtomic (Promise!Spec), CallsReturn | 2 processes, one event, programs that heed the note, death; 66,886 states |
| `EventDetails` | TypeOK, AttachmentsHaveFiles, DetailsGoWithTheirEvent, FullEventsAreComplete | 2 processes, 1 header name, 2 events ever, 2 directories; 456,355 states |
| `Remotes` | TypeOK, NameIsLatest, RemovedUidsAreGone | 2 processes, 2 contacts, a name and an abook uid that may be the same string; 24,420 states |
| `DbOpen` | TypeOK, AcknowledgedKept, HistoryKeptOrSlipped, SameFile, OnlyCorruptedDeleted, EveryoneOpens | three programs starting on a new device; one program with an old database, without faults, with faults, and with a library that refuses the backup; 2,277 states |
| `Plugins` | TypeOK, EventsStayVisible, FoundIsRegistered, LoadedForItsService, LoadedCanBeUsed, WaitingAreTold | 2 processes; one plugin with a type and a flag, or two that claim one service; an old database or none; one death, one opening or SELECT that fails; 964,182 states |
| `ClientView` | StaleIsAnnounced, ScansMissNothing, WholeEventIsStored, DeletesOnlyAsked, MisusedAfterFailure, ViewsSettle | one viewer and one other program, 2 ids; six worlds of bounds on changes (up to 3), edits of the query, looks at attachments and restarts of a listing, deaths, failing steps and listings that fail to open; 453,711 states |
| `DocDelete`, `DocContact`, `DocRepair`, `DocUpgrade` | one each, violated | the smallest instance that shows it |

Why the bounds are enough: two processes suffice for every conflict of locks and
every race for a name (the conflicts are between pairs; only starting up is
checked with three, where one can watch two others).  Two ids suffice for id
reuse, for a group of two events and for two groups at a time, and totals up to
3 let the cache be wrong by more than the events there are.  That the bounds do not
matter is proved for every safety property (those of DbOpen in the circumstances
named below), so what follows is about the liveness properties and about
what the runs must reach for their mutants to fail.  For CallsReturn two processes
and one event suffice: a call waits for the locks of the
others, whatever they are about, for a bounded time.  Two serials in
EventDetails let one id be used twice.  Three changes in ClientView let an event be
added, deleted and added again under the same id while the signal of the deletion is
still under way, and a batch of two be interrupted between two listings; the bounds
are given together (`world`), because what they bound meets in pairs.  In Plugins one
waiting DbReopen is as good as several, since a logger that has its database ignores
them.  One failing opening or SELECT may meet each of the others' steps, and openings fail
without bound where somebody is in the way.  The symmetry sets permute only constants
that the modules treat alike, and no run with a liveness property uses symmetry.

Deadlock is checked in every passing run but two.  The bounds do not cause any: programs
can always die, delete or start another call.  Plugins and ClientView may stop: when
every logger is ready and nobody ends any more, or when all changes the bounds allow
have been shown, there is nothing left to do.

**Fairness.**  `TransactionsFair` assumes weak fairness of the steps of a call: a
process that is inside the library keeps being scheduled, and the busy loop of
`rtcom_el_db_iterate()` ends after `RTCOM_EL_DB_MAX_BUSYLOOP_TIME` (`db.c:816`), so a
blocked statement does give up.  Nothing is assumed about programs: an iterator
may stay open for ever.  `DbOpen` assumes weak fairness of `Progress`: a program
without a database calls the library again (every call begins with
`_ensure_db()`).  Nothing obliges a program to close the log, or to keep it open,
which is why EveryoneOpens excuses a logger that starves because another one
opens and closes the log again and again: TLC finds that this can happen.
`Plugins` assumes weak fairness of `Progress`: what goes on inside `_ensure_db()`, and the
main loop that dispatches DbReopen; nobody is assumed to start, end or call a logger.
`ClientView` assumes it of the steps inside a call (the next update of a batch and the
signal after a commit), of the main loop that dispatches signals, and of a viewer that
reads its listing on and closes it.  Nothing is assumed of calls that start a change.

**Mutants.**  For every property of a passing run, a changed definition kept in the
modules beside the true one (their comments say *Mutant of*) breaks it: a
trigger without its WHERE, an early COMMIT, a missing ROLLBACK, a busy loop
without bound, a signal that is not sent.

**What the properties leave open.**  Their exceptions are
reachable, and are what the code really allows:

* CountsStayExact excuses a deletion over several groups that lost a group in the freed
  list; HistoryKeptOrSlipped excuses the two failures that look like a conversion, and
  `DocUpgrade` shows what they do.
* FoundIsRegistered excuses plugins whose registration failed or whose process ended
  half way.  Every later start takes such a plugin for registered ("Let's assume
  everything is initialized", line 2744), and its types are refused for ever.
* LoadedCanBeUsed excuses mappings that are not there: a logger that opened while another
  process made the schema, or whose SELECT failed, has none until its program
  restarts, and refuses every event.  It also excuses rows that another logger added after
  this one had read the table.
* EventsStayVisible is one direction only: a logger whose mappings are older than a
  registration refuses events of that plugin until it starts again.
* WaitingAreTold excuses a process that ended between opening and saying so, and one
  that said so while the schema then was not made, for whoever answers DbReopen sends
  none, and a logger whose own opening failed although the database was there, for
  nobody will say so again.
* StaleIsAnnounced and ViewsSettle excuse changes that were never told, because the
  program ended between the commit and the signal, events that a sorted listing gave
  although the viewer itself had changed them since, events that were due when a listing
  failed to open, and queries with a limit, an offset or a grouping, where a signal about
  one event can change the row of another.
* MisusedAfterFailure: after a failed step `rtcom_el_iter_next()` leaves the pointer to
  a finalised statement (`eventlogger-iter.c:382`), and finalising the iterator uses it.

### What does not hold

Four claims of the repository are refuted by runs:

* `DocDelete`: `rtcom_el_delete_events()` over events of several groups reads a list it has
  freed, and may fail or end the process instead of removing them (`eventlogger.h:503`).
* `DocContact`: an event whose sender has left the address book does not clear
  the uid when no name is stored (comment at line 867).
* `DocRepair`: a process that found a corrupted database unlinks whatever has the
  name by then, also the good one another process has made (`db.c:635`).
* `DocUpgrade`: an `el.db` that cannot be opened, or a converted file that cannot be renamed,
  is followed by the creation of an empty `el-v1.db`, after which nobody converts any more
  (comment at lines 227-231).  `SoundUpgradeKeeps` is the other side: where no step
  fails the comment is right.

Met while modelling, true of the models, but without a run of their own:

* after `rtcom_el_delete_all()` the totals of the groups stay, though no event does
  (`eventlogger.h:443`), and later events are counted on top of them (`CountsStayExact`
  excuses that call);
* the cached flags of a group are not the OR of the flags of its events
  (`eventlogger.h:446`): the update trigger clears bits that other events have, and
  the rebuild adds flags as numbers;
* `rtcom_el_count_by_service(NULL)` counts the events of service -1, that is none
  (`eventlogger.h:547`);
* `rtcom_el_get_last_group_uid()` also returns the group of an event that was
  refused (`eventlogger.h:205`);
* `rtcom_el_add_event_full()` leaves the files it has copied when it fails
  (`eventlogger.h:190`, "one atomic operation");
* after delete_all a listing by group can return an event without a group, when
  the id of a row's event is used again (compare `check_el.c:1588`);
* two processes that convert the old database at once: the second rename puts
  its conversion over a database that is in use, and the events added to it
  since are lost.  The passing run of DbOpen has one process that converts;
* after a failed `rtcom_el_query_prepare()` the clause is gone, and a refresh lists
  everything (`eventlogger-query.h`, "leaving the WHERE clauses unchanged", is said of
  the refresh alone);
* `rtcom_el_get_contacts_events_n()` builds malformed SQL (`remote_ebook_uid=%;`) and
  always returns -1;
* EventUpdated and EventDeleted are also sent when no row matched, and headers and
  attachments that are added are not told at all;
* the local_uid of a signal is that of Remotes, so it is empty for an event without a
  contact (line 3181);
* after its end an iterator still answers `rtcom_el_iter_get_header_raw()`, which does
  not look at the statement: the id may by then be another event's.

## The proofs

### Event store

`EventStoreProofs` and `EventStoreCountProofs` prove, for any sets of loggers,
services, groups and bits and any bounds:

| Theorem | States |
|---|---|
| `StoreInvariant` | `Spec => []IInv` |
| `TypeCorrect` | `Spec => []TypeOK` |
| `GroupsHaveOneRow` | `Spec => []OneRowPerGroup` |
| `GroupsAreListed` | `Spec => []GroupedEventsCached` |
| `PlaceholderNeverLeft` | `Spec => []NoPlaceholder` |
| `RowsAlwaysPointHome` | `Spec => []RowsPointHome` |
| `CountsAreNeverTooLow` | `Spec => []NeverUndercounts` |
| `RefusalsHaveCauses` | `Spec => []RefusedForACause` |
| `RightCountsStayRight` | `Spec => CountsStayExact` |
| `SingleEventFlagsAreItsOwn` | `Spec => []SingleEventFlagsExact` |

The assumptions are those of `EventStore`: the bounds are natural numbers, the
bits are among 0..30, NULL is no group, and IOFaults is a Boolean.

The inductive invariant `IInv` is the conjunction of the first five properties.  None of the last
four is inductive alone.  That a group has one row follows from the placeholder
trigger only because UNIQUE(event_id) refuses the second row of a group, and that
argument needs every row to have an id other than 0 (NoPlaceholder) and the
trigger to update all rows of the group.  RowsPointHome needs that the row of a
stored event's group is there and points no earlier (GroupedEventsCached), so
that `INSERT OR REPLACE`, which removes rows by event id, removes none of another
group; and the removal must not take the only row of a group with events, which
is RowsPointHome again.  After `delete_all` rows point to ids that are free; when
such an id is used again, the row is either of the same group or the new event
is refused, or the new event has no group.

The proof has a lemma for what the two insert triggers do (`InsertedRows`), one
for `update_group_cache()` (`ReplacedRows`), one for any step that deletes events
and keeps the cache of the others (`DeletionIInv`), and one per kind of action;
`FiniteIds` and `MaxOfIds` supply the maximum of the ids of a group.

The counts have an invariant of their own, `CInv`: IInv, NeverUndercounts, and that
every row counts at least one event (`RowsCountEvents`): a row that a deletion left
behind counts an event that is gone, so that with the next event of the group its
counts are wrong, and its flags excused.  TLC has checked it on the instance of the
run.  An INSERT adds one member to a group (`CountsAdded`), an UPDATE moves one
between read and unread (`CountsUpdated`), a deletion raises no count
(`CountsDeleted`), and the rebuild counts anew.  RightCountsStayRight is an action property and needs all of this in the state
before and IInv in the state after: a row with right counts is the row of its group, so
what is done to that row is what is done to its members.  A rebuild leaves a row alone
that the freed list did not name, which is why the property has to excuse deletions over
several groups.  RefusalsHaveCauses leaves two causes: the group has a row under another
service, or the counts of some group are wrong.  SingleEventFlagsAreItsOwn
has to follow the flags through `SUM(flags)`: that the sum of the powers of a set of
bits has those bits (`FlagsAreKept`).  The provers know no powers, and no induction, so
the weight of a set of bits is expressed as the size of a set: with each bit x
the 2^x sets of bits below it.  Then the bits below b weigh less than 2^b, the
ones above it a multiple of 2^(b + 1), and the bit b is read off by division.

### Contacts

`RemotesProofs`, for any loggers, contacts, names and address book uids:

| Theorem | States |
|---|---|
| `RemotesInvariant` | `Spec => []IInv` |
| `RemotesTypeCorrect` | `Spec => []TypeOK` |
| `NamesAreKept` | `Spec => []NameIsLatest` |
| `RemovedUidsStayGone` | `Spec => []RemovedUidsAreGone` |

The assumption is that NULL is no uid (`NullAssumption`).  The step that matters is
`rtcom_el_add_event()`, which compares with columns that are one off.  What it
fetches in place of the name is always NULL, so a name the event brings always
counts as new and is written; the comparison that goes wrong is the one of the
uid, and it can leave an old uid (`DocContact`) but never an old name.

### Headers and attachments

`EventDetailsProofs`, for any loggers, header names and bounds:

| Theorem | States |
|---|---|
| `DetailsInvariant` | `Spec => []IInv` |
| `DetailsTypeCorrect` | `Spec => []TypeOK` |
| `FilesAreTheirOwn` | `Spec => []AttachmentsHaveFiles` |
| `DetailsStay` | `Spec => []DetailsGoWithTheirEvent` |
| `AddedInFull` | `Spec => []FullEventsAreComplete` |

The assumptions are that the bounds are natural numbers and NULL is no logger.
The invariant adds what the properties do not say.  A directory is in the hands
of one call from the moment it is made until its row is inserted, and no row
names it before (`FilesOK`): making it decides the race, not the choice of
the name.  What a ROLLBACK restores is itself complete, and its attachments are
among those there are (`SavedOK`), so that nobody uses their directories meanwhile.
The event that is being added has everything but what its call has yet to insert
(`WholeOK`).  `DetailsGoWithTheirEvent` is kept by the trigger: a deletion takes the
rows of the id with it, so a new event with that id finds none but those that
were added too late for the old one.

### Transactions

`TransactionsProofs`, for any loggers and events, with and without failing
statements, and for programs that heed the note on atomic iterators or do not:

| Theorem | States |
|---|---|
| `TransactionsInvariant` | `Spec => []IInv` |
| `TransactionsTypeCorrect` | `Spec => []TypeOK` |
| `CommittedIsWhole` | `Spec => []CommittedWhole` |
| `NothingIsLeftOpen` | `Spec => []NothingLeftOpen` |
| `AtomicIterSeesOneState` | `Spec => []AtomicSnapshot` |
| `CallsTakeEffectAtOnce` | `Spec /\ contract /\ ~ IOFaults => CallsAreAtomic` |

The assumptions are that NULL is no content of the database, that `"lost"` is no
event, and that IOFaults and the members of Contracts are Booleans.  `IInv` says of
the committed content that it is whole; of the locks that one connection writes at a
time and alone has the file while it commits (`LocksOK`); and of each logger which
statements its kind of call can be at (`PositionOK`), what is still missing from what
it has written when it is there (`ContentOK`), that it has a lock for as long as a
transaction or a SELECT needs one (`KeptLock`), and that the journal is off in
deletions only (`JournalOK`).  `QuietOK` is the part that needs the note to be heeded:
without an atomic iterator there is no transaction outside of a call, and with one
nothing is written.  A program that does not heed it can run the statements of a call
inside the transaction of an iterator, and even then what it commits is whole, since
a call that fails halfway rolls all of it back.

The simulation maps a call to one that has been applied when only the report of its
success is left.  All its steps are steps of CallLog that change nothing, but for the
COMMIT, or the update, that applies it (`Reached`: what was written by then is what
CallLog promises), the first and the last step, a death, and the making of a new file.
Its invariant `SimInv` adds that a damaged file has no writers: a process
that dies with the exclusive lock leaves nobody with anything written.
It cannot do without its two premises.  A program that does not heed the note has
its calls undone or committed by its own iterators, and an I/O error that makes
SQLite roll back while the groups are listed lets a deletion go on without
a transaction.

### Opening

Types, handles and locks are right in all circumstances.  The other properties of
`DbOpen` do not hold of every combination of them (`DocRepair`, and two
conversions at once), so `DbOpenProofs` proves those from a premise that names what
must not coincide, and for two situations without one:

| Theorem | States |
|---|---|
| `FilesAreTyped` | `Spec => []TypeOK` |
| `TransactionsExclude` | `Spec => []OneWriter` |
| `UndisturbedKeeps` | `Spec /\ []Undisturbed => [](HistoryKeptOrSlipped /\ AcknowledgedKept /\ SameFile)` |
| `SoundUpgradeKeeps` | `Spec /\ ~ world.faults /\ []Undisturbed => []HistoryKept` |
| `UndisturbedDeletesOnlyCorrupted` | `Spec /\ []Undisturbed => OnlyCorruptedDeleted` |
| `SoloKeeps` | `Spec /\ Alone(u) => [](HistoryKeptOrSlipped /\ AcknowledgedKept /\ SameFile)` |
| `SoloDeletesOnlyCorrupted` | `Spec /\ Alone(u) => OnlyCorruptedDeleted` |
| `FreshStartShares` | `Spec /\ Fresh => []SameFile` |
| `FreshStartKeepsEvents` | `Spec /\ Fresh => []AcknowledgedKept` |
| `FreshStartKeepsFile` | `Spec /\ Fresh => OnlyCorruptedDeleted` |

The assumptions are that there are finitely many loggers, that NULL is none of them,
and what the worlds are made of.  FilesAreTyped says more than types: who holds a lock has that very file
open and is in a transaction, and a file is open in exactly the steps that use one.
TransactionsExclude adds the converse (`LocksHeld`, which no step of another program
can break) and concludes that two programs are never in a transaction on one file,
whatever happens to its name.

`Undisturbed`: whoever is about to rename or remove a file (the steps *rename*,
*discard*, *unlinkTemp* and *unlinkMain*) is the only program at the database, and nobody
is about to open `el-v1.db` while another program converts.  Everything
else may coincide: any number of programs, deaths and failures anywhere, torn files, and
several conversions tried at once.  The code does not ensure the premise: it
looks at the files before it takes a lock, and unlinks and renames by name after it gave
the lock back.  Each of its five parts is needed: without any one of
them TLC finds, with three programs, a lost history or a
healthy database removed.  So the premise tells which windows of `_ensure_db()` matter.  The
inductive invariant `KeptIInv` consists of what the programs have open (`HandlesOK`: the file that is
named now, and no `el-v1.db` while one converts), of what a conversion has ready
(`ConversionOK`: all of the history, until the rename, and if that fails, `slipped`), of `LocksHeld`, by which
only one program fills the temporary file, and of the two properties.
`OthersAt` draws the conclusion that each step needs, who can be busy beside it.
Where no step fails nothing slips: a rename could only miss a temporary file that somebody
else has removed, and that somebody is not undisturbed (`SoundUpgradeKeeps`).
`Alone(u)`: only one program runs, with or without an old database, and may die and fail
at any step; it is never disturbed (`AloneIsUndisturbed`), so its theorems follow.
`Fresh`: there is no old database and no process dies or fails, with any number
of programs.  The argument is that the name `el-v1.db` is bound once: who finds no
file makes one, who comes later opens the same, and no file is ever torn, so
nobody unlinks it.

All rest on `FreeFileIsFree`, that there is always a number
for a new file: each logger has at most one of the files open, and of the two names one
is free when a file is made.  That is where the set of loggers has to be finite.

### Plugins

`PluginsProofs`, for any loggers, plugins, names and bounds:

| Theorem | States |
|---|---|
| `PluginsInvariant` | `Spec => []Base` |
| `PluginsTypeCorrect` | `Spec => []TypeOK` |
| `AcceptedIsListed` | `Spec => []EventsStayVisible` |
| `AskedAboutItsService` | `Spec => []LoadedForItsService` |
| `FoundHasItsRows` | `Spec /\ DistinctNames => []FoundIsRegistered` |
| `LoadedAreKnown` | `Spec /\ DistinctNames => []LoadedCanBeUsed` |
| `WakeupsAreNotLost` | `MaxMail > 0` implies `Spec => []WakeupUnderWay` |

The inductive invariant `Base` says of the mappings that they are part of the tables,
which only grow (`CachesOK`); of a logger that did not give up which mappings it has
read in its phase (`PhasesOK`); of a registration under way that every row of it is
either still to be written or in the tables by its plugin (`JobsOK`); and of plugins
that were loaded which service they belong to (`LoadedOK`).  FoundIsRegistered adds
`FoundOK`: a plugin with a row is complete, abandoned, or being registered.  It is
proved of plugins with different names (`DistinctNames`), which the row in the table
Plugins goes by.  LoadedAreKnown adds that what a mapping lacks of its table came after the
logger had read it (`MappingsOK`), and that a plugin that is loaded has its row in
Plugins (`KnownOK`), so that by FoundOK all its rows are in the tables.

WakeupsAreNotLost is the safety half of the liveness property WaitingAreTold: a logger that
waits while the database is there has a DbReopen in its mailbox, or another
logger that will send one is between opening and the end of `_ensure_db()`, unless a
process died or a logger gave up, or the waiting logger is one whose own opening failed
when the database was there.  A logger that answers a DbReopen sends none, so
the proof has to show that the first to have the database was not answering:
nobody has been told anything before (`FirstAnnounces`).  `MaxMail > 0` asks that
the bound lets one message through.

### Queries, iterators, signals and views

`ClientViewProofs`, for any programs, viewers, ids, conditions, settings and bounds:

| Theorem | States |
|---|---|
| `ViewInvariant` | `Spec => []IInv` |
| `MisuseFollowsFailure` | `Spec => []MisusedAfterFailure` |
| `ScansAreComplete` | `Spec => []ScansMissNothing` |
| `WholeEventsAreStored` | `Spec => []WholeEventIsStored` |
| `OnlyTheAskedAreDeleted` | `Spec => DeletesOnlyAsked` |
| `StaleIsAlwaysAnnounced` | `Spec => []StaleIsAnnounced` |
| `PagesJoin` | two pages in a row are the page of both limits |

The assumptions are those of the modules: ids are finitely many positive numbers,
conditions, settings, batches and worlds are what their names say, and NULL is no
content, clause, signal or iterator (`NullAssumption`, `SignalAssumption`,
`IteratorAssumption`): in C the pointer to one is not NULL.

The first part of the module is about data.  A query lists each of its ids once and
downwards (`DescendingIs`, `PageIs`, `RowsAre`; lists are shown to exist by taking a
smallest set that has none).  The second is about one pass of a statement over the
rows, and its invariant `PassInv` is the heart of the matter.  It relates what the pass
has given (`got`) to what was due when it began (`Rows` of `base`): what it gave goes
down; a sorted pass, or one that has given nothing, has the rest of what is due ahead of
it; and every event due of a plain query has been given, lies further down, or has
been changed by the iterator's own program since (`touched`).  A walk over the
table needs that the table below the last id is the one it began with: no other
connection commits while the statement is active (`BaseKept`), and what its own program
changes is in `touched`.  PassInv is about the pass alone, so that it is kept by every
step that leaves the pass alone, and `PassDone` follows when nothing is ahead.

The inductive invariant `IInv` adds what a query's clause was prepared from
(`QueryInv`), what calls have yet to do (`SignalTypes`), that an active iterator's row is
the stored one or touched (`IterInv`), the same for attachments (`AttachedInv`), and
that a viewer with nothing to show has an empty view while one that lists shows what its
iterator lists (`ViewInv`).  Where a listing or a reading failed to open, what it should have
shown is in `unread`, and the proof has to show that nothing else is missing.  StaleIsAnnounced is inductive with it: its proof looks at one
id at a time (`Accounted`), and has for each step of a program the question what happens
to the announcement, to the rows ahead, and to what is shown.  TLC has checked all
the parts of IInv on the instance of the run `ClientView` before they were proved.

### What is only model-checked

The liveness properties (CallsReturn, EveryoneOpens, WaitingAreTold and ViewsSettle): they
follow from fairness, and TLAPS does not do ENABLED.  Of WaitingAreTold and ViewsSettle
the safety half is proved (WakeupsAreNotLost, StaleIsAlwaysAnnounced): what is waited for
is under way.  That it arrives is what TLC checks.

The run of `DbOpen` has the circumstances in the table of runs, without a premise; that
several programs with an old database keep it while they are undisturbed is proved only.
SameFile, AcknowledgedKept, HistoryKeptOrSlipped and OnlyCorruptedDeleted have no
proof without premises, as they do not hold then.

## What is left out

* Columns and arguments no property tells apart: times, texts, byte counts.
* Memory management of the C code, and threads: the library is used from one.
* The page cache: a ROLLBACK with `journal_mode = OFF` is taken to restore what was
  deleted, which SQLite does only as long as it has not written pages early.
* The making of `~/.rtcom-eventlogger` (two processes can race for it; the loser's
  call fails and the next one succeeds).
* The row-by-row conversion (`db.c:334-492`) is one step with two outcomes.
* `quick_check` reports most corruption in rows of text, which the code does not
  read; only corruption that makes the statement fail counts as *torn* here.
* Event objects (`event.c`): a record with a bit per field that is set, without
  behaviour over time.  `rtcom_el_event_equals()` skips a field that only one side
  has set, so it is not transitive; no call of the library depends on it.
* What a plugin computes: its `init()`, the texts, icons and header_raw of a row.
  The library calls it with a row and keeps nothing of the answer.
* In Plugins: a session bus that is missing (nobody is told anything then), the
  RefreshHint a logger emits for itself, and more than MaxMail DbReopen under way.
* Of a signal, all but its name and the event it is about: the viewer of ClientView
  reads the event again.
* Listings grouped by group: they join GroupCache, whose rows EventStore models, and which
  is stale after `rtcom_el_delete_all()`.
* What the heap is like after `update_group_cache()` has freed its list twice: the call
  ends in one of the ways described, and the process goes on or dies.
* Command line client, tests, and the scripts for backup, restore and clean.  The
  scripts replace the file while programs may run, which no code here answers.
* The C headers, apart from what they promise (`Doc...`), and GObject boilerplate.

## Plan

Done: EventStore, Transactions with CallLog, EventDetails, Remotes, DbOpen, Plugins,
Queries, Signals and Iterators with their composition ClientView, and the proofs of
all their safety properties.

Left, should the code change or the tools allow it:

1. If `_ensure_db()` ever keeps a lock from its first look at the files to the last
   rename: drop the premise `Undisturbed`, and `DocRepair` with it.
2. Proofs of the liveness properties, from the safety halves that are there, with a
   prover for ENABLED.
