------------------------------ MODULE Signals ------------------------------
(***************************************************************************)
(* The calls of several programs that change the table Events, and what    *)
(* they tell the others on D-Bus after each commit.  The commit and the    *)
(* signal are two steps: others commit, signal and read in between, and a  *)
(* program may end in between.  An id is used again once no event with a   *)
(* higher one is left (INTEGER PRIMARY KEY without AUTOINCREMENT).         *)
(***************************************************************************)
EXTENDS Queries

CONSTANTS
    Programs,
    Batches     \* the id lists passed to rtcom_el_set_read_events()

ASSUME ProgramsAssumption == Viewers \subseteq Programs
ASSUME BatchesAssumption == Batches \subseteq Seq(Ids)

VARIABLES
    store,   \* the committed table Events: id -> content, NULL if there is none
    call,    \* what the call each program is in has yet to do
    mail,    \* the signals each viewer has not dispatched
    untold,  \* ids whose last change was never signalled
    changes, \* how many calls changed something
    deaths   \* how many programs have ended

Names == {"NewEvent", "EventUpdated", "EventDeleted", "AllDeleted", "RefreshHint"}
\* What else a signal carries is read from the tables again to be sent, and
\* tells no more than the id does.
Signal == [name : Names, id : Ids \cup {NULL}]
ASSUME SignalAssumption == NULL \notin Signal
About(name, id) == [name |-> name, id |-> id]

\* The events whose listing a signal puts in question.
Concerns(signal) == IF signal.id = NULL THEN Ids ELSE {signal.id}

\* emit: the signal to send next; rest: ids that set_read_events() has yet
\* to update, and the value for them.
Nothing == [emit |-> NULL, rest |-> <<>>, read |-> FALSE]
Idle(p) == call[p] = Nothing

---------------------------------------------------------------------------
(* The calls: each commits, and has then a signal to send                  *)

Commits(p, s, signal) ==
    /\ Idle(p) /\ changes < world.changes
    /\ store' = s
    /\ call' = [call EXCEPT ![p].emit = signal]
    /\ changes' = changes + 1
    /\ UNCHANGED <<mail, untold, deaths>>

NewId(s) == 1 + Max(Stored(s) \cup {0})
Without(s, ids) == [id \in Ids |-> IF id \in ids THEN NULL ELSE s[id]]
With(contact) == {id \in Stored(store) : store[id].contact = contact}

\* rtcom_el_add_event(), rtcom_el_add_event_full().
AddEvent(p, contact) ==
    /\ NewId(store) \in Ids
    /\ Commits(p, [store EXCEPT ![NewId(store)] = [read |-> FALSE, contact |-> contact]],
               About("NewEvent", NewId(store)))

\* rtcom_el_delete_event(), also of an event that is not there.
DeleteEvent(p, id) == Commits(p, Without(store, {id}), About("EventDeleted", id))

\* rtcom_el_delete_by_service(), rtcom_el_delete_by_group_uids() and
\* rtcom_el_delete_all() delete by other columns, for which the contact stands
\* here; they do not say which events.
DeleteBy(p, contact) ==
    \E name \in {"AllDeleted", "RefreshHint"} :
        Commits(p, Without(store, With(contact)), About(name, NULL))
DeleteAll(p) == Commits(p, Without(store, Ids), About("AllDeleted", NULL))

\* rtcom_el_delete_events(): the clause alone, without limit and grouping,
\* and not without a clause.
DeleteEvents(p) ==
    /\ query[p].where # NULL
    /\ Commits(p, Without(store, Matching(query[p].where, store)), About("RefreshHint", NULL))

\* rtcom_el_set_read_events(); rtcom_el_set_read_event(), set_event_flag(),
\* unset_event_flag() and set_end_time() are batches of one.
SetReadEvents(p, ids, read) ==
    /\ Idle(p) /\ changes < world.changes
    /\ call' = [call EXCEPT ![p] = [emit |-> NULL, rest |-> ids, read |-> read]]
    /\ changes' = changes + 1
    /\ UNCHANGED <<store, mail, untold, deaths>>

\* Mutant of UpdateNext: only the last update is told.
UpdateNextQuiet(p) ==
    LET id == Head(call[p].rest)
    IN  /\ call[p].emit = NULL /\ call[p].rest # <<>>
        /\ store' = IF store[id] = NULL THEN store ELSE [store EXCEPT ![id].read = call[p].read]
        /\ call' = [call EXCEPT ![p].emit = IF Tail(call[p].rest) = <<>>
                                            THEN About("EventUpdated", id) ELSE NULL,
                                ![p].rest = Tail(@)]
        /\ UNCHANGED <<mail, untold, changes, deaths>>

\* The UPDATE of one event, which may match no row.
UpdateNext(p) ==
    LET id == Head(call[p].rest)
    IN  /\ call[p].emit = NULL /\ call[p].rest # <<>>
        /\ store' = IF store[id] = NULL THEN store ELSE [store EXCEPT ![id].read = call[p].read]
        /\ call' = [call EXCEPT ![p].emit = About("EventUpdated", id), ![p].rest = Tail(@)]
        /\ UNCHANGED <<mail, untold, changes, deaths>>

\* An UPDATE fails: the rest of the list is left alone.
UpdateFails(p) ==
    /\ call[p].emit = NULL /\ call[p].rest # <<>>
    /\ call' = [call EXCEPT ![p] = Nothing]
    /\ UNCHANGED <<store, mail, untold, changes, deaths>>

Returned(c) == IF c.emit = NULL /\ c.rest = <<>> THEN Nothing ELSE c

\* Mutant of Emit: the sender gets no signal.
EmitElsewhere(p) ==
    /\ call[p].emit # NULL
    /\ mail' = [v \in Viewers |-> IF v = p THEN mail[v] ELSE Append(mail[v], call[p].emit)]
    /\ call' = [call EXCEPT ![p] = Returned([@ EXCEPT !.emit = NULL])]
    /\ untold' = untold \ Concerns(call[p].emit)
    /\ UNCHANGED <<store, changes, deaths>>

\* _emit_dbus(): the bus hands it to everybody who listens, the sender too.
Emit(p) ==
    /\ call[p].emit # NULL
    /\ mail' = [v \in Viewers |-> Append(mail[v], call[p].emit)]
    /\ call' = [call EXCEPT ![p] = Returned([@ EXCEPT !.emit = NULL])]
    /\ untold' = untold \ Concerns(call[p].emit)
    /\ UNCHANGED <<store, changes, deaths>>

\* The program ends between a commit and its signal, or anywhere else.
End(p) ==
    /\ deaths < world.deaths
    /\ deaths' = deaths + 1
    /\ untold' = IF call[p].emit = NULL THEN untold ELSE untold \cup Concerns(call[p].emit)
    /\ call' = [call EXCEPT ![p] = Nothing]
    /\ mail' = [v \in Viewers |-> IF v = p THEN <<>> ELSE mail[v]]
    /\ UNCHANGED <<store, changes>>

\* _dbus_filter_callback() takes the first signal.
Dispatch(p) ==
    /\ mail[p] # <<>>
    /\ mail' = [mail EXCEPT ![p] = Tail(@)]
    /\ UNCHANGED <<store, call, untold, changes, deaths>>

============================================================================
