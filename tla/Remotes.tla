------------------------------ MODULE Remotes ------------------------------
(***************************************************************************)
(* The table Remotes: the name and the address book id (abook_uid) of      *)
(* every contact that is in an event.  rtcom_el_add_event() looks the      *)
(* contact up, remembers what it found and writes it later, in the same    *)
(* exclusive transaction; rtcom_el_update_remote_contacts() and            *)
(* rtcom_el_remove_abook_uids() overwrite rows without looking.            *)
(***************************************************************************)
EXTENDS TLC

CONSTANTS
    Loggers,
    Contacts,  \* pairs of a local_uid and a remote_uid
    Names,     \* remote names and abook uids are strings, which the code
    Abooks,    \* compares with each other: a string may be in both sets
    NULL

ASSUME NullAssumption == NULL \notin Abooks

VARIABLES
    remotes,  \* Remotes: contact -> [name, abook]
    adding,   \* the add_event() that holds the exclusive lock, or NULL
    latest,   \* the last name and abook uid somebody stored for each contact
    removed   \* abook uids removed, and not supplied again since

vars == <<remotes, adding, latest, removed>>

Row == [name : Names \cup {NULL}, abook : Abooks \cup {NULL}]

Known(c) == c \in DOMAIN remotes

---------------------------------------------------------------------------
(* rtcom_el_add_event()                                                    *)

\* Mutant of Fetched: the columns are off by one the other way.
FetchedBefore(row) == [abook |-> NULL, name |-> row.abook]

\* _fetch_remote_data(): the SELECT has the columns abook_uid and
\* remote_name, numbered from 0, and the code reads the columns 1 and 2.
Fetched(row) == [abook |-> row.name, name |-> NULL]

\* BEGIN EXCLUSIVE and the SELECT.
Lookup(p, c, row) ==
    /\ adding = NULL
    /\ adding' = [logger |-> p, contact |-> c, new |-> row, exists |-> Known(c),
                  existing |-> IF Known(c) THEN Fetched(remotes[c])
                               ELSE [abook |-> NULL, name |-> NULL]]
    /\ UNCHANGED <<remotes, latest, removed>>

\* A column is updated if what the event brings differs from what was
\* fetched (two UPDATE statements).
Merged(stored, new, existing) ==
    [abook |-> IF new.abook # existing.abook THEN new.abook ELSE stored.abook,
     name  |-> IF new.name # existing.name THEN new.name ELSE stored.name]

\* What the entry should say after the event: an event without a name says
\* nothing of the name, one without abook uid is from someone not in it.
Wanted(before, new) ==
    [abook |-> new.abook, name |-> IF new.name # NULL THEN new.name ELSE before.name]

\* The table with this row for the contact, which it may not have yet.
WithRow(rows, c, row) ==
    [d \in DOMAIN rows \cup {c} |-> IF d = c THEN row ELSE rows[d]]

\* The INSERT or the UPDATEs of the contact, and COMMIT.
Store(p) ==
    LET c == adding.contact
        new == adding.new
    IN  /\ adding # NULL /\ adding.logger = p
        /\ remotes' = WithRow(remotes, c, IF adding.exists
                                          THEN Merged(remotes[c], new, adding.existing)
                                          ELSE new)
        /\ latest' = WithRow(latest, c, IF Known(c) THEN Wanted(latest[c], new) ELSE new)
        /\ removed' = removed \ {new.abook}
        /\ adding' = NULL

\* ROLLBACK, or the process dies.
Abort(p) ==
    /\ adding # NULL /\ adding.logger = p
    /\ adding' = NULL
    /\ UNCHANGED <<remotes, latest, removed>>

---------------------------------------------------------------------------
(* The batches; one that fails is rolled back and no step                  *)

\* Mutant of UpdateRemoteContacts: unknown contacts get a row.
UpsertRemoteContacts(batch) ==
    /\ adding = NULL
    /\ remotes' = batch @@ remotes
    /\ latest' = [c \in DOMAIN latest |-> IF c \in DOMAIN batch THEN batch[c] ELSE latest[c]]
    /\ removed' = removed \ {batch[c].abook : c \in DOMAIN batch}
    /\ UNCHANGED adding

\* rtcom_el_update_remote_contacts(): unknown contacts match no row; of two
\* entries for one contact the last one counts.
UpdateRemoteContacts(batch) ==
    LET hit == DOMAIN batch \cap DOMAIN remotes
        changed(rows) == [c \in DOMAIN rows |-> IF c \in hit THEN batch[c] ELSE rows[c]]
    IN  /\ adding = NULL
        /\ remotes' = changed(remotes)
        /\ latest' = changed(latest)
        /\ removed' = removed \ {batch[c].abook : c \in hit}
        /\ UNCHANGED adding

\* Mutant of RemoveAbookUids: only one row of each uid is cleared.
RemoveOneOfEach(uids) ==
    LET first(c) == c = CHOOSE d \in DOMAIN remotes : remotes[d].abook = remotes[c].abook
    IN  /\ adding = NULL
        /\ remotes' = [c \in DOMAIN remotes |->
                        IF remotes[c].abook \in uids /\ first(c)
                        THEN [remotes[c] EXCEPT !.abook = NULL] ELSE remotes[c]]
        /\ removed' = removed \cup uids
        /\ UNCHANGED <<adding, latest>>

\* rtcom_el_remove_abook_uids()
RemoveAbookUids(uids) ==
    LET without(rows) == [c \in DOMAIN rows |-> IF rows[c].abook \in uids
                                                THEN [rows[c] EXCEPT !.abook = NULL]
                                                ELSE rows[c]]
    IN  /\ adding = NULL
        /\ remotes' = without(remotes)
        /\ latest' = without(latest)
        /\ removed' = removed \cup uids
        /\ UNCHANGED adding

NoRows == [c \in {} |-> NULL]

Init == remotes = NoRows /\ adding = NULL /\ latest = NoRows /\ removed = {}

Batches == UNION {[cs -> Row] : cs \in (SUBSET Contacts) \ {{}}}

Next ==
    \/ \E p \in Loggers :
          \/ \E c \in Contacts, row \in Row : Lookup(p, c, row)
          \/ Store(p)
          \/ Abort(p)
    \/ \E batch \in Batches : UpdateRemoteContacts(batch)
    \/ \E uids \in (SUBSET Abooks) \ {{}} : RemoveAbookUids(uids)

Spec == Init /\ [][Next]_vars

---------------------------------------------------------------------------
(* Properties                                                              *)

\* The columns keep their types; what add_event() remembers between its
\* SELECT and its UPDATEs is still what is stored.
TypeOK ==
    /\ DOMAIN remotes \subseteq Contacts
    /\ DOMAIN latest = DOMAIN remotes
    /\ \A c \in DOMAIN remotes : remotes[c] \in Row /\ latest[c] \in Row
    /\ removed \subseteq Abooks
    /\ adding # NULL => /\ adding.exists = Known(adding.contact)
                        /\ adding.existing.abook \in Names \cup {NULL}
                        /\ adding.existing.name = NULL

\* A contact is stored with the last name anybody gave it, in an event or in
\* an update: no comparison with a fetched value keeps a new name out.
NameIsLatest == \A c \in DOMAIN remotes : remotes[c].name = latest[c].name

\* An abook uid that was removed is found with no contact until it is
\* supplied again.
RemovedUidsAreGone == \A c \in DOMAIN remotes : remotes[c].abook \notin removed

\* Comment in _add_event_core(): "Otherwise, update existing entry with new
\* data" when the contact is added to or removed from the address book.
AbookIsLatest == \A c \in DOMAIN remotes : remotes[c].abook = latest[c].abook

===========================================================================
