--------------------------- MODULE RemotesProofs ---------------------------
(***************************************************************************)
(* The invariants of Remotes hold for any sets of loggers, contacts, names *)
(* and address book uids.                                                  *)
(***************************************************************************)
EXTENDS Remotes, TLAPS

\* What TypeOK leaves open and add_event() relies on: the contact and the
\* row it remembers are such.
AddingOK ==
    adding # NULL => adding.contact \in Contacts /\ adding.new \in Row

IInv == TypeOK /\ AddingOK /\ NameIsLatest /\ RemovedUidsAreGone

LEMMA InitIInv == Init => IInv
  BY DEF Init, NoRows, IInv, TypeOK, AddingOK, NameIsLatest, RemovedUidsAreGone, Row

LEMMA LookupIInv ==
    ASSUME IInv, NEW p \in Loggers, NEW c \in Contacts, NEW row \in Row, Lookup(p, c, row)
    PROVE  IInv'
  <1>1. /\ Fetched(remotes[c]).name = NULL
        /\ Known(c) => Fetched(remotes[c]).abook \in Names \cup {NULL}
    BY DEF IInv, TypeOK, Fetched, Known, Row
  <1>2. /\ UNCHANGED <<remotes, latest, removed>>
        /\ adding'.exists = Known(c) /\ adding'.contact = c /\ adding'.new = row
        /\ adding'.existing = IF Known(c) THEN Fetched(remotes[c])
                              ELSE [abook |-> NULL, name |-> NULL]
    BY DEF Lookup
  <1>3. TypeOK'
    BY <1>1, <1>2 DEF IInv, TypeOK, Known
  <1> QED
    BY <1>2, <1>3 DEF IInv, AddingOK, NameIsLatest, RemovedUidsAreGone

\* The contact's row gets the new name, if the event brings one, for what was
\* fetched as its name is always NULL.
LEMMA StoreIInv ==
    ASSUME IInv, NEW p \in Loggers, Store(p)
    PROVE  IInv'
  <1> DEFINE c == adding.contact
             new == adding.new
             row == IF adding.exists THEN Merged(remotes[c], new, adding.existing) ELSE new
             last == IF Known(c) THEN Wanted(latest[c], new) ELSE new
  <1>1. /\ c \in Contacts /\ new \in Row
        /\ adding.exists = Known(c)
        /\ adding.existing.name = NULL
    BY DEF IInv, TypeOK, AddingOK, Store
  <1>2. /\ remotes' = WithRow(remotes, c, row)
        /\ latest' = WithRow(latest, c, last)
        /\ removed' = removed \ {new.abook}
        /\ adding' = NULL
    BY DEF Store
  <1>3. /\ row \in Row /\ last \in Row
        /\ row.name = last.name
        /\ row.abook = new.abook \/ (c \in DOMAIN remotes /\ row.abook = remotes[c].abook)
    BY <1>1 DEF IInv, TypeOK, NameIsLatest, Known, Merged, Wanted, Row
  <1> HIDE DEF c, new, row, last
  <1>4. /\ DOMAIN remotes' = DOMAIN remotes \cup {c}
        /\ DOMAIN latest' = DOMAIN latest \cup {c}
        /\ remotes'[c] = row /\ latest'[c] = last
        /\ \A d \in DOMAIN remotes : d # c => remotes'[d] = remotes[d]
        /\ \A d \in DOMAIN latest : d # c => latest'[d] = latest[d]
    BY <1>2 DEF WithRow
  <1>5. TypeOK'
    BY <1>1, <1>2, <1>3, <1>4 DEF IInv, TypeOK
  <1>6. NameIsLatest'
    BY <1>3, <1>4 DEF IInv, TypeOK, NameIsLatest
  <1>7. RemovedUidsAreGone'
    BY <1>2, <1>3, <1>4 DEF IInv, RemovedUidsAreGone
  <1> QED
    BY <1>2, <1>5, <1>6, <1>7 DEF IInv, AddingOK

LEMMA UpdateIInv ==
    ASSUME IInv, NEW batch \in Batches, UpdateRemoteContacts(batch)
    PROVE  IInv'
  <1> DEFINE hit == DOMAIN batch \cap DOMAIN remotes
  <1>1. \A c \in DOMAIN batch : batch[c] \in Row
    BY DEF Batches
  <1>2. /\ remotes' = [c \in DOMAIN remotes |-> IF c \in hit THEN batch[c] ELSE remotes[c]]
        /\ latest' = [c \in DOMAIN latest |-> IF c \in hit THEN batch[c] ELSE latest[c]]
        /\ removed' = removed \ {batch[c].abook : c \in hit}
        /\ adding' = NULL
    BY DEF UpdateRemoteContacts
  <1>3. TypeOK'
    BY <1>1, <1>2 DEF IInv, TypeOK
  <1>4. NameIsLatest'
    BY <1>2 DEF IInv, TypeOK, NameIsLatest
  <1>5. RemovedUidsAreGone'
    BY <1>2 DEF IInv, RemovedUidsAreGone
  <1> QED
    BY <1>2, <1>3, <1>4, <1>5 DEF IInv, AddingOK

LEMMA RemoveIInv ==
    ASSUME IInv, NEW uids \in SUBSET Abooks, RemoveAbookUids(uids)
    PROVE  IInv'
  <1>1. /\ remotes' = [c \in DOMAIN remotes |-> IF remotes[c].abook \in uids
                                                THEN [remotes[c] EXCEPT !.abook = NULL]
                                                ELSE remotes[c]]
        /\ latest' = [c \in DOMAIN latest |-> IF latest[c].abook \in uids
                                              THEN [latest[c] EXCEPT !.abook = NULL]
                                              ELSE latest[c]]
        /\ removed' = removed \cup uids
        /\ adding' = NULL
    BY DEF RemoveAbookUids
  <1>2. \A row \in Row : LET cleared == [row EXCEPT !.abook = NULL]
                         IN  cleared \in Row /\ cleared.name = row.name /\ cleared.abook = NULL
    BY DEF Row
  <1>3. TypeOK'
    BY <1>1, <1>2 DEF IInv, TypeOK
  <1>4. NameIsLatest'
    BY <1>1, <1>2 DEF IInv, TypeOK, NameIsLatest
  <1>5. RemovedUidsAreGone'
    BY <1>1, <1>2, NullAssumption DEF IInv, TypeOK, RemovedUidsAreGone
  <1> QED
    BY <1>1, <1>3, <1>4, <1>5 DEF IInv, AddingOK

\* The conjunction of the invariants, with what add_event() remembers, is
\* kept by every call on the table Remotes.
THEOREM RemotesInvariant == Spec => []IInv
  <1>1. IInv /\ [Next]_vars => IInv'
    <2> SUFFICES ASSUME IInv, [Next]_vars PROVE IInv'
      OBVIOUS
    <2>1. ASSUME NEW p \in Loggers, NEW c \in Contacts, NEW row \in Row, Lookup(p, c, row)
          PROVE  IInv'
      BY <2>1, LookupIInv
    <2>2. ASSUME NEW p \in Loggers, Store(p)
          PROVE  IInv'
      BY <2>2, StoreIInv
    <2>3. ASSUME NEW p \in Loggers, Abort(p)
          PROVE  IInv'
      BY <2>3 DEF Abort, IInv, TypeOK, AddingOK, NameIsLatest, RemovedUidsAreGone
    <2>4. ASSUME NEW batch \in Batches, UpdateRemoteContacts(batch)
          PROVE  IInv'
      BY <2>4, UpdateIInv
    <2>5. ASSUME NEW uids \in SUBSET Abooks, RemoveAbookUids(uids)
          PROVE  IInv'
      BY <2>5, RemoveIInv
    <2>6. CASE UNCHANGED vars
      BY <2>6 DEF vars, IInv, TypeOK, Known, AddingOK, NameIsLatest, RemovedUidsAreGone
    <2> QED
      BY <2>1, <2>2, <2>3, <2>4, <2>5, <2>6 DEF Next
  <1> QED
    BY InitIInv, <1>1, PTL DEF Spec

\* The columns of Remotes keep their types, and what add_event() fetched is
\* not outdated when it writes.
THEOREM RemotesTypeCorrect == Spec => []TypeOK
  BY RemotesInvariant, PTL DEF IInv

\* Every contact is stored with the last name anybody gave it.
THEOREM NamesAreKept == Spec => []NameIsLatest
  BY RemotesInvariant, PTL DEF IInv

\* A removed address book uid stays removed until it is supplied again.
THEOREM RemovedUidsStayGone == Spec => []RemovedUidsAreGone
  BY RemotesInvariant, PTL DEF IInv

============================================================================
