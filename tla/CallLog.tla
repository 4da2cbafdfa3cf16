------------------------------ MODULE CallLog ------------------------------
(***************************************************************************)
(* What the library promises to the programs that share one event log:     *)
(* every call that changes the log takes effect at one instant between its *)
(* start and its return, as a whole, exactly if it reports success.        *)
(* Transactions implements it with SQLite transactions and locks.          *)
(***************************************************************************)
CONSTANTS
    Loggers,  \* RTComEl objects, each in a process of its own
    Events,   \* what can be logged
    NULL      \* no name

VARIABLES
    log,    \* the shared log, or Lost
    calls,  \* the call each logger executes
    reply   \* how the last call of each logger ended

vars == <<log, calls, reply>>

Kinds == {"add", "delete", "deleteBy", "deleteAll", "update", "contacts"}
Deletions == {"delete", "deleteBy", "deleteAll"}

\* names: the names of two contacts, which one call may set together.
Empty == [events |-> {}, read |-> {}, names |-> <<NULL, NULL>>]
Lost  == [events |-> {}, read |-> {}, names |-> <<"lost", "lost">>]

Gone(kind, e) == IF kind = "deleteAll" THEN Events ELSE {e}

\* The effect of a call of that kind about e.
Applied(kind, e, l) ==
    CASE kind = "add"       -> [l EXCEPT !.events = @ \cup {e}]
      [] kind \in Deletions -> [l EXCEPT !.events = @ \ Gone(kind, e),
                                         !.read   = @ \ Gone(kind, e)]
      [] kind = "update"    -> [l EXCEPT !.read = @ \cup ({e} \cap l.events)]
      [] kind = "contacts"  -> [l EXCEPT !.names = <<e, e>>]

NoCall == [kind |-> "none", ev |-> NULL, applied |-> FALSE]

Init == /\ log = Empty
        /\ calls = [p \in Loggers |-> NoCall]
        /\ reply = [p \in Loggers |-> "none"]

Invoke(p, kind, e) ==
    /\ calls[p] = NoCall
    /\ kind = "add" => e \notin log.events
    /\ calls' = [calls EXCEPT ![p] = [kind |-> kind, ev |-> e, applied |-> FALSE]]
    /\ reply' = [reply EXCEPT ![p] = "none"]
    /\ UNCHANGED log

Apply(p) ==
    /\ calls[p] # NoCall /\ ~ calls[p].applied
    /\ log # Lost
    /\ log' = Applied(calls[p].kind, calls[p].ev, log)
    /\ calls' = [calls EXCEPT ![p].applied = TRUE]
    /\ UNCHANGED reply

Return(p) ==
    /\ calls[p] # NoCall
    /\ reply' = [reply EXCEPT ![p] = IF calls[p].applied THEN "ok" ELSE "failed"]
    /\ calls' = [calls EXCEPT ![p] = NoCall]
    /\ UNCHANGED log

\* A process dies.  If it dies in a call that deletes, the log may be lost.
Crash(p) ==
    /\ calls' = [calls EXCEPT ![p] = NoCall]
    /\ reply' = [reply EXCEPT ![p] = "none"]
    /\ \/ UNCHANGED log
       \/ calls[p].kind \in Deletions /\ log' = Lost

\* Whoever opens a lost log starts a new one.
Recreate == log = Lost /\ log' = Empty /\ UNCHANGED <<calls, reply>>

Next == \/ \E p \in Loggers :
              \/ \E kind \in Kinds, e \in Events : Invoke(p, kind, e)
              \/ Apply(p) \/ Return(p) \/ Crash(p)
        \/ Recreate

Spec == Init /\ [][Next]_vars

============================================================================
