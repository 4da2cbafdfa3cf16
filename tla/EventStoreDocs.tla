-------------------------- MODULE EventStoreDocs --------------------------
(***************************************************************************)
(* What eventlogger.h says of the calls that delete events.  TLC refutes   *)
(* it for the code.                                                        *)
(***************************************************************************)
EXTENDS EventStore

\* eventlogger.h: rtcom_el_delete_events "Removes all the events matching a
\* query": no statement fails here, so no call may end without doing that.
MatchingEventsAreRemoved == error # "garbled"

===========================================================================
