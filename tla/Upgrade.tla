------------------------------ MODULE Upgrade ------------------------------
(***************************************************************************)
(* What a database file is promised across start-ups, crashes and upgrades *)
(* of the schema: no recorded event is ever lost, and the schema only moves *)
(* forward, never back to an older form.                                   *)
(***************************************************************************)
CONSTANTS
    Events,
    Cols     \* the columns an older schema lacks

VARIABLES
    log,     \* the events a reader of the file finds
    strict,  \* whether an event without a user is refused
    cols     \* the columns the file has

Init ==
    /\ log \in SUBSET Events
    /\ strict \in BOOLEAN
    /\ cols \in SUBSET Cols

Append(e) == log' = log \cup {e} /\ UNCHANGED <<strict, cols>>

Relax == strict /\ ~strict' /\ UNCHANGED <<log, cols>>

AddColumns == cols \subseteq cols' /\ cols' \subseteq Cols /\ UNCHANGED <<log, strict>>

Next == (\E e \in Events : Append(e)) \/ Relax \/ AddColumns

Spec == Init /\ [][Next]_<<log, strict, cols>>
=============================================================================
