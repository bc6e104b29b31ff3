--------------------------- MODULE MCAuthentication ---------------------------
(***************************************************************************)
(* Accounts that sessions of the user service and the endpoints change     *)
(* while a request is authenticated.  To keep the product small, either    *)
(* the second session or the request was over before the run starts.       *)
(***************************************************************************)
EXTENDS Authentication, TLC

CONSTANTS u1, s2, c1, l1, k1

\* One account, enrolled by one person or only signed up.
MCTables ==
    \A u \in Uids : IF u # u1 THEN users[u] = Nothing ELSE
        /\ users[u] # Nothing
        /\ users[u].active
        /\ users[u].col["contact"] = c1 /\ users[u].col["lang"] = l1
        /\ users[u].col["voice"] = users[u].col["face"]

Lost == [op |-> "language", ask |-> [c \in Columns |-> IF c = "lang" THEN l1 ELSE Nothing]]

Refused == [kind |-> "challenge", user |-> Nothing, provider |-> "none",
            input |-> [i \in Inputs["challenge"] |-> k1]]

MCInit ==
    /\ users \in [Uids -> {row \in Row : Account(row)} \cup {Nothing}]
    /\ MCTables
    /\ log = {}
    /\ copy = [s \in Sessions |-> Nothing]
    /\ writes = 0
    /\ held = [r \in Requests |-> Nothing]
    /\ heard = [r \in Requests |-> FALSE]
    /\ seen = [r \in Requests |-> {}]
    /\ faulted = [r \in Requests |-> FALSE]
    /\ \E one \in BOOLEAN :
         /\ call = [s \in Sessions |-> IF one /\ s = s2 THEN Lost ELSE Nothing]
         /\ step = [s \in Sessions |-> IF one /\ s = s2 THEN "missing" ELSE "idle"]
         /\ req = [r \in Requests |-> IF one THEN Nothing ELSE Refused]
         /\ at = [r \in Requests |-> IF one THEN "idle" ELSE "unavailable"]

\* Nothing is followed beyond a request's answer: what the profiles do after it they
\* do before it as well.
MCUnanswered == \A r \in Requests : at[r] \in Answers => req[r] = Refused

MCSpec == MCInit /\ [][Next]_vars

MCSymmetry == Permutations(Prints)
===============================================================================
