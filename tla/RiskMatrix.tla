----------------------------- MODULE RiskMatrix -----------------------------
(***************************************************************************)
(* The risk matrix as a reader of the documentation knows it: every spoken *)
(* payment gets at most one verdict, the one its signals call for, unless  *)
(* it is refused; only a payment whose code cannot be delivered is taken   *)
(* back.                                                                   *)
(***************************************************************************)
CONSTANTS
    Requests,
    Signals,  \* what the gates and the agent find in a request
    Nothing   \* not a signal

VARIABLES
    case,     \* [Requests -> Signals or Nothing]
    verdict   \* [Requests -> the verdict, "open" until there is one]

Trusted(s) == ~s.replay /\ s.voice = "known"

\* A sub-500 payment whose country raises no alarm: the agent's tier decides.
AgentDecides(s, tier) ==
    /\ Trusted(s)
    /\ s.amount = "small" /\ s.country # "foreign" /\ s.agent = tier

Calls(s, v) ==
    \/ v = "approved"  /\ AgentDecides(s, "LOW")
    \/ v = "otp"       /\ \/ AgentDecides(s, "MEDIUM")
                          \/ Trusted(s) /\ s.amount = "small" /\ s.country = "foreign"
    \/ v = "challenge" /\ \/ AgentDecides(s, "HIGH")
                          \/ Trusted(s) /\ s.amount = "large"
    \/ v = "blocked"   /\ (AgentDecides(s, "CRITICAL") \/ s.replay)

Init ==
    /\ case = [r \in Requests |-> Nothing]
    /\ verdict = [r \in Requests |-> "open"]

Arrive(r) ==
    /\ case[r] = Nothing /\ verdict[r] = "open"
    /\ \E s \in Signals : case' = [case EXCEPT ![r] = s]
    /\ UNCHANGED verdict

Decide(r) ==
    /\ verdict[r] = "open"
    /\ \E v \in {"approved", "otp", "challenge", "blocked"} :
        /\ case[r] # Nothing /\ Calls(case[r], v)
        /\ verdict' = [verdict EXCEPT ![r] = v]
    /\ UNCHANGED case

Refuse(r) ==
    /\ verdict[r] \in {"open", "otp"}
    /\ verdict' = [verdict EXCEPT ![r] = "refused"]
    /\ UNCHANGED case

Next == \E r \in Requests : Arrive(r) \/ Decide(r) \/ Refuse(r)

Spec == Init /\ [][Next]_<<case, verdict>>
=============================================================================
