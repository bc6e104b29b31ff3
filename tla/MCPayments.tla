----------------------------- MODULE MCPayments -----------------------------
(***************************************************************************)
(* Payments with small constants for TLC.                                  *)
(***************************************************************************)
EXTENDS Payments

\* A large amount, a small one from home and one from abroad.
MCSignals ==
    {[replay |-> FALSE, amount |-> "small", voice |-> "known", country |-> c, agent |-> "LOW"] :
        c \in {"home", "foreign"}}
    \cup {[replay |-> FALSE, amount |-> "large", voice |-> "known", country |-> "home",
           agent |-> "LOW"]}

\* A code, and the phrase with a live face.
MCAnswers ==
    {[otp |-> o, media |-> FALSE, said |-> {}, live |-> FALSE] : o \in Otps}
    \cup {[otp |-> Nothing, media |-> TRUE, said |-> Phrases, live |-> TRUE]}

\* Two uploads beside each other at the clock's end, or time to expire and one
\* upload alone: the other was empty.
MCInit ==
    \/ PaymentsInit /\ now = MaxTime
    \/ \E empty \in Uploads :
        /\ Init /\ now = 0
        /\ payment = [u \in Uploads |-> Nothing]
        /\ stage = [u \in Uploads |-> IF u = empty THEN "done" ELSE "idle"]
        /\ reply = [u \in Uploads |-> IF u = empty THEN "422" ELSE "none"]
        /\ signal = [u \in Uploads |-> Nothing]
        /\ files = {} /\ ran = [u \in Uploads |-> {}] /\ fraud = {} /\ audit = {}

MCSpec == MCInit /\ [][PaymentsNext]_paymentsVars /\ PaymentsFairness
=============================================================================
