------------------------------ MODULE MCStepUp ------------------------------
(***************************************************************************)
(* StepUp with small constants for TLC.                                    *)
(***************************************************************************)
EXTENDS StepUp, TLC

\* A one-time code, and a full challenge answer.
Code(o)    == [otp |-> o, media |-> FALSE, said |-> {}, live |-> FALSE]
Clip(s, l) == [otp |-> Nothing, media |-> TRUE, said |-> s, live |-> l]

\* Every code, the empty form, the phrase spoken live, the phrase with a
\* spoofed face, and silence with a live one.
MCAnswers ==
    {Code(o) : o \in Otps \cup {Nothing}}
        \cup {Clip(Phrases, TRUE), Clip(Phrases, FALSE), Clip({}, TRUE)}

MCSymmetry == Permutations(Requests) \cup Permutations(Payloads)
=============================================================================
