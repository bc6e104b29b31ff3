----------------------------- MODULE MCInitiate -----------------------------
(***************************************************************************)
(* Initiate with small constants for TLC.                                  *)
(***************************************************************************)
EXTENDS Initiate

\* Every combination of findings, the amount and the voice failing one at a time.
MCSignals ==
    {s \in Signal : \/ s.amount # "none" /\ s.voice = "known"
                    \/ s.agent = "LOW" /\ s.country = "home"}
=============================================================================
