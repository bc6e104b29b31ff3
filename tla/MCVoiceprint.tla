---------------------------- MODULE MCVoiceprint ----------------------------
(***************************************************************************)
(* Voiceprint with small constants for TLC.                                *)
(***************************************************************************)
EXTENDS Voiceprint

CONSTANTS t1, t2, v1

\* The caller sounds like the first template and not like the second.
MCMatches == [v \in Voices |-> IF v = v1 THEN {t1} ELSE Templates]
=============================================================================
