-------------------------- MODULE MCInferenceGate --------------------------
(***************************************************************************)
(* InferenceGate with small constants for TLC.                             *)
(***************************************************************************)
EXTENDS InferenceGate

\* config.py's defaults; Ollama uses the GPU it finds.
MCDevice == [m \in Models |-> IF m = "speechbrain" THEN "cpu" ELSE "cuda"]
=============================================================================
