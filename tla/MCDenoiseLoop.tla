--------------------------- MODULE MCDenoiseLoop -----------------------------
(* Instances of DenoiseLoop. *)
EXTENDS DenoiseLoop, MCParams
=============================================================================
