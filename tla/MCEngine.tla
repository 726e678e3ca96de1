------------------------------ MODULE MCEngine -------------------------------
(* Instances of Engine. *)
EXTENDS Engine, MCParams
=============================================================================
