------------------------------ MODULE MCWarmup ------------------------------
(* Model values for Warmup. *)
EXTENDS Warmup
=============================================================================
