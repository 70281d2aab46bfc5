-------------------------- MODULE MCThreadPoolInit --------------------------
(* Model checking of ThreadPoolInit with two workers and one task. *)
EXTENDS ThreadPoolInit
=============================================================================
