---------------------------- MODULE MCThreadPool ----------------------------
(* Model checking of ThreadPool: workers and heap blocks are interchangeable. *)
EXTENDS ThreadPool, TLC

Symmetry == Permutations(Workers) \cup Permutations(Args)
=============================================================================
