------------------------------ MODULE MCSession ------------------------------
(* Model checking of Session.                                                  *)
EXTENDS Session, TLC

Symmetry == Permutations(Clients) \cup Permutations(Fds) \cup Permutations(Tokens)
             \cup Permutations(Jobs)
=============================================================================
