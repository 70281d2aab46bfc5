----------------------------- MODULE MCFileStore -----------------------------
(* Model checking of FileStore: one content below and one above the large-file *)
(* threshold, two chunks each.                                                 *)
EXTENDS FileStore, TLC

CONSTANTS small, large

MCHashes == {small, large}
MCBig == {large}
MCSize == [h \in MCHashes |-> 2]
Symmetry == Permutations(Jobs)
=============================================================================
