----------------------------- MODULE MCFileTree -----------------------------
(* Model checking of FileTree: one user, possibly logged in twice, the name of *)
(* somebody else's home, a name for directories and files, and the empty name. *)
EXTENDS FileTree, TLC

CONSTANTS alice, bob, docs, empty

MCUsers == {alice}
MCNames == {alice, bob, docs, empty}
Plain(form) == [form |-> form, rest |-> <<>>]

\* ".", "..", "docs", "docs//" and "/bob"
MCTyped ==
  {Plain("here"), Plain("up")}
    \cup {[form |-> "relative", rest |-> p] : p \in {<<docs>>, <<docs, empty, empty>>}}
    \cup {[form |-> "absolute", rest |-> <<bob>>]}

\* "docs/docs"
MCUploads == {<<docs, docs>>}
MCQuota == [u \in MCUsers |-> 4]
Symmetry == Permutations(Sessions)
=============================================================================
