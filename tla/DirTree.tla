------------------------------- MODULE DirTree -------------------------------
(***************************************************************************)
(* What the commands mkdir, rmdir and login promise about directories:     *)
(* every user has a tree of them below a home directory, which grows by    *)
(* one directory inside an existing one and shrinks by a leaf.             *)
(***************************************************************************)
EXTENDS VirtualPath

VARIABLE dirs          \* for every user the paths that are directories

\* Nobody has logged in yet.
Init == dirs = [u \in Users |-> {}]

MakeHome(u) ==
  /\ Home(u) \notin dirs[u]
  /\ dirs' = [dirs EXCEPT ![u] = @ \cup {Home(u)}]

Make(u, p) ==
  /\ p \notin dirs[u] /\ Parent(p) \in dirs[u]
  /\ dirs' = [dirs EXCEPT ![u] = @ \cup {p}]

Remove(u, p) ==
  /\ p \in dirs[u]
  /\ \A q \in dirs[u] \ {p} : Parent(q) # p
  /\ dirs' = [dirs EXCEPT ![u] = @ \ {p}]

\* One user's tree changes; a new path is one of those that are there then.
Next ==
  \E u \in Users :
    /\ dirs'[u] # dirs[u]
    /\ \/ MakeHome(u)
       \/ \E p \in dirs'[u] : p \in Paths /\ Make(u, p)
       \/ \E p \in dirs[u] : Remove(u, p)

Spec == Init /\ [][Next]_dirs
=============================================================================
