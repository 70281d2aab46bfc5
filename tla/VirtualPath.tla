----------------------------- MODULE VirtualPath -----------------------------
(***************************************************************************)
(* Virtual paths of the Cloudisk server and their normalization            *)
(* (commands.c:6-66).  A path is what stands between its slashes:          *)
(* "/u/a" is <<u, a>>, "/" is <<Empty>>, "//f" is <<Empty, f>>.  Names     *)
(* that the collation of the database takes for equal are one name.        *)
(***************************************************************************)
EXTENDS Naturals, Sequences

CONSTANTS Users,       \* user names, the first component of their paths
          Names,       \* what can stand between two slashes
          Empty        \* nothing between two slashes

ASSUME NamesAssumption == Users \subseteq Names /\ Empty \in Names \ Users

Paths == Seq(Names) \ {<<>>}
Root == <<Empty>>
Home(u) == <<u>>

Front(p) == SubSeq(p, 1, Len(p) - 1)

\* extract_parent_and_dirname: "/" is the parent of "/" and of "/a".
Parent(p) == IF Len(p) = 1 THEN Root ELSE Front(p)

\* One slash at the end is dropped, except that of "/".
Trim(p) == IF Len(p) > 1 /\ p[Len(p)] = Empty THEN Front(p) ELSE p

\* What a client can type: nothing, "~" or "/"; "."; ".."; "~/rest"; "/rest";
\* "rest".  Inside the rest "." and ".." are names like any other.
Inputs ==
  [form : {"home", "here", "up"}, rest : {<<>>}]
    \cup [form : {"tilde", "absolute", "relative"}, rest : Paths]

\* normalize_path, for a user in directory cwd.
Normalize(u, cwd, input) ==
  LET typed == CASE input.form = "home"     -> Home(u)
                 [] input.form = "here"     -> cwd
                 [] input.form = "up"       -> Parent(cwd)
                 [] input.form = "tilde"    -> Home(u) \o input.rest
                 [] input.form = "absolute" -> input.rest
                 [] input.form = "relative" -> cwd \o input.rest
  IN Trim(typed)
=============================================================================
