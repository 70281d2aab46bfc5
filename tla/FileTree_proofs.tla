--------------------------- MODULE FileTree_proofs ---------------------------
(***************************************************************************)
(* Proofs about FileTree for any users, sessions, uploads, typed paths and *)
(* bounds.                                                                 *)
(***************************************************************************)
EXTENDS FileTree, SequenceTheorems, TLAPS

\* A path has a first name, and its parent is a shorter path below the same one.
LEMMA PathFacts ==
  ASSUME NEW p \in Paths
  PROVE  /\ Len(p) \in Nat /\ Len(p) > 0 /\ p[1] \in Names /\ p[Len(p)] \in Names
         /\ Parent(p) \in Paths /\ Trim(p) \in Paths
         /\ Len(p) > 1 => /\ Parent(p)[1] = p[1]
                          /\ Parent(p) # p
<1>1. p \in Seq(Names) /\ Len(p) \in Nat /\ Len(p) > 0
  BY DEF Paths
<1>2. p[1] \in Names /\ p[Len(p)] \in Names
  BY <1>1
<1>3. Root \in Paths
  BY NamesAssumption DEF Root, Paths
<1>4. ASSUME Len(p) > 1
      PROVE  Front(p) \in Paths /\ Len(Front(p)) = Len(p) - 1 /\ Front(p)[1] = p[1]
  <2>1. \A i \in 1 .. Len(p) - 1 : p[i] \in Names
    BY <1>1
  <2>2. /\ Front(p) \in Seq(Names) /\ Len(Front(p)) = Len(p) - 1
        /\ \A i \in 1 .. Len(p) - 1 : Front(p)[i] = p[i]
    BY <1>1, <1>4, <2>1, SubSeqProperties DEF Front
  <2> QED
    BY <1>1, <1>4, <2>2 DEF Paths
<1>5. Parent(p) \in Paths
  <2>1. CASE Len(p) = 1
    BY <1>3, <2>1 DEF Parent
  <2>2. CASE Len(p) > 1
    BY <1>1, <1>4, <2>2 DEF Parent
  <2>3. \A n \in Nat : n > 0 => n = 1 \/ n > 1
    OBVIOUS
  <2> QED
    BY <1>1, <2>1, <2>2, <2>3, Zenon
<1>6. Trim(p) \in Paths
  BY <1>4 DEF Trim
<1>7. Len(p) > 1 => Parent(p)[1] = p[1] /\ Parent(p) # p
  BY <1>1, <1>4 DEF Parent
<1> QED
  BY <1>1, <1>2, <1>5, <1>6, <1>7

LEMMA HomeFacts ==
  ASSUME NEW u \in Users
  PROVE  /\ Home(u) \in Paths /\ Len(Home(u)) = 1 /\ Home(u)[1] = u
         /\ Root \in Paths /\ Root[1] = Empty /\ Len(Root) = 1 /\ u # Empty
         /\ Parent(Home(u)) = Root
BY NamesAssumption DEF Home, Root, Paths, Parent

LEMMA JoinFacts ==
  ASSUME NEW p \in Paths, NEW q \in Paths
  PROVE  p \o q \in Paths /\ (p \o q)[1] = p[1]
<1>1. p \in Seq(Names) /\ q \in Seq(Names) /\ Len(p) \in Nat /\ Len(p) > 0 /\ Len(q) \in Nat
  BY DEF Paths
<1>2. p \o q \in Seq(Names) /\ Len(p \o q) = Len(p) + Len(q) /\ (p \o q)[1] = p[1]
  BY <1>1
<1> QED
  BY <1>1, <1>2 DEF Paths

\* Whatever a client types, normalize_path makes a path of it.
LEMMA NormalizeType ==
  ASSUME NEW u \in Users, NEW cwd \in Paths, NEW input \in Inputs
  PROVE  Normalize(u, cwd, input) \in Paths
<1>1. \/ input.form \in {"home", "here", "up"}
      \/ input.form \in {"tilde", "absolute", "relative"} /\ input.rest \in Paths
  BY DEF Inputs
<1>2. Home(u) \in Paths /\ Parent(cwd) \in Paths
  BY HomeFacts, PathFacts
<1>3. ASSUME input.rest \in Paths
      PROVE  Home(u) \o input.rest \in Paths /\ cwd \o input.rest \in Paths
  BY <1>2, <1>3, JoinFacts
<1>4. \A p \in Paths : Trim(p) \in Paths
  BY PathFacts
<1> QED
  BY <1>1, <1>2, <1>3, <1>4 DEF Normalize

LEMMA TargetType ==
  ASSUME TypeOK, NEW s \in Sessions, LoggedIn(s), NEW i \in Typed
  PROVE  /\ Target(s, i) \in Paths
         /\ sess[s] \in [user : Users, cwd : Paths]
<1>1. sess[s] \in [user : Users, cwd : Paths]
  BY DEF TypeOK, LoggedIn
<1>2. i \in Inputs
  BY TypedAssumption
<1> QED
  BY <1>1, <1>2, NormalizeType DEF Target

LEMMA NewRow ==
  ASSUME TypeOK, NEW u \in Users, NEW n \in Nat, NEW p \in Paths, NEW t \in {"d", "f"}
  PROVE  /\ Row(u, n, p, t) \in Rows
         /\ Row(u, n, p, t).id = next /\ Row(u, n, p, t).user = u
         /\ Row(u, n, p, t).parent = n /\ Row(u, n, p, t).path = p
         /\ Row(u, n, p, t).type = t
BY DEF TypeOK, Row, Rows

LEMMA TypeStep == Inv /\ [Next]_vars => TypeOK'
<1> SUFFICES ASSUME Inv, [Next]_vars PROVE TypeOK'
  OBVIOUS
<1>0. TypeOK
  BY DEF Inv
<1> USE DEF Commands, Insert
<1>t. /\ loop \in [at : {"wait", "remove"}, session : Sessions \cup {None},
                   path : Paths, id : Nat, same : BOOLEAN]
      /\ Waiting \in [at : {"wait", "remove"}, session : Sessions \cup {None},
                   path : Paths, id : Nat, same : BOOLEAN]
      /\ NoJob \in [at : {"none", "lookup", "insert"}, user : Users \cup {None},
                       cwd : Paths, name : Paths, parent : Nat]
  <2>1. Root \in Paths
    BY NamesAssumption DEF Root, Paths
  <2> QED
    BY <1>0, <2>1 DEF TypeOK, Waiting, NoJob
<1>1. ASSUME NEW u \in Users, Register(u) PROVE TypeOK'
  BY <1>0, <1>1 DEF TypeOK, Register
<1>2. ASSUME NEW s \in Sessions, NEW u \in Users, Login(s, u) PROVE TypeOK'
  <2>1. Home(u) \in Paths
    BY HomeFacts
  <2>2. Row(u, 0, Home(u), "d") \in Rows
    BY <1>0, <2>1, NewRow
  <2>3. rows' \subseteq Rows /\ next' \in Nat \ {0}
    BY <1>0, <1>2, <2>2 DEF TypeOK, Login
  <2>4. sess' \in [Sessions -> [user : Users, cwd : Paths] \cup {None}]
    BY <1>0, <1>2, <2>1 DEF TypeOK, Login
  <2> QED
    BY <1>0, <1>2, <2>3, <2>4 DEF TypeOK, Login
<1>3. ASSUME NEW s \in Sessions, Logout(s) PROVE TypeOK'
  BY <1>0, <1>3 DEF TypeOK, Logout
<1>4. ASSUME NEW s \in Sessions, NEW i \in Typed, Cd(s, i) PROVE TypeOK'
  <2>1. Target(s, i) \in Paths /\ sess[s] \in [user : Users, cwd : Paths]
    BY <1>0, <1>4, TargetType DEF Cd
  <2>2. sess' \in [Sessions -> [user : Users, cwd : Paths] \cup {None}]
    BY <1>0, <1>4, <2>1 DEF TypeOK, Cd
  <2> QED
    BY <1>0, <1>4, <2>2 DEF TypeOK, Cd
<1>5. ASSUME NEW s \in Sessions, NEW i \in Typed, Mkdir(s, i) PROVE TypeOK'
  <2>1. Target(s, i) \in Paths /\ sess[s].user \in Users
    BY <1>0, <1>5, TargetType DEF Mkdir
  <2>2. PICK d \in rows : Insert(Row(sess[s].user, d.id, Target(s, i), "d"))
    BY <1>5 DEF Mkdir, At
  <2>3. d.id \in Nat
    BY <1>0 DEF TypeOK, Rows
  <2>4. Row(sess[s].user, d.id, Target(s, i), "d") \in Rows
    BY <1>0, <2>1, <2>3, NewRow
  <2> QED
    BY <1>0, <1>5, <2>2, <2>4 DEF TypeOK, Mkdir
<1>6. ASSUME NEW s \in Sessions, NEW i \in Typed, Rmdir(s, i) PROVE TypeOK'
  <2>1. Target(s, i) \in Paths
    BY <1>0, <1>6, TargetType DEF Rmdir
  <2>2. PICK d \in rows, same \in BOOLEAN :
          /\ loop' = [at |-> "remove", session |-> s, path |-> Target(s, i), id |-> d.id, same |-> same]
          /\ raced' \in {raced, raced \cup {d.id}}
    BY <1>6 DEF Rmdir, At
  <2>3. d.id \in Nat
    BY <1>0 DEF TypeOK, Rows
  <2> QED
    BY <1>0, <1>6, <2>1, <2>2, <2>3 DEF TypeOK, Rmdir
<1>7. ASSUME RmdirDelete PROVE TypeOK'
  <2>1. rows' \subseteq Rows
    BY <1>0, <1>7 DEF TypeOK, RmdirDelete
  <2>2. loop.session \in Sessions /\ sess[loop.session] \in [user : Users, cwd : Paths]
    BY <1>0, <1>7 DEF Inv, LoopHolds, RmdirDelete, TypeOK, LoggedIn
  <2>3. Parent(loop.path) \in Paths
    BY <1>t, PathFacts
  <2>4. sess' \in [Sessions -> [user : Users, cwd : Paths] \cup {None}]
    BY <1>0, <1>7, <2>2, <2>3 DEF TypeOK, RmdirDelete
  <2> QED
    BY <1>0, <1>t, <1>7, <2>1, <2>4 DEF TypeOK, RmdirDelete
<1>8. CASE RmdirFails
  BY <1>0, <1>t, <1>8 DEF TypeOK, RmdirFails
<1>9. ASSUME NEW s \in Sessions, NEW i \in Typed, Rm(s, i) PROVE TypeOK'
  BY <1>0, <1>9 DEF TypeOK, Rm
<1>11. CASE Die
  BY <1>0, <1>t, <1>11 DEF TypeOK, Die
<1>12. ASSUME NEW s \in Sessions, NEW j \in Jobs, NEW name \in Uploads, Puts(s, j, name)
       PROVE  TypeOK'
  <2>1. sess[s] \in [user : Users, cwd : Paths] /\ name \in Paths
    BY <1>0, <1>12, TypedAssumption DEF TypeOK, Puts, LoggedIn
  <2> QED
    BY <1>0, <1>12, <2>1 DEF TypeOK, Puts
<1>13. ASSUME NEW j \in Jobs, PutsDir(j) PROVE TypeOK'
  <2>1. PICK id \in {d.id : d \in At(job[j].user, job[j].cwd, "d")} \cup {0} :
          /\ job' = [job EXCEPT ![j].at = "insert", ![j].parent = id]
          /\ raced' \in {raced, raced \cup {id}}
    BY <1>13 DEF PutsDir
  <2>2. id \in Nat
    BY <1>0, <2>1 DEF TypeOK, At, Rows
  <2>3. job' \in [Jobs -> [at : {"none", "lookup", "insert"}, user : Users \cup {None},
                       cwd : Paths, name : Paths, parent : Nat]]
    <3>1. [job[j] EXCEPT !.at = "insert", !.parent = id]
            \in [at : {"none", "lookup", "insert"}, user : Users \cup {None},
                cwd : Paths, name : Paths, parent : Nat]
      <4>1. job[j] \in [at : {"none", "lookup", "insert"}, user : Users \cup {None},
                         cwd : Paths, name : Paths, parent : Nat]
        BY <1>0 DEF TypeOK
      <4> QED
        BY <2>2, <4>1
    <3>2. job' = [job EXCEPT ![j] = [job[j] EXCEPT !.at = "insert", !.parent = id]]
      BY <1>0, <2>1 DEF TypeOK
    <3> QED
      BY <1>0, <3>1, <3>2 DEF TypeOK
  <2>4. raced' \subseteq Nat
    BY <1>0, <2>1, <2>2 DEF TypeOK
  <2> QED
    BY <1>0, <1>13, <2>3, <2>4 DEF TypeOK, PutsDir
<1>14. ASSUME NEW j \in Jobs, PutsInsert(j) PROVE TypeOK'
  <2>1. job[j].user \in Users /\ job[j].parent \in Nat
        /\ job[j].cwd \in Paths /\ job[j].name \in Paths
    BY <1>0, <1>14 DEF TypeOK, PutsInsert, Inv, JobsHold
  <2>2. Row(job[j].user, job[j].parent, job[j].cwd \o job[j].name, "f") \in Rows
    <3>1. job[j].cwd \o job[j].name \in Paths
      BY <2>1, JoinFacts
    <3> QED
      BY <1>0, <2>1, <3>1, NewRow
  <2> QED
    BY <1>0, <1>t, <1>14, <2>2 DEF TypeOK, PutsInsert
<1>15. ASSUME NEW j \in Jobs, PutsFails(j) PROVE TypeOK'
  BY <1>0, <1>t, <1>15 DEF TypeOK, PutsFails
<1>16. CASE UNCHANGED vars
  BY <1>0, <1>16 DEF TypeOK, vars
<1> QED
  BY <1>1, <1>2, <1>3, <1>4, <1>5, <1>6, <1>7, <1>8, <1>9, <1>11, <1>12, <1>13, <1>14, <1>15,
     <1>16 DEF Next, LsDies, Exit

-----------------------------------------------------------------------------
(* How a step can change the table. *)

Adds(r) == r \in Rows /\ r.id = next /\ rows' = rows \cup {r} /\ next' = next + 1
AddsHome(r) ==
  /\ Adds(r) /\ r.type = "d" /\ r.path = Home(r.user) /\ r.parent = 0
  /\ Children(r.user, 0) = {}
AddsDir(r) ==
  /\ Adds(r) /\ r.type = "d"
  /\ \E d \in rows : d.type = "d" /\ d.user = r.user /\ d.id = r.parent /\ d.path = Parent(r.path)
AddsFile(r) ==
  /\ Adds(r) /\ r.type = "f"
  /\ Within(r.user, r.path) \/ Within(Empty, r.path)
  /\ r.parent # 0 /\ r.parent \notin raced => \E d \in rows : LiesIn(d, r)
Drops(r) == r \in rows /\ rows' = rows \ {r} /\ next' = next
DropsFile(f) == Drops(f) /\ f.type = "f"
DropsDir(d) ==
  /\ Drops(d) /\ d.type = "d" /\ d.id = loop.id
  /\ \A r \in Children(d.user, d.id) : r.type = "f" /\ d.id \in raced
  /\ \A j \in Jobs : job[j].parent = d.id => d.id \in raced

\* What rmdir deletes is the one row it has tested.
LEMMA DeleteDrops ==
  ASSUME Inv, RmdirDelete
  PROVE  \E d \in rows :
           /\ DropsDir(d) /\ loop.session \in Sessions /\ LoggedIn(loop.session)
           /\ d.user = sess[loop.session].user /\ d.path = loop.path
<1>1. loop.at = "remove"
  BY DEF RmdirDelete
<1>2. loop.session \in Sessions /\ LoggedIn(loop.session)
  BY <1>1 DEF Inv, LoopHolds
<1>3. PICK d \in rows : /\ d.user = sess[loop.session].user /\ d.path = loop.path
                        /\ d.type = "d" /\ d.id = loop.id
  BY <1>1 DEF Inv, LoopHolds, At
<1>4. rows' = rows \ {d}
  <2>1. \A r \in rows : r.id = d.id => r = d
    BY DEF Inv, Ids
  <2> QED
    BY <1>3, <2>1 DEF RmdirDelete
<1>5. next' = next
  BY DEF RmdirDelete
<1>6. /\ \A r \in Children(d.user, d.id) : r.type = "f" /\ d.id \in raced
      /\ \A j \in Jobs : job[j].parent = d.id => d.id \in raced
  BY <1>1, <1>3 DEF Inv, LoopHolds
<1> QED
  BY <1>2, <1>3, <1>4, <1>5, <1>6 DEF DropsDir, Drops

LEMMA LoginAdds ==
  ASSUME Inv, NEW s \in Sessions, NEW u \in Users, Login(s, u)
  PROVE  UNCHANGED <<rows, next>> \/ \E r \in Rows : AddsHome(r)
<1>1. CASE UNCHANGED <<rows, next>>
  BY <1>1
<1>2. CASE Children(u, 0) = {} /\ Insert(Row(u, 0, Home(u), "d"))
  <2>1. Home(u) \in Paths
    BY HomeFacts
  <2> DEFINE r == Row(u, 0, Home(u), "d")
  <2>2. /\ r \in Rows /\ r.id = next /\ r.user = u /\ r.parent = 0
        /\ r.path = Home(u) /\ r.type = "d"
    BY <2>1, NewRow DEF Inv
  <2>3. rows' = rows \cup {r} /\ next' = next + 1
    BY <1>2 DEF Insert
  <2> HIDE DEF r
  <2> QED
    BY <1>2, <2>2, <2>3 DEF AddsHome, Adds
<1> QED
  BY <1>1, <1>2 DEF Login

LEMMA MkdirAdds ==
  ASSUME Inv, NEW s \in Sessions, NEW i \in Typed, Mkdir(s, i)
  PROVE  \E r \in Rows : AddsDir(r) /\ r.user = sess[s].user
<1>1. Target(s, i) \in Paths /\ sess[s].user \in Users
  BY TargetType DEF Inv, Mkdir, Commands
<1>2. PICK d \in rows : /\ d.user = sess[s].user /\ d.path = Parent(Target(s, i)) /\ d.type = "d"
                        /\ Insert(Row(sess[s].user, d.id, Target(s, i), "d"))
  BY DEF Mkdir, At
<1>3. d.id \in Nat
  BY DEF Inv, TypeOK, Rows
<1> DEFINE r == Row(sess[s].user, d.id, Target(s, i), "d")
<1>4. /\ r \in Rows /\ r.id = next /\ r.user = sess[s].user /\ r.parent = d.id
      /\ r.path = Target(s, i) /\ r.type = "d"
  BY <1>1, <1>3, NewRow DEF Inv
<1>5. rows' = rows \cup {r} /\ next' = next + 1
  BY <1>2 DEF Insert
<1> HIDE DEF r
<1> QED
  BY <1>2, <1>4, <1>5 DEF AddsDir, Adds

LEMMA PutsAdds ==
  ASSUME Inv, NEW j \in Jobs, PutsInsert(j)
  PROVE  \E r \in Rows :
           AddsFile(r) /\ r.user = job[j].user /\ r.parent = job[j].parent
<1>1. /\ job[j].user \in Users /\ job[j].parent \in Nat
      /\ job[j].cwd \in Paths /\ job[j].name \in Paths /\ job[j].name \in Uploads
      /\ job[j].cwd = Root \/ Within(job[j].user, job[j].cwd)
      /\ job[j].parent # 0 /\ job[j].parent \notin raced =>
           \E d \in rows : /\ d.type = "d" /\ d.id = job[j].parent
                          /\ d.user = job[j].user /\ d.path = job[j].cwd
  BY DEF TypeOK, PutsInsert, Inv, JobsHold
<1> DEFINE p == job[j].cwd \o job[j].name
           r == Row(job[j].user, job[j].parent, p, "f")
<1>2. p \in Paths /\ p[1] = job[j].cwd[1]
  BY <1>1, JoinFacts
<1>3. /\ r \in Rows /\ r.id = next /\ r.user = job[j].user /\ r.parent = job[j].parent
      /\ r.path = p /\ r.type = "f"
  <2> HIDE DEF p
  <2> QED
    BY <1>1, <1>2, NewRow DEF Inv
<1>4. rows' = rows \cup {r} /\ next' = next + 1
  BY DEF PutsInsert, Insert
<1>5. Within(job[j].user, p) \/ Within(Empty, p)
  BY <1>1, <1>2 DEF Within, Root
<1>6. r.parent # 0 /\ r.parent \notin raced => \E d \in rows : LiesIn(d, r)
  BY <1>1, <1>3 DEF LiesIn
<1> HIDE DEF p, r
<1> QED
  BY <1>1, <1>3, <1>4, <1>5, <1>6 DEF AddsFile, Adds

LEMMA RmDrops ==
  ASSUME Inv, NEW s \in Sessions, NEW i \in Typed, Rm(s, i)
  PROVE  \E f \in rows : DropsFile(f)
BY DEF Rm, At, DropsFile, Drops

LEMMA RowsStep ==
  ASSUME Inv, [Next]_vars
  PROVE  \/ UNCHANGED <<rows, next>>
         \/ \E r \in Rows : AddsHome(r) \/ AddsDir(r) \/ AddsFile(r)
         \/ \E r \in rows : DropsFile(r) \/ DropsDir(r)
<1>1. ASSUME NEW s \in Sessions, NEW u \in Users, Login(s, u)
      PROVE  UNCHANGED <<rows, next>> \/ \E r \in Rows : AddsHome(r)
  BY <1>1, LoginAdds
<1>2. ASSUME NEW s \in Sessions, NEW i \in Typed, Mkdir(s, i)
      PROVE  \E r \in Rows : AddsDir(r)
  BY <1>2, MkdirAdds
<1>3. ASSUME NEW s \in Sessions, NEW i \in Typed, Rm(s, i)
      PROVE  \E r \in rows : DropsFile(r)
  BY <1>3, RmDrops
<1>4. RmdirDelete => \E r \in rows : DropsDir(r)
  BY DeleteDrops
<1>5. ASSUME NEW j \in Jobs, PutsInsert(j)
      PROVE  \E r \in Rows : AddsFile(r)
  BY <1>5, PutsAdds
<1>6. ASSUME NEW s \in Sessions, NEW i \in Typed, Cd(s, i) \/ Rmdir(s, i)
      PROVE  UNCHANGED <<rows, next>>
  BY <1>6 DEF Cd, Rmdir
<1>7. ASSUME NEW s \in Sessions, Logout(s) \/ LsDies(s)
      PROVE  UNCHANGED <<rows, next>>
  BY <1>7 DEF Logout, LsDies, Die
<1>8. ASSUME NEW j \in Jobs, PutsDir(j) \/ PutsFails(j)
      PROVE  UNCHANGED <<rows, next>>
  BY <1>8 DEF PutsDir, PutsFails
<1>9. ASSUME NEW s \in Sessions, NEW j \in Jobs, NEW name \in Uploads, Puts(s, j, name)
      PROVE  UNCHANGED <<rows, next>>
  BY <1>9 DEF Puts
<1>10. ASSUME NEW u \in Users, Register(u)
       PROVE  UNCHANGED <<rows, next>>
  BY <1>10 DEF Register
<1>11. CASE RmdirFails \/ Exit \/ UNCHANGED vars
  BY <1>11 DEF RmdirFails, Exit, Die, vars
<1> QED
  BY <1>1, <1>2, <1>3, <1>4, <1>5, <1>6, <1>7, <1>8, <1>9, <1>10, <1>11 DEF Next

LEMMA RacedGrows == [Next]_vars => raced \subseteq raced'
BY DEF Next, vars, Register, Login, Logout, Cd, Mkdir, Rmdir, Rm, LsDies, Die, Puts,
       RmdirDelete, RmdirFails, Exit, PutsDir, PutsInsert, PutsFails

-----------------------------------------------------------------------------
(* The table. *)

LEMMA IdsStep == Inv /\ [Next]_vars => Ids'
<1> SUFFICES ASSUME Inv, [Next]_vars PROVE Ids'
  OBVIOUS
<1>1. next \in Nat /\ \A r \in rows : r.id \in Nat
  BY DEF Inv, TypeOK, Rows
<1>2. CASE UNCHANGED <<rows, next>>
  BY <1>2 DEF Inv, Ids
<1>3. ASSUME NEW r, Adds(r) PROVE Ids'
  BY <1>1, <1>3 DEF Inv, Ids, Adds
<1>4. ASSUME NEW r, Drops(r) PROVE Ids'
  BY <1>4 DEF Inv, Ids, Drops
<1> QED
  BY <1>2, <1>3, <1>4, RowsStep DEF AddsHome, AddsDir, AddsFile, DropsFile, DropsDir

\* In a table without stray homes a path with a parent directory is longer than "/u".
LEMMA BelowIsLonger ==
  ASSUME Inv, NEW r \in Rows, NEW d \in rows, d.type = "d", d.path = Parent(r.path)
  PROVE  Len(r.path) > 1
<1>1. r.path \in Paths /\ Len(r.path) \in Nat /\ Len(r.path) > 0
  BY PathFacts DEF Rows
<1>2. d.user \in Users /\ d.path[1] = d.user
  <2>1. d.user \in Users
    BY DEF Inv, TypeOK, Rows
  <2>2. Within(d.user, d.path) \/ (d.type = "f" /\ Within(Empty, d.path))
    BY DEF Inv, StaysHome
  <2> QED
    BY <2>1, <2>2 DEF Within
<1>3. d.path # Root
  BY <1>2, NamesAssumption DEF Root
<1>4. Len(r.path) # 1
  BY <1>3 DEF Parent
<1>5. \A n \in Nat : n > 0 /\ n # 1 => n > 1
  OBVIOUS
<1> QED
  BY <1>1, <1>4, <1>5, Zenon

LEMMA DirectoriesStep == Inv /\ [Next]_vars => DirectoriesAreReachable'
<1> SUFFICES ASSUME Inv, [Next]_vars PROVE DirectoriesAreReachable'
  OBVIOUS
<1>0. (\A r \in rows : r.type = "d" => HasParent(r)) /\ OneHome
  BY DEF Inv, DirectoriesAreReachable
<1>1. CASE UNCHANGED <<rows, next>>
  BY <1>0, <1>1 DEF DirectoriesAreReachable, HasParent, OneHome
<1>2. ASSUME NEW n \in Rows, Adds(n), n.type = "d" => HasParent(n)',
             n.type = "d" /\ n.parent = 0 => Children(n.user, 0) = {}
      PROVE  DirectoriesAreReachable'
  <2>1. \A r \in rows : HasParent(r) => HasParent(r)'
    BY <1>2 DEF Adds, HasParent
  <2>2. \A r \in rows' : r.type = "d" => HasParent(r)'
    BY <1>0, <1>2, <2>1 DEF Adds
  <2>3. OneHome'
    BY <1>0, <1>2 DEF Adds, OneHome, Children
  <2> QED
    BY <2>2, <2>3 DEF DirectoriesAreReachable
<1>3. ASSUME NEW n \in Rows, AddsHome(n) PROVE DirectoriesAreReachable'
  <2>1. HasParent(n)'
    BY <1>3 DEF AddsHome, HasParent
  <2> QED
    BY <1>2, <1>3, <2>1 DEF AddsHome
<1>4. ASSUME NEW n \in Rows, AddsDir(n) PROVE DirectoriesAreReachable'
  <2>1. PICK d \in rows : d.type = "d" /\ d.user = n.user /\ d.id = n.parent /\ d.path = Parent(n.path)
    BY <1>4 DEF AddsDir
  <2>2. d \in rows' /\ d.id # 0
    BY <1>4 DEF AddsDir, Adds, Inv, TypeOK, Rows
  <2>3. HasParent(n)'
    BY <2>1, <2>2, BelowIsLonger DEF HasParent
  <2> QED
    BY <1>2, <1>4, <2>1, <2>2, <2>3 DEF AddsDir
<1>5. ASSUME NEW n \in Rows, AddsFile(n) PROVE DirectoriesAreReachable'
  BY <1>2, <1>5 DEF AddsFile
<1>6. ASSUME NEW d \in rows, Drops(d),
             \A r \in rows : r.type = "d" /\ r.user = d.user /\ r.parent = d.id => d.type = "f"
      PROVE  DirectoriesAreReachable'
  <2>1. ASSUME NEW r \in rows', r.type = "d" PROVE HasParent(r)'
    <3>1. r \in rows /\ HasParent(r)
      BY <1>0, <1>6, <2>1 DEF Drops
    <3>2. CASE r.path = Home(r.user) /\ r.parent = 0
      BY <3>2 DEF HasParent
    <3>3. ASSUME Len(r.path) > 1,
                 NEW p \in rows, p.id = r.parent, p.type = "d", p.user = r.user,
                 p.path = Parent(r.path)
          PROVE  HasParent(r)'
      <4>1. p # d
        BY <1>6, <2>1, <3>1, <3>3
      <4>2. p \in rows'
        BY <1>6, <4>1 DEF Drops
      <4> QED
        BY <3>3, <4>2 DEF HasParent
    <3> QED
      BY <3>1, <3>2, <3>3 DEF HasParent
  <2>2. OneHome'
    BY <1>0, <1>6 DEF Drops, OneHome
  <2> QED
    BY <2>1, <2>2 DEF DirectoriesAreReachable
<1>7. ASSUME NEW d \in rows, DropsFile(d) PROVE DirectoriesAreReachable'
  BY <1>6, <1>7 DEF DropsFile
<1>8. ASSUME NEW d \in rows, DropsDir(d) PROVE DirectoriesAreReachable'
  <2>1. \A r \in rows : r.type = "d" /\ r.user = d.user => r.parent # d.id
    BY <1>8 DEF DropsDir, Children
  <2> QED
    BY <1>6, <1>8, <2>1 DEF DropsDir
<1> QED
  BY <1>1, <1>3, <1>4, <1>5, <1>7, <1>8, RowsStep

LEMMA FilesStep == Inv /\ [Next]_vars => FilesAreListed'
<1> SUFFICES ASSUME Inv, [Next]_vars,
                    NEW r \in rows', r.type = "f", r.parent # 0, r.parent \notin raced'
             PROVE  \E d \in rows' : LiesIn(d, r)
  BY DEF FilesAreListed
<1>1. r.parent \notin raced
  BY RacedGrows
<1>2. r \in rows => \E d \in rows : LiesIn(d, r)
  BY <1>1 DEF Inv, FilesAreListed
<1>3. CASE UNCHANGED <<rows, next>>
  BY <1>2, <1>3
<1>4. ASSUME NEW n \in Rows, AddsHome(n) \/ AddsDir(n) \/ AddsFile(n)
      PROVE  \E d \in rows' : LiesIn(d, r)
  <2>1. rows \subseteq rows' /\ (r \in rows \/ r = n)
    BY <1>4 DEF AddsHome, AddsDir, AddsFile, Adds
  <2>2. CASE r \in rows
    BY <1>2, <2>1, <2>2
  <2>3. CASE r = n
    BY <1>1, <1>4, <2>1, <2>3 DEF AddsHome, AddsDir, AddsFile
  <2> QED
    BY <2>1, <2>2, <2>3
<1>5. ASSUME NEW f \in rows, DropsFile(f)
      PROVE  \E d \in rows' : LiesIn(d, r)
  <2>1. \A d \in rows : LiesIn(d, r) => d.type = "d"
    BY DEF LiesIn
  <2> QED
    BY <1>2, <1>5, <2>1 DEF DropsFile, Drops
<1>6. ASSUME NEW d \in rows, DropsDir(d)
      PROVE  \E e \in rows' : LiesIn(e, r)
  <2>1. r \in rows
    BY <1>6 DEF DropsDir, Drops
  <2>2. PICK e \in rows : LiesIn(e, r)
    BY <1>2, <2>1
  <2>3. e # d
    BY <1>1, <1>6, <2>1, <2>2 DEF DropsDir, Children, LiesIn
  <2> QED
    BY <1>6, <2>2, <2>3 DEF DropsDir, Drops
<1> QED
  BY <1>3, <1>4, <1>5, <1>6, RowsStep

\* The rows stay below the homes of their users.
LEMMA RowsStayHome ==
  ASSUME Inv, [Next]_vars
  PROVE  (\A r \in rows : Within(r.user, r.path) \/ (r.type = "f" /\ Within(Empty, r.path)))'
<1>1. \A r \in rows : Within(r.user, r.path) \/ (r.type = "f" /\ Within(Empty, r.path))
  BY DEF Inv, StaysHome
<1>2. CASE UNCHANGED <<rows, next>>
  BY <1>1, <1>2
<1>3. ASSUME NEW n \in Rows, AddsHome(n) PROVE rows' = rows \cup {n} /\ Within(n.user, n.path)
  <2>1. n.user \in Users
    BY DEF Rows
  <2> QED
    BY <1>3, <2>1, HomeFacts DEF AddsHome, Adds, Within
<1>4. ASSUME NEW n \in Rows, AddsDir(n) PROVE rows' = rows \cup {n} /\ Within(n.user, n.path)
  <2>1. PICK d \in rows : d.type = "d" /\ d.user = n.user /\ d.path = Parent(n.path)
    BY <1>4 DEF AddsDir
  <2>2. Within(d.user, d.path)
    BY <1>1, <2>1
  <2>3. Len(n.path) > 1 /\ n.path \in Paths
    BY <2>1, BelowIsLonger DEF Rows
  <2>4. Parent(n.path)[1] = n.path[1]
    BY <2>3, PathFacts
  <2> QED
    BY <1>4, <2>1, <2>2, <2>4 DEF AddsDir, Adds, Within
<1>5. ASSUME NEW n \in Rows, AddsFile(n)
      PROVE  rows' = rows \cup {n} /\ n.type = "f" /\ (Within(n.user, n.path) \/ Within(Empty, n.path))
  BY <1>5 DEF AddsFile, Adds
<1>6. ASSUME NEW n \in rows, DropsFile(n) \/ DropsDir(n) PROVE rows' \subseteq rows
  BY <1>6 DEF DropsFile, DropsDir, Drops
<1> QED
  BY <1>1, <1>2, <1>3, <1>4, <1>5, <1>6, RowsStep DEF Within

LEMMA StaysHomeStep == Inv /\ [Next]_vars => StaysHome'
<1> SUFFICES ASSUME Inv, [Next]_vars PROVE StaysHome'
  OBVIOUS
<1> DEFINE Inside(c) == c # None => c.cwd = Root \/ Within(c.user, c.cwd)
<1>0. /\ sess \in [Sessions -> [user : Users, cwd : Paths] \cup {None}]
      /\ \A s \in Sessions : Inside(sess[s])
      /\ \A r \in rows : Within(r.user, r.path) \/ r.type = "f"
  BY DEF Inv, TypeOK, StaysHome, LoggedIn
<1> SUFFICES \A s \in Sessions : Inside(sess'[s])
  BY RowsStayHome DEF StaysHome, LoggedIn
<1>1. ASSUME NEW s \in Sessions, NEW u \in Users, Login(s, u)
      PROVE  \A t \in Sessions : Inside(sess'[t])
  <2>1. Inside([user |-> u, cwd |-> Home(u)])
    BY HomeFacts DEF Within
  <2> HIDE DEF Inside
  <2> QED
    BY <1>0, <1>1, <2>1 DEF Login
<1>2. ASSUME NEW s \in Sessions, NEW i \in Typed, Cd(s, i)
      PROVE  \A t \in Sessions : Inside(sess'[t])
  <2>1. sess[s] \in [user : Users, cwd : Paths]
    BY <1>0, <1>2 DEF Cd, Commands, LoggedIn
  <2>2. Within(sess[s].user, Target(s, i))
    BY <1>0, <1>2 DEF Cd, IsDir, At
  <2>3. Inside([sess[s] EXCEPT !.cwd = Target(s, i)])
    BY <2>1, <2>2
  <2>4. sess' = [sess EXCEPT ![s] = [sess[s] EXCEPT !.cwd = Target(s, i)]]
    BY <1>0, <1>2 DEF Cd
  <2> HIDE DEF Inside
  <2> QED
    BY <1>0, <2>3, <2>4
<1>3. CASE RmdirDelete
  <2>1. PICK d \in rows : /\ d.user = sess[loop.session].user /\ d.path = loop.path
                          /\ d.type = "d" /\ loop.session \in Sessions /\ LoggedIn(loop.session)
    BY <1>3, DeleteDrops DEF DropsDir
  <2>2. d.path \in Paths /\ Len(d.path) \in Nat /\ Len(d.path) > 0 /\ Within(d.user, d.path)
    BY <1>0, <2>1, PathFacts DEF Inv, TypeOK, Rows
  <2>3. Parent(d.path) = Root \/ Within(d.user, Parent(d.path))
    <3>1. CASE Len(d.path) = 1
      BY <3>1 DEF Parent
    <3>2. CASE Len(d.path) > 1
      BY <2>2, <3>2, PathFacts DEF Within
    <3>3. \A n \in Nat : n > 0 => n = 1 \/ n > 1
      OBVIOUS
    <3> QED
      BY <2>2, <3>1, <3>2, <3>3, Zenon
  <2> DEFINE s == loop.session
  <2>4. sess[s] \in [user : Users, cwd : Paths]
    BY <1>0, <2>1 DEF LoggedIn
  <2>5. Inside([sess[s] EXCEPT !.cwd = Parent(loop.path)])
    BY <2>1, <2>3, <2>4
  <2>6. \/ sess' = sess
        \/ sess' = [sess EXCEPT ![s] = [sess[s] EXCEPT !.cwd = Parent(loop.path)]]
    BY <1>0, <1>3, <2>1 DEF RmdirDelete
  <2>7. s \in Sessions
    BY <2>1
  <2> HIDE DEF Inside, s
  <2> QED
    BY <1>0, <2>5, <2>6, <2>7
<1>4. CASE sess' = sess
  BY <1>0, <1>4
<1>5. ASSUME NEW s \in Sessions, Logout(s)
      PROVE  \A t \in Sessions : Inside(sess'[t])
  BY <1>0, <1>5 DEF Logout
<1>6. ASSUME Die
      PROVE  \A t \in Sessions : Inside(sess'[t])
  BY <1>6 DEF Die
<1>7. ASSUME NEW s \in Sessions, NEW i \in Typed, Mkdir(s, i) \/ Rmdir(s, i) \/ Rm(s, i)
      PROVE  sess' = sess
  BY <1>7 DEF Mkdir, Rmdir, Rm
<1>8. ASSUME NEW s \in Sessions, NEW j \in Jobs, NEW name \in Uploads, Puts(s, j, name)
      PROVE  sess' = sess
  BY <1>8 DEF Puts
<1>9. ASSUME NEW j \in Jobs, PutsDir(j) \/ PutsInsert(j) \/ PutsFails(j)
      PROVE  sess' = sess
  BY <1>9 DEF PutsDir, PutsInsert, PutsFails
<1>10. CASE RmdirFails \/ UNCHANGED vars \/ \E u \in Users : Register(u)
  BY <1>4, <1>10 DEF RmdirFails, vars, Register
<1> HIDE DEF Inside
<1> QED
  BY <1>1, <1>2, <1>3, <1>4, <1>5, <1>6, <1>7, <1>8, <1>9, <1>10 DEF Next, LsDies, Exit

-----------------------------------------------------------------------------
(* Uploads, and the handler of rmdir. *)

\* The directory an upload holds is removed only by an rmdir that races with it.
LEMMA HeldStays ==
  ASSUME Inv, [Next]_vars, NEW j \in Jobs, job[j].parent \notin raced',
         NEW d \in rows, d.type = "d", d.id = job[j].parent
  PROVE  d \in rows'
<1>1. job[j].parent \notin raced
  BY RacedGrows
<1>2. CASE UNCHANGED <<rows, next>>
  BY <1>2
<1>3. ASSUME NEW n \in Rows, AddsHome(n) \/ AddsDir(n) \/ AddsFile(n) PROVE d \in rows'
  BY <1>3 DEF AddsHome, AddsDir, AddsFile, Adds
<1>4. ASSUME NEW f \in rows, DropsFile(f) PROVE d \in rows'
  BY <1>4 DEF DropsFile, Drops
<1>5. ASSUME NEW e \in rows, DropsDir(e) PROVE d \in rows'
  BY <1>1, <1>5 DEF DropsDir, Drops
<1> QED
  BY <1>2, <1>3, <1>4, <1>5, RowsStep

LEMMA JobsHoldStep == Inv /\ [Next]_vars => JobsHold'
<1> DEFINE Holds(u, c, name, n) ==
             /\ u \in Users
             /\ c = Root \/ Within(u, c)
             /\ name \in Uploads
             /\ n # 0 /\ n \notin raced =>
                  \E d \in rows : d.type = "d" /\ d.id = n /\ d.user = u /\ d.path = c
           Held(j) == job[j].at # "none" =>
                        Holds(job[j].user, job[j].cwd, job[j].name, job[j].parent)
<1> SUFFICES ASSUME Inv, [Next]_vars, NEW j \in Jobs PROVE Held(j)'
  BY DEF JobsHold
<1>0. /\ Held(j)
      /\ job \in [Jobs -> [at : {"none", "lookup", "insert"}, user : Users \cup {None},
                           cwd : Paths, name : Paths, parent : Nat]]
      /\ NoJob.at = "none"
  BY DEF Inv, JobsHold, TypeOK, NoJob
<1>1. ASSUME job'[j] = job[j] PROVE Held(j)'
  <2>1. job[j].parent \notin raced' => job[j].parent \notin raced
    BY RacedGrows
  <2>2. CASE job[j].at = "none"
    BY <1>1, <2>2
  <2>3. CASE job[j].at # "none"
    <3>1. job[j].parent # 0 /\ job[j].parent \notin raced' =>
            \E d \in rows' : /\ d.type = "d" /\ d.id = job[j].parent
                            /\ d.user = job[j].user /\ d.path = job[j].cwd
      BY <1>0, <2>1, <2>3, HeldStays
    <3>2. job[j].user \in Users /\ job[j].name \in Uploads /\ (job[j].cwd = Root \/ Within(job[j].user, job[j].cwd))
      BY <1>0, <2>3
    <3> QED
      BY <1>1, <3>1, <3>2 DEF Within
  <2> QED
    BY <2>2, <2>3
<1>2. ASSUME job'[j] = NoJob PROVE Held(j)'
  BY <1>0, <1>2
<1>3. ASSUME NEW s \in Sessions, NEW i \in Jobs, NEW name \in Uploads, Puts(s, i, name)
      PROVE  Held(j)'
  <2>1. /\ sess[s].user \in Users
        /\ sess[s].cwd = Root \/ Within(sess[s].user, sess[s].cwd)
    BY <1>3 DEF Inv, TypeOK, StaysHome, Puts, Commands, LoggedIn
  <2>2. CASE i = j
    <3>1. /\ job'[j].user = sess[s].user /\ job'[j].cwd = sess[s].cwd
          /\ job'[j].name = name /\ job'[j].parent = 0
      BY <1>0, <1>3, <2>2 DEF Puts
    <3> QED
      BY <2>1, <3>1 DEF Within
  <2>3. CASE i # j
    BY <1>0, <1>1, <1>3, <2>3 DEF Puts
  <2> QED
    BY <2>2, <2>3
<1>4. ASSUME NEW i \in Jobs, PutsDir(i) PROVE Held(j)'
  <2>1. CASE i = j
    <3>1. PICK id \in {d.id : d \in At(job[j].user, job[j].cwd, "d")} \cup {0} :
            job' = [job EXCEPT ![j].at = "insert", ![j].parent = id]
      BY <1>4, <2>1 DEF PutsDir
    <3>2. /\ job'[j].user = job[j].user /\ job'[j].cwd = job[j].cwd
          /\ job'[j].name = job[j].name /\ job'[j].parent = id
      BY <1>0, <3>1
    <3>3. job[j].at # "none" /\ rows' = rows
      BY <1>4, <2>1 DEF PutsDir
    <3>4. id # 0 => \E d \in rows : /\ d.type = "d" /\ d.id = id
                                    /\ d.user = job[j].user /\ d.path = job[j].cwd
      BY <3>1 DEF At
    <3> QED
      BY <1>0, <3>2, <3>3, <3>4 DEF Within
  <2>2. CASE i # j
    BY <1>0, <1>1, <1>4, <2>2 DEF PutsDir
  <2> QED
    BY <2>1, <2>2
<1>5. ASSUME NEW i \in Jobs, PutsInsert(i) \/ PutsFails(i) PROVE Held(j)'
  <2>1. job' = [job EXCEPT ![i] = NoJob]
    BY <1>5 DEF PutsInsert, PutsFails
  <2>2. job'[j] = NoJob \/ job'[j] = job[j]
    BY <1>0, <2>1
  <2> QED
    BY <1>1, <1>2, <2>2
<1>6. CASE Die
  BY <1>2, <1>6 DEF Die
<1>7. ASSUME job' = job PROVE Held(j)'
  BY <1>1, <1>7
<1>8. ASSUME NEW s \in Sessions, Logout(s) \/ \E u \in Users : Login(s, u)
      PROVE  job' = job
  BY <1>8 DEF Logout, Login
<1>9. ASSUME NEW s \in Sessions, NEW i \in Typed,
             Cd(s, i) \/ Mkdir(s, i) \/ Rmdir(s, i) \/ Rm(s, i)
      PROVE  job' = job
  BY <1>9 DEF Cd, Mkdir, Rmdir, Rm
<1>10. CASE RmdirDelete \/ RmdirFails \/ UNCHANGED vars \/ \E u \in Users : Register(u)
  BY <1>7, <1>10 DEF RmdirDelete, RmdirFails, vars, Register
<1> HIDE DEF Held
<1> QED
  BY <1>3, <1>4, <1>5, <1>6, <1>7, <1>8, <1>9, <1>10 DEF Next, LsDies, Exit

LEMMA LoopHoldsStep == Inv /\ [Next]_vars => LoopHolds'
<1> SUFFICES ASSUME Inv, [Next]_vars PROVE LoopHolds'
  OBVIOUS
<1>0. /\ LoopHolds
      /\ Waiting.at = "wait" /\ NoJob.parent = 0
      /\ \A r \in rows : r.id # 0
  BY DEF Inv, Waiting, NoJob, TypeOK, Rows
<1>1. ASSUME loop.at = "wait" \/ loop' = Waiting, loop' = loop \/ loop' = Waiting
      PROVE  LoopHolds'
  BY <1>0, <1>1 DEF LoopHolds
<1>2. ASSUME NEW s \in Sessions, NEW i \in Typed, Rmdir(s, i) PROVE LoopHolds'
  <2>1. PICK d \in At(sess[s].user, Target(s, i), "d"), same \in BOOLEAN :
          /\ Children(sess[s].user, d.id) = {}
          /\ same => sess[s].cwd = Target(s, i)
          /\ loop' = [at |-> "remove", session |-> s, path |-> Target(s, i), id |-> d.id,
                      same |-> same]
          /\ raced' = IF \E j \in Jobs : job[j].parent = d.id THEN raced \cup {d.id} ELSE raced
    BY <1>2 DEF Rmdir
  <2>2. /\ loop'.session = s /\ loop'.path = Target(s, i) /\ loop'.id = d.id
        /\ loop'.same = same
    BY <2>1
  <2>3. rows' = rows /\ sess' = sess /\ job' = job /\ LoggedIn(s)
    BY <1>2 DEF Rmdir, Commands
  <2>4. \A j \in Jobs : job[j].parent = d.id => d.id \in raced'
    BY <2>1
  <2>5. Children(sess[s].user, d.id) = {} /\ (same => sess[s].cwd = Target(s, i))
    BY <2>1
  <2> QED
    BY <2>2, <2>3, <2>4, <2>5 DEF LoopHolds, LoggedIn, At, Children
<1>4. ASSUME loop' = loop, sess' = sess, rows \subseteq rows', raced \subseteq raced',
             \A r \in rows' \ rows : r.parent = loop.id => r.type = "f" /\ loop.id \in raced',
             loop.at = "remove" => \A j \in Jobs : job'[j].parent = loop.id => loop.id \in raced'
      PROVE  LoopHolds'
  <2>1. CASE loop.at = "remove"
    <3>1. \A r \in Children(sess[loop.session].user, loop.id)' :
            r.type = "f" /\ loop.id \in raced'
      BY <1>0, <1>4, <2>1 DEF LoopHolds, Children
    <3> QED
      BY <1>0, <1>4, <2>1, <3>1 DEF LoopHolds, LoggedIn, At
  <2>2. CASE loop.at # "remove"
    BY <1>0, <1>4, <2>2 DEF LoopHolds, LoggedIn
  <2> QED
    BY <2>1, <2>2
<1>5. ASSUME NEW j \in Jobs, PutsDir(j) PROVE LoopHolds'
  <2>1. PICK id \in {d.id : d \in At(job[j].user, job[j].cwd, "d")} \cup {0} :
          /\ job' = [job EXCEPT ![j].at = "insert", ![j].parent = id]
          /\ raced' = IF loop.at = "remove" /\ loop.id = id THEN raced \cup {id} ELSE raced
    BY <1>5 DEF PutsDir
  <2>2. \A i \in Jobs : job'[i].parent = id \/ job'[i].parent = job[i].parent
    <3>1. job \in [Jobs -> [at : {"none", "lookup", "insert"}, user : Users \cup {None},
                             cwd : Paths, name : Paths, parent : Nat]]
      BY DEF Inv, TypeOK
    <3> QED
      BY <2>1, <3>1
  <2>3. loop.at = "remove" => \A i \in Jobs : job'[i].parent = loop.id => loop.id \in raced'
    BY <1>0, <2>1, <2>2 DEF LoopHolds
  <2>4. loop' = loop /\ sess' = sess /\ rows' = rows /\ raced \subseteq raced'
    BY <1>5, <2>1 DEF PutsDir
  <2> QED
    BY <1>4, <2>3, <2>4
<1>6. ASSUME NEW j \in Jobs, PutsInsert(j) \/ PutsFails(j) PROVE LoopHolds'
  <2>1. job' = [job EXCEPT ![j] = NoJob] /\ loop' = loop /\ sess' = sess /\ raced' = raced
    BY <1>6 DEF PutsInsert, PutsFails
  <2>2. \A i \in Jobs : job'[i].parent = 0 \/ job'[i].parent = job[i].parent
    <3>1. DOMAIN job = Jobs
      BY DEF Inv, TypeOK
    <3> QED
      BY <1>0, <2>1, <3>1
  <2>3. CASE loop.at = "remove"
    <3>1. loop.id # 0 /\ \A i \in Jobs : job[i].parent = loop.id => loop.id \in raced
      BY <1>0, <2>3 DEF LoopHolds, At
    <3>2. \A i \in Jobs : job'[i].parent = loop.id => loop.id \in raced'
      BY <2>1, <2>2, <3>1
    <3>3. CASE PutsFails(j)
      <4>1. rows' = rows
        BY <3>3 DEF PutsFails
      <4> QED
        BY <1>4, <2>1, <3>2, <4>1
    <3>4. CASE PutsInsert(j)
      <4>1. PICK r \in Rows : AddsFile(r) /\ r.user = job[j].user /\ r.parent = job[j].parent
        BY <3>4, PutsAdds
      <4>2. rows' = rows \cup {r} /\ r.type = "f"
        BY <4>1 DEF AddsFile, Adds
      <4>3. \A q \in rows' \ rows : q.parent = loop.id => q.type = "f" /\ loop.id \in raced'
        BY <2>1, <3>1, <4>1, <4>2
      <4>4. rows \subseteq rows' /\ raced \subseteq raced'
        BY <2>1, <4>2
      <4> QED
        BY <1>4, <2>1, <3>2, <4>3, <4>4
    <3> QED
      BY <1>6, <3>3, <3>4
  <2>4. CASE loop.at # "remove"
    BY <1>0, <2>1, <2>4 DEF LoopHolds, LoggedIn
  <2> QED
    BY <2>3, <2>4
<1>7. ASSUME NEW s \in Sessions,
             \/ Logout(s)
             \/ \E u \in Users : Login(s, u)
             \/ \E j \in Jobs, name \in Uploads : Puts(s, j, name)
      PROVE  LoopHolds'
  BY <1>1, <1>7 DEF Logout, Login, Puts, Commands
<1>8. ASSUME NEW s \in Sessions, NEW i \in Typed, Cd(s, i) \/ Mkdir(s, i) \/ Rm(s, i)
      PROVE  LoopHolds'
  BY <1>1, <1>8 DEF Cd, Mkdir, Rm, Commands
<1>9. CASE RmdirDelete \/ RmdirFails \/ Die \/ \E u \in Users : Register(u)
  BY <1>1, <1>9 DEF RmdirDelete, RmdirFails, Die, Register
<1>10. CASE UNCHANGED vars
  BY <1>0, <1>10 DEF vars, LoopHolds, LoggedIn, At, Children
<1> QED
  BY <1>2, <1>5, <1>6, <1>7, <1>8, <1>9, <1>10 DEF Next, LsDies, Exit

-----------------------------------------------------------------------------
(* The theorems. *)

LEMMA InvInit == Init => Inv
<1> SUFFICES ASSUME Init PROVE Inv
  OBVIOUS
<1>1. Root \in Paths
  BY NamesAssumption DEF Root, Paths
<1>2. TypeOK
  BY <1>1 DEF Init, TypeOK, NoJob, Waiting
<1>3. Ids /\ DirectoriesAreReachable /\ FilesAreListed /\ StaysHome
  BY DEF Init, Ids, DirectoriesAreReachable, OneHome, FilesAreListed, StaysHome, LoggedIn
<1>4. JobsHold /\ LoopHolds
  BY DEF Init, JobsHold, LoopHolds, NoJob, Waiting
<1> QED
  BY <1>2, <1>3, <1>4 DEF Inv

\* The invariant that the other theorems follow from (see Inv).
THEOREM Invariance == Spec => []Inv
<1>1. Inv /\ [Next]_vars => Inv'
  BY TypeStep, IdsStep, DirectoriesStep, FilesStep, StaysHomeStep, JobsHoldStep,
     LoopHoldsStep DEF Inv
<1> QED
  BY <1>1, InvInit, PTL DEF Spec

\* The tables and the locals of the handlers have their types: no command makes an
\* empty path, and no row has the id 0 that get_dir_id returns for "none"
\* (commands.c, file_db.c:210-227).
THEOREM TypeCorrect == Spec => []TypeOK
BY Invariance, PTL DEF Inv

\* A directory is never cut off from its home, and a user never has two homes, although
\* mkdir and login insert without a unique key (commands.c:125-266, session.c:139-161).
THEOREM Reachable == Spec => []DirectoriesAreReachable
BY Invariance, PTL DEF Inv

\* An uploaded file is in a directory unless its upload was too late for the directory,
\* or raced with its rmdir (commands.c:227-247, file_transfer.c:459-462).
THEOREM Listed == Spec => []FilesAreListed
BY Invariance, PTL DEF Inv

\* What happens to the directory of one session in one step (commands.c:252-260).
LEMMA CwdStep ==
  ASSUME Inv, [Next]_vars, NEW s \in Sessions,
         LoggedIn(s), LoggedIn(s)', InDir(s),
         loop.at = "remove" => loop.session = s /\ (sess[s].cwd = loop.path => loop.same)
  PROVE  InDir(s)' \/ (sess'[s].cwd = Root /\ ~IsDir(sess[s].user, Home(sess[s].user))')
<1> DEFINE Follows == InDir(s)' \/ (sess'[s].cwd = Root /\ ~IsDir(sess[s].user, Home(sess[s].user))')
<1>0. /\ sess \in [Sessions -> [user : Users, cwd : Paths] \cup {None}]
      /\ sess[s] \in [user : Users, cwd : Paths]
  BY DEF Inv, TypeOK, LoggedIn
<1>1. PICK e \in rows : e.user = sess[s].user /\ e.path = sess[s].cwd /\ e.type = "d"
  BY DEF InDir, IsDir, At
<1>2. ASSUME sess'[s] = sess[s], e \in rows' PROVE Follows
  BY <1>1, <1>2 DEF InDir, IsDir, At
<1>3. ASSUME NEW t \in Sessions, NEW u \in Users, Login(t, u) PROVE Follows
  <2>1. sess'[s] = sess[s] /\ rows \subseteq rows'
    BY <1>0, <1>3 DEF Login, Insert, LoggedIn
  <2> QED
    BY <1>2, <2>1
<1>4. ASSUME NEW t \in Sessions, NEW i \in Typed, Cd(t, i) PROVE Follows
  <2>1. rows' = rows
    BY <1>4 DEF Cd
  <2>2. CASE t = s
    <3>1. sess' = [sess EXCEPT ![s] = [sess[s] EXCEPT !.cwd = Target(s, i)]]
      BY <1>0, <1>4, <2>2 DEF Cd
    <3>2. sess'[s].user = sess[s].user /\ sess'[s].cwd = Target(s, i)
      BY <1>0, <3>1
    <3> QED
      BY <1>4, <2>1, <2>2, <3>2 DEF Cd, InDir, IsDir, At
  <2>3. CASE t # s
    BY <1>0, <1>2, <1>4, <2>1, <2>3 DEF Cd
  <2> QED
    BY <2>2, <2>3
<1>5. ASSUME RmdirDelete PROVE Follows
  <2>1. PICK d \in rows : /\ DropsDir(d) /\ d.user = sess[loop.session].user
                          /\ d.path = loop.path
    BY <1>5, DeleteDrops
  <2>2. loop.at = "remove" /\ loop.session = s
    BY <1>5 DEF RmdirDelete
  <2>3. HasParent(d) /\ rows' = rows \ {d} /\ d.type = "d" /\ d.user = sess[s].user
    BY <2>1, <2>2 DEF Inv, DirectoriesAreReachable, DropsDir, Drops
  <2>4. CASE sess[s].cwd # loop.path
    <3>1. sess' = sess
      BY <1>5, <2>2, <2>4 DEF RmdirDelete, Inv, LoopHolds
    <3> QED
      BY <1>1, <1>2, <2>1, <2>3, <2>4, <3>1
  <2>5. CASE sess[s].cwd = loop.path
    <3>1. sess' = [sess EXCEPT ![s] = [sess[s] EXCEPT !.cwd = Parent(loop.path)]]
      BY <1>0, <1>5, <2>2, <2>5 DEF RmdirDelete
    <3>2. sess'[s].user = d.user /\ sess'[s].cwd = Parent(d.path)
      BY <1>0, <2>1, <2>3, <3>1
    <3>3. CASE d.path = Home(d.user) /\ d.parent = 0
      <4>1. d.user \in Users
        BY <1>0, <2>3
      <4>2. sess'[s].cwd = Root
        BY <3>2, <3>3, <4>1, HomeFacts
      <4>3. ASSUME NEW r \in rows, r.type = "d", r.user = d.user, r.path = Home(d.user)
            PROVE  r = d
        <5>1. HasParent(r)
          BY <4>3 DEF Inv, DirectoriesAreReachable
        <5>2. Len(r.path) = 1
          BY <4>1, <4>3, HomeFacts, Zenon
        <5>3. r.parent = 0
          BY <5>1, <5>2 DEF HasParent
        <5> QED
          BY <2>3, <3>3, <4>3, <5>3 DEF Inv, DirectoriesAreReachable, OneHome
      <4>4. ~IsDir(sess[s].user, Home(sess[s].user))'
        <5>1. sess[s].user = sess'[s].user
          BY <2>3, <3>2
        <5> QED
          BY <2>3, <3>2, <4>3, <5>1 DEF IsDir, At
      <4> QED
        BY <4>2, <4>4
    <3>4. ASSUME NEW p \in rows, p.id = d.parent, p.type = "d", p.user = d.user,
                 p.path = Parent(d.path)
          PROVE  Follows
      <4>1. p # d
        BY <2>1, <2>3, <3>4 DEF DropsDir, Children
      <4> QED
        BY <2>3, <3>2, <3>4, <4>1 DEF InDir, IsDir, At
    <3> QED
      BY <2>3, <3>3, <3>4 DEF HasParent
  <2> QED
    BY <2>4, <2>5
<1>6. ASSUME NEW t \in Sessions, Logout(t) PROVE Follows
  <2>1. t # s
    BY <1>0, <1>6 DEF Logout, LoggedIn
  <2> QED
    BY <1>0, <1>2, <1>6, <2>1 DEF Logout
<1>7. ASSUME Die \/ \E t \in Sessions : LsDies(t) PROVE Follows
  <2>1. Die
    BY <1>7 DEF LsDies
  <2> QED
    BY <2>1 DEF Die, LoggedIn
<1>8. ASSUME NEW t \in Sessions, NEW i \in Typed, Mkdir(t, i) \/ Rmdir(t, i) PROVE Follows
  <2>1. sess' = sess /\ rows \subseteq rows'
    BY <1>8 DEF Mkdir, Rmdir, Insert
  <2> QED
    BY <1>2, <2>1
<1>9. ASSUME NEW t \in Sessions, NEW i \in Typed, Rm(t, i) PROVE Follows
  <2>1. sess' = sess /\ e \in rows'
    BY <1>1, <1>9 DEF Rm, At
  <2> QED
    BY <1>2, <2>1
<1>10. ASSUME NEW t \in Sessions, NEW j \in Jobs, NEW name \in Uploads, Puts(t, j, name)
       PROVE  Follows
  <2>1. sess' = sess /\ rows' = rows
    BY <1>10 DEF Puts
  <2> QED
    BY <1>2, <2>1
<1>11. ASSUME NEW j \in Jobs, PutsDir(j) \/ PutsInsert(j) \/ PutsFails(j) PROVE Follows
  <2>1. sess' = sess /\ rows \subseteq rows'
    BY <1>11 DEF PutsDir, PutsInsert, PutsFails, Insert
  <2> QED
    BY <1>2, <2>1
<1>12. ASSUME RmdirFails \/ UNCHANGED vars \/ \E u \in Users : Register(u)
       PROVE  Follows
  <2>1. sess' = sess /\ rows' = rows
    BY <1>12 DEF RmdirFails, vars, Register
  <2> QED
    BY <1>2, <2>1
<1> HIDE DEF Follows
<1>13. Follows
  BY <1>3, <1>4, <1>5, <1>6, <1>7, <1>8, <1>9, <1>10, <1>11, <1>12 DEF Next, Exit
<1> QED
  BY <1>13 DEF Follows

\* A session never finds itself in a directory that its own rmdir has removed, unless it
\* named it otherwise; removing the home leads to "/" (commands.c:252-260).
THEOREM Following == Spec => CwdFollows
<1>1. Inv /\ [Next]_vars =>
        [\A s \in Sessions :
           /\ LoggedIn(s) /\ LoggedIn(s)' /\ InDir(s)
           /\ loop.at = "remove" => loop.session = s /\ (sess[s].cwd = loop.path => loop.same)
           => InDir(s)' \/ (sess'[s].cwd = Root /\ ~IsDir(sess[s].user, Home(sess[s].user))')]_vars
  BY CwdStep
<1> QED
  BY <1>1, Invariance, PTL DEF Spec, CwdFollows

-----------------------------------------------------------------------------
(* The table as trees of directories. *)

LEMMA DirsOf ==
  /\ \A u \in Users : Dirs[u] = {r.path : r \in {q \in rows : q.user = u /\ q.type = "d"}}
  /\ \A u \in Users : Dirs'[u] = {r.path : r \in {q \in rows' : q.user = u /\ q.type = "d"}}
  /\ DOMAIN Dirs = Users /\ DOMAIN Dirs' = Users
  /\ Dirs = [u \in Users |-> Dirs[u]] /\ Dirs' = [u \in Users |-> Dirs'[u]]
BY DEF Dirs

\* Two tables with the same directories show the same trees.
LEMMA SameDirs ==
  ASSUME \A u \in Users : Dirs'[u] = Dirs[u]
  PROVE  Dirs' = Dirs
<1> DEFINE D == Dirs
           E == Dirs'
<1>1. D = [u \in Users |-> D[u]] /\ E = [u \in Users |-> E[u]] /\ \A u \in Users : E[u] = D[u]
  BY DirsOf
<1> HIDE DEF D, E
<1>2. E = D
  BY <1>1
<1> QED
  BY <1>2 DEF D, E

LEMMA OneTreeChanges ==
  ASSUME NEW u \in Users, NEW S, Dirs'[u] = S, \A v \in Users \ {u} : Dirs'[v] = Dirs[v]
  PROVE  Dirs' = [Dirs EXCEPT ![u] = S]
<1> DEFINE D == Dirs
           E == Dirs'
<1>1. /\ DOMAIN D = Users /\ E = [v \in Users |-> E[v]]
      /\ D = [v \in Users |-> D[v]]
      /\ E[u] = S /\ \A v \in Users \ {u} : E[v] = D[v]
  BY DirsOf
<1> HIDE DEF D, E
<1>2. E = [D EXCEPT ![u] = S]
  BY <1>1
<1> QED
  BY <1>2 DEF D, E

\* A row without a directory's type leaves the trees alone.
LEMMA FilesLeaveDirs ==
  ASSUME {q \in rows' : q.type = "d"} = {q \in rows : q.type = "d"}
  PROVE  Dirs' = Dirs
<1>1. ASSUME NEW u \in Users PROVE Dirs'[u] = Dirs[u]
  <2>1. {q \in rows' : q.user = u /\ q.type = "d"} = {q \in rows : q.user = u /\ q.type = "d"}
    OBVIOUS
  <2> QED
    BY <2>1, DirsOf
<1> QED
  BY <1>1, SameDirs

LEMMA RowAddsDir ==
  ASSUME NEW n \in Rows, n.type = "d", rows' = rows \cup {n}
  PROVE  /\ Dirs' = [Dirs EXCEPT ![n.user] = @ \cup {n.path}]
         /\ Dirs'[n.user] = Dirs[n.user] \cup {n.path}
         /\ n.path \in Dirs[n.user] => Dirs' = Dirs
<1>0. n.user \in Users
  BY DEF Rows
<1>1. Dirs'[n.user] = Dirs[n.user] \cup {n.path}
  BY <1>0, DirsOf
<1>2. ASSUME NEW v \in Users \ {n.user} PROVE Dirs'[v] = Dirs[v]
  <2>1. {q \in rows' : q.user = v /\ q.type = "d"} = {q \in rows : q.user = v /\ q.type = "d"}
    OBVIOUS
  <2> QED
    BY <2>1, DirsOf
<1>3. Dirs' = [Dirs EXCEPT ![n.user] = Dirs[n.user] \cup {n.path}]
  BY <1>0, <1>1, <1>2, OneTreeChanges
<1>4. n.path \in Dirs[n.user] => \A v \in Users : Dirs'[v] = Dirs[v]
  BY <1>1, <1>2
<1> QED
  BY <1>1, <1>3, <1>4, SameDirs

LEMMA RowDropsDir ==
  ASSUME NEW d \in rows, d.type = "d", d.user \in Users, rows' = rows \ {d}
  PROVE  IF \E e \in rows : e # d /\ e.type = "d" /\ e.user = d.user /\ e.path = d.path
           THEN Dirs' = Dirs
           ELSE /\ Dirs' = [Dirs EXCEPT ![d.user] = @ \ {d.path}]
                /\ Dirs'[d.user] = Dirs[d.user] \ {d.path}
<1>1. ASSUME NEW v \in Users \ {d.user} PROVE Dirs'[v] = Dirs[v]
  <2>1. {q \in rows' : q.user = v /\ q.type = "d"} = {q \in rows : q.user = v /\ q.type = "d"}
    OBVIOUS
  <2> QED
    BY <2>1, DirsOf
<1>2. ASSUME NEW e \in rows, e # d, e.type = "d", e.user = d.user, e.path = d.path
      PROVE  Dirs' = Dirs
  <2> DEFINE R == {q \in rows : q.user = d.user /\ q.type = "d"}
  <2>1. {r.path : r \in R \ {d}} = {r.path : r \in R}
    <3>1. e \in R \ {d} /\ e.path = d.path
      BY <1>2
    <3> HIDE DEF R
    <3> QED
      BY <3>1
  <2>2. {q \in rows' : q.user = d.user /\ q.type = "d"} = R \ {d}
    OBVIOUS
  <2>3. Dirs'[d.user] = Dirs[d.user]
    <3>1. /\ Dirs[d.user] = {r.path : r \in R}
          /\ Dirs'[d.user] = {r.path : r \in {q \in rows' : q.user = d.user /\ q.type = "d"}}
      BY DirsOf
    <3> HIDE DEF R
    <3> QED
      BY <2>1, <2>2, <3>1
  <2> QED
    BY <1>1, <2>3, SameDirs
<1>3. ASSUME ~ \E e \in rows : e # d /\ e.type = "d" /\ e.user = d.user /\ e.path = d.path
      PROVE  /\ Dirs' = [Dirs EXCEPT ![d.user] = @ \ {d.path}]
             /\ Dirs'[d.user] = Dirs[d.user] \ {d.path}
  <2>1. Dirs'[d.user] = Dirs[d.user] \ {d.path}
    BY <1>3, DirsOf
  <2> QED
    BY <1>1, <2>1, OneTreeChanges
<1> QED
  BY <1>2, <1>3

\* The home that login makes: no directory had its path.
LEMMA HomeIsMade ==
  ASSUME Inv, NEW n \in Rows, AddsHome(n)
  PROVE  Tree!Next
<1>1. n.user \in Users /\ n.type = "d" /\ n.path = Home(n.user) /\ rows' = rows \cup {n}
  BY DEF Rows, AddsHome, Adds
<1>2. Home(n.user) \notin Dirs[n.user]
  <2>1. SUFFICES ASSUME NEW r \in rows, r.user = n.user, r.type = "d", r.path = Home(n.user)
                 PROVE  FALSE
    BY <1>1, DirsOf
  <2>2. HasParent(r)
    BY <2>1 DEF Inv, DirectoriesAreReachable
  <2>3. Len(r.path) = 1
    BY <1>1, <2>1, HomeFacts, Zenon
  <2>4. r.parent = 0
    BY <2>2, <2>3 DEF HasParent
  <2> QED
    BY <2>1, <2>4 DEF AddsHome, Children
<1>3. /\ Dirs' = [Dirs EXCEPT ![n.user] = @ \cup {Home(n.user)}]
      /\ Dirs'[n.user] = Dirs[n.user] \cup {Home(n.user)}
  BY <1>1, RowAddsDir
<1>4. Tree!MakeHome(n.user)
  BY <1>2, <1>3 DEF Tree!MakeHome, Tree!Home, Home
<1> QED
  BY <1>1, <1>2, <1>3, <1>4 DEF Tree!Next

\* mkdir adds the path to the tree, or is a stutter if it was there already.
LEMMA DirIsMade ==
  ASSUME Inv, NEW n \in Rows, AddsDir(n)
  PROVE  Tree!Next \/ Dirs' = Dirs
<1>1. /\ n.user \in Users /\ n.path \in Paths
      /\ n.type = "d" /\ rows' = rows \cup {n}
  BY DEF Rows, AddsDir, Adds
<1>2. /\ Dirs' = [Dirs EXCEPT ![n.user] = @ \cup {n.path}]
      /\ Dirs'[n.user] = Dirs[n.user] \cup {n.path}
      /\ n.path \in Dirs[n.user] => Dirs' = Dirs
  BY <1>1, RowAddsDir
<1>3. Parent(n.path) \in Dirs[n.user]
  <2>1. PICK d \in rows : d.type = "d" /\ d.user = n.user /\ d.path = Parent(n.path)
    BY DEF AddsDir
  <2> QED
    BY <1>1, <2>1, DirsOf
<1>4. ASSUME n.path \notin Dirs[n.user] PROVE Tree!Next
  <2>1. Tree!Make(n.user, n.path)
    BY <1>2, <1>3, <1>4 DEF Tree!Make, Tree!Parent, Parent, Tree!Root, Root, Tree!Front, Front
  <2> QED
    BY <1>1, <1>2, <1>4, <2>1 DEF Tree!Next, Tree!Paths, Paths
<1> QED
  BY <1>2, <1>4

\* rmdir takes a leaf away, or is a stutter if another row of the path is left.
LEMMA DirIsRemoved ==
  ASSUME Inv, NEW d \in rows, DropsDir(d)
  PROVE  Tree!Next \/ Dirs' = Dirs
<1>1. d.user \in Users /\ d.path \in Paths /\ d.type = "d" /\ rows' = rows \ {d}
  BY DEF Inv, TypeOK, Rows, DropsDir, Drops
<1>2. CASE \E e \in rows : e # d /\ e.type = "d" /\ e.user = d.user /\ e.path = d.path
  BY <1>1, <1>2, RowDropsDir
<1>3. ASSUME ~ \E e \in rows : e # d /\ e.type = "d" /\ e.user = d.user /\ e.path = d.path
      PROVE  Tree!Next
  <2>1. /\ Dirs' = [Dirs EXCEPT ![d.user] = @ \ {d.path}]
        /\ Dirs'[d.user] = Dirs[d.user] \ {d.path}
    BY <1>1, <1>3, RowDropsDir
  <2>2. d.path \in Dirs[d.user]
    BY <1>1, DirsOf
  <2>3. ASSUME NEW q \in Dirs[d.user] \ {d.path} PROVE Parent(q) # d.path
    <3>1. PICK r \in rows : r.user = d.user /\ r.type = "d" /\ r.path = q
      BY <1>1, DirsOf
    <3>2. HasParent(r)
      BY <3>1 DEF Inv, DirectoriesAreReachable
    <3>3. CASE r.path = Home(r.user)
      <4>1. d.path # Root
        <5>1. Within(d.user, d.path)
          BY <1>1 DEF Inv, StaysHome
        <5> QED
          BY <1>1, <5>1, HomeFacts DEF Within
      <4> QED
        BY <1>1, <3>1, <3>3, <4>1, HomeFacts
    <3>4. ASSUME NEW e \in rows, e.id = r.parent, e.type = "d", e.user = r.user,
                 e.path = Parent(r.path)
          PROVE  Parent(q) # d.path
      <4>1. e # d
        BY <3>1, <3>4 DEF DropsDir, Children
      <4> QED
        BY <1>3, <3>1, <3>4, <4>1
    <3> QED
      BY <3>2, <3>3, <3>4 DEF HasParent
  <2>4. Tree!Remove(d.user, d.path)
    BY <2>1, <2>2, <2>3
    DEF Tree!Remove, Tree!Parent, Parent, Tree!Root, Root, Tree!Front, Front
  <2> QED
    BY <1>1, <2>1, <2>2, <2>4 DEF Tree!Next
<1> QED
  BY <1>2, <1>3

LEMMA StepRefines == Inv /\ [Next]_vars => [Tree!Next]_Dirs
<1> SUFFICES ASSUME Inv, [Next]_vars PROVE Tree!Next \/ Dirs' = Dirs
  OBVIOUS
<1>1. CASE UNCHANGED <<rows, next>>
  BY <1>1, FilesLeaveDirs
<1>2. ASSUME NEW n \in Rows, AddsFile(n) PROVE Dirs' = Dirs
  BY <1>2, FilesLeaveDirs DEF AddsFile, Adds
<1>3. ASSUME NEW f \in rows, DropsFile(f) PROVE Dirs' = Dirs
  BY <1>3, FilesLeaveDirs DEF DropsFile, Drops
<1> QED
  BY <1>1, <1>2, <1>3, HomeIsMade, DirIsMade, DirIsRemoved, RowsStep

\* The tables of duplicates, files and races show every user a tree of directories that
\* grows inside itself and shrinks by leaves (commands.c:125-266, session.c:139-161).
THEOREM TablesImplementTree == Spec => ImplementsDirTree
<1>1. Init => Tree!Init
  BY DEF Init, Dirs, Tree!Init
<1>2. Inv /\ [Next]_vars => [Tree!Next]_Dirs
  BY StepRefines
<1> QED
  BY <1>1, <1>2, Invariance, PTL DEF Spec, ImplementsDirTree, Tree!Spec
=============================================================================
