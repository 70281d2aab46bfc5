------------------------------ MODULE FileTree ------------------------------
(***************************************************************************)
(* The virtual file system of the Cloudisk server: the tables user and     *)
(* file_info, the commands that read and change them on the event loop     *)
(* (cd, mkdir, rmdir, rm, ls, registration, login), the rows that worker   *)
(* threads insert for puts meanwhile, and the death of the process.        *)
(*                                                                         *)
(* Every query is atomic.  Handlers of the event loop are one step, since  *)
(* only files appear between their queries, except rmdir, whose test for   *)
(* children is spoiled by them.  A command that is refused, or whose first *)
(* queries fail, changes nothing and is no action.  Paths fit into their   *)
(* buffers.                                                                *)
(*                                                                         *)
(* Names are plain: they contain no quote and no backslash.  file_db.c     *)
(* escapes what it inserts but no lookup escapes what it looks for         *)
(* (commands.c:82, 144, 203, 284, file_db.c:176, 212), so only for plain   *)
(* names does a lookup find the rows of the path that was typed, no more   *)
(* and no less.  All properties below are about plain names.               *)
(***************************************************************************)
EXTENDS VirtualPath, Integers, FiniteSets

CONSTANTS Sessions,    \* logged in clients, the slots of user[]
          Jobs,        \* uploads under way, queued or in a worker
          Typed,       \* what clients type as directory or file to remove
          Uploads,     \* what clients type as the file of a puts
          None,        \* no session
          Faulty,      \* users for whom a query may fail
          MaxRows,     \* bound on the ids given out
          Quota,       \* bound on the rows of a user
          MaxDepth     \* bound on the length of a directory's path

ASSUME TypedAssumption == Typed \subseteq Inputs /\ Uploads \subseteq Paths
ASSUME NoneAssumption ==
  None \notin [user : Users, cwd : Paths] /\ None \notin Sessions
ASSUME BoundsAssumption == MaxRows \in Nat /\ MaxDepth \in Nat /\ Quota \in [Users -> Nat]

VARIABLES registered,  \* table user
          rows,        \* table file_info
          next,        \* its AUTO_INCREMENT
          sess,        \* user name and current_dir of a slot
          job,         \* the locals of handle_puts
          loop,        \* where the event loop is, and the locals of its handler
          raced        \* history: directories an upload held while rmdir was removing them

vars == <<registered, rows, next, sess, job, loop, raced>>

NoJob == [at |-> "none", user |-> None, cwd |-> Root, name |-> Root, parent |-> 0]
Waiting == [at |-> "wait", session |-> None, path |-> Root, id |-> 0, same |-> FALSE]

LoggedIn(s) == sess[s] # None
Row(user, parent, path, type) ==
  [id |-> next, user |-> user, parent |-> parent, path |-> path, type |-> type]

At_Mut(u, p, type) == {r \in rows : r.user = u /\ r.path = p}   \* mutant: any type

\* The SELECTs on file_info, all limited to one user's rows: by path, which is
\* equality for plain names only, and by parent.
At(u, p, type) == {r \in rows : r.user = u /\ r.path = p /\ r.type = type}

Children_Mut(u, id) ==   \* mutant: files do not count
  {r \in rows : r.user = u /\ r.parent = id /\ r.type = "d"}

Children_Mut2(u, id) ==   \* mutant: directories do not count
  {r \in rows : r.user = u /\ r.parent = id /\ r.type = "f"}

Children(u, id) == {r \in rows : r.user = u /\ r.parent = id}

IsDir(u, p) == At(u, p, "d") # {}
InDir(s) == IsDir(sess[s].user, sess[s].cwd)

\* file_db_create_record: nothing in the table is unique but the id.
Insert(r) ==
  /\ next <= MaxRows
  /\ Cardinality({q \in rows : q.user = r.user}) < Quota[r.user]
  /\ rows' = rows \cup {r}
  /\ next' = next + 1

Target(s, input) == Normalize(sess[s].user, sess[s].cwd, input)

\* A handler of session s runs on the event loop.
Commands(s) == loop.at = "wait" /\ LoggedIn(s)

-----------------------------------------------------------------------------
Init ==
  /\ registered = {} /\ rows = {} /\ next = 1
  /\ sess = [s \in Sessions |-> None]
  /\ job = [j \in Jobs |-> NoJob]
  /\ loop = Waiting
  /\ raced = {}

\* register_user: a name that is free; a failed test counts as "exists".
Register(u) ==
  /\ loop.at = "wait" /\ u \notin registered
  /\ registered' = registered \cup {u}
  /\ UNCHANGED <<rows, next, sess, job, loop, raced>>

\* The end of handle_control_connection, after login_user: the home directory
\* is made when the user has no row at the top.
Login(s, u) ==
  /\ loop.at = "wait" /\ ~LoggedIn(s) /\ u \in registered
  /\ sess' = [sess EXCEPT ![s] = [user |-> u, cwd |-> Home(u)]]
  /\ \/ Children(u, 0) = {} /\ Insert(Row(u, 0, Home(u), "d"))
     \/ (Children(u, 0) = {} => u \in Faulty) /\ UNCHANGED <<rows, next>>
  /\ UNCHANGED <<registered, job, loop, raced>>

\* The client has closed its connection; its uploads go on.
Logout(s) ==
  /\ Commands(s)
  /\ sess' = [sess EXCEPT ![s] = None]
  /\ UNCHANGED <<registered, rows, next, job, loop, raced>>

\* handle_cd_db
Cd(s, input) ==
  /\ Commands(s) /\ IsDir(sess[s].user, Target(s, input))
  /\ sess' = [sess EXCEPT ![s].cwd = Target(s, input)]
  /\ UNCHANGED <<registered, rows, next, job, loop, raced>>

\* handle_mkdir_db: a row below one, any one, of the rows of the parent's path;
\* nothing tests that the new path is free.
Mkdir(s, input) ==
  LET u == sess[s].user
      p == Target(s, input)
  IN /\ Commands(s) /\ Len(p) <= MaxDepth
     /\ \E d \in At(u, Parent(p), "d") : Insert(Row(u, d.id, p, "d"))
     /\ UNCHANGED <<registered, sess, job, loop, raced>>

\* handle_rmdir_db up to the DELETE: one of the rows of the path, without
\* children.  "same" is what strcmp will say of current_dir and the path; it can
\* tell spellings apart that the database does not.
Rmdir(s, input) ==
  LET u == sess[s].user
      p == Target(s, input)
  IN /\ Commands(s)
     /\ \E d \in At(u, p, "d"), same \in BOOLEAN :
          /\ Children(u, d.id) = {}
          /\ same => sess[s].cwd = p
          /\ loop' = [at |-> "remove", session |-> s, path |-> p, id |-> d.id, same |-> same]
          /\ raced' = IF \E j \in Jobs : job[j].parent = d.id THEN raced \cup {d.id} ELSE raced
     /\ UNCHANGED <<registered, rows, next, sess, job>>

RmdirDelete_Mut ==   \* mutant: current_dir is left alone
  /\ loop.at = "remove"
  /\ rows' = {r \in rows : ~(r.id = loop.id /\ r.user = sess[loop.session].user)}
  /\ loop' = Waiting
  /\ UNCHANGED <<registered, next, sess, job, raced>>

\* The DELETE, after which current_dir moves up if it is the same.
RmdirDelete ==
  LET s == loop.session
  IN /\ loop.at = "remove"
     /\ rows' = {r \in rows : ~(r.id = loop.id /\ r.user = sess[s].user)}
     /\ sess' = IF loop.same THEN [sess EXCEPT ![s].cwd = Parent(loop.path)] ELSE sess
     /\ loop' = Waiting
     /\ UNCHANGED <<registered, next, job, raced>>

RmdirFails ==
  /\ loop.at = "remove" /\ sess[loop.session].user \in Faulty
  /\ loop' = Waiting
  /\ UNCHANGED <<registered, rows, next, sess, job, raced>>

\* handle_rm_db: one of the files of the path, wherever it is listed.
Rm(s, input) ==
  LET u == sess[s].user
  IN /\ Commands(s)
     /\ \E f \in At(u, Target(s, input), "f") : rows' = rows \ {f}
     /\ UNCHANGED <<registered, next, sess, job, loop, raced>>

-----------------------------------------------------------------------------
\* The name of a row has no characters: "mkdir a//" makes one inside a.
Nameless(r) == r.type = "d" /\ r.path[Len(r.path)] = Empty

\* The process dies and is started again.
Die ==
  /\ sess' = [s \in Sessions |-> None]
  /\ job' = [j \in Jobs |-> NoJob]
  /\ loop' = Waiting
  /\ UNCHANGED <<registered, rows, next, raced>>

\* handle_ls_db, which otherwise changes nothing: no name in the directory has a
\* character, and the division by the longest kills the process (ls.c:57).
LsDies(s) ==
  LET u == sess[s].user
  IN /\ Commands(s)
     /\ \E d \in At(u, sess[s].cwd, "d") :
          Children(u, d.id) # {} /\ \A r \in Children(u, d.id) : Nameless(r)
     /\ Die

\* ERROR_CHECK on the event loop.
Exit == Die

-----------------------------------------------------------------------------
(* puts: a copy of the session travels with the upload. *)

Puts(s, j, name) ==
  /\ Commands(s) /\ job[j] = NoJob
  /\ job' = [job EXCEPT ![j] = [at |-> "lookup", user |-> sess[s].user,
                                cwd |-> sess[s].cwd, name |-> name, parent |-> 0]]
  /\ UNCHANGED <<registered, rows, next, sess, loop, raced>>

PutsDir_Mut(j) ==   \* mutant: the -1 of get_dir_id is taken for an id
  LET found == At(job[j].user, job[j].cwd, "d")
  IN /\ job[j].at = "lookup"
     /\ \E id \in {d.id : d \in found} \cup {i \in {-1} : found = {} \/ job[j].user \in Faulty} :
          /\ job' = [job EXCEPT ![j].at = "insert", ![j].parent = id]
          /\ raced' = IF loop.at = "remove" /\ loop.id = id THEN raced \cup {id} ELSE raced
     /\ UNCHANGED <<registered, rows, next, sess, loop>>

\* get_dir_id: one of the rows of the directory the client was in when it sent
\* the command, or 0 if there is none any more or the query fails.
PutsDir(j) ==
  LET found == At(job[j].user, job[j].cwd, "d")
  IN /\ job[j].at = "lookup"
     /\ \E id \in {d.id : d \in found} \cup {i \in {0} : found = {} \/ job[j].user \in Faulty} :
          /\ job' = [job EXCEPT ![j].at = "insert", ![j].parent = id]
          /\ raced' = IF loop.at = "remove" /\ loop.id = id THEN raced \cup {id} ELSE raced
     /\ UNCHANGED <<registered, rows, next, sess, loop>>

\* After the transfer, or instead of it.
PutsInsert(j) ==
  /\ job[j].at = "insert"
  /\ Insert(Row(job[j].user, job[j].parent, job[j].cwd \o job[j].name, "f"))
  /\ job' = [job EXCEPT ![j] = NoJob]
  /\ UNCHANGED <<registered, sess, loop, raced>>

\* A query or the transfer fails.
PutsFails(j) ==
  /\ job[j].at # "none"
  /\ job' = [job EXCEPT ![j] = NoJob]
  /\ UNCHANGED <<registered, rows, next, sess, loop, raced>>

-----------------------------------------------------------------------------
Next ==
  \/ \E u \in Users : Register(u)
  \/ \E s \in Sessions :
       \/ \E u \in Users : Login(s, u)
       \/ Logout(s)
       \/ \E i \in Typed : Cd(s, i) \/ Mkdir(s, i) \/ Rmdir(s, i) \/ Rm(s, i)
       \/ LsDies(s)
       \/ \E j \in Jobs, name \in Uploads : Puts(s, j, name)
  \/ RmdirDelete \/ RmdirFails \/ Exit
  \/ \E j \in Jobs : PutsDir(j) \/ PutsInsert(j) \/ PutsFails(j)

Spec == Init /\ [][Next]_vars

-----------------------------------------------------------------------------
(* Properties *)

\* Types of the tables, the slots and the locals of the handlers.
Rows == [id : Nat \ {0}, user : Users, parent : Nat, path : Paths, type : {"d", "f"}]
TypeOK ==
  /\ registered \subseteq Users
  /\ rows \subseteq Rows
  /\ next \in Nat \ {0}
  /\ sess \in [Sessions -> [user : Users, cwd : Paths] \cup {None}]
  /\ job \in [Jobs -> [at : {"none", "lookup", "insert"}, user : Users \cup {None},
                       cwd : Paths, name : Paths, parent : Nat]]
  /\ loop \in [at : {"wait", "remove"}, session : Sessions \cup {None},
               path : Paths, id : Nat, same : BOOLEAN]
  /\ raced \subseteq Nat

\* However often a path was made twice and one of its rows removed, every
\* directory is the home of its user or lies in the directory its row names,
\* and there is one home (commands.c:125-266, session.c:139-161).
HasParent(r) ==
  \/ r.path = Home(r.user) /\ r.parent = 0
  \/ /\ Len(r.path) > 1
     /\ \E d \in rows : /\ d.id = r.parent /\ d.type = "d" /\ d.user = r.user
                       /\ d.path = Parent(r.path)
OneHome ==
  \A r, q \in rows :
    r.type = "d" /\ q.type = "d" /\ r.parent = 0 /\ q.parent = 0 /\ r.user = q.user => r = q
DirectoriesAreReachable == (\A r \in rows : r.type = "d" => HasParent(r)) /\ OneHome

\* A file lies in a directory of its user, where ls shows it and rmdir counts
\* it, and by its path, by which gets and rm look for it, it lies there as well;
\* unless it was put where no directory was (file_transfer.c:459-462), or its
\* upload held the directory between test and DELETE of an rmdir
\* (commands.c:227-247).
LiesIn(d, r) ==
  /\ d.type = "d" /\ d.id = r.parent /\ d.user = r.user
  /\ \E name \in Uploads : r.path = d.path \o name
FilesAreListed ==
  \A r \in rows :
    r.type = "f" /\ r.parent # 0 /\ r.parent \notin raced => \E d \in rows : LiesIn(d, r)

\* A session that is in a directory stays in one, as long as it removes it by
\* the name it has and not its home, and no other session removes it
\* (commands.c:252-260).
CwdFollows ==
  [][\A s \in Sessions :
       /\ LoggedIn(s) /\ LoggedIn(s)' /\ InDir(s)
       /\ loop.at = "remove" => loop.session = s /\ (sess[s].cwd = loop.path => loop.same)
       => InDir(s)' \/ (sess'[s].cwd = Root /\ ~IsDir(sess[s].user, Home(sess[s].user))')]_vars

\* What makes these inductive: ids are unique; with plain names cd, "..", rmdir and
\* absolute paths lead to one's own directories or, by removing the home, to "/";
\* an upload past its lookup holds a directory, unless an rmdir raced with it; and
\* while rmdir has tested but not deleted, the only new entries are files of
\* uploads that it races with.
Ids ==
  /\ \A r \in rows : r.id < next
  /\ \A r, q \in rows : r.id = q.id => r = q
Within(u, p) == p[1] = u
StaysHome ==
  /\ \A s \in Sessions :
       LoggedIn(s) => sess[s].cwd = Root \/ Within(sess[s].user, sess[s].cwd)
  /\ \A r \in rows : Within(r.user, r.path) \/ (r.type = "f" /\ Within(Empty, r.path))
JobsHold ==
  \A j \in Jobs :
    job[j].at # "none" =>
      /\ job[j].user \in Users
      /\ job[j].cwd = Root \/ Within(job[j].user, job[j].cwd)
      /\ job[j].name \in Uploads
      /\ job[j].parent # 0 /\ job[j].parent \notin raced =>
           \E d \in rows : /\ d.type = "d" /\ d.id = job[j].parent
                          /\ d.user = job[j].user /\ d.path = job[j].cwd
LoopHolds ==
  /\ loop.at # "wait" => loop.session \in Sessions /\ LoggedIn(loop.session)
  /\ loop.at = "remove" =>
       /\ \E d \in At(sess[loop.session].user, loop.path, "d") : d.id = loop.id
       /\ loop.same => sess[loop.session].cwd = loop.path
       /\ \A r \in Children(sess[loop.session].user, loop.id) :
            r.type = "f" /\ loop.id \in raced
       /\ \A j \in Jobs : job[j].parent = loop.id => loop.id \in raced
Inv ==
  /\ TypeOK /\ Ids /\ DirectoriesAreReachable /\ FilesAreListed /\ StaysHome
  /\ JobsHold /\ LoopHolds

\* The paths that have a row of type 'd' grow and shrink as a tree does.
Dirs == [u \in Users |-> {r.path : r \in {q \in rows : q.user = u /\ q.type = "d"}}]
Tree == INSTANCE DirTree WITH dirs <- Dirs
ImplementsDirTree == Tree!Spec
=============================================================================
