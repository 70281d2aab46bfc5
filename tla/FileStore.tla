------------------------------ MODULE FileStore ------------------------------
(***************************************************************************)
(* Uploads into the deduplicated store of the Cloudisk server: the         *)
(* file_info table, the physical files upload_dir/<sha256> shared by all   *)
(* users, the worker threads running handle_puts, handle_rm_db on the      *)
(* event loop, and the death and restart of the server process.            *)
(*                                                                         *)
(* A file is a number of chunks; what it holds is its length and which     *)
(* chunks carry the bytes its name promises (a chunk never written, or     *)
(* truncated away under another writer, does not).  Clients send the bytes *)
(* whose hash they announced.  Duplicate rows are legal: file_info has no  *)
(* unique key on a user's path, so the table is a bag of rows.             *)
(***************************************************************************)
EXTENDS Naturals, FiniteSets

CONSTANTS Jobs,        \* the worker threads, each running at most one handle_puts
          Paths,       \* pairs of user_id and virtual path
          Hashes,      \* SHA-256 values, the names of physical files
          Size,        \* chunks of the content with that hash
          Big,         \* the hashes of files above LARGE_FILE_THRESHOLD
          NoFile,      \* no physical file of that name
          SqlErrors,   \* whether a query may fail
          MaxCopies    \* bound on equal rows

ASSUME SizeAssumption == Size \in [Hashes -> Nat]
ASSUME BigAssumption == Big \subseteq Hashes /\ \A h \in Big : Size[h] > 0
ASSUME SqlErrorsAssumption == SqlErrors \in BOOLEAN
ASSUME NoFileAssumption == NoFile \notin [len : Nat, good : SUBSET Nat]

VARIABLES rows,      \* how many file_info rows a path and a hash have
          file,      \* the physical files
          up,        \* the server process runs
          pc,        \* where handle_puts is in each worker
          path, hash,\* what its client announced
          pos,       \* chunks received
          torn       \* history: hashes an upload of which ended half written

vars == <<rows, file, up, pc, path, hash, pos, torn>>

JobPCs == {"idle", "lookup", "instant", "open", "extend", "write", "insert"}

Writing(j) == pc[j] \in {"extend", "write"}
Writers(h) == {j \in Jobs : Writing(j) /\ hash[j] = h}
Chunks(h) == 1 .. Size[h]
Recorded(h) == \E p \in Paths : rows[p][h] > 0
Complete(h) == file[h] = [len |-> Size[h], good |-> Chunks(h)]

-----------------------------------------------------------------------------
Init ==
  /\ rows = [p \in Paths |-> [h \in Hashes |-> 0]]
  /\ file = [h \in Hashes |-> NoFile]
  /\ up = TRUE
  /\ pc = [j \in Jobs |-> "idle"]
  /\ path \in [Jobs -> Paths] /\ hash \in [Jobs -> Hashes]
  /\ pos = [j \in Jobs |-> 0]
  /\ torn = {}

Goto(j, l) == pc' = [pc EXCEPT ![j] = l]

\* The name, size and SHA-256 of the file arrive on the data connection.
Begin(j, p, h) ==
  /\ up /\ pc[j] = "idle"
  /\ path' = [path EXCEPT ![j] = p]
  /\ hash' = [hash EXCEPT ![j] = h]
  /\ Goto(j, "lookup")
  /\ UNCHANGED <<rows, file, up, pos, torn>>

\* file_db_find_by_hash, over all users; an SQL error counts as "not found".
FindByHash(j) ==
  /\ pc[j] = "lookup"
  /\ \/ Recorded(hash[j]) /\ Goto(j, "instant")
     \/ (Recorded(hash[j]) => SqlErrors) /\ Goto(j, "open")
  /\ UNCHANGED <<rows, file, up, path, hash, pos, torn>>

\* file_db_create_record, or its failure, at the end of either branch.
Insert(j) ==
  /\ pc[j] \in {"instant", "insert"}
  /\ \/ /\ rows[path[j]][hash[j]] < MaxCopies
        /\ rows' = [rows EXCEPT ![path[j]][hash[j]] = @ + 1]
     \/ SqlErrors /\ UNCHANGED rows
  /\ Goto(j, "idle")
  /\ UNCHANGED <<file, up, path, hash, pos, torn>>

\* open(O_CREAT | O_RDWR | O_TRUNC), whoever else has the file open.
Open(j) ==
  /\ pc[j] = "open"
  /\ file' = [file EXCEPT ![hash[j]] = [len |-> 0, good |-> {}]]
  /\ pos' = [pos EXCEPT ![j] = 0]
  /\ Goto(j, IF hash[j] \in Big THEN "extend" ELSE "write")
  /\ UNCHANGED <<rows, up, path, hash, torn>>

\* The upload directory or the file cannot be made.
OpenFails(j) ==
  /\ pc[j] = "open"
  /\ Goto(j, "idle")
  /\ UNCHANGED <<rows, file, up, path, hash, pos, torn>>

\* ftruncate to the announced size, then mmap.
Extend(j) ==
  /\ pc[j] = "extend"
  /\ file' = [file EXCEPT ![hash[j]].len = Size[hash[j]]]
  /\ Goto(j, "write")
  /\ UNCHANGED <<rows, up, path, hash, pos, torn>>

\* recvn into the mapping, or recvn and write at this descriptor's offset.  Where
\* another upload's O_TRUNC has cut the mapping short, recv fails (EFAULT) and the
\* upload is Lost.
Write(j) ==
  LET h == hash[j]
      n == pos[j] + 1
  IN /\ pc[j] = "write" /\ pos[j] < Size[h]
     /\ h \in Big => n <= file[h].len
     /\ file' = [file EXCEPT ![h] =
          [len |-> IF n > @.len THEN n ELSE @.len, good |-> @.good \cup {n}]]
     /\ pos' = [pos EXCEPT ![j] = n]
     /\ UNCHANGED <<rows, up, pc, path, hash, torn>>

EndOfData_Mut(j) ==   \* mutant: the loop ends one chunk early
  /\ pc[j] = "write" /\ pos[j] + 1 >= Size[hash[j]]
  /\ Goto(j, "insert")
  /\ UNCHANGED <<rows, file, up, path, hash, pos, torn>>

EndOfData(j) ==
  /\ pc[j] = "write" /\ pos[j] = Size[hash[j]]
  /\ Goto(j, "insert")
  /\ UNCHANGED <<rows, file, up, path, hash, pos, torn>>

\* The client goes away or a system call fails: the handler returns and
\* leaves the file as it is.
Lost(j) ==
  /\ Writing(j)
  /\ torn' = torn \cup {hash[j]}
  /\ Goto(j, "idle")
  /\ UNCHANGED <<rows, file, up, path, hash, pos>>

-----------------------------------------------------------------------------
Remove_Mut(p) ==   \* mutant: rm unlinks the physical file with its last row
  /\ up
  /\ \E h \in Hashes :
       /\ rows[p][h] > 0
       /\ rows' = [rows EXCEPT ![p][h] = @ - 1]
       /\ file' = [file EXCEPT ![h] =
                     IF \E q \in Paths : rows'[q][h] > 0 THEN @ ELSE NoFile]
  /\ UNCHANGED <<up, pc, path, hash, pos, torn>>

Remove_Mut2(p) ==   \* mutant: no test that the path has a row
  /\ up
  /\ \E h \in Hashes : rows' = [rows EXCEPT ![p][h] = @ - 1]
  /\ UNCHANGED <<file, up, pc, path, hash, pos, torn>>

\* handle_rm_db deletes one row of the path, any one, and no file.
Remove(p) ==
  /\ up
  /\ \E h \in Hashes : rows[p][h] > 0 /\ rows' = [rows EXCEPT ![p][h] = @ - 1]
  /\ UNCHANGED <<file, up, pc, path, hash, pos, torn>>

-----------------------------------------------------------------------------
(* The process dies: files and table stay, the handlers are gone. *)
Die ==
  /\ up' = FALSE
  /\ pc' = [j \in Jobs |-> "idle"]
  /\ torn' = torn \cup {hash[j] : j \in {k \in Jobs : Writing(k)}}
  /\ UNCHANGED <<rows, file, path, hash, pos>>

\* A receive error on a control connection makes the event loop exit.
Exit == up /\ Die

Restart ==
  /\ ~up
  /\ up' = TRUE
  /\ UNCHANGED <<rows, file, pc, path, hash, pos, torn>>

-----------------------------------------------------------------------------
Next ==
  \/ \E j \in Jobs :
       \/ \E p \in Paths, h \in Hashes : Begin(j, p, h)
       \/ FindByHash(j) \/ Insert(j)
       \/ Open(j) \/ OpenFails(j) \/ Extend(j) \/ Write(j) \/ EndOfData(j) \/ Lost(j)
  \/ \E p \in Paths : Remove(p)
  \/ Exit \/ Restart

Spec == Init /\ [][Next]_vars

-----------------------------------------------------------------------------
(* Properties *)

\* Types of the table, the files and the locals of handle_puts.
TypeOK ==
  /\ rows \in [Paths -> [Hashes -> Nat]]
  /\ file \in [Hashes -> [len : Nat, good : SUBSET (Nat \ {0})] \cup {NoFile}]
  /\ up \in BOOLEAN
  /\ pc \in [Jobs -> JobPCs]
  /\ path \in [Jobs -> Paths] /\ hash \in [Jobs -> Hashes]
  /\ pos \in [Jobs -> Nat]
  /\ torn \subseteq Hashes

\* handle_gets can open the file of every row, whatever uploads, instant
\* transfers, removals and crashes came before (file_transfer.c:465-486, 510,
\* 604-615, commands.c:306-307).
RecordedHasFile == \A h \in Hashes : Recorded(h) => file[h] # NoFile

\* If no upload of a content was ever cut off, then whenever nobody is
\* writing its file the file is whole, in spite of the O_TRUNC of uploads that
\* overlap (file_transfer.c:510-602).
SettledIsComplete ==
  \A h \in Hashes :
    file[h] # NoFile /\ h \notin torn /\ Writers(h) = {} => Complete(h)

\* What makes both inductive: a handler past its lookup or its open has a file;
\* nothing is written beyond the content; and the upload that truncated a file
\* last has written all it received, unless one was cut off.
HasFile ==
  \A j \in Jobs : pc[j] \in {"instant", "extend", "write", "insert"} => file[hash[j]] # NoFile
Bounded ==
  /\ \A h \in Hashes : file[h] # NoFile => file[h].len <= Size[h] /\ file[h].good \subseteq Chunks(h)
  /\ \A j \in Jobs : Writing(j) => pos[j] <= Size[hash[j]]
Leads(j) ==
  LET f == file[hash[j]]
  IN /\ 1 .. pos[j] \subseteq f.good /\ pos[j] <= f.len
     /\ pc[j] = "extend" => pos[j] = 0
     /\ pc[j] = "write" /\ hash[j] \in Big => f.len = Size[hash[j]]
Led ==
  \A h \in Hashes :
    file[h] # NoFile /\ h \notin torn => Complete(h) \/ \E j \in Writers(h) : Leads(j)
Inv == TypeOK /\ RecordedHasFile /\ HasFile /\ Bounded /\ Led

\* The README (3.4) says strict checks keep the data consistent; then a
\* recorded content that nobody is writing would be whole.
RecordedIsComplete ==
  \A h \in Hashes : Recorded(h) /\ Writers(h) = {} => Complete(h)
=============================================================================
