# Cloudisk in TLA+

TLA+ specifications of the Cloudisk server and client (C sources under `src/src`),
model-checked with TLC and, for the thread pool, the file store, the sessions, the virtual file
system, the uploads and the downloads, proved with TLAPS.
Paths and line numbers below are those of the repository.

## 1. The system

A client holds two TCP connections: commands and messages travel on the control
connection, file contents on the data connection. The server is a parent process that
waits for signals and a child that runs one event loop and a pool of worker threads,
with metadata in MySQL and contents in `upload_dir/<sha256>`.

| component | source | state | operations |
|---|---|---|---|
| event loop | `server/server.c` | `user[]` slots, `user_count`, epoll set | accept control / data connection, read a command, exit on a pipe message |
| sessions, authentication | `server/session.c`, `auth.c`, `client/client.c`, `client_auth.c` | slot: state, descriptors, token, current directory; table `user` | register, login, token exchange, disconnect |
| command parser | `server/cmd_parse.c` | none; allocates `FileTransferArg` | dispatch; submit `gets` / `puts` to the pool |
| thread pool | `server/thread_pool.c` | ring of tasks, `front`, `rear`, `stop`, mutex, condition variable | init, worker loop, add task, destroy |
| upload | `handle_puts` in `server/file_transfer.c`, `client_puts` | physical file, data connection | look up by hash, instant transfer, receive, record |
| download | `handle_gets` in `server/file_transfer.c`, `client_gets`, `client/client_thread.c` | data connection, the client's local file | negotiate resume offset, send raw or framed, verify |
| file table | `server/file_db.c` | MySQL table `file_info` | create, list, delete, find by hash, by path |
| virtual file system | `server/commands.c`, `ls.c` | `file_info`, the slot's `current_dir` | cd, pwd, mkdir, rmdir, rm, ls |
| database | `server/db.c` | one `MYSQL *` for all threads | connect, create tables |
| configuration, sockets, messages | `config.c`, `server_init.c`, `msg.c` | set once; none | parse, listen, `recvn`, `send_msg` |

Interactions: the event loop calls the command parser, which hands the pool a heap block
with a *copy* of the session (`cmd_parse.c:70`); a worker runs the handler on that copy,
reads and writes the session's data connection, queries MySQL on the connection it shares
with the event loop, and frees the block. Uploads of all users meet in the physical files,
which are named by content. On the client every `gets` or `puts` starts a detached thread
on the one data socket.

What is hard, and what makes each component correct:

* **Pool.** Ring, flag and condition variable shared by all threads. No argument block is
  used twice or after its free, none is lost on the way from the event loop to a worker, no
  wakeup is lost, accepted tasks are started in order, shutdown ends.
* **Pool start.** Workers are created before the mutex and the condition variable exist.
* **Store.** Uploads of one content overlap, clients vanish in the middle, the server dies
  and restarts. Every row has a file; the file is whole.
* **Download.** Lost connections and retries, two ways to send the rest that both sides must
  choose alike, unread messages of failed transfers, several transfers on one connection.
  What is reported verified is the server's file; an interrupted download resumes.
* **Sessions.** Slots, descriptor numbers, tokens and the counter outlive clients in
  different ways; the loop blocks on one client. A command is executed as the user who sent
  it; a data connection reaches its own session; slots are freed.
* **File table and commands.** Check-then-act without a unique key; the tree stays a tree.
* **Database connection.** A query and the fetch of its result are two calls on a shared handle.

The full list, with lines, is `hazards` in `PROJECT.json`.

## 2. Modules

| module | what it is |
|---|---|
| `TaskQueue` | abstract: bounded FIFO queue with runners and a switch that stops new starts |
| `ThreadPool` | `thread_pool.c` with the submitting part of `cmd_parse.c` and the exit of `server.c` |
| `ThreadPoolInit` | `ThreadPool` with `thread_pool_init` running beside the workers |
| `FileStore` | `handle_puts`, `handle_rm_db`, death and restart, on rows and physical files |
| `Download` | `handle_gets` and `client_gets` over the data connection |
| `Upload` | `Download` with `client_puts` and `handle_puts` on the same data connection |
| `Session` | `server.c`, `session.c`, `cmd_parse.c`: logins, slots, descriptors, commands, disconnects |
| `VirtualPath` | virtual paths and `normalize_path`, as operators |
| `DirTree` | abstract: a tree of directories for every user |
| `FileTree` | `commands.c`, registration and login, the rows of `puts`: the tables `user` and `file_info` |
| `ThreadPool_proofs`, `FileStore_proofs`, `Session_proofs`, `FileTree_proofs`, `Download_proofs`, `Upload_proofs` | the theorems on each module |
| `Resume_proofs`, `Verified_proofs` | those on resumed and answered downloads (EXTENDS `Download_proofs`), and on what is reported verified in `Download` and in `Upload` (EXTENDS `Resume_proofs`) |
| `MC...` | constants, symmetry and test contents for TLC |

### ThreadPool

One action per program location. `Acquire` is every `pthread_mutex_lock`, including the one
inside `pthread_cond_wait`; between lock and unlock a test, a slot copy and an index move are
separate steps, so mutual exclusion is proved and not assumed by the grain. `FindEmpty`, `Wait`,
`Quit`, `Pick`, `Take`, `Finish` are `thread_worker`; `Submit`, `AddFull`, `Put`, `AddTask` are
`cmd_parse` with `thread_pool_add_task`; `ExitRequest`, `Stop`, `Join` are the exit branch of
the event loop with `thread_pool_destroy`. `AddTask` wakes one sleeper or none, `Stop` all;
`SpuriousWake` is what POSIX allows. A task is its `FileTransferArg` block; `live` is the heap.
`Finish` frees the block or leaks it: `handle_puts` leaks at `file_transfer.c:499` and `506`.
A handler's work is not in this module. `ThreadPool` starts after `thread_pool_init`.

`ThreadPoolInit` adds `Create`, `InitFields`, `InitMutex`, `InitCond`. POSIX leaves the use of
an uninitialized mutex undefined; the module takes what glibc does with zeroed memory.

### FileStore

`rows[path][hash]` counts the rows (the table has no unique key), `file[hash]` is a length and
the set of chunks that hold the right bytes. `Begin`, `FindByHash`, `Insert`, `Open`, `OpenFails`,
`Extend`, `Write`, `EndOfData`, `Lost` are `handle_puts`; a failed query in `file_db_find_by_hash`
reads as "not found", a failed insert leaves a file without a row. `Open` truncates whoever else
has the file open, as `O_TRUNC` does; two writers then fill in at their own offsets. `Remove` is
`handle_rm_db`, which unlinks nothing. A `recv` into a mapping that another upload has cut short
fails (`EFAULT`, `file_transfer.c:540-552`) and is `Lost`. `Exit` is `ERROR_CHECK` on the event loop,
`Restart` the next start of the server.
Clients send the bytes whose hash they announced; the server does not check it.

### Download

`local` is the client's directory, `toServer` and `toClient` the two directions of the data
connection, which several transfers of a session share and which keeps what a failed one left.
`Begin` is the command with the first part of `client_gets`; `TakeOffset` .. `SendSha` are
`handle_gets`; `TakeName` .. `TakeSha` the rest of `client_gets`, with `Plan` the decision to
resume or start over. A hash is the sequence it was computed from. Reading at a wrong message
boundary is `aligned = FALSE`: raw readers store headers as content (`Hole`), readers of
headers take garbage (`TakeGarbage`) and go astray. `spin` is the loop of
`calculate_file_sha256_evp` at the end of a file that is too short. `GiveUp` is every early
return of the handler after a failed query or system call, `Abandon` and `TakeTotalFails`
those of the client, `Disconnect` a lost connection and a restarted client. `broken` is history.
A message is received in one step, header and body together; with two client threads the
code can interleave in between as well, so the two-thread run shows some of the behaviours,
not all. The server's file does not change during a download (`FileStore` shows when it may).
Left out are two ways to take a body of at most 8 bytes for a number. An offset below 0 read by the
handler (`file_transfer.c:148`): it would send what the file does not have, without end when the rest
counts as small; offsets from 0 to beyond the file are in `TakeOffset`. And a name or chunk read by the
client as one of the two sizes (`client_file_transfer.c:198`, `216`), after which it would go on at a
message boundary with a wrong number: the model is about names and chunks too long for that, which
throw the reader off.

### Upload

`Upload` EXTENDS `Download` and adds to its connection what `puts` does there. `Group` is all that
`client_puts` sends of a file: name, size, hash, and the content raw above the threshold, framed
with an empty frame at the end below it. It never waits for an answer, so `Puts` puts the whole group, or,
when a system call fails, a prefix of it, into `toServer` at once. `TakePutsName` .. `TakePutsEnd` are
`handle_puts` reading it message by message, `Instant` the transfer without content, `Create` the
decision between the two forms and the `ftruncate`, `Insert` the row; `PutsFails` is every early
return. What a handler does not read stays, and the next handler of the session, for `gets` or
`puts`, starts on it: this is the state that matters here. `ServerGarbage` and `Piece` are the
reader that takes other bytes for a header and may stop inside a message; `Reconnect` is the only
thing that empties the connection. `cut` and `inStep` are history. Abstractions: commands of one
client are typed one after another (a slot in `Transfers` is used again and again); the content
of a file does not change while it is sent; neither content nor numbers spell a file name; whether
a hash is known to the table depends on everybody's uploads, and is a free choice here.

### VirtualPath, DirTree and FileTree

A path is the sequence of what stands between its slashes, so an empty name is a component like
any other, as it is for the code, which drops one slash at the end and no other. `Normalize` is
`normalize_path` by cases on what was typed, `Parent` is `extract_parent_and_dirname`.

`rows` is `file_info` with its ids, `registered` is `user`, `sess` has a slot's user name and
`current_dir`, `job` the locals of a running `handle_puts`, `loop` those of a handler on the event loop.
`Register` is `register_user`, `Login` the end of `handle_control_connection` with the home directory,
`Cd`, `Mkdir`, `Rmdir` with `RmdirDelete`, `Rm` are the handlers of `commands.c`; `Puts`, `PutsDir`,
`PutsInsert` are the command, `get_dir_id` and the insertion in the worker. Where a path has several rows,
a lookup takes any one of them. `rmdir` is two steps, its test for children and its
DELETE, because an upload can insert between them; the other handlers are one step, since
only files appear meanwhile. A file removed by `rm` is found by its path, so it may be listed
in no directory. `ls` only reads, except that it divides by zero for a directory in which no entry
has a name of at least one character (`ls.c:57`): `LsDies`. `Exit` is `ERROR_CHECK`; both restart the
server. A command that is refused changes nothing and is no action.
Abstractions: names are plain, without quotes and backslashes. `file_db_create_record` escapes what it
inserts (`file_db.c:9-10`), but the lookups put the path into the query as it was typed
(`commands.c:82-84`, `144-146`, `203-206`, `284-286`, `file_db.c:176-179`, `212-214`). For plain names
a lookup finds the rows of the path that was typed, which is what `At` says; for others it can
miss a row that is there or find rows of other paths, and nothing in this module is said of them, in
particular not that commands stay inside the user's home. Names that the database's collation takes for equal are one name; only `strcmp` in
`rmdir` can tell them apart (`same`); paths fit their buffers; user names contain no slash. Users
are never deleted and rows never updated: `delete_user` and `file_db_update_record` have no caller.
`DirTree` says what remains of all this for the paths that are directories.

### Session

`user` is the array of slots, `conn` says what each descriptor number is connected to, `watched` is
the epoll set, `loop` the place of the event loop: a login is several steps during which it deals
with nobody else. A slot's state, user name and token are set together, so `owner` stands for all.
`Connect`, `ConnectData`, `SendCommand`, `Leave` are the client program, which may leave at any
point and does not wait for its data connection to be taken. `Accept` (`Refuse`, `Admit`) is
`server.c:89-131`; `LoginFails`, `Authenticate`, `SendToken`, `SendTokenFails` are
`handle_control_connection`, `AcceptData` is `handle_data_connection`; `Poll`, `Command`,
`Disconnect`, `ServeDone` are the loop over the slots, which goes on after a match. A job is the
copy of the slot a `gets` or `puts` carries (`cmd_parse.c:70`), queued or running, with the client
that sent the command; `Return` ends it. `Exit` is `ERROR_CHECK`. What the code leaves behind is in
the model: the data descriptor is not closed with the session, `user_count` is not decremented, a
failed token send keeps the slot with a closed descriptor, an accepted connection without a free
slot is served by nobody, an empty command ends the session. Any closed descriptor may be taken
next, since handlers open and close files meanwhile; this includes the kernel's lowest-first
choice. Tokens may coincide (they are seconds and `rand`). Not in this module: the content of a
registration, the shutdown on SIGINT, what handlers do on the data connection (`Download`,
`FileStore`).

## 3. Runs

| run | question | result |
|---|---|---|
| `pool_safety` | ownership, wakeups, no block lost, refinement of `TaskQueue`'s safety part | holds |
| `pool_live` | refinement with fairness, `AcceptedIsRun`, `ShutdownCompletes` | holds |
| `pool_init` | does the broadcast wake all threads? | violated |
| `store_safety` | rows have files; undisturbed files are whole | holds |
| `store_torn` | is every recorded file whole? | violated |
| `download_live` | small downloads resume, answered ones end verified | holds |
| `download_stale` | downloads and uploads in one connection: is what is verified the server's file and what is recorded the client's, does an upload that starts in step end in step? | holds |
| `download_crossed` | the same for "already exists and verified", with two downloads at once | violated |
| `download_restart` | does an interrupted large download resume? | violated |
| `session_safety` | do slots, copies and epoll name the right connections? | holds |
| `session_full` | are clients refused only while `max_connections` are connected? | violated |
| `tree_safety` | are the directories a tree, do files lie in the directory of their path, do current directories follow `rmdir`, and is `DirTree` implemented? | holds |

Bounds. `pool_safety`: three workers, four blocks and a ring of three slots (two places), so the
ring wraps, is full, and a signal meets workers asleep, awake and running. `pool_live`: two
workers, three blocks, without symmetry. `store_safety`: three uploads of a small and
a large content of two chunks, at most `MaxCopies` = 2 equal rows, queries that may fail.
`download_live`: `Threshold` is two chunks, files of two and of four, so that a rest can be on
either side of it; every prefix, a longer and a foreign file to start from; at most
`MaxBacklog` = 1 unread message per direction when a download begins, and `MaxLocal` = 5 chunks
in the file it starts from. `download_stale` (`MCUpload`): two files of one chunk to download; to
upload `doc`, which is empty or two chunks (large, as `Threshold` is one), and `photo`, one chunk
(small). The final hash comparison is needed there (without it the run fails). An upload
may find `MaxUnread` = 5 messages, which is a whole group of a large file, so a handler can read a
file that was meant for an earlier one, and a download `MaxAhead` = 2; the client may have
nothing unread when an upload begins (`MaxUnseen`) and the server one message (`MaxAfterCut`) once
a file was cut off; `MaxBacklog` = 3 and `MaxLocal` = 2 are those of `Download`. Longer backlogs are
covered by the proofs. The `VIEW` drops the history of broken downloads and the file name of finished
ones, which no action and no property of the run reads.
`tree_safety`: one user in two sessions and one upload, quota and ids for four rows (home, a
directory made twice, and something in one of the two), depth three; the inputs are ".", "..",
"docs", "docs//" (a directory without a name) and "/bob", somebody else's home; `puts docs/docs`.
Different users never share a row, so one user is enough for what can go wrong, and the proof
is for any number.
`session_safety`: three clients on two slots and three descriptors, so that a slot is left and
taken, numbers pass from one client to another while a copy still names them, descriptors run
out and the third login is refused; one handler, two tokens that may coincide, `MaxUnread` = 1
command waiting per client. `session_full` has the same bounds without symmetry.

Fairness. `ThreadPool`: weak fairness for steps inside the mutex, for `Finish` (no client stalls
for ever on its data connection: the code has no timeout that would enforce it) and for `Join`;
strong fairness for `Acquire`, since other threads take and release the mutex in between and the
scheduler is trusted not to starve one for ever. No fairness for submitting, for exit requests or
for spurious wakeups. `Download`: weak fairness of both sides' ordinary steps, none for failures.
`Upload` and `FileTree`: none, all their properties are about safety.
`Session`: weak fairness of the steps the loop takes without waiting for anybody (`session_full`
only, whose counterexample is a finite one); nothing is required of clients.

### What the violated runs show

* `pool_init`: a worker that reaches `pthread_cond_wait` before `pthread_cond_init`
  (`thread_pool.c:48-64`) is forgotten; the broadcast at 102, "wake all threads" by its comment,
  misses it and the join at 107 does not return.
* `store_torn`: an upload that missed the row truncates the file the row now points at
  (`file_transfer.c:510`) and is cut off. Later uploads of the content are instant, so nothing
  repairs it while a row exists.
* `download_crossed`: thread one reads the remaining size 0 that was meant for thread two.
* `download_restart`: `client_file_transfer.c:259` makes the file full length before its content
  arrives; the next offset is the full length, its hash is wrong, the server sends everything.

* `session_full`: two clients log in and one leaves; the third is refused while one is connected,
  because the disconnect branch (`server.c:169-174`) does not decrement `user_count`, although
  `config.h:21` calls the setting the maximum number of concurrent connections.

Limits of what holds, all stated in the properties: `AnsweredIsVerified` excludes a large
file whose rest is small, which the server frames (`file_transfer.c:259`) and the client reads raw
(`client_file_transfer.c:257`), and `VerifiedMatchesServer` says the file *begins* with the
server's, because only the announced number of bytes is hashed (`client_file_transfer.c:344`);
stale frames after them stay in the file. It is about names and chunks that cannot pass for a size, and it is false where one file of the server is made of chunks of
another: with `f` = abc and `g` = ac, TLC follows a script of 63 steps in which four leftover messages keep
the groups of three answers unread, and a resume of `f` takes the sizes of an answer that was cut off
after c, the chunks a and c, and the hash of `g`; `f` is reported verified and begins with ac. And it is
false for two downloads at once: in 18 steps the thread of one takes the sizes, the chunks and the hash
meant for the other, and reports its own file verified with that content, as in `download_crossed`. A refused `gets`
leaves its thread waiting (`file_transfer.c:103`), so the next one of the session is such a second download.
`SenderIsUser` is conditional on no failed token send: the slot that one leaves behind
(`session.c:172-177`) still has the descriptor number, and without the condition TLC shows a
command of the next client with this number executed in the name of the one that was lost.
`FeedbackReachesSender` allows messages to a stranger once the sender's connection is closed:
the copy has only the number.
`RecordedIsSent` is about uploads typed one after another by a client that has not stopped inside a
file. With two `puts` at work in one session the handlers take each other's messages
(`file_transfer.c:359`); after a file that was cut off, the retry's name, size and hash are read as its
content, and as the server never computes the hash of what it received, a row can then name
other content. `UploadsStayInStep` says nothing of a transfer that was instant: its content stays in the
connection, and every later upload or download of the session reads the leavings of an
earlier command until the client connects again. `RecordedIsSent` says that even then the row agrees
with something this client had under that name.
`FilesAreListed` excludes files whose upload found no directory any more (`file_transfer.c:459`, parent 0)
and those whose directory was removed between `rmdir`'s test and its DELETE: both have a row that
`gets` and `rm` find by path and no `ls` shows. Removing one's home leads to "/" as current
directory; a file put there gets the path "//f", which `gets f`, asking for "/f", does not find. All
properties of the tree hold for plain names only (see `FileTree` in section 2). `DirectoriesAreReachable` does not say that a path has one row:
`mkdir` twice makes two, with their own children, and which of them a command uses is up to the database.
`CwdFollows` is about a session's own `rmdir`; a second session of the user is left in a
directory that is gone. What is queued when the pool is stopped is dropped: `TaskQueue` permits it,
`AcceptedIsRun` excludes it, and `NoneLost` says that these blocks stay in the ring.

## 4. Proofs

For every finite set of workers, every set of arguments and every `QueueSize >= 1`
(`ThreadPool_proofs`):
`Spec => []TypeOK`, `[]Inv`, `[]SingleOwner`, `[]NoLostWakeup`, `NoneLost`, and
`Spec => Abstract!SafeSpec`, that is, the pool implements the bounded FIFO queue.
The properties are not inductive alone. `Inv` adds `Locked` (a thread is inside the mutex exactly
when it is the owner) and `Tested` (what it tested there still holds: the ring is not empty when a
slot has been picked, not full when one has been written, and the flag goes with the event loop's
place in the shutdown). Ownership needs these to know that a slot leaves and enters the ring
together with its index; the wakeup counting needs `Tested` to know that a worker about to wait saw
an empty ring nobody has filled since. Each conjunct has a lemma, with one step per action. The
refinement maps the ring, read from `front`, to a sequence: `Take` is `Start`, `AddTask` is
`Accept`, `Stop` is `Close`, all else stutters.

For all sets of jobs, paths and contents (`FileStore_proofs`): `[]Inv`, `[]RecordedHasFile`,
`[]SettledIsComplete`. The strengthening is `HasFile` (past its lookup or open a handler's file
exists), `Bounded` (nothing beyond the content is written) and `Led`: unless an upload of it was
cut off, a file is whole or one of its writers has so far put in place all it received. The last
writer to truncate is such a leader, and when it finishes the file is whole.

For all sets of clients, descriptors, handlers and tokens and every `MaxConnections >= 1`
(`Session_proofs`): `[]Inv`, `[]SenderIsUser`, `[]HandlerKeepsItsData`, `[]WatchedIsServed`,
`[]FeedbackReachesSender`. Numbers are reused, so the invariant says what each number names:
`LoopHolds` (the connection and the free slot a login works on stay as they are), `Orderly` (a client
has one control connection, and before its login neither slot nor copy), `SlotsHeld` and
`JobsHeld` (a data descriptor in a slot or a copy is a data connection of the slot's token: these
are never closed, so their numbers are not reused; the control descriptor of a copy is the
sender's or the sender's connection is gone), `SoleOwner`, `Attached` (without a failed token send
a slot's control descriptor is its client's) and `WatchedControls`. `ConnStep`, `ClientStep` and
`SlotOwners` say once how any step can change the tables; the other lemmas rest on them. That the
search over the slots finds a least one is proved from the well-foundedness of the naturals.

For all sets of users, names, sessions and uploads (`FileTree_proofs`): `[]Inv`, `[]TypeOK`,
`[]DirectoriesAreReachable`, `[]FilesAreListed`, `CwdFollows` and
`ImplementsDirTree`. `Inv` adds `Ids` (ids are unique and below the next one, so a new row is nobody's parent
yet), `StaysHome` (with plain names the rows and current directories of a user begin with its name, so a
path below somebody's directory is longer than a home), `JobsHold` (an upload past its lookup holds the id of an existing directory with the path it was typed in,
or of one that an `rmdir` was removing) and `LoopHolds` (between test and DELETE the directory still has no child but
files of uploads that race with it, which `raced` records). Every action is one of: a row is added
below an existing one, a row without children is deleted, no row changes (`RowsStep`);
`DeleteDrops` says what a deletion leaves reachable, and the refinement follows: a row added or dropped is
a step of the tree when its path had no other row, a stutter otherwise.

For all jobs, clients and transfers, type correctness of `FileStore`, `Session` and `Download`
(`TypeCorrect` in each). For `Download` it needs `Started`: a sender never starts beyond the end
of the file, and a client that receives has the file it writes to.

For every set of files, contents and thresholds, and connections and sessions of any length, of one
transfer at a time (`Upload_proofs`): `[]RecordedIsSent` and `[]UploadsStayInStep`. The argument
is one about framing. `Grouped`: unless the client stopped inside a file, whatever stands in the
connection, every name in it is the beginning of the complete group of one upload, however much of
other groups was read or torn before it. `InPlace`: a handler that has found its own name has read
a prefix of such a group and the rest of it is next, in particular with the size that decides between raw and framed
on both sides. So what it records is what was sent with that name. The proof is for one slot
(`\A t, u \in Transfers : t = u`), since the property is false for two.

For every set of files, contents and thresholds, and whatever stands unread in both directions, in
sessions of one transfer at a time (`Resume_proofs`): `[]SmallResumes`. `Room` ties the offsets of the
thread to its file: until the file is opened it is as long as the thread announced, what comes in frames goes
to its end, a large file has its room and nothing but holes behind the offset. `Kept`: a small file cut
off by a lost connection, and not opened since, is a prefix of the server's or too long for the server
to accept. `Asked`: what the thread announced is the last thing in the connection, and the handler that has
read all of it has the thread's offset. One handler reads its offset and hash in this order whatever stood
before them; two handlers take each other's, and the property is false.

From the same invariant, all of `AnsweredIsVerified` but the scheduling (`AnswersAreTaken`). `AnswerAt` lists
what a handler sends, `Produced` and `Consumed` say how much of it has been sent and read, and a download
is `OnCourse` when the connection holds just the part between the two, both sides count the same, and the
client's file begins with the chunks read so far. A download whose start is settled (`InStep`), with the
same framing on both sides, is on course (`Begins`); then the thread has something to read or the handler
something to do (`GoesOn`), and every step of the session lowers `StepsLeft`, a number, or verifies the file, finds
that it exists, or is a failure of a system call or the connection (`Advances`): it never ends "failed", and
never waits for what does not come. The offsets need `Agreed`: a handler that resumes does so where the
client's file ends, and only if the two agree up to there.

Under the same hypothesis (`Verified_proofs`), for `Download` and for `Upload`: `VerifiedIsWhole` and, if no
file of the server is made of chunks of another (`Distinct`), `VerifiedMatchesServer`. The server's messages
have no transfer number, so the invariant says what a reader can know from their order. `Owned`: between
one name in the connection and the next, every chunk is one of the file named first, however many
answers were cut off or half read. `Leading`: a thread that has read its file's name, and no header as content since
(`Following`), meets chunks of this file before any other name. Hence `CleanFiles`: up to its first hole
(a header stored as content, or room not yet filled), a file of the client has only chunks of the server's
file of that name. At the comparison the hash is that of a whole file (`Hashes`), `Room` says that the hashed
bytes are there, and a server's file has no hole: so the file with this hash is made of chunks of the one
asked for. `Distinct` makes it this one. It is a hypothesis and no ASSUME because the code does not
ensure it; see the limits above for what happens without it. `MarksAssumption` is about the encoding: the marks for "no
file" and "bytes of no file" are no file and no chunk of the server.

Only model-checked: liveness and the refinement with fairness of `ThreadPool`, and that fairness makes the
steps of `AnsweredIsVerified` happen (fairness and ENABLED are out of the prover's reach).

## 5. Not modelled

* The shared `MYSQL` handle (`db.c`, `cmd_parse.c:71`): query, fetch and lock belong to the client library, which is
  not in the repository and whose behaviour for two threads on one handle is undefined. In the models every query is
  atomic and may fail.
* The messages of the handshake and the password check (`auth.c`, `client_auth.c`): a login succeeds or
  fails, a registration is refused or made. The cryptography: hashes are collision free.
* Configuration parsing, socket set-up and table creation: sequential, once at start. The
  signal handling of the parent process, of which only the exit message that reaches the child is seen.
* The reply of `ls`, of which one entry reaches the client, since every name is written to the start of
  the buffer (`ls.c:90`): one function formats rows it has just read, without state; pwd, which reads only; wording of
  messages and the progress bar; the copied headers in `src/include`; the build.
