------------------------------- MODULE Download -------------------------------
(***************************************************************************)
(* Downloads: handle_gets on the server's workers and client_gets on the   *)
(* client's detached threads, which all share the one data connection of   *)
(* the session.  A file is a sequence of chunks, a hash is the sequence it *)
(* was computed from.  What the server sends is a "name", two "size"s and  *)
(* then the rest of the file, either as "raw" chunks or as "frame"s closed *)
(* by an "end", and a "sha"; all but "raw" carry a length header.  recvn of *)
(* a header and of its body is one step.                                   *)
(*                                                                         *)
(* No name and no chunk is so short (8 bytes) that the client takes it for *)
(* a size and stays at a message boundary (client_file_transfer.c:198,     *)
(* 216): a name, chunk or hash in the place of a size throws it off.       *)
(***************************************************************************)
EXTENDS Integers, Sequences, SequencesExt

CONSTANTS Transfers,   \* pairs of a client thread and the worker that serves it
          Files,       \* file names
          Content,     \* what the server holds under each name
          Threshold,   \* LARGE_FILE_THRESHOLD, in chunks
          Hole,        \* a chunk of bytes that belong to no server file
          Absent,      \* the client has no file of that name
          MaxBacklog,  \* bound on what a new download finds unread in the connection
          MaxLocal     \* bound on the client's file a new download starts from

Chunks == {Hole} \cup UNION {ToSet(Content[f]) : f \in Files}

ASSUME ThresholdAssumption == Threshold \in Nat
ASSUME ContentAssumption == \A f \in Files : Content[f] \in Seq(Chunks)
ASSUME MarksAssumption ==
  Absent \notin Seq(Chunks) /\ \A f \in Files : Hole \notin ToSet(Content[f])

VARIABLES local,             \* the client's files
          toServer, toClient,\* the data connection
          aligned,           \* the client reads toClient at message boundaries
          file,              \* the file of each transfer
          cpc, resume, rest, want, at, result,   \* client_gets
          spc, from, sent,   \* handle_gets
          broken             \* history: files a lost connection left half received

client == <<cpc, resume, rest, want, at, result>>
server == <<spc, from, sent>>
vars == <<local, toServer, toClient, aligned, file, client, server, broken>>

ClientPCs == {"idle", "name", "remaining", "total", "raw", "framed", "sha", "astray", "spin"}
ServerPCs == {"idle", "offset", "hash", "name", "remaining", "total", "raw", "framed",
              "sha", "astray", "spin", "gone"}
Results == {"none", "verified", "exists", "failed", "abandoned", "lost"}

Total(f) == Len(Content[f])
Prefix(s, n) == SubSeq(s, 1, n)
Resized(s, n) == [i \in 1 .. n |-> IF i <= Len(s) THEN s[i] ELSE Hole]
Msg(k, v) == [kind |-> k, val |-> v]

\* What a client may have under the name of a file: an earlier part of it, a
\* file that has grown past it, or something else.
OldFiles(f) ==
  {Absent, <<Hole>>, Content[f] \o <<Hole>>} \cup {Prefix(Content[f], n) : n \in 0 .. Total(f)}

-----------------------------------------------------------------------------
Init ==
  /\ local \in {l \in [Files -> UNION {OldFiles(f) : f \in Files}] :
                  \A f \in Files : l[f] \in OldFiles(f)}
  /\ toServer = <<>> /\ toClient = <<>> /\ aligned = TRUE
  /\ file \in [Transfers -> Files]
  /\ cpc = [t \in Transfers |-> "idle"] /\ spc = cpc
  /\ resume = [t \in Transfers |-> 0]
  /\ rest = resume /\ want = resume /\ at = resume /\ from = resume /\ sent = resume
  /\ result = [t \in Transfers |-> "none"]
  /\ broken = {}

ClientGoto(t, l) == cpc' = [cpc EXCEPT ![t] = l]
ServerGoto(t, l) == spc' = [spc EXCEPT ![t] = l]
Return(t, r) == ClientGoto(t, "idle") /\ result' = [result EXCEPT ![t] = r]

\* The client sends the command and starts a thread, which sends the size of
\* the file it has and, if that is not 0, its hash; the server queues handle_gets.
Begin(t, f) ==
  LET n == IF local[f] = Absent THEN 0 ELSE Len(local[f])
  IN /\ cpc[t] = "idle" /\ spc[t] \in {"idle", "gone"}
     /\ \A u \in Transfers : file[u] = f => cpc[u] = "idle"
     /\ Len(toClient) <= MaxBacklog /\ Len(toServer) <= MaxBacklog /\ n <= MaxLocal
     /\ file' = [file EXCEPT ![t] = f]
     /\ resume' = [resume EXCEPT ![t] = n]
     /\ toServer' = toServer \o <<Msg("size", n)>>
                    \o (IF n > 0 THEN <<Msg("sha", local[f])>> ELSE <<>>)
     /\ ClientGoto(t, "name") /\ ServerGoto(t, "offset")
     /\ result' = [result EXCEPT ![t] = "none"]
     /\ rest' = [rest EXCEPT ![t] = 0]
     /\ want' = [want EXCEPT ![t] = 0]
     /\ at' = [at EXCEPT ![t] = 0]
     /\ from' = [from EXCEPT ![t] = 0]
     /\ sent' = [sent EXCEPT ![t] = 0]
     /\ UNCHANGED <<local, toClient, aligned, broken>>

-----------------------------------------------------------------------------
(* handle_gets *)

\* An empty message counts as a closed connection; a body that is no number is a
\* garbage offset if it fits, and overwrites the stack if it does not.  An offset
\* below 0, with which the handler would send what the file does not have, is left
\* out.
TakeOffset(t) ==
  LET m == Head(toServer)
  IN /\ spc[t] = "offset" /\ toServer # <<>> /\ m.kind # "raw"
     /\ toServer' = Tail(toServer)
     /\ CASE m.kind = "size" -> /\ from' = [from EXCEPT ![t] = m.val]
                               /\ ServerGoto(t, IF m.val > 0 THEN "hash" ELSE "name")
          [] m.kind = "end" -> ServerGoto(t, "gone") /\ UNCHANGED from
          [] OTHER -> \/ ServerGoto(t, "astray") /\ UNCHANGED from
                      \/ \E n \in 0 .. Total(file[t]) + 1 :
                           /\ from' = [from EXCEPT ![t] = n]
                           /\ ServerGoto(t, IF n > 0 THEN "hash" ELSE "name")
     /\ UNCHANGED <<local, toClient, aligned, file, client, sent, broken>>

TakeHash_Mut(t) ==   \* mutant: the client's hash is not compared
  /\ spc[t] = "hash" /\ toServer # <<>>
  /\ toServer' = Tail(toServer)
  /\ ServerGoto(t, "name")
  /\ UNCHANGED <<local, toClient, aligned, file, client, from, sent, broken>>

\* The hash of the first resume_offset bytes: past the end of the file, read
\* returns 0 and the loop of calculate_file_sha256_evp never ends.
TakeHash(t) ==
  LET m == Head(toServer)
      f == file[t]
  IN /\ spc[t] = "hash" /\ toServer # <<>> /\ m.kind # "raw"
     /\ toServer' = Tail(toServer)
     /\ CASE m.kind = "end" -> ServerGoto(t, "gone") /\ UNCHANGED from
          [] m.kind # "end" /\ from[t] > Total(f) -> ServerGoto(t, "spin") /\ UNCHANGED from
          [] OTHER -> /\ ServerGoto(t, "name")
                      /\ from' = [from EXCEPT ![t] =
                           IF m.kind = "sha" /\ m.val = Prefix(Content[f], from[t]) THEN @ ELSE 0]
     /\ UNCHANGED <<local, toClient, aligned, file, client, sent, broken>>

Left(t) == Total(file[t]) - from[t]      \* remaining_size

Send(m) == toClient' = Append(toClient, m)

SendName(t) ==
  /\ spc[t] = "name"
  /\ Send(Msg("name", file[t])) /\ ServerGoto(t, "remaining")
  /\ UNCHANGED <<local, toServer, aligned, file, client, from, sent, broken>>

SendRemaining(t) ==
  /\ spc[t] = "remaining"
  /\ Send(Msg("size", Left(t))) /\ ServerGoto(t, "total")
  /\ UNCHANGED <<local, toServer, aligned, file, client, from, sent, broken>>

SendTotal(t) ==
  /\ spc[t] = "total"
  /\ Send(Msg("size", Total(file[t])))
  /\ sent' = [sent EXCEPT ![t] = from[t]]
  /\ ServerGoto(t, IF Left(t) = 0 THEN "idle"
                   ELSE IF Left(t) > Threshold THEN "raw" ELSE "framed")
  /\ UNCHANGED <<local, toServer, aligned, file, client, from, broken>>

\* One chunk, by sendfile or in a train.
SendChunk(t) ==
  /\ spc[t] \in {"raw", "framed"} /\ sent[t] < Total(file[t])
  /\ Send(Msg(IF spc[t] = "raw" THEN "raw" ELSE "frame", Content[file[t]][sent[t] + 1]))
  /\ sent' = [sent EXCEPT ![t] = @ + 1]
  /\ UNCHANGED <<local, toServer, aligned, file, client, spc, from, broken>>

SendEnd_Mut(t) ==   \* mutant: no end marker
  /\ spc[t] \in {"raw", "framed"} /\ sent[t] = Total(file[t])
  /\ ServerGoto(t, "sha")
  /\ UNCHANGED <<local, toServer, toClient, aligned, file, client, from, sent, broken>>

SendEnd(t) ==
  /\ spc[t] \in {"raw", "framed"} /\ sent[t] = Total(file[t])
  /\ IF spc[t] = "framed" THEN Send(Msg("end", 0)) ELSE UNCHANGED toClient
  /\ ServerGoto(t, "sha")
  /\ UNCHANGED <<local, toServer, aligned, file, client, from, sent, broken>>

SendSha(t) ==
  /\ spc[t] = "sha"
  /\ Send(Msg("sha", Content[file[t]])) /\ ServerGoto(t, "idle")
  /\ UNCHANGED <<local, toServer, aligned, file, client, from, sent, broken>>

\* No such file, a query or a system call fails: the handler returns, and what
\* the client has sent or waits for stays as it is.
GiveUp(t) ==
  /\ spc[t] \notin {"idle", "gone", "spin"}
  /\ ServerGoto(t, "gone")
  /\ UNCHANGED <<local, toServer, toClient, aligned, file, client, from, sent, broken>>

-----------------------------------------------------------------------------
(* client_gets *)

Mine(t) == local[file[t]]
SetMine(t, s) == local' = [local EXCEPT ![file[t]] = s]

\* A write of a chunk at an offset of a file.
Written(s, i, c) == [Resized(s, IF i > Len(s) THEN i ELSE Len(s)) EXCEPT ![i] = c]

\* recvn of one message by the thread waiting at l for one of these kinds.
Take(t, l, kinds) ==
  /\ cpc[t] = l /\ toClient # <<>> /\ aligned
  /\ Head(toClient).kind \in kinds
  /\ toClient' = Tail(toClient)
  /\ UNCHANGED <<toServer, aligned, file, server>>

TakeName(t) ==
  /\ Take(t, "name", {"name"}) /\ Head(toClient).val = file[t]
  /\ ClientGoto(t, "remaining")
  /\ UNCHANGED <<local, resume, rest, want, at, result, broken>>

TakeRemaining(t) ==
  /\ Take(t, "remaining", {"size"})
  /\ rest' = [rest EXCEPT ![t] = Head(toClient).val]
  /\ ClientGoto(t, "total")
  /\ UNCHANGED <<local, resume, want, at, result, broken>>

\* Nothing remains: the server has verified what the client has.
TakeTotalDone(t) ==
  /\ Take(t, "total", {"size"}) /\ rest[t] = 0
  /\ Return(t, "exists")
  /\ broken' = broken \ {file[t]}
  /\ UNCHANGED <<local, resume, rest, want, at>>

\* Resume or start over, as the two sizes say, and make room for a large file.
Plan_Mut(t, resumes, large) ==   \* mutant: room is made for every file
  LET r == IF resumes THEN resume[t] ELSE 0
      w == rest[t] + r
  IN /\ resumes => Mine(t) # Absent
     /\ large = (w > Threshold)
     /\ resume' = [resume EXCEPT ![t] = r]
     /\ want' = [want EXCEPT ![t] = w]
     /\ at' = [at EXCEPT ![t] = r]
     /\ SetMine(t, Resized(IF resumes THEN Mine(t) ELSE <<>>, w))

Plan(t, resumes, large) ==
  LET r == IF resumes THEN resume[t] ELSE 0
      w == rest[t] + r
      kept == IF resumes THEN Mine(t) ELSE <<>>
  IN /\ resumes => Mine(t) # Absent
     /\ large = (w > Threshold)
     /\ resume' = [resume EXCEPT ![t] = r]
     /\ want' = [want EXCEPT ![t] = w]
     /\ at' = [at EXCEPT ![t] = r]
     /\ SetMine(t, IF large THEN Resized(kept, w) ELSE kept)

TakeTotal(t) ==
  /\ Take(t, "total", {"size"}) /\ rest[t] # 0
  /\ \E large \in BOOLEAN :
       /\ Plan(t, rest[t] # Head(toClient).val, large)
       /\ ClientGoto(t, IF large THEN "raw" ELSE "framed")
  /\ broken' = broken \ {file[t]}
  /\ UNCHANGED <<rest, result>>

\* open fails, in particular to resume a file that does not exist.
TakeTotalFails(t) ==
  /\ Take(t, "total", {"size"}) /\ rest[t] # 0
  /\ Return(t, "abandoned")
  /\ UNCHANGED <<local, resume, rest, want, at, broken>>

\* recvn into the mapping takes what comes; headers in it throw the reader off.
TakeRaw(t) ==
  LET m == Head(toClient)
      good == aligned /\ m.kind = "raw"
      i == at[t] + 1
  IN /\ cpc[t] = "raw" /\ toClient # <<>>
     /\ toClient' = Tail(toClient)
     /\ aligned' = good
     /\ SetMine(t, Written(Mine(t), i, IF good THEN m.val ELSE Hole))
     /\ at' = [at EXCEPT ![t] = i]
     /\ ClientGoto(t, IF i = want[t] THEN "sha" ELSE "raw")
     /\ UNCHANGED <<toServer, file, resume, rest, want, result, server, broken>>

\* The body of any message is written to the file.
TakeFrame(t) ==
  LET m == Head(toClient)
      i == at[t] + 1
  IN /\ Take(t, "framed", {"frame", "name", "size", "sha"})
     /\ SetMine(t, Written(Mine(t), i, IF m.kind = "frame" THEN m.val ELSE Hole))
     /\ at' = [at EXCEPT ![t] = i]
     /\ UNCHANGED <<cpc, resume, rest, want, result, broken>>

\* The hash of more bytes than the file has is a loop that never ends.
TakeEnd(t) ==
  /\ Take(t, "framed", {"end"})
  /\ ClientGoto(t, IF Len(Mine(t)) < want[t] THEN "spin" ELSE "sha")
  /\ UNCHANGED <<local, resume, rest, want, at, result, broken>>

TakeSha_Mut(t) ==   \* mutant: the hashes are not compared
  /\ Take(t, "sha", {"sha", "name", "size", "frame"})
  /\ Return(t, "verified")
  /\ UNCHANGED <<local, resume, rest, want, at, broken>>

\* The hash of what was received against the server's, or whatever comes as such.
TakeSha(t) ==
  LET m == Head(toClient)
      same == m.kind = "sha" /\ m.val = Prefix(Mine(t), want[t])
  IN /\ Take(t, "sha", {"sha", "name", "size", "frame"})
     /\ Return(t, IF same THEN "verified" ELSE "failed")
     /\ UNCHANGED <<local, resume, rest, want, at, broken>>

\* Another name, or an empty message.
TakeWrong(t) ==
  LET m == Head(toClient)
  IN /\ \/ /\ Take(t, "name", {"name", "size", "frame", "sha", "end"})
           /\ ~ (m.kind = "name" /\ m.val = file[t])
        \/ \E l \in {"remaining", "total", "sha"} : Take(t, l, {"end"})
     /\ Return(t, "failed")
     /\ UNCHANGED <<local, resume, rest, want, at, broken>>

\* Bytes that are not a header taken for one, or not a number taken for one:
\* the thread reads on, an arbitrary number of bytes, or returns with an error.
TakeGarbage(t) ==
  LET k == Head(toClient).kind
  IN /\ toClient # <<>>
     /\ \/ cpc[t] = "astray"
        \/ cpc[t] \in {"name", "remaining", "total", "framed", "sha"} /\ (~ aligned \/ k = "raw")
        \/ cpc[t] \in {"remaining", "total"} /\ k \in {"name", "frame", "sha"}
     /\ toClient' = Tail(toClient)
     /\ aligned' = FALSE
     /\ ClientGoto(t, "astray")
     /\ UNCHANGED <<local, toServer, file, resume, rest, want, at, result, server, broken>>

\* A system call fails, or garbage was no length: the thread returns, and what
\* it has not read stays in the connection for the next one.
Abandon(t) ==
  /\ cpc[t] \in {"raw", "framed", "sha", "astray"}
  /\ Return(t, "abandoned")
  /\ UNCHANGED <<local, toServer, toClient, aligned, file, resume, rest, want, at, server, broken>>

-----------------------------------------------------------------------------
\* The connection is lost, in both directions; the client starts again, with
\* the files it has.  A handler in the endless loop does not notice.
Disconnect ==
  LET active == {t \in Transfers : cpc[t] # "idle"}
  IN /\ toServer' = <<>> /\ toClient' = <<>> /\ aligned' = TRUE
     /\ cpc' = [t \in Transfers |-> "idle"]
     /\ result' = [t \in Transfers |-> IF t \in active THEN "lost" ELSE result[t]]
     /\ spc' = [t \in Transfers |-> IF spc[t] = "spin" THEN "spin" ELSE "idle"]
     /\ broken' = broken \cup {file[t] : t \in {u \in active :
          /\ cpc[u] \in {"raw", "framed"} /\ at[u] > 0
          /\ IsPrefix(Prefix(Mine(u), at[u]), Content[file[u]])}}
     /\ UNCHANGED <<local, file, resume, rest, want, at, from, sent>>

ServerStep(t) ==
  \/ TakeOffset(t) \/ TakeHash(t) \/ SendName(t) \/ SendRemaining(t) \/ SendTotal(t)
  \/ SendChunk(t) \/ SendEnd(t) \/ SendSha(t)

ClientStep(t) ==
  \/ TakeName(t) \/ TakeRemaining(t) \/ TakeTotalDone(t) \/ TakeTotal(t)
  \/ TakeRaw(t) \/ TakeFrame(t) \/ TakeEnd(t) \/ TakeSha(t) \/ TakeWrong(t) \/ TakeGarbage(t)

Next ==
  \/ \E t \in Transfers :
       \/ \E f \in Files : Begin(t, f)
       \/ ServerStep(t) \/ GiveUp(t)
       \/ ClientStep(t) \/ TakeTotalFails(t) \/ Abandon(t)
  \/ Disconnect

\* A thread with work to do does it, unless a failure comes first.
Fairness == \A t \in Transfers : WF_vars(ServerStep(t)) /\ WF_vars(ClientStep(t))

Spec == Init /\ [][Next]_vars
FairSpec == Spec /\ Fairness

-----------------------------------------------------------------------------
(* Properties *)

\* Types of the files, the messages and the locals of both functions; a size
\* the server announces is not negative.
MessageOK(m) ==
  CASE m.kind = "name" -> m.val \in Files
    [] m.kind = "size" -> m.val \in Nat
    [] m.kind = "end" -> m.val = 0
    [] m.kind \in {"raw", "frame"} -> m.val \in Chunks
    [] m.kind = "sha" -> ToSet(m.val) \subseteq Chunks
    [] OTHER -> FALSE
TypeOK ==
  /\ \A f \in Files : local[f] = Absent \/ ToSet(local[f]) \subseteq Chunks
  /\ \A m \in ToSet(toServer) \cup ToSet(toClient) : MessageOK(m)
  /\ aligned \in BOOLEAN /\ broken \subseteq Files
  /\ file \in [Transfers -> Files]
  /\ cpc \in [Transfers -> ClientPCs] /\ spc \in [Transfers -> ServerPCs]
  /\ {resume, rest, want, at, from, sent} \subseteq [Transfers -> Nat]
  /\ result \in [Transfers -> Results]

\* When client_gets says "downloaded and verified", the file it has begins with
\* all of what the server has under that name, whatever earlier failures left
\* unread in the connection, if no file of the server is made of chunks of another
\* and no name or chunk can pass for a size; what follows is not hashed, and may be
\* garbage
\* (client_file_transfer.c:257-376, file_transfer.c:227-341).
Reports(t, r) == result[t] # r /\ result'[t] = r
VerifiedMatchesServer ==
  [][\A t \in Transfers : Reports(t, "verified") => IsPrefix(Content[file[t]], local'[file[t]])]_vars

\* The server has just settled where to start, and nothing of an earlier
\* download is left in the connection.
InStep(t) ==
  /\ cpc[t] = "name" /\ spc[t] = "name"
  /\ aligned /\ toServer = <<>> /\ toClient = <<>>

\* A download cut off by the connection resumes where it broke, when the file
\* is a small one (client_file_transfer.c:127-162, 294-339, file_transfer.c:163-213).
Resumes(t) == InStep(t) /\ file[t] \in broken => from[t] = Len(Mine(t))
SmallResumes == \A t \in Transfers : Total(file[t]) <= Threshold => Resumes(t)

\* A client that will read the rest in the form in which it is sent gets the
\* whole file verified, unless the connection is lost or a system call fails
\* (file_transfer.c:215-346, client_file_transfer.c:164-377).
SameFraming(t) == Left(t) > Threshold <=> Total(file[t]) > Threshold
AnsweredIsVerified ==
  \A t \in Transfers :
    InStep(t) /\ SameFraming(t) ~>
      result[t] \in {"verified", "exists", "abandoned", "lost"} \/ spc[t] = "gone"

\* README 2.4: after an interruption a large file need not be transferred from
\* the beginning.
InterruptedResumes == \A t \in Transfers : Resumes(t)

\* The comment at client_file_transfer.c:224: then the complete file is there and
\* the server has verified it.
ExistsMatchesServer ==
  [][\A t \in Transfers : Reports(t, "exists") => local[file[t]] = Content[file[t]]]_vars
=============================================================================
