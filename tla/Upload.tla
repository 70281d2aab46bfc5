------------------------------- MODULE Upload -------------------------------
(***************************************************************************)
(* Uploads in the data connection that Download is about: client_puts      *)
(* sends a name, the size, the hash and the content of a file, without     *)
(* ever waiting for an answer, and handle_puts reads as much of it as it   *)
(* wants.  What it leaves unread is what the next handler of the session   *)
(* finds, be it one for gets or for puts.                                  *)
(*                                                                         *)
(* A command is typed when the thread and the handler of the last one with *)
(* the same slot have returned: with one slot a worker is alone with the   *)
(* connection, and nothing tells a whole file sent at once from one sent   *)
(* piece by piece.  What a client has of a file does not change while it   *)
(* is sent.  Neither the content of a file nor a number spells a file      *)
(* name.  Whether a hash is known depends on all users and on the queries, *)
(* and is open here (see FileStore).                                       *)
(***************************************************************************)
EXTENDS Download

CONSTANTS Sources,     \* names of the files that are uploaded
          Versions,    \* what the client may have under each of them
          MaxUnread,   \* bound on what a new upload finds unread by the server,
          MaxUnseen,   \* and by the client; on what a new download finds unread by
          MaxAhead,    \* the server; and on what any new transfer does when the
          MaxAfterCut  \* client has stopped inside a file

ASSUME VersionsAssumption ==
  \A f \in Sources : \A c \in Versions[f] : c \in Seq(ToSet(c))

VARIABLES up,          \* handle_puts, its locals and the file it writes; and, as
                       \* history, whether it was in step with what the client sent
          cut          \* history: since it connected, the client stopped inside a file

vvars == <<vars, up, cut>>

NoPuts == [at |-> "idle", name |-> Hole, size |-> 0, hash |-> <<>>,
           data |-> <<>>, got |-> 0, inStep |-> FALSE]

\* What is left of a message that was not read to its end.
Piece == Msg("raw", Hole)

\* What client_puts sends of a file f with content c.
Group(f, c) ==
  LET n == Len(c)
  IN <<Msg("name", f), Msg("size", n), Msg("sha", c)>>
       \o (IF n > Threshold THEN [i \in 1 .. n |-> Msg("raw", c[i])]
           ELSE Append([i \in 1 .. n |-> Msg("frame", c[i])], Msg("end", 0)))

UploadInit ==
  /\ Init
  /\ up = [t \in Transfers |-> NoPuts]
  /\ cut = FALSE

\* Neither a thread of the client nor a handler is at work.
Quiet(t) ==
  /\ cpc[t] = "idle" /\ spc[t] \in {"idle", "gone"} /\ up[t] = NoPuts
  /\ cut => Len(toServer) <= MaxAfterCut

\* The locals of the last download are gone.
Forget(t) ==
  /\ result' = [result EXCEPT ![t] = "none"]
  /\ resume' = [resume EXCEPT ![t] = 0]
  /\ rest' = [rest EXCEPT ![t] = 0]
  /\ want' = [want EXCEPT ![t] = 0]
  /\ at' = [at EXCEPT ![t] = 0]
  /\ from' = [from EXCEPT ![t] = 0]
  /\ sent' = [sent EXCEPT ![t] = 0]
  /\ spc' = [spc EXCEPT ![t] = "idle"]

\* The client sends the command and starts a thread, which sends all of the file,
\* or stops when a system call fails, which may be before the name; the server
\* queues handle_puts.
Puts(t, f) ==
  /\ Quiet(t) /\ Len(toServer) <= MaxUnread /\ Len(toClient) <= MaxUnseen
  /\ \E c \in Versions[f] : \E n \in 0 .. Len(Group(f, c)) :
       /\ toServer' = toServer \o Prefix(Group(f, c), n)
       /\ cut' = (cut \/ n \in 1 .. Len(Group(f, c)) - 1)
       /\ up' = [up EXCEPT ![t] = [NoPuts EXCEPT !.at = "name", !.name = f,
                                     !.inStep = (toServer = <<>> /\ n = Len(Group(f, c)))]]
  /\ Forget(t)
  /\ UNCHANGED <<local, toClient, aligned, file, cpc, broken>>

-----------------------------------------------------------------------------
(* handle_puts *)

\* recvn of one message by the handler waiting at l for one of these kinds.
TakePuts(t, l, kinds) ==
  /\ up[t].at = l /\ toServer # <<>> /\ Head(toServer).kind \in kinds
  /\ toServer' = Tail(toServer)
  /\ UNCHANGED <<local, toClient, aligned, file, client, server, broken, cut>>

PutsGoto(t, l) == up' = [up EXCEPT ![t].at = l]
PutsReturn(t) == up' = [up EXCEPT ![t] = NoPuts]
Bodies == {"name", "size", "sha", "frame"}

\* An empty message counts as a closed connection.
TakePutsEmpty(t) ==
  /\ \E l \in {"name", "size", "hash"} : TakePuts(t, l, {"end"})
  /\ PutsReturn(t)

TakePutsName_Mut(t) ==   \* mutant: the name is not compared
  /\ TakePuts(t, "name", Bodies)
  /\ PutsGoto(t, "size")

TakePutsName(t) ==
  /\ TakePuts(t, "name", Bodies)
  /\ IF Head(toServer) = Msg("name", up[t].name) THEN PutsGoto(t, "size") ELSE PutsReturn(t)

\* A body that is no size is a garbage size, or overwrites the stack.
TakePutsSize(t) ==
  LET m == Head(toServer)
  IN /\ TakePuts(t, "size", Bodies)
     /\ IF m.kind = "size"
          THEN up' = [up EXCEPT ![t].at = "hash", ![t].size = m.val]
          ELSE \/ PutsGoto(t, "astray")
               \/ \E n \in {0, Threshold + 1} :
                    up' = [up EXCEPT ![t].at = "hash", ![t].size = n]

\* A body that is no hash is the hash of nothing, or overwrites the stack.
TakePutsHash(t) ==
  LET m == Head(toServer)
  IN /\ TakePuts(t, "hash", Bodies)
     /\ IF m.kind = "sha"
          THEN up' = [up EXCEPT ![t].at = "lookup", ![t].hash = m.val]
          ELSE \/ PutsGoto(t, "astray")
               \/ up' = [up EXCEPT ![t].at = "lookup", ![t].hash = <<Hole>>]

\* The row goes into the table.
Record(t) ==
  /\ PutsReturn(t)
  /\ UNCHANGED <<vars, cut>>

\* The hash is known: a row is all it takes, and the content stays unread.
Instant(t) == up[t].at = "lookup" /\ Record(t)

Create_Mut(t) ==   \* mutant: as long as the threshold is large
  LET large == up[t].size >= Threshold
  IN /\ up[t].at = "lookup"
     /\ up' = [up EXCEPT ![t].at = IF large THEN "raw" ELSE "framed",
                         ![t].data = IF large THEN Resized(<<>>, up[t].size) ELSE <<>>]
     /\ UNCHANGED <<vars, cut>>

\* No row, or an error of the query: the file is created or truncated, and a
\* large one extended.
Create(t) ==
  LET large == up[t].size > Threshold
  IN /\ up[t].at = "lookup"
     /\ up' = [up EXCEPT ![t].at = IF large THEN "raw" ELSE "framed",
                         ![t].data = IF large THEN Resized(<<>>, up[t].size) ELSE <<>>]
     /\ UNCHANGED <<vars, cut>>

\* Into the mapping, until it is full; a header in it throws the reader off, and
\* may leave the message it belongs to in pieces.
TakePutsRaw(t) ==
  LET m == Head(toServer)
      i == up[t].got + 1
      raw == m.kind = "raw"
  IN /\ up[t].at = "raw" /\ toServer # <<>>
     /\ \/ toServer' = Tail(toServer)
        \/ ~raw /\ toServer' = <<Piece>> \o Tail(toServer)
     /\ up' = [up EXCEPT ![t].data[i] = IF raw THEN m.val ELSE Hole,
                         ![t].got = i,
                         ![t].at = IF i = up[t].size THEN "insert" ELSE "raw"]
     /\ UNCHANGED <<local, toClient, aligned, file, client, server, broken, cut>>

\* The body of any message, until an empty one; the size is not looked at.
TakePutsFrame(t) ==
  LET m == Head(toServer)
  IN /\ TakePuts(t, "framed", Bodies)
     /\ up' = [up EXCEPT ![t].data = Append(@, IF m.kind = "frame" THEN m.val ELSE Hole)]

TakePutsEnd(t) ==
  /\ TakePuts(t, "framed", {"end"})
  /\ PutsGoto(t, "insert")

Insert(t) == up[t].at = "insert" /\ Record(t)

\* Bytes that are no header taken for one: the handler reads on, an arbitrary
\* number of bytes, and may stop inside a message.
Reads(t) ==
  LET raw == Head(toServer).kind = "raw"
  IN \/ /\ up[t].at = "astray" \/ (up[t].at \in {"name", "size", "hash", "framed"} /\ raw)
        /\ PutsGoto(t, "astray") /\ UNCHANGED spc
     \/ /\ spc[t] = "astray" \/ (spc[t] \in {"offset", "hash"} /\ raw)
        /\ ServerGoto(t, "astray") /\ UNCHANGED up
ServerGarbage(t) ==
  /\ toServer # <<>> /\ Reads(t)
  /\ toServer' \in {Tail(toServer), <<Piece>> \o Tail(toServer)}
  /\ UNCHANGED <<local, toClient, aligned, file, client, from, sent, broken, cut>>

\* A query or a system call fails, or garbage was no length or no name.
PutsFails(t) ==
  /\ up[t].at # "idle"
  /\ PutsReturn(t)
  /\ UNCHANGED <<vars, cut>>

-----------------------------------------------------------------------------
\* A download begins or goes on.
Gets(t) ==
  /\ \/ Quiet(t) /\ Len(toServer) <= MaxAhead /\ \E f \in Files : Begin(t, f)
     \/ ServerStep(t) \/ GiveUp(t)
     \/ ClientStep(t) \/ TakeTotalFails(t) \/ Abandon(t)
  /\ UNCHANGED <<up, cut>>

\* Handlers return when the connection is lost.
Reconnect ==
  /\ Disconnect
  /\ up' = [t \in Transfers |-> NoPuts]
  /\ cut' = FALSE

PutsStep(t) ==
  \/ TakePutsEmpty(t) \/ TakePutsName(t) \/ TakePutsSize(t) \/ TakePutsHash(t)
  \/ Instant(t) \/ Create(t) \/ TakePutsRaw(t) \/ TakePutsFrame(t) \/ TakePutsEnd(t) \/ Insert(t)

UploadNext ==
  \/ \E t \in Transfers :
       \/ Gets(t)
       \/ \E f \in Sources : Puts(t, f)
       \/ PutsStep(t) \/ PutsFails(t) \/ ServerGarbage(t)
  \/ Reconnect

UploadSpec == UploadInit /\ [][UploadNext]_vvars

-----------------------------------------------------------------------------
(* Properties *)

\* However many files were left unread in the connection, by instant transfers
\* and by handlers that gave up, the row that a handler is about to insert has the
\* hash of something the client had under that name, and what was received for it
\* is the content with that hash, unless the client has stopped inside a file
\* (file_transfer.c:378-384, 465-487, 541-619, client_file_transfer.c:411-488).
RecordedIsSent ==
  ~ cut => \A t \in Transfers :
             /\ up[t].at \in {"lookup", "insert"} => up[t].hash \in Versions[up[t].name]
             /\ up[t].at = "insert" => up[t].data = up[t].hash

\* An upload that finds nothing unread, and whose client sends all of the file,
\* reads what was sent to its end and in the form in which it was sent, whatever
\* its length, unless the transfer is instant or fails (client_file_transfer.c:439,
\* file_transfer.c:520).
UploadsStayInStep ==
  \A t \in Transfers :
    up[t].inStep => up[t].at # "astray" /\ (up[t].at = "insert" => toServer = <<>>)
=============================================================================
