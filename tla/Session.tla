------------------------------- MODULE Session -------------------------------
(***************************************************************************)
(* The sessions of the Cloudisk server: the event loop that accepts        *)
(* control and data connections and reads commands, the array of slots it  *)
(* keeps, the descriptors the slots name, and the gets and puts handlers   *)
(* that go on with a copy of a slot while the loop moves on.               *)
(*                                                                         *)
(* A client is one run of the client program: it connects, logs in once,   *)
(* sends its token on a second connection, sends commands, and may leave   *)
(* at any moment, with data unread on the server.  A descriptor is a       *)
(* number that names the connection at the other end while it is open; any *)
(* closed one may be taken next, since handlers open and close files at    *)
(* the same time.  Commands other than gets and puts are one step.         *)
(***************************************************************************)
EXTENDS Naturals, FiniteSets

CONSTANTS Clients,         \* runs of the client program
          Fds,             \* descriptors left for connections
          Jobs,            \* places for gets and puts: workers and queue
          Tokens,          \* what generate_token may return
          MaxConnections,  \* max_connections of the configuration
          MaxUnread,       \* bound on commands waiting in a control connection
          None

ASSUME MaxConnectionsAssumption == MaxConnections \in Nat \ {0}
ASSUME MaxUnreadAssumption == MaxUnread \in Nat
Connections == [client : Clients, kind : {"control", "data"}]
ASSUME NoneAssumption == None \notin Clients \cup Fds \cup Tokens \cup Connections

VARIABLES up,          \* the server process runs
          loop,        \* where the event loop is, and with which descriptor and slot
          conn,        \* what each descriptor is connected to
          watched,     \* control connections registered with epoll
          user,        \* the slots
          user_count,
          job,         \* the copy of a slot each handler works on, and whose command it is
          peer,        \* how far each client has come
          gone,        \* the clients that have left
          token,       \* the token made for a client's session
          unread       \* commands in each client's control connection

vars == <<up, loop, conn, watched, user, user_count, job, peer, gone, token, unread>>
tables == <<conn, watched, user, user_count>>

Slots == 1 .. MaxConnections
\* A slot's state, user name and token are set together: owner stands for all three.
Copies == [owner : Clients, ctl : Fds, data : Fds \cup {None}]
EmptySlot == [owner |-> None, ctl |-> None, data |-> None]
Waiting == [at |-> "wait", fd |-> None, slot |-> 0]

At(l, f, s) == loop' = [at |-> l, fd |-> f, slot |-> s]
Open(f) == conn[f] # None
FreeFds == {f \in Fds : ~Open(f)}
FreeSlots == {s \in Slots : user[s].owner = None}
First(S) == CHOOSE s \in S : \A r \in S : s <= r
Peer(c, l) == peer' = [peer EXCEPT ![c] = l]

-----------------------------------------------------------------------------
Init ==
  /\ up = TRUE /\ loop = Waiting
  /\ conn = [f \in Fds |-> None] /\ watched = {}
  /\ user = [s \in Slots |-> EmptySlot] /\ user_count = 0
  /\ job = [t \in Jobs |-> None]
  /\ peer = [c \in Clients |-> "new"] /\ gone = {}
  /\ token = [c \in Clients |-> None]
  /\ unread = [c \in Clients |-> 0]

-----------------------------------------------------------------------------
(* The client. *)
Server == <<up, loop, tables, job, token>>

Connect(c) ==
  /\ peer[c] = "new" /\ Peer(c, "queued")
  /\ UNCHANGED <<Server, gone, unread>>

\* It has the token and sends it on its data connection.
ConnectData(c) ==
  /\ peer[c] = "in" /\ c \notin gone /\ Peer(c, "binding")
  /\ UNCHANGED <<Server, gone, unread>>

\* It does not wait for the server to have taken the token.
SendCommand(c) ==
  /\ peer[c] \in {"binding", "bound"} /\ c \notin gone
  /\ unread[c] < MaxUnread
  /\ unread' = [unread EXCEPT ![c] = @ + 1]
  /\ UNCHANGED <<Server, peer, gone>>

Leave(c) ==
  /\ peer[c] # "new" /\ gone' = gone \cup {c}
  /\ UNCHANGED <<Server, peer, unread>>

-----------------------------------------------------------------------------
(* The event loop: control connections. *)
Refuse(c) ==
  /\ user_count >= MaxConnections
  /\ Peer(c, "refused")
  /\ UNCHANGED <<conn, loop>>

\* Mutant: one login too many.
Admit_Mut(c) ==
  /\ user_count <= MaxConnections
  /\ \E f \in FreeFds :
       /\ conn' = [conn EXCEPT ![f] = [client |-> c, kind |-> "control"]]
       /\ IF FreeSlots = {}
            THEN Peer(c, "stranded") /\ UNCHANGED loop
            ELSE Peer(c, "login") /\ At("login", f, First(FreeSlots))

\* No slot need be free: failed token sends keep some without being counted.
\* Then the connection stays open and nobody serves it.
Admit(c) ==
  /\ user_count < MaxConnections
  /\ \E f \in FreeFds :
       /\ conn' = [conn EXCEPT ![f] = [client |-> c, kind |-> "control"]]
       /\ IF FreeSlots = {}
            THEN Peer(c, "stranded") /\ UNCHANGED loop
            ELSE Peer(c, "login") /\ At("login", f, First(FreeSlots))

Accept(c) ==
  /\ up /\ loop.at = "wait" /\ peer[c] = "queued" /\ FreeFds # {}
  /\ Refuse(c) \/ Admit(c)
  /\ UNCHANGED <<up, watched, user, user_count, job, gone, token, unread>>

\* The loop waits for this client's name, password and nothing else.  A
\* registration before the login changes nothing here.
LoginFails ==
  /\ up /\ loop.at = "login"
  /\ conn' = [conn EXCEPT ![loop.fd] = None]
  /\ Peer(conn[loop.fd].client, "failed") /\ loop' = Waiting
  /\ UNCHANGED <<up, watched, user, user_count, job, gone, token, unread>>

\* The right password has arrived; the slot is filled and the token made.
Authenticate ==
  LET c == conn[loop.fd].client IN
  /\ up /\ loop.at = "login" /\ c \notin gone
  /\ user' = [user EXCEPT ![loop.slot] = [owner |-> c, ctl |-> loop.fd, data |-> None]]
  /\ \E k \in Tokens : token' = [token EXCEPT ![c] = k]
  /\ Peer(c, "authenticated")
  /\ loop' = [loop EXCEPT !.at = "token"]
  /\ UNCHANGED <<up, conn, watched, user_count, job, gone, unread>>

SendToken ==
  /\ up /\ loop.at = "token"
  /\ watched' = watched \cup {loop.fd}
  /\ user_count' = user_count + 1
  /\ Peer(conn[loop.fd].client, "in") /\ loop' = Waiting
  /\ UNCHANGED <<up, conn, user, job, gone, token, unread>>

\* The client has gone: the caller closes the connection, the slot stays filled.
SendTokenFails ==
  LET c == conn[loop.fd].client IN
  /\ up /\ loop.at = "token" /\ c \in gone
  /\ conn' = [conn EXCEPT ![loop.fd] = None]
  /\ Peer(c, "lost") /\ loop' = Waiting
  /\ UNCHANGED <<up, watched, user, user_count, job, gone, token, unread>>

-----------------------------------------------------------------------------
(* The event loop: data connections. *)
Holders(k) == {s \in Slots : user[s].owner # None /\ token[user[s].owner] = k}

\* The first slot with the client's token takes the connection; without one it
\* is closed, as it is when the client left before its token was there.
AcceptData(c) ==
  LET H == Holders(token[c]) IN
  /\ up /\ loop.at = "wait" /\ peer[c] = "binding"
  /\ \/ /\ H # {}
        /\ \E f \in FreeFds :
             /\ conn' = [conn EXCEPT ![f] = [client |-> c, kind |-> "data"]]
             /\ user' = [user EXCEPT ![First(H)].data = f]
        /\ Peer(c, "bound")
     \/ /\ (H = {} \/ c \in gone) /\ FreeFds # {}
        /\ Peer(c, "unbound")
        /\ UNCHANGED <<conn, user>>
  /\ UNCHANGED <<up, loop, watched, user_count, job, gone, token, unread>>

-----------------------------------------------------------------------------
(* The event loop: commands. *)
Readable(c) == unread[c] > 0 \/ c \in gone

Poll(f) ==
  /\ up /\ loop.at = "wait" /\ f \in watched /\ Readable(conn[f].client)
  /\ At("serve", f, 1)
  /\ UNCHANGED <<up, tables, job, peer, gone, token, unread>>

\* The slots from here on whose control descriptor is the readable one.
Matching == {s \in Slots : s >= loop.slot /\ user[s].ctl = loop.fd}
Served == First(Matching)
Serving == up /\ loop.at = "serve" /\ Matching # {} /\ Open(loop.fd)
Skip == loop' = [loop EXCEPT !.slot = Served + 1]

ServeDone ==
  /\ up /\ loop.at = "serve" /\ Matching = {}
  /\ loop' = Waiting
  /\ UNCHANGED <<up, tables, job, peer, gone, token, unread>>

\* Mutant: the slot where the search began goes with the task.
Command_Mut ==
  LET c == conn[loop.fd].client IN
  /\ Serving /\ unread[c] > 0 /\ Skip
  /\ unread' = [unread EXCEPT ![c] = @ - 1]
  /\ \/ UNCHANGED job
     \/ /\ user[loop.slot].owner # None
        /\ \E t \in Jobs :
             job[t] = None /\ job' = [job EXCEPT ![t] = [slot |-> user[loop.slot], from |-> c]]
  /\ UNCHANGED <<up, tables, peer, gone, token>>

\* gets and puts leave with a copy of the slot, if there is a place for them;
\* every other command is answered at once.
Command ==
  LET c == conn[loop.fd].client IN
  /\ Serving /\ unread[c] > 0 /\ Skip
  /\ unread' = [unread EXCEPT ![c] = @ - 1]
  /\ \/ UNCHANGED job
     \/ \E t \in Jobs :
          job[t] = None /\ job' = [job EXCEPT ![t] = [slot |-> user[Served], from |-> c]]
  /\ UNCHANGED <<up, tables, peer, gone, token>>

\* The stream has ended, and whatever the unread length holds the second recvn
\* returns 0; or the command is empty, and recvn of no bytes returns 0 too.
EndOrBlank(c) ==
  \/ unread[c] = 0 /\ c \in gone /\ UNCHANGED unread
  \/ unread[c] > 0 /\ unread' = [unread EXCEPT ![c] = @ - 1]

\* Mutant: the data connection is closed with the session.
Disconnect_Mut1 ==
  LET c == conn[loop.fd].client
      closed == {loop.fd, user[Served].data}
  IN  /\ Serving /\ EndOrBlank(c) /\ Skip
      /\ conn' = [f \in Fds |-> IF f \in closed THEN None ELSE conn[f]]
      /\ watched' = watched \ closed
      /\ user' = [user EXCEPT ![Served] = EmptySlot]
      /\ UNCHANGED <<up, user_count, job, peer, gone, token>>

\* Mutant: the slot is not cleared.
Disconnect_Mut2 ==
  LET c == conn[loop.fd].client IN
  /\ Serving /\ EndOrBlank(c) /\ Skip
  /\ conn' = [conn EXCEPT ![loop.fd] = None]
  /\ watched' = watched \ {loop.fd}
  /\ UNCHANGED <<up, user, user_count, job, peer, gone, token>>

\* Mutant: the connection is not closed.
Disconnect_Mut3 ==
  LET c == conn[loop.fd].client IN
  /\ Serving /\ EndOrBlank(c) /\ Skip
  /\ user' = [user EXCEPT ![Served] = EmptySlot]
  /\ UNCHANGED <<up, conn, watched, user_count, job, peer, gone, token>>

\* Closing also takes the descriptor out of the epoll set; the data connection
\* stays open and user_count as it was.
Disconnect ==
  LET c == conn[loop.fd].client IN
  /\ Serving /\ EndOrBlank(c) /\ Skip
  /\ conn' = [conn EXCEPT ![loop.fd] = None]
  /\ watched' = watched \ {loop.fd}
  /\ user' = [user EXCEPT ![Served] = EmptySlot]
  /\ UNCHANGED <<up, user_count, job, peer, gone, token>>

-----------------------------------------------------------------------------
(* The handlers, on their copies: the messages they send change nothing here. *)
Return(t) ==
  /\ up /\ job[t] # None
  /\ job' = [job EXCEPT ![t] = None]
  /\ UNCHANGED <<up, loop, tables, peer, gone, token, unread>>

\* ERROR_CHECK ends the process: accept without a descriptor left; a connection
\* that is closed or reset when it is read or a message is sent on it.
Dead(f) == Open(f) => conn[f].client \in gone

Exit ==
  /\ up /\ up' = FALSE
  /\ \/ /\ loop.at = "wait"
        /\ \E c \in Clients : peer[c] \in {"queued", "binding"} /\ (FreeFds = {} \/ c \in gone)
     \/ loop.at \in {"login", "token"} /\ Dead(loop.fd)
     \/ loop.at = "serve" /\ Matching # {} /\ Dead(loop.fd)
     \/ \E t \in Jobs : job[t] # None /\ Dead(job[t].slot.ctl)
  /\ UNCHANGED <<loop, tables, job, peer, gone, token, unread>>

-----------------------------------------------------------------------------
Next ==
  \/ \E c \in Clients : \/ Connect(c) \/ ConnectData(c) \/ SendCommand(c) \/ Leave(c)
                        \/ Accept(c) \/ AcceptData(c)
  \/ LoginFails \/ Authenticate \/ SendToken \/ SendTokenFails
  \/ \E f \in Fds : Poll(f)
  \/ ServeDone \/ Command \/ Disconnect
  \/ \E t \in Jobs : Return(t)
  \/ Exit

Spec == Init /\ [][Next]_vars

\* The loop goes on with what it has in hand; nothing is required of clients.
FairSpec == Spec /\ WF_vars(SendToken \/ SendTokenFails \/ Command \/ Disconnect \/ ServeDone)

-----------------------------------------------------------------------------
\* Only slots, descriptors and places that exist; never more logins counted
\* than there are slots, the bound server.c:96 guards.
TypeOK ==
  /\ up \in BOOLEAN
  /\ loop \in [at : {"wait", "login", "token", "serve"}, fd : Fds \cup {None},
              slot : 0 .. MaxConnections + 1]
  /\ conn \in [Fds -> Connections \cup {None}] /\ watched \subseteq Fds
  /\ user \in [Slots -> [owner : Clients \cup {None}, ctl : Fds \cup {None},
                         data : Fds \cup {None}]]
  /\ user_count \in 0 .. MaxConnections
  /\ job \in [Jobs -> [slot : Copies, from : Clients] \cup {None}]
  /\ peer \in [Clients -> {"new", "queued", "refused", "stranded", "login", "failed", "authenticated",
                           "lost", "in", "binding", "bound", "unbound"}]
  /\ gone \subseteq Clients /\ token \in [Clients -> Tokens \cup {None}]
  /\ unread \in [Clients -> 0 .. MaxUnread]

IsData(f, k) == Open(f) /\ conn[f].kind = "data" /\ token[conn[f].client] = k
Controls(c) == {f \in Fds : conn[f] = [client |-> c, kind |-> "control"]}
NoTokenLost == \A c \in Clients : peer[c] # "lost"

\* A gets or puts handler works on a copy of the slot made when the command was
\* read (cmd_parse.c:70), while the loop goes on, ends the session, and gives its
\* slot and its descriptors away.  The data descriptor of the copy is at all times
\* a data connection opened with the session's token, or none.
HandlerKeepsItsData ==
  \A t \in Jobs : job[t] # None /\ job[t].slot.data # None
                   => IsData(job[t].slot.data, token[job[t].slot.owner])

\* Slots are found by descriptor number (server.c:160), and numbers are reused.  As
\* long as every token could be sent, a command is executed in the name of the
\* client that sent it.  (A failed token send leaves a slot behind that takes the
\* commands of whoever gets its number.)
SenderIsUser == NoTokenLost /\ Serving => user[Served].owner = conn[loop.fd].client

\* What epoll reports the loop must be able to consume, or it spins for ever: each
\* watched descriptor is an open control connection with a slot of its client.
WatchedIsServed ==
  \A f \in watched :
    Open(f) /\ \E s \in Slots : user[s].ctl = f /\ user[s].owner = conn[f].client

\* A handler sends its messages on the control descriptor of its copy.  They reach
\* the client whose command it executes, and another one only after the loop has
\* closed that client's connection.
FeedbackReachesSender ==
  \A t \in Jobs :
    LET f == job[t].slot.ctl IN
    job[t] # None /\ Open(f) /\ conn[f].client # job[t].from => Controls(job[t].from) = {}

\* A client is turned away only while MaxConnections clients are connected: the
\* setting is the number of concurrent connections (config.h:21).
RefusedOnlyWhenFull ==
  [][\A c \in Clients : peer[c] # "refused" /\ peer'[c] = "refused"
       => Cardinality(watched) >= MaxConnections]_vars

-----------------------------------------------------------------------------
(* The inductive invariant. *)
Owned(c) == (\E s \in Slots : user[s].owner = c) \/ (\E t \in Jobs : job[t] # None /\ job[t].slot.owner = c)

\* While the loop deals with one connection nothing else happens to it.
LoopHolds ==
  /\ loop.at # "wait" => loop.fd \in Fds /\ (Open(loop.fd) => conn[loop.fd].kind = "control")
  /\ loop.at \in {"login", "token"} =>
       Open(loop.fd) /\ loop.fd \notin watched /\ loop.slot \in Slots /\ user_count < MaxConnections
  /\ loop.at = "login" => user[loop.slot] = EmptySlot /\ peer[conn[loop.fd].client] = "login"
  /\ loop.at = "token" =>
       /\ user[loop.slot] = [owner |-> conn[loop.fd].client, ctl |-> loop.fd, data |-> None]
       /\ peer[conn[loop.fd].client] = "authenticated"

\* A client has one control connection, nothing before it, and neither data
\* connection nor slot before its login.
Orderly ==
  \A c \in Clients :
    /\ \A f, g \in Controls(c) : f = g
    /\ peer[c] \in {"new", "queued"} =>
         /\ Controls(c) = {} /\ \A t \in Jobs : job[t] # None => job[t].from # c
    /\ peer[c] \in {"new", "queued", "login"} =>
         ~Owned(c) /\ \A f \in Fds : conn[f] # [client |-> c, kind |-> "data"]

\* What the descriptors of a slot or of a copy of it name.
Held(u) == u.ctl \in Fds /\ (u.data # None => IsData(u.data, token[u.owner]))
Reaches(f, c) == f \in Controls(c) \/ Controls(c) = {}

SlotsHeld == \A s \in Slots : IF user[s].owner = None THEN user[s] = EmptySlot ELSE Held(user[s])
JobsHeld ==
  \A t \in Jobs : job[t] # None => Held(job[t].slot) /\ Reaches(job[t].slot.ctl, job[t].from)

\* A client has one slot.  Unless a token send has failed, the slot's control
\* descriptor is its client's control connection.
SoleOwner ==
  \A s, r \in Slots : user[s].owner # None /\ user[s].owner = user[r].owner => s = r
Attached ==
  NoTokenLost => \A s \in Slots : user[s].owner # None => user[s].ctl \in Controls(user[s].owner)

WatchedControls == \A f \in watched : Open(f) /\ conn[f].kind = "control"

Inv ==
  /\ TypeOK /\ LoopHolds /\ Orderly /\ SlotsHeld /\ JobsHeld
  /\ WatchedControls /\ WatchedIsServed /\ SoleOwner /\ Attached
=============================================================================
