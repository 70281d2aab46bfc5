---------------------------- MODULE Session_proofs ----------------------------
(***************************************************************************)
(* Proofs about Session for any number of clients, slots, descriptors,     *)
(* handlers, tokens and waiting commands.                                  *)
(***************************************************************************)
EXTENDS Session, WellFoundedInduction, TLAPS

\* The loops over the array stop at a slot that satisfies the condition.
LEMMA FirstIsThere ==
  ASSUME NEW S, S \subseteq Slots, S # {}
  PROVE  First(S) \in S
<1>1. S \subseteq Nat
  BY MaxConnectionsAssumption DEF Slots
<1>2. PICK s \in S : \A r \in S : ~(<<r, s>> \in OpToRel(<, Nat))
  BY <1>1, NatLessThanWellFounded, WFMin
<1>3. \A r \in S : s <= r
  <2> SUFFICES ASSUME NEW r \in S PROVE s <= r
    OBVIOUS
  <2>1. s \in Nat /\ r \in Nat
    BY <1>1
  <2>2. r < s => <<r, s>> \in OpToRel(<, Nat)
    BY <2>1 DEF OpToRel
  <2>3. ~(r < s)
    BY <1>2, <2>2, Zenon
  <2> QED
    BY <2>1, <2>3
<1> QED
  BY <1>3 DEF First

\* A connection is not None, so a descriptor is either closed or has both fields.
LEMMA Connected ==
  ASSUME TypeOK, NEW f \in Fds, Open(f)
  PROVE  /\ conn[f] \in Connections
         /\ conn[f].client \in Clients /\ conn[f].kind \in {"control", "data"}
         /\ conn[f] = [client |-> conn[f].client, kind |-> conn[f].kind]
BY DEF TypeOK, Open, Connections

LEMMA NoRecordIsNone == \A c \in Clients, k \in {"control", "data"} : [client |-> c, kind |-> k] # None
BY NoneAssumption DEF Connections

\* What the loop works on while it serves.
LEMMA ServedFacts ==
  ASSUME TypeOK, LoopHolds, SlotsHeld, Serving
  PROVE  /\ Served \in Slots /\ user[Served].ctl = loop.fd /\ Served \in Nat
         /\ loop.fd \in Fds /\ Open(loop.fd) /\ conn[loop.fd].kind = "control"
         /\ conn[loop.fd].client \in Clients
         /\ user[Served].owner \in Clients /\ Held(user[Served])
<1>1. Served \in Matching
  BY FirstIsThere DEF Serving, Matching, Served
<1>2. Served \in Slots /\ user[Served].ctl = loop.fd
  BY <1>1 DEF Matching
<1>3. loop.fd \in Fds /\ Open(loop.fd) /\ conn[loop.fd].kind = "control"
  BY DEF Serving, LoopHolds
<1>4. conn[loop.fd].client \in Clients
  BY <1>3, Connected
<1>5. user[Served].owner # None
  <2>1. user[Served].ctl # None
    BY <1>2, <1>3, NoneAssumption
  <2> QED
    BY <1>2, <2>1 DEF SlotsHeld, EmptySlot
<1>6. user[Served].owner \in Clients
  BY <1>2, <1>5 DEF TypeOK
<1> QED
  BY <1>2, <1>3, <1>4, <1>5, <1>6 DEF SlotsHeld, Slots

LEMMA TypeStep == Inv /\ [Next]_vars => TypeOK'
<1> SUFFICES ASSUME Inv, [Next]_vars PROVE TypeOK'
  OBVIOUS
<1> USE MaxConnectionsAssumption, MaxUnreadAssumption DEF tables, Server, Peer, At, Inv
<1>1. ASSUME NEW c \in Clients, Connect(c) \/ ConnectData(c) PROVE TypeOK'
  BY <1>1 DEF TypeOK, Connect, ConnectData
<1>2. ASSUME NEW c \in Clients, SendCommand(c) PROVE TypeOK'
  BY <1>2 DEF TypeOK, SendCommand
<1>3. ASSUME NEW c \in Clients, Leave(c) PROVE TypeOK'
  BY <1>3 DEF TypeOK, Leave
<1>4. ASSUME NEW c \in Clients, Accept(c) PROVE TypeOK'
  <2>1. CASE Refuse(c)
    BY <1>4, <2>1 DEF TypeOK, Accept, Refuse
  <2>2. ASSUME Admit(c) PROVE TypeOK'
    <3>1. PICK f \in FreeFds : Admit(c)!2!(f)
      BY <2>2 DEF Admit
    <3>2. conn' \in [Fds -> Connections \cup {None}]
      BY <3>1 DEF TypeOK, FreeFds, Connections
    <3>3. FreeSlots # {} => First(FreeSlots) \in Slots
      BY FirstIsThere DEF FreeSlots
    <3>4. loop' \in [at : {"wait", "login", "token", "serve"}, fd : Fds \cup {None},
                      slot : 0 .. MaxConnections + 1]
      BY <3>1, <3>3 DEF TypeOK, Slots, FreeFds
    <3>5. peer'= [peer EXCEPT ![c] = "stranded"] \/ peer'= [peer EXCEPT ![c] = "login"]
      BY <3>1
    <3> QED
      BY <1>4, <3>2, <3>4, <3>5 DEF TypeOK, Accept
  <2> QED
    BY <1>4, <2>1, <2>2 DEF Accept
<1>5. ASSUME LoginFails \/ SendTokenFails PROVE TypeOK'
  <2>1. conn' \in [Fds -> Connections \cup {None}]
    BY <1>5 DEF TypeOK, LoginFails, SendTokenFails
  <2>2. loop' \in [at : {"wait", "login", "token", "serve"}, fd : Fds \cup {None},
                    slot : 0 .. MaxConnections + 1]
    BY <1>5 DEF LoginFails, SendTokenFails, Waiting
  <2>3. peer' \in [Clients -> {"new", "queued", "refused", "stranded", "login", "failed",
                               "authenticated", "lost", "in", "binding", "bound", "unbound"}]
    BY <1>5 DEF TypeOK, LoginFails, SendTokenFails
  <2> QED
    BY <1>5, <2>1, <2>2, <2>3 DEF TypeOK, LoginFails, SendTokenFails
<1>6. CASE Authenticate
  <2>1. loop.fd \in Fds /\ conn[loop.fd].client \in Clients
    BY <1>6, Connected DEF Authenticate, LoopHolds
  <2> QED
    BY <1>6, <2>1 DEF TypeOK, Authenticate, LoopHolds
<1>7. CASE SendToken
  <2>1. loop.fd \in Fds /\ user_count < MaxConnections
    BY <1>7 DEF SendToken, LoopHolds
  <2>2. user_count' \in 0 .. MaxConnections
    BY <1>7, <2>1 DEF TypeOK, SendToken
  <2>3. loop' \in [at : {"wait", "login", "token", "serve"}, fd : Fds \cup {None},
                    slot : 0 .. MaxConnections + 1]
    BY <1>7 DEF SendToken, Waiting
  <2> QED
    BY <1>7, <2>1, <2>2, <2>3 DEF TypeOK, SendToken
<1>8. ASSUME NEW c \in Clients, AcceptData(c) PROVE TypeOK'
  <2>1. CASE UNCHANGED <<conn, user>>
    BY <1>8, <2>1 DEF TypeOK, AcceptData
  <2>2. ASSUME NEW f \in FreeFds, Holders(token[c]) # {},
               conn' = [conn EXCEPT ![f] = [client |-> c, kind |-> "data"]],
               user' = [user EXCEPT ![First(Holders(token[c]))].data = f]
        PROVE  TypeOK'
    <3>1. First(Holders(token[c])) \in Slots
      BY <2>2, FirstIsThere DEF Holders
    <3>2. conn' \in [Fds -> Connections \cup {None}]
      BY <2>2 DEF TypeOK, FreeFds, Connections
    <3>3. user' \in [Slots -> [owner : Clients \cup {None}, ctl : Fds \cup {None},
                              data : Fds \cup {None}]]
      BY <2>2, <3>1 DEF TypeOK, FreeFds
    <3> QED
      BY <1>8, <3>2, <3>3 DEF TypeOK, AcceptData
  <2> QED
    BY <1>8, <2>1, <2>2 DEF AcceptData
<1>9. ASSUME NEW f \in Fds, Poll(f) PROVE TypeOK'
  BY <1>9 DEF TypeOK, Poll
<1>10. CASE ServeDone
  BY <1>10 DEF TypeOK, ServeDone, Waiting
<1>11. CASE Command
  <2>1. Served \in Slots /\ user[Served].owner \in Clients /\ user[Served].ctl \in Fds
        /\ conn[loop.fd].client \in Clients
    BY <1>11, ServedFacts DEF Command
  <2>2. user[Served] \in Copies
    BY <2>1 DEF TypeOK, Copies
  <2>3. loop' \in [at : {"wait", "login", "token", "serve"}, fd : Fds \cup {None},
                    slot : 0 .. MaxConnections + 1]
    <3>1. Served + 1 \in 0 .. MaxConnections + 1
      BY <2>1 DEF Slots
    <3>2. loop' = [loop EXCEPT !.slot = Served + 1]
      BY <1>11 DEF Command, Skip
    <3> QED
      BY <3>1, <3>2 DEF TypeOK
  <2>4. unread' \in [Clients -> 0 .. MaxUnread]
    BY <1>11, <2>1 DEF TypeOK, Command
  <2>5. job' \in [Jobs -> [slot : Copies, from : Clients] \cup {None}]
    BY <1>11, <2>1, <2>2 DEF TypeOK, Command
  <2> QED
    BY <1>11, <2>1, <2>3, <2>4, <2>5 DEF TypeOK, Command
<1>12. CASE Disconnect
  <2>1. Served \in Slots /\ loop.fd \in Fds
    BY <1>12, ServedFacts DEF Disconnect
  <2>2. loop' \in [at : {"wait", "login", "token", "serve"}, fd : Fds \cup {None},
                    slot : 0 .. MaxConnections + 1]
    <3>1. Served + 1 \in 0 .. MaxConnections + 1
      BY <2>1 DEF Slots
    <3>2. loop' = [loop EXCEPT !.slot = Served + 1]
      BY <1>12 DEF Disconnect, Skip
    <3> QED
      BY <3>1, <3>2 DEF TypeOK
  <2>3. unread' \in [Clients -> 0 .. MaxUnread]
    BY <1>12, ServedFacts DEF TypeOK, Disconnect, EndOrBlank
  <2> QED
    BY <1>12, <2>1, <2>2, <2>3 DEF TypeOK, Disconnect, EmptySlot
<1>13. ASSUME NEW t \in Jobs, Return(t) PROVE TypeOK'
  BY <1>13 DEF TypeOK, Return
<1>14. CASE Exit \/ UNCHANGED vars
  BY <1>14 DEF TypeOK, Exit, vars
<1> QED
  BY <1>1, <1>2, <1>3, <1>4, <1>5, <1>6, <1>7, <1>8, <1>9, <1>10, <1>11, <1>12, <1>13, <1>14 DEF Next

-----------------------------------------------------------------------------
Early == {"new", "queued", "login"}
Opens(f, c, k) == conn' = [conn EXCEPT ![f] = [client |-> c, kind |-> k]]
Closes(f) == conn' = [conn EXCEPT ![f] = None]

\* How a step can change the descriptor table.
LEMMA ConnStep ==
  ASSUME Inv, [Next]_vars
  PROVE  \/ UNCHANGED conn
         \/ \E c \in Clients, f \in FreeFds : peer[c] = "queued" /\ Opens(f, c, "control")
         \/ \E c \in Clients, f \in FreeFds : peer[c] = "binding" /\ Opens(f, c, "data")
         \/ /\ loop.fd \in Fds /\ Open(loop.fd) /\ conn[loop.fd].kind = "control"
            /\ Closes(loop.fd)
<1> DEFINE Result ==
      \/ UNCHANGED conn
      \/ \E c \in Clients, f \in FreeFds : peer[c] = "queued" /\ Opens(f, c, "control")
      \/ \E c \in Clients, f \in FreeFds : peer[c] = "binding" /\ Opens(f, c, "data")
      \/ /\ loop.fd \in Fds /\ Open(loop.fd) /\ conn[loop.fd].kind = "control"
         /\ Closes(loop.fd)
<1> HIDE DEF Result
<1>1. ASSUME NEW c \in Clients, Accept(c) PROVE Result
  BY <1>1 DEF Accept, Refuse, Admit, Opens, Result
<1>2. ASSUME NEW c \in Clients, AcceptData(c) PROVE Result
  BY <1>2 DEF AcceptData, Opens, Result
<1>3. ASSUME LoginFails \/ SendTokenFails PROVE Result
  BY <1>3 DEF LoginFails, SendTokenFails, Closes, Inv, LoopHolds, Result
<1>4. ASSUME Disconnect PROVE Result
  BY <1>4, ServedFacts DEF Disconnect, Closes, Inv, Result
<1>5. ASSUME UNCHANGED conn PROVE Result
  BY <1>5 DEF Result
<1>6. ASSUME \/ \E c \in Clients : Connect(c) \/ ConnectData(c) \/ SendCommand(c) \/ Leave(c)
             \/ Authenticate \/ SendToken \/ ServeDone \/ Command \/ Exit
             \/ \E f \in Fds : Poll(f)
             \/ \E t \in Jobs : Return(t)
             \/ UNCHANGED vars
      PROVE  Result
  <2>1. UNCHANGED conn
    BY <1>6 DEF vars, tables, Server, Connect, ConnectData, SendCommand, Leave, Authenticate,
                SendToken, Poll, ServeDone, Command, Return, Exit
  <2> QED
    BY <2>1, <1>5
<1>7. Result
  BY <1>1, <1>2, <1>3, <1>4, <1>6 DEF Next
<1> QED
  BY <1>7 DEF Result

\* Clients do not come back, tokens are made once, nobody returns from being gone.
LEMMA ClientStep ==
  ASSUME Inv, [Next]_vars
  PROVE  /\ gone \subseteq gone'
         /\ \A c \in Clients : peer[c] \notin Early =>
              peer'[c] \notin Early /\ token'[c] = token[c]
<1> USE DEF Early, Peer, Inv, TypeOK, vars
<1>1. CASE Authenticate
  <2>1. loop.fd \in Fds /\ conn[loop.fd].client \in Clients
        /\ peer[conn[loop.fd].client] = "login"
    BY <1>1, Connected DEF Authenticate, LoopHolds
  <2> QED
    BY <1>1, <2>1 DEF Authenticate
<1>2. ASSUME UNCHANGED <<peer, token>>, gone \subseteq gone'
      PROVE  /\ gone \subseteq gone'
             /\ \A c \in Clients : peer[c] \notin Early =>
                  peer'[c] \notin Early /\ token'[c] = token[c]
  BY <1>2
<1>3. ASSUME UNCHANGED <<gone, token>>, NEW d \in Clients,
             NEW l \in {"refused", "stranded", "failed", "lost", "in", "binding", "bound", "unbound"},
             peer' = [peer EXCEPT ![d] = l]
      PROVE  /\ gone \subseteq gone'
             /\ \A c \in Clients : peer[c] \notin Early =>
                  peer'[c] \notin Early /\ token'[c] = token[c]
  BY <1>3
<1>4. ASSUME UNCHANGED <<gone, token>>, NEW d \in Clients, peer[d] \in Early, NEW l,
             peer' = [peer EXCEPT ![d] = l]
      PROVE  /\ gone \subseteq gone'
             /\ \A c \in Clients : peer[c] \notin Early =>
                  peer'[c] \notin Early /\ token'[c] = token[c]
  BY <1>4
<1>5. loop.at \in {"login", "token"} => conn[loop.fd].client \in Clients
  BY Connected DEF LoopHolds
<1> HIDE DEF Early, Inv, TypeOK
<1>6. ASSUME NEW c \in Clients, Connect(c) \/ Accept(c)
      PROVE  /\ UNCHANGED <<gone, token>> /\ peer[c] \in Early
             /\ \E l \in {"queued", "refused", "stranded", "login"} : peer' = [peer EXCEPT ![c] = l]
  BY <1>6 DEF Connect, Accept, Refuse, Admit, Server, Early
<1>7. ASSUME NEW c \in Clients, ConnectData(c) \/ AcceptData(c)
      PROVE  /\ UNCHANGED <<gone, token>>
             /\ \E l \in {"binding", "bound", "unbound"} : peer' = [peer EXCEPT ![c] = l]
  BY <1>7 DEF ConnectData, AcceptData, Server
<1>8. ASSUME LoginFails \/ SendToken \/ SendTokenFails
      PROVE  /\ UNCHANGED <<gone, token>> /\ conn[loop.fd].client \in Clients
             /\ \E l \in {"failed", "in", "lost"} : peer' = [peer EXCEPT ![conn[loop.fd].client] = l]
  BY <1>5, <1>8 DEF LoginFails, SendToken, SendTokenFails
<1>9. ASSUME \/ \E c \in Clients : SendCommand(c) \/ Leave(c)
             \/ \E f \in Fds : Poll(f)
             \/ ServeDone \/ Command \/ Disconnect \/ Exit
             \/ \E t \in Jobs : Return(t)
             \/ UNCHANGED vars
      PROVE  UNCHANGED <<peer, token>> /\ gone \subseteq gone'
  BY <1>9 DEF SendCommand, Leave, Server, Poll, ServeDone, Command, Disconnect, Exit, Return
<1> QED
  BY <1>1, <1>2, <1>3, <1>4, <1>6, <1>7, <1>8, <1>9 DEF Next

\* Data connections are never closed, and their clients' tokens stay.
LEMMA DataStays ==
  ASSUME Inv, [Next]_vars, NEW f \in Fds, Open(f), conn[f].kind = "data"
  PROVE  conn'[f] = conn[f] /\ token'[conn[f].client] = token[conn[f].client]
<1>1. conn[f].client \in Clients /\ conn[f] = [client |-> conn[f].client, kind |-> "data"]
  BY Connected DEF Inv
<1>2. peer[conn[f].client] \notin Early
  BY <1>1 DEF Inv, Orderly, Early
<1>3. conn'[f] = conn[f]
  BY ConnStep DEF Inv, TypeOK, FreeFds, Opens, Closes
<1> QED
  BY <1>1, <1>2, <1>3, ClientStep

\* A client that has been accepted gets no other control connection.
LEMMA ControlsStay ==
  ASSUME Inv, [Next]_vars, NEW c \in Clients, peer[c] \notin {"new", "queued"}
  PROVE  Controls(c)' = Controls(c) \/ Controls(c)' = {}
<1> USE DEF Controls
<1>1. CASE UNCHANGED conn
  BY <1>1
<1>2. ASSUME NEW d \in Clients, NEW f \in FreeFds, NEW k \in {"control", "data"}, Opens(f, d, k),
             d # c \/ k = "data"
      PROVE  Controls(c)' = Controls(c)
  <2>1. \A g \in Fds : g # f => conn'[g] = conn[g]
    BY <1>2 DEF Inv, TypeOK, Opens, FreeFds
  <2>2. conn'[f] = [client |-> d, kind |-> k] /\ f \in Fds
    BY <1>2 DEF Inv, TypeOK, Opens, FreeFds
  <2>3. f \notin Controls(c)
    <3>1. conn[f] = None
      BY <1>2 DEF FreeFds, Open
    <3> QED
      BY <3>1, NoRecordIsNone
  <2> QED
    BY <1>2, <2>1, <2>2, <2>3
<1>3. ASSUME loop.fd \in Fds, Open(loop.fd), conn[loop.fd].kind = "control", Closes(loop.fd)
      PROVE  Controls(c)' = Controls(c) \/ Controls(c)' = {}
  <2>1. conn'[loop.fd] = None /\ \A g \in Fds : g # loop.fd => conn'[g] = conn[g]
    BY <1>3 DEF Inv, TypeOK, Closes
  <2>2. CASE conn[loop.fd].client = c
    <3>1. loop.fd \in Controls(c)
      BY <1>3, <2>2, Connected DEF Inv
    <3>2. \A g \in Controls(c) : g = loop.fd
      BY <3>1 DEF Inv, Orderly
    <3> QED
      BY <2>1, <3>2, NoRecordIsNone
  <2>3. CASE conn[loop.fd].client # c
    BY <2>1, <2>3, NoRecordIsNone
  <2> QED
    BY <2>2, <2>3
<1> QED
  BY <1>1, <1>2, <1>3, ConnStep

\* What a slot or a copy of it names stays named, whoever has the descriptors next.
LEMMA HeldStays ==
  ASSUME Inv, [Next]_vars
  PROVE  \A u \in Copies : Held(u) /\ peer[u.owner] \notin Early => Held(u)'
<1> SUFFICES ASSUME NEW u \in Copies, Held(u), peer[u.owner] \notin Early PROVE Held(u)'
  OBVIOUS
<1>0. u.owner \in Clients /\ u.ctl \in Fds /\ u.data \in Fds \cup {None}
  BY DEF Copies
<1>1. u.data # None => IsData(u.data, token[u.owner])'
  <2> SUFFICES ASSUME u.data # None PROVE IsData(u.data, token[u.owner])'
    OBVIOUS
  <2>1. u.data \in Fds /\ IsData(u.data, token[u.owner])
    BY <1>0 DEF Held
  <2>2. conn'[u.data] = conn[u.data] /\ token'[conn[u.data].client] = token[conn[u.data].client]
    BY <2>1, DataStays DEF IsData
  <2>3. token'[u.owner] = token[u.owner]
    BY <1>0, ClientStep
  <2> QED
    BY <2>1, <2>2, <2>3 DEF IsData, Open
<1> QED
  BY <1>0, <1>1 DEF Held

-----------------------------------------------------------------------------
\* The owner of a slot or of a copy has been through its login.
LEMMA OwnersAreLate ==
  ASSUME Inv, NEW c \in Clients, Owned(c)
  PROVE  peer[c] \notin Early
BY DEF Inv, Orderly, Early

LEMMA LoopStep == Inv /\ [Next]_vars => LoopHolds'
<1> SUFFICES ASSUME Inv, [Next]_vars PROVE LoopHolds'
  OBVIOUS
<1> USE DEF Inv, tables, Server, At, Peer
<1>1. ASSUME UNCHANGED <<loop, conn, watched, user, user_count>>,
             loop.at \in {"login", "token"} => peer'[conn[loop.fd].client] = peer[conn[loop.fd].client]
      PROVE  LoopHolds'
  BY <1>1 DEF LoopHolds, Open
<1>2. ASSUME NEW c \in Clients, Connect(c) \/ ConnectData(c) \/ SendCommand(c) \/ Leave(c) PROVE LoopHolds'
  <2>1. UNCHANGED <<loop, conn, watched, user, user_count>>
    BY <1>2 DEF Connect, ConnectData, SendCommand, Leave
  <2>2. loop.at \in {"login", "token"} => peer'[conn[loop.fd].client] = peer[conn[loop.fd].client]
    BY <1>2, Connected DEF Connect, ConnectData, SendCommand, Leave, LoopHolds, TypeOK
  <2> QED
    BY <1>1, <2>1, <2>2
<1>3. ASSUME loop' = Waiting PROVE LoopHolds'
  BY <1>3 DEF Waiting, LoopHolds
<1>4. ASSUME NEW c \in Clients, Accept(c) PROVE LoopHolds'
  <2>1. CASE UNCHANGED loop
    BY <1>4, <2>1 DEF Accept, LoopHolds
  <2>2. ASSUME NEW f \in FreeFds, user_count < MaxConnections, FreeSlots # {},
               conn' = [conn EXCEPT ![f] = [client |-> c, kind |-> "control"]],
               peer' = [peer EXCEPT ![c] = "login"],
               loop' = [at |-> "login", fd |-> f, slot |-> First(FreeSlots)]
        PROVE  LoopHolds'
    <3>1. First(FreeSlots) \in Slots /\ user[First(FreeSlots)].owner = None
      BY <2>2, FirstIsThere DEF FreeSlots
    <3>2. user'[First(FreeSlots)] = EmptySlot
      BY <1>4, <3>1 DEF Accept, SlotsHeld
    <3>3. f \in Fds /\ f \notin watched'
      BY <1>4, <2>2 DEF Accept, FreeFds, WatchedControls
    <3>4. conn'[f] = [client |-> c, kind |-> "control"]
      BY <2>2 DEF FreeFds, TypeOK
    <3>5. conn'[f] # None /\ conn'[f].kind = "control" /\ conn'[f].client = c
      BY <3>4, NoRecordIsNone
    <3>6. peer'[c] = "login" /\ user_count' < MaxConnections
      BY <1>4, <2>2 DEF Accept, TypeOK
    <3> QED
      BY <2>2, <3>1, <3>2, <3>3, <3>5, <3>6 DEF LoopHolds, Open
  <2>3. CASE Refuse(c)
    BY <2>1, <2>3 DEF Refuse
  <2>4. CASE Admit(c)
    BY <2>1, <2>2, <2>4 DEF Admit
  <2> QED
    BY <1>4, <2>3, <2>4 DEF Accept
<1>5. CASE Authenticate
  <2>1. loop.fd \in Fds /\ loop.slot \in Slots /\ loop.at = "login" /\ loop' = [loop EXCEPT !.at = "token"]
    BY <1>5 DEF Authenticate, LoopHolds
  <2>2. user'[loop.slot] = [owner |-> conn[loop.fd].client, ctl |-> loop.fd, data |-> None]
    BY <1>5, <2>1 DEF Authenticate, TypeOK
  <2>3. loop'.at = "token" /\ loop'.fd = loop.fd /\ loop'.slot = loop.slot
    BY <2>1 DEF TypeOK
  <2>4. UNCHANGED <<conn, watched, user_count>>
    BY <1>5 DEF Authenticate
  <2>5. peer'[conn[loop.fd].client] = "authenticated"
    BY <1>5, <2>1, Connected DEF Authenticate, LoopHolds, TypeOK
  <2> QED
    BY <2>1, <2>2, <2>3, <2>4, <2>5 DEF LoopHolds, Open
<1>6. ASSUME NEW c \in Clients, AcceptData(c) PROVE LoopHolds'
  BY <1>6 DEF AcceptData, LoopHolds
<1>7. ASSUME NEW f \in Fds, Poll(f) PROVE LoopHolds'
  BY <1>7 DEF Poll, LoopHolds, WatchedControls, Open
<1>8. CASE Command
  <2>1. loop.at = "serve" /\ loop.fd \in Fds /\ (Open(loop.fd) => conn[loop.fd].kind = "control")
    BY <1>8 DEF Command, Serving, LoopHolds
  <2>2. loop'.at = "serve" /\ loop'.fd = loop.fd /\ conn' = conn
    BY <1>8, <2>1 DEF Command, Skip, TypeOK
  <2> QED
    BY <2>1, <2>2 DEF LoopHolds, Open
<1>9. CASE Disconnect
  <2>1. loop.at = "serve" /\ loop.fd \in Fds
    BY <1>9 DEF Disconnect, Serving, LoopHolds
  <2>2. loop'.at = "serve" /\ loop'.fd = loop.fd /\ conn'[loop.fd] = None
    BY <1>9, <2>1 DEF Disconnect, Skip, TypeOK
  <2> QED
    BY <2>1, <2>2 DEF LoopHolds, Open
<1>10. ASSUME \/ \E t \in Jobs : Return(t)
              \/ Exit \/ UNCHANGED vars
       PROVE  LoopHolds'
  <2>1. UNCHANGED <<loop, conn, watched, user, user_count, peer>>
    BY <1>10 DEF Return, Exit, vars
  <2> QED
    BY <1>1, <2>1
<1>11. LoginFails \/ SendToken \/ SendTokenFails \/ ServeDone => loop' = Waiting
  BY DEF LoginFails, SendToken, SendTokenFails, ServeDone
<1> QED
  BY <1>2, <1>3, <1>4, <1>5, <1>6, <1>7, <1>8, <1>9, <1>10, <1>11 DEF Next

LEMMA OneControlStep ==
  ASSUME Inv, [Next]_vars, NEW c \in Clients, NEW f \in Controls(c)', NEW g \in Controls(c)'
  PROVE  f = g
<1> USE DEF Controls
<1>0. \A h, k \in Controls(c) : h = k
  BY DEF Inv, Orderly
<1>1. CASE \A h \in Fds : conn'[h] # [client |-> c, kind |-> "control"] \/ conn'[h] = conn[h]
  BY <1>0, <1>1
<1>2. CASE UNCHANGED conn
  BY <1>1, <1>2
<1>3. ASSUME NEW d \in Clients, NEW h \in FreeFds, peer[d] = "queued", Opens(h, d, "control")
      PROVE  f = g
  <2>1. h \in Fds /\ \A k \in Fds : k # h => conn'[k] = conn[k]
    BY <1>3 DEF Inv, TypeOK, FreeFds, Opens
  <2>2. conn'[h] = [client |-> d, kind |-> "control"]
    BY <1>3, <2>1 DEF Inv, TypeOK, Opens
  <2>3. CASE d = c
    <3>1. Controls(c) = {}
      BY <1>3, <2>3 DEF Inv, Orderly
    <3> QED
      BY <2>1, <3>1
  <2>4. CASE d # c
    BY <1>1, <2>1, <2>2, <2>4
  <2> QED
    BY <2>3, <2>4
<1>4. ASSUME NEW d \in Clients, NEW h \in FreeFds, Opens(h, d, "data") PROVE f = g
  <2>1. h \in Fds /\ \A k \in Fds : k # h => conn'[k] = conn[k]
    BY <1>4 DEF Inv, TypeOK, FreeFds, Opens
  <2>2. conn'[h] = [client |-> d, kind |-> "data"]
    BY <1>4, <2>1 DEF Inv, TypeOK, Opens
  <2> QED
    BY <1>1, <2>1, <2>2
<1>5. ASSUME loop.fd \in Fds, Closes(loop.fd) PROVE f = g
  <2>1. conn'[loop.fd] = None /\ \A k \in Fds : k # loop.fd => conn'[k] = conn[k]
    BY <1>5 DEF Inv, TypeOK, Closes
  <2> QED
    BY <1>1, <2>1, NoRecordIsNone
<1> QED
  BY <1>2, <1>3, <1>4, <1>5, ConnStep

\* A slot comes from its login, a copy from a slot.
LEMMA OwnedStep ==
  ASSUME Inv, [Next]_vars, NEW c \in Clients, ~Owned(c), Owned(c)'
  PROVE  peer'[c] = "authenticated"
<1> USE DEF Inv, Owned, tables, Server
<1>1. CASE UNCHANGED <<user, job>>
  BY <1>1
<1>2. CASE Authenticate
  <2>1. loop.fd \in Fds /\ conn[loop.fd].client \in Clients
    BY <1>2, Connected DEF Authenticate, LoopHolds
  <2>2. \A s \in Slots : s # loop.slot => user'[s] = user[s]
    BY <1>2 DEF Authenticate, TypeOK
  <2>3. user'[loop.slot].owner = conn[loop.fd].client
    BY <1>2 DEF Authenticate, TypeOK, LoopHolds
  <2>4. conn[loop.fd].client = c
    BY <1>2, <2>2, <2>3 DEF Authenticate
  <2> QED
    BY <1>2, <2>4 DEF Authenticate, Peer, TypeOK
<1>3. ASSUME NEW d \in Clients, AcceptData(d) PROVE peer'[c] = "authenticated"
  <2>1. \A s \in Slots : user'[s].owner = user[s].owner
    BY <1>3 DEF AcceptData, TypeOK
  <2> QED
    BY <1>3, <2>1 DEF AcceptData
<1>4. CASE Command
  <2>1. Served \in Slots /\ user' = user
    BY <1>4, ServedFacts DEF Command
  <2>2. \A t \in Jobs : job'[t] = job[t] \/ job'[t].slot = user[Served]
    BY <1>4 DEF Command, TypeOK
  <2> QED
    BY <2>1, <2>2
<1>5. CASE Disconnect
  <2>1. \A s \in Slots : user'[s] = user[s] \/ user'[s].owner = None
    BY <1>5 DEF Disconnect, TypeOK, EmptySlot
  <2> QED
    BY <1>5, <2>1, NoneAssumption DEF Disconnect
<1>6. ASSUME NEW t \in Jobs, Return(t) PROVE peer'[c] = "authenticated"
  <2>1. \A u \in Jobs : job'[u] = job[u] \/ job'[u] = None
    BY <1>6 DEF Return, TypeOK
  <2> QED
    BY <1>6, <2>1 DEF Return
<1>7. ASSUME \/ \E d \in Clients : Connect(d) \/ ConnectData(d) \/ SendCommand(d) \/ Leave(d) \/ Accept(d)
             \/ LoginFails \/ SendToken \/ SendTokenFails \/ ServeDone \/ Exit
             \/ \E f \in Fds : Poll(f)
             \/ UNCHANGED vars
      PROVE  UNCHANGED <<user, job>>
  BY <1>7 DEF Connect, ConnectData, SendCommand, Leave, Accept, LoginFails, SendToken, SendTokenFails,
              ServeDone, Exit, Poll, vars
<1> QED
  BY <1>1, <1>2, <1>3, <1>4, <1>5, <1>6, <1>7 DEF Next

\* Who has a new connection has moved on.
LEMMA NewConnection ==
  ASSUME Inv, [Next]_vars, NEW c \in Clients, NEW f \in Fds, NEW k \in {"control", "data"},
         conn'[f] = [client |-> c, kind |-> k], conn[f] # conn'[f]
  PROVE  /\ k = "control" => peer'[c] \in {"stranded", "login"}
         /\ k = "data" => peer'[c] = "bound"
<1> USE DEF Inv, TypeOK, tables, Server, Peer
<1>1. ASSUME NEW d \in Clients, Accept(d)
      PROVE  k = "control" /\ peer'[c] \in {"stranded", "login"}
  <2>1. PICK h \in FreeFds : conn' = [conn EXCEPT ![h] = [client |-> d, kind |-> "control"]]
                             /\ peer' \in {[peer EXCEPT ![d] = "stranded"], [peer EXCEPT ![d] = "login"]}
    BY <1>1 DEF Accept, Refuse, Admit
  <2>2. h \in Fds /\ f = h
    BY <2>1 DEF FreeFds
  <2>3. [client |-> c, kind |-> k] = [client |-> d, kind |-> "control"]
    BY <2>1, <2>2
  <2>4. c = d /\ k = "control"
    BY <2>3
  <2> QED
    BY <2>1, <2>4
<1>2. ASSUME NEW d \in Clients, AcceptData(d)
      PROVE  k = "data" /\ peer'[c] = "bound"
  <2>1. PICK h \in FreeFds : conn' = [conn EXCEPT ![h] = [client |-> d, kind |-> "data"]]
                             /\ peer' = [peer EXCEPT ![d] = "bound"]
    BY <1>2 DEF AcceptData
  <2>2. h \in Fds /\ f = h
    BY <2>1 DEF FreeFds
  <2>3. [client |-> c, kind |-> k] = [client |-> d, kind |-> "data"]
    BY <2>1, <2>2
  <2>4. c = d /\ k = "data"
    BY <2>3
  <2> QED
    BY <2>1, <2>4
<1>3. ASSUME LoginFails \/ SendTokenFails \/ Disconnect PROVE FALSE
  <2>1. conn'[f] = conn[f] \/ conn'[f] = None
    BY <1>3 DEF LoginFails, SendTokenFails, Disconnect
  <2> QED
    BY <2>1, NoRecordIsNone
<1>4. ASSUME \/ \E d \in Clients : Connect(d) \/ ConnectData(d) \/ SendCommand(d) \/ Leave(d)
             \/ Authenticate \/ SendToken \/ ServeDone \/ Command \/ Exit
             \/ \E h \in Fds : Poll(h)
             \/ \E t \in Jobs : Return(t)
             \/ UNCHANGED vars
      PROVE  FALSE
  BY <1>4 DEF vars, Connect, ConnectData, SendCommand, Leave, Authenticate, SendToken, Poll,
              ServeDone, Command, Return, Exit
<1> QED
  BY <1>1, <1>2, <1>3, <1>4 DEF Next

LEMMA NoWayBack ==
  ASSUME Inv, [Next]_vars, NEW c \in Clients, peer'[c] \in {"new", "queued"}
  PROVE  peer[c] \in {"new", "queued"}
<1> USE DEF Inv, TypeOK, Peer
<1>1. ASSUME NEW d \in Clients, NEW l, peer' = [peer EXCEPT ![d] = l],
             l \notin {"new", "queued"} \/ peer[d] = "new"
      PROVE  peer[c] \in {"new", "queued"}
  BY <1>1
<1>2. CASE peer' = peer
  BY <1>2
<1>3. loop.at \in {"login", "token"} => conn[loop.fd].client \in Clients
  BY Connected DEF LoopHolds
<1> HIDE DEF Inv, TypeOK
<1>4. ASSUME NEW d \in Clients, Connect(d) \/ ConnectData(d) \/ Accept(d) \/ AcceptData(d)
      PROVE  peer[c] \in {"new", "queued"}
  BY <1>1, <1>4 DEF Connect, ConnectData, Accept, Refuse, Admit, AcceptData
<1>5. ASSUME LoginFails \/ Authenticate \/ SendToken \/ SendTokenFails
      PROVE  peer[c] \in {"new", "queued"}
  BY <1>1, <1>3, <1>5 DEF LoginFails, Authenticate, SendToken, SendTokenFails
<1>6. ASSUME \/ \E d \in Clients : SendCommand(d) \/ Leave(d)
             \/ ServeDone \/ Command \/ Disconnect \/ Exit
             \/ \E f \in Fds : Poll(f)
             \/ \E t \in Jobs : Return(t)
             \/ UNCHANGED vars
      PROVE  peer' = peer
  BY <1>6 DEF SendCommand, Leave, ServeDone, Command, Disconnect, Exit, Poll, Return, vars
<1> QED
  BY <1>2, <1>4, <1>5, <1>6 DEF Next

\* A handler comes from a command.
LEMMA NewJob ==
  ASSUME Inv, [Next]_vars, NEW t \in Jobs, job'[t] # None
  PROVE  \/ job'[t] = job[t]
         \/ /\ Command /\ UNCHANGED conn
            /\ job'[t].slot = user[Served] /\ job'[t].from = conn[loop.fd].client
<1> USE DEF tables, Server
<1>1. ASSUME \/ \E d \in Clients : \/ Connect(d) \/ ConnectData(d) \/ SendCommand(d) \/ Leave(d)
                                   \/ Accept(d) \/ AcceptData(d)
             \/ LoginFails \/ Authenticate \/ SendToken \/ SendTokenFails
             \/ ServeDone \/ Disconnect \/ Exit
             \/ \E f \in Fds : Poll(f)
             \/ UNCHANGED vars
      PROVE  job' = job
  BY <1>1 DEF Connect, ConnectData, SendCommand, Leave, Accept, AcceptData, LoginFails, Authenticate,
              SendToken, SendTokenFails, ServeDone, Disconnect, Exit, Poll, vars
<1>2. Command => \/ job'[t] = job[t]
                 \/ /\ UNCHANGED conn
                    /\ job'[t].slot = user[Served] /\ job'[t].from = conn[loop.fd].client
  BY DEF Command, Inv, TypeOK
<1>3. \A r \in Jobs : Return(r) => job'[t] = job[t]
  BY DEF Return, Inv, TypeOK
<1> QED
  BY <1>1, <1>2, <1>3 DEF Next

LEMMA OrderlyStep == Inv /\ [Next]_vars => Orderly'
<1> SUFFICES ASSUME Inv, [Next]_vars, NEW c \in Clients
             PROVE  /\ \A f, g \in Controls(c)' : f = g
                    /\ peer'[c] \in {"new", "queued"} =>
                         /\ Controls(c)' = {}
                         /\ \A t \in Jobs : job'[t] # None => job'[t].from # c
                    /\ peer'[c] \in {"new", "queued", "login"} =>
                         /\ ~Owned(c)'
                         /\ \A f \in Fds : conn'[f] # [client |-> c, kind |-> "data"]
  BY DEF Orderly
<1>1. \A f, g \in Controls(c)' : f = g
  BY OneControlStep
<1>2. ASSUME peer'[c] \in {"new", "queued"}
      PROVE  /\ Controls(c)' = {}
             /\ \A t \in Jobs : job'[t] # None => job'[t].from # c
  <2>1. /\ Controls(c) = {}
        /\ \A t \in Jobs : job[t] # None => job[t].from # c
    BY <1>2, NoWayBack DEF Inv, Orderly
  <2>2. ASSUME NEW f \in Fds, conn'[f] = [client |-> c, kind |-> "control"] PROVE FALSE
    <3>1. conn[f] # conn'[f]
      BY <2>1, <2>2 DEF Controls
    <3> QED
      BY <1>2, <2>2, <3>1, NewConnection
  <2>3. ASSUME NEW t \in Jobs, job'[t] # None PROVE job'[t].from # c
    <3>1. CASE Command /\ job'[t].from = conn[loop.fd].client
      <4>1. conn[loop.fd] = [client |-> conn[loop.fd].client, kind |-> "control"] /\ loop.fd \in Fds
        BY <3>1, ServedFacts, Connected DEF Command, Inv
      <4> QED
        BY <2>1, <3>1, <4>1 DEF Controls
    <3> QED
      BY <2>1, <2>3, <3>1, NewJob
  <2> QED
    BY <2>2, <2>3 DEF Controls
<1>3. ASSUME peer'[c] \in {"new", "queued", "login"}
      PROVE  ~Owned(c)' /\ \A f \in Fds : conn'[f] # [client |-> c, kind |-> "data"]
  <2>1. peer[c] \in Early
    BY <1>3, ClientStep DEF Early
  <2>2. ~Owned(c) /\ \A f \in Fds : conn[f] # [client |-> c, kind |-> "data"]
    BY <2>1 DEF Inv, Orderly, Early
  <2>3. ~Owned(c)'
    BY <1>3, <2>2, OwnedStep
  <2>4. ASSUME NEW f \in Fds, conn'[f] = [client |-> c, kind |-> "data"] PROVE FALSE
    BY <1>3, <2>2, <2>4, NewConnection
  <2> QED
    BY <2>3, <2>4
<1> QED
  BY <1>1, <1>2, <1>3

\* The slots and copies that exist stay good.
LEMMA OwnersHeld ==
  ASSUME Inv, [Next]_vars, NEW u \in Copies, Owned(u.owner), Held(u)
  PROVE  Held(u)'
<1>1. u.owner \in Clients
  BY DEF Copies
<1> QED
  BY <1>1, OwnersAreLate, HeldStays

LEMMA SlotIsCopy ==
  ASSUME Inv, NEW s \in Slots, user[s].owner # None
  PROVE  user[s] \in Copies /\ Held(user[s]) /\ Owned(user[s].owner)
<1>1. Held(user[s]) /\ Owned(user[s].owner)
  BY DEF Inv, SlotsHeld, Owned
<1> QED
  BY <1>1 DEF Inv, TypeOK, Held, Copies

LEMMA SlotsStep == Inv /\ [Next]_vars => SlotsHeld'
<1> SUFFICES ASSUME Inv, [Next]_vars, NEW s \in Slots
             PROVE  IF user'[s].owner = None THEN user'[s] = EmptySlot ELSE Held(user[s])'
  BY DEF SlotsHeld
<1> DEFINE Good == IF user'[s].owner = None THEN user'[s] = EmptySlot ELSE Held(user[s])'
<1> USE DEF tables, Server
<1>1. ASSUME user'[s] = user[s] PROVE Good
  <2>1. CASE user[s].owner = None
    BY <1>1, <2>1 DEF Inv, SlotsHeld
  <2>2. ASSUME user[s].owner # None PROVE Good
    <3>1. PICK u \in Copies : u = user[s]
      BY <2>2, SlotIsCopy
    <3>2. Held(u) /\ Owned(u.owner)
      BY <2>2, <3>1, SlotIsCopy
    <3>3. Held(u)'
      BY <3>2, OwnersHeld
    <3> QED
      BY <1>1, <2>2, <3>1, <3>3 DEF Held, IsData, Open
  <2> QED
    BY <2>1, <2>2
<1>2. ASSUME Authenticate PROVE Good
  <2>1. loop.fd \in Fds /\ Open(loop.fd) /\ conn[loop.fd].kind = "control"
    BY <1>2 DEF Authenticate, Inv, LoopHolds
  <2>2. conn'[loop.fd] = [client |-> conn[loop.fd].client, kind |-> "control"]
    BY <1>2, <2>1, Connected DEF Authenticate, Inv
  <2>3. CASE s = loop.slot
    <3>1. user'[s] = [owner |-> conn[loop.fd].client, ctl |-> loop.fd, data |-> None]
      BY <1>2, <2>3 DEF Authenticate, Inv, TypeOK
    <3>2. conn[loop.fd].client # None
      BY <2>1, Connected, NoneAssumption DEF Inv
    <3> QED
      BY <2>1, <3>1, <3>2 DEF Held
  <2> QED
    BY <1>1, <1>2, <2>3 DEF Authenticate, Inv, TypeOK
<1>3. ASSUME NEW c \in Clients, AcceptData(c) PROVE Good
  <2>1. CASE user' = user
    BY <1>1, <2>1
  <2>2. ASSUME NEW f \in FreeFds, Holders(token[c]) # {},
               conn' = [conn EXCEPT ![f] = [client |-> c, kind |-> "data"]],
               user' = [user EXCEPT ![First(Holders(token[c]))].data = f]
        PROVE  Good
    <3>1. First(Holders(token[c])) \in Holders(token[c])
      BY <2>2, FirstIsThere DEF Holders
    <3>2. CASE s = First(Holders(token[c]))
      <4>1. user[s].owner # None /\ token[user[s].owner] = token[c]
        BY <3>1, <3>2 DEF Holders
      <4>2. PICK u \in Copies : u = user[s]
        BY <4>1, SlotIsCopy
      <4>3. Held(u)'
        BY <4>1, <4>2, SlotIsCopy, OwnersHeld
      <4>4. f \in Fds /\ conn'[f] = [client |-> c, kind |-> "data"] /\ conn'[f] # None
        BY <2>2, NoRecordIsNone DEF FreeFds, Inv, TypeOK
      <4>5. IsData(f, token[u.owner])'
        BY <1>3, <4>1, <4>2, <4>4 DEF AcceptData, IsData, Open
      <4>6. user'[s] = [u EXCEPT !.data = f]
        BY <2>2, <3>2, <4>2 DEF Inv, TypeOK
      <4>7. user'[s].owner = u.owner /\ user'[s].ctl = u.ctl /\ user'[s].data = f
        BY <4>6 DEF Copies
      <4>8. u.owner # None
        BY <4>1, <4>2
      <4> QED
        BY <4>3, <4>5, <4>7, <4>8 DEF Held, IsData, Open
    <3> QED
      BY <1>1, <2>2, <3>2 DEF Inv, TypeOK
  <2> QED
    BY <1>3, <2>1, <2>2 DEF AcceptData
<1>4. ASSUME Disconnect PROVE Good
  <2>1. CASE s = Served
    BY <1>4, <2>1 DEF Disconnect, Inv, TypeOK, EmptySlot
  <2> QED
    BY <1>1, <1>4, <2>1 DEF Disconnect, Inv, TypeOK
<1>5. ASSUME \/ \E d \in Clients : Connect(d) \/ ConnectData(d) \/ SendCommand(d) \/ Leave(d) \/ Accept(d)
             \/ LoginFails \/ SendToken \/ SendTokenFails \/ ServeDone \/ Command \/ Exit
             \/ \E f \in Fds : Poll(f)
             \/ \E t \in Jobs : Return(t)
             \/ UNCHANGED vars
      PROVE  user' = user
  BY <1>5 DEF Connect, ConnectData, SendCommand, Leave, Accept, LoginFails, SendToken, SendTokenFails,
              ServeDone, Command, Exit, Poll, Return, vars
<1> HIDE DEF Good
<1>6. Good
  BY <1>1, <1>2, <1>3, <1>4, <1>5 DEF Next
<1> QED
  BY <1>6 DEF Good

LEMMA JobsStep == Inv /\ [Next]_vars => JobsHeld'
<1> SUFFICES ASSUME Inv, [Next]_vars, NEW t \in Jobs, job'[t] # None
             PROVE  Held(job[t].slot)' /\ Reaches(job[t].slot.ctl, job[t].from)'
  BY DEF JobsHeld
<1>1. CASE job'[t] = job[t]
  <2>1. PICK u \in Copies : u = job[t].slot
    BY <1>1 DEF Inv, TypeOK
  <2>2. PICK c \in Clients : c = job[t].from
    BY <1>1 DEF Inv, TypeOK
  <2>3. Held(u) /\ Owned(u.owner) /\ Reaches(u.ctl, c)
    BY <1>1, <2>1, <2>2 DEF Inv, JobsHeld, Owned
  <2>4. peer[c] \notin {"new", "queued"}
    BY <1>1, <2>2 DEF Inv, Orderly
  <2>5. Held(u)'
    BY <2>3, OwnersHeld
  <2>6. Reaches(u.ctl, c)'
    BY <2>3, <2>4, ControlsStay DEF Reaches
  <2> QED
    BY <1>1, <2>1, <2>2, <2>5, <2>6 DEF Held, IsData, Open, Reaches, Controls
<1>2. CASE Command /\ UNCHANGED conn /\ job'[t].slot = user[Served] /\ job'[t].from = conn[loop.fd].client
  <2>1. /\ Served \in Slots /\ user[Served].owner # None /\ user[Served].ctl = loop.fd
        /\ loop.fd \in Fds /\ conn[loop.fd] = [client |-> conn[loop.fd].client, kind |-> "control"]
    BY <1>2, ServedFacts, Connected, NoneAssumption DEF Command, Inv
  <2>2. PICK u \in Copies : u = user[Served] /\ Held(u) /\ Owned(u.owner)
    BY <2>1, SlotIsCopy
  <2>3. Held(u)'
    BY <2>2, OwnersHeld
  <2> QED
    BY <1>2, <2>1, <2>2, <2>3 DEF Held, IsData, Open, Reaches, Controls
<1> QED
  BY <1>1, <1>2, NewJob

LEMMA WatchedStep == Inv /\ [Next]_vars => WatchedControls' /\ WatchedIsServed'
<1> SUFFICES ASSUME Inv, [Next]_vars, NEW f \in Fds, f \in watched'
             PROVE  /\ conn'[f] # None /\ conn'[f].kind = "control"
                    /\ \E s \in Slots : user'[s].ctl = f /\ user'[s].owner = conn'[f].client
  BY TypeStep DEF WatchedControls, WatchedIsServed, Open, TypeOK
<1> DEFINE Good == /\ conn'[f] # None /\ conn'[f].kind = "control"
                   /\ \E s \in Slots : user'[s].ctl = f /\ user'[s].owner = conn'[f].client
<1> USE DEF tables, Server
<1> HIDE DEF Good
<1>1. ASSUME f \in watched, conn'[f] = conn[f], \A s \in Slots : user[s].ctl = f =>
               user'[s].ctl = f /\ user'[s].owner = user[s].owner
      PROVE  Good
  BY <1>1 DEF Inv, WatchedControls, WatchedIsServed, Open, Good
<1>2. f \in watched => conn[f] # None
  BY DEF Inv, WatchedControls, Open
<1>3. ASSUME NEW c \in Clients, Accept(c) PROVE Good
  <2>1. f \in watched /\ user' = user
    BY <1>3 DEF Accept
  <2>2. conn'[f] = conn[f]
    BY <1>2, <1>3, <2>1 DEF Accept, Refuse, Admit, FreeFds, Open, Inv, TypeOK
  <2> QED
    BY <1>1, <2>1, <2>2
<1>4. ASSUME LoginFails \/ SendTokenFails PROVE Good
  <2>1. f \in watched /\ user' = user /\ loop.fd \notin watched
    BY <1>4 DEF LoginFails, SendTokenFails, Inv, LoopHolds
  <2>2. conn'[f] = conn[f]
    BY <1>4, <2>1 DEF LoginFails, SendTokenFails, Inv, TypeOK
  <2> QED
    BY <1>1, <2>1, <2>2
<1>5. ASSUME Authenticate PROVE Good
  <2>1. f \in watched /\ conn' = conn /\ user[loop.slot].ctl = None
    BY <1>5 DEF Authenticate, Inv, LoopHolds, EmptySlot
  <2>2. \A s \in Slots : user[s].ctl = f => user'[s] = user[s]
    BY <1>5, <2>1, NoneAssumption DEF Authenticate, Inv, TypeOK
  <2> QED
    BY <1>1, <2>1, <2>2
<1>6. ASSUME SendToken PROVE Good
  <2>1. CASE f \in watched
    BY <1>1, <1>6, <2>1 DEF SendToken
  <2>2. CASE f = loop.fd
    <3>1. /\ loop.slot \in Slots /\ conn' = conn /\ user' = user
          /\ Open(f) /\ conn[f].kind = "control"
          /\ user[loop.slot] = [owner |-> conn[f].client, ctl |-> f, data |-> None]
      BY <1>6, <2>2 DEF SendToken, Inv, LoopHolds
    <3> QED
      BY <3>1 DEF Good, Open
  <2> QED
    BY <1>6, <2>1, <2>2 DEF SendToken
<1>7. ASSUME NEW c \in Clients, AcceptData(c) PROVE Good
  <2>1. f \in watched
    BY <1>7 DEF AcceptData
  <2>2. conn'[f] = conn[f]
    BY <1>2, <1>7, <2>1 DEF AcceptData, FreeFds, Open, Inv, TypeOK
  <2>3. \A s \in Slots : user'[s].ctl = user[s].ctl /\ user'[s].owner = user[s].owner
    BY <1>7 DEF AcceptData, Inv, TypeOK
  <2> QED
    BY <1>1, <2>1, <2>2, <2>3
<1>8. ASSUME Disconnect PROVE Good
  <2>1. Served \in Slots /\ user[Served].ctl = loop.fd
    BY <1>8, ServedFacts DEF Disconnect, Inv
  <2>2. f \in watched /\ f # loop.fd
    BY <1>8 DEF Disconnect
  <2>3. conn'[f] = conn[f]
    BY <1>8, <2>2 DEF Disconnect, Inv, TypeOK
  <2>4. \A s \in Slots : user[s].ctl = f => user'[s] = user[s]
    BY <1>8, <2>1, <2>2 DEF Disconnect, Inv, TypeOK
  <2> QED
    BY <1>1, <2>2, <2>3, <2>4
<1>9. ASSUME \/ \E d \in Clients : Connect(d) \/ ConnectData(d) \/ SendCommand(d) \/ Leave(d)
             \/ ServeDone \/ Command \/ Exit
             \/ \E h \in Fds : Poll(h)
             \/ \E t \in Jobs : Return(t)
             \/ UNCHANGED vars
      PROVE  UNCHANGED <<conn, watched, user>>
  BY <1>9 DEF Connect, ConnectData, SendCommand, Leave, ServeDone, Command, Exit, Poll,
              Return, vars
<1>10. UNCHANGED <<conn, watched, user>> => Good
  BY <1>1
<1>11. Good
  BY <1>3, <1>4, <1>5, <1>6, <1>7, <1>8, <1>9, <1>10 DEF Next
<1> QED
  BY <1>11 DEF Good

\* Slots change owner by a login, to a client that had none, and by a disconnect.
LEMMA SlotOwners ==
  ASSUME Inv, [Next]_vars
  PROVE  \/ \A s \in Slots : user'[s].owner = user[s].owner /\ user'[s].ctl = user[s].ctl
         \/ /\ loop.fd \in Fds /\ Open(loop.fd) /\ conn[loop.fd].kind = "control"
            /\ ~Owned(conn[loop.fd].client) /\ conn' = conn /\ loop.slot \in Slots
            /\ user'[loop.slot].owner = conn[loop.fd].client /\ user'[loop.slot].ctl = loop.fd
            /\ \A s \in Slots : s # loop.slot => user'[s] = user[s]
         \/ /\ Disconnect /\ user'[Served] = EmptySlot
            /\ \A s \in Slots : s # Served => user'[s] = user[s]
<1> USE DEF tables, Server
<1>1. CASE Authenticate
  <2>1. /\ loop.fd \in Fds /\ Open(loop.fd) /\ conn[loop.fd].kind = "control" /\ loop.slot \in Slots
        /\ peer[conn[loop.fd].client] = "login" /\ conn' = conn
    BY <1>1 DEF Authenticate, Inv, LoopHolds
  <2>2. ~Owned(conn[loop.fd].client)
    BY <2>1, Connected DEF Inv, Orderly
  <2>3. /\ user'[loop.slot].owner = conn[loop.fd].client /\ user'[loop.slot].ctl = loop.fd
        /\ \A s \in Slots : s # loop.slot => user'[s] = user[s]
    BY <1>1, <2>1 DEF Authenticate, Inv, TypeOK
  <2> QED
    BY <2>1, <2>2, <2>3
<1>2. CASE Disconnect
  <2>1. Served \in Slots
    BY <1>2, ServedFacts DEF Disconnect, Inv
  <2> QED
    BY <1>2, <2>1 DEF Disconnect, Inv, TypeOK
<1>3. ASSUME NEW c \in Clients, AcceptData(c)
      PROVE  \A s \in Slots : user'[s].owner = user[s].owner /\ user'[s].ctl = user[s].ctl
  BY <1>3 DEF AcceptData, Inv, TypeOK
<1>4. ASSUME \/ \E d \in Clients : Connect(d) \/ ConnectData(d) \/ SendCommand(d) \/ Leave(d) \/ Accept(d)
             \/ LoginFails \/ SendToken \/ SendTokenFails \/ ServeDone \/ Command \/ Exit
             \/ \E f \in Fds : Poll(f)
             \/ \E t \in Jobs : Return(t)
             \/ UNCHANGED vars
      PROVE  user' = user
  BY <1>4 DEF Connect, ConnectData, SendCommand, Leave, Accept, LoginFails, SendToken, SendTokenFails,
              ServeDone, Command, Exit, Poll, Return, vars
<1> QED
  BY <1>1, <1>2, <1>3, <1>4 DEF Next

LEMMA SoleOwnerStep == Inv /\ [Next]_vars => SoleOwner'
<1> SUFFICES ASSUME Inv, [Next]_vars PROVE SoleOwner'
  OBVIOUS
<1>1. SoleOwner
  BY DEF Inv
<1>2. CASE \A s \in Slots : user'[s].owner = user[s].owner /\ user'[s].ctl = user[s].ctl
  BY <1>1, <1>2 DEF SoleOwner
<1>3. ASSUME ~Owned(conn[loop.fd].client), user'[loop.slot].owner = conn[loop.fd].client,
             \A s \in Slots : s # loop.slot => user'[s] = user[s]
      PROVE  SoleOwner'
  BY <1>1, <1>3 DEF SoleOwner, Owned
<1>4. ASSUME user'[Served] = EmptySlot, \A s \in Slots : s # Served => user'[s] = user[s]
      PROVE  SoleOwner'
  BY <1>1, <1>4 DEF SoleOwner, EmptySlot
<1> QED
  BY <1>2, <1>3, <1>4, SlotOwners

\* A failed token send is not forgotten.
LEMMA LostStep ==
  ASSUME Inv, [Next]_vars, NoTokenLost'
  PROVE  NoTokenLost /\ ~SendTokenFails
<1> USE DEF Inv, TypeOK, Peer, NoTokenLost
<1>1. loop.at \in {"login", "token"} =>
        /\ conn[loop.fd].client \in Clients
        /\ peer[conn[loop.fd].client] \in {"login", "authenticated"}
  BY Connected DEF LoopHolds
<1>2. ~SendTokenFails
  BY <1>1 DEF SendTokenFails
<1>3. ASSUME NEW d \in Clients, NEW l, peer[d] # "lost", peer' = [peer EXCEPT ![d] = l]
      PROVE  NoTokenLost
  BY <1>3
<1>4. ASSUME peer' = peer PROVE NoTokenLost
  BY <1>4
<1>5. ASSUME NEW d \in Clients, Connect(d) \/ ConnectData(d) \/ Accept(d) \/ AcceptData(d)
      PROVE  NoTokenLost
  BY <1>3, <1>5 DEF Connect, ConnectData, Accept, Refuse, Admit, AcceptData
<1>6. ASSUME LoginFails \/ Authenticate PROVE NoTokenLost
  BY <1>1, <1>3, <1>6 DEF LoginFails, Authenticate
<1>7. ASSUME SendToken PROVE NoTokenLost
  BY <1>1, <1>3, <1>7 DEF SendToken
<1>8. ASSUME \/ \E d \in Clients : SendCommand(d) \/ Leave(d)
             \/ ServeDone \/ Command \/ Disconnect \/ Exit
             \/ \E f \in Fds : Poll(f)
             \/ \E t \in Jobs : Return(t)
             \/ UNCHANGED vars
      PROVE  peer' = peer
  BY <1>8 DEF SendCommand, Leave, ServeDone, Command, Disconnect, Exit, Poll, Return, vars
<1>9. NoTokenLost
  BY <1>2, <1>4, <1>5, <1>6, <1>7, <1>8 DEF Next
<1> QED
  BY <1>2, <1>9

LEMMA AttachedStep == Inv /\ [Next]_vars => Attached'
<1> SUFFICES ASSUME Inv, [Next]_vars, NoTokenLost', NEW s \in Slots, user'[s].owner # None
             PROVE  user'[s].ctl \in Controls(user[s].owner)'
  BY DEF Attached
<1>1. NoTokenLost /\ ~SendTokenFails
  BY LostStep
<1>2. \A r \in Slots : user[r].owner # None => user[r].ctl \in Controls(user[r].owner)
  BY <1>1 DEF Inv, Attached
\* A connection that ends is one whose slot is cleared with it.
<1>3. ASSUME NEW c \in Clients, user[s].owner = c, user'[s].owner = c, NEW f \in Controls(c)
      PROVE  f \in Controls(c)'
  <2>1. f \in Fds /\ conn[f] = [client |-> c, kind |-> "control"] /\ Open(f)
    BY <1>3, NoRecordIsNone DEF Controls, Open
  <2>2. peer[c] \notin Early
    BY <1>3, NoneAssumption, OwnersAreLate DEF Owned
  <2>3. conn'[f] = conn[f]
    <3>1. ASSUME Disconnect PROVE conn'[f] = conn[f]
      <4>1. /\ Served \in Slots /\ user[Served].ctl = loop.fd /\ loop.fd \in Fds
            /\ user[Served].owner \in Clients
        BY <3>1, ServedFacts DEF Disconnect, Inv
      <4>2. user'[Served].owner = None
        BY <3>1, <4>1 DEF Disconnect, Inv, TypeOK, EmptySlot
      <4>3. s # Served
        BY <1>3, <4>2, NoneAssumption
      <4>4. user[Served].owner # c
        BY <1>3, <4>1, <4>3, NoneAssumption DEF Inv, SoleOwner
      <4>5. conn[loop.fd] = [client |-> user[Served].owner, kind |-> "control"]
        BY <1>2, <4>1, NoneAssumption DEF Controls
      <4>6. f # loop.fd
        BY <2>1, <4>4, <4>5
      <4> QED
        BY <2>1, <3>1, <4>6 DEF Disconnect, Inv, TypeOK
    <3>2. ASSUME LoginFails PROVE conn'[f] = conn[f]
      <4>1. loop.fd \in Fds /\ peer[conn[loop.fd].client] = "login"
        BY <3>2 DEF LoginFails, Inv, LoopHolds
      <4>2. f # loop.fd
        BY <2>1, <2>2, <4>1 DEF Early
      <4> QED
        BY <2>1, <3>2, <4>2 DEF LoginFails, Inv, TypeOK
    <3>3. ASSUME NEW d \in Clients, Accept(d) \/ AcceptData(d) PROVE conn'[f] = conn[f]
      BY <2>1, <3>3 DEF Accept, Refuse, Admit, AcceptData, FreeFds, Inv, TypeOK
    <3>4. ASSUME \/ \E d \in Clients : Connect(d) \/ ConnectData(d) \/ SendCommand(d) \/ Leave(d)
                 \/ Authenticate \/ SendToken \/ ServeDone \/ Command \/ Exit
                 \/ \E h \in Fds : Poll(h)
                 \/ \E t \in Jobs : Return(t)
                 \/ UNCHANGED vars
          PROVE  conn' = conn
      BY <3>4 DEF vars, tables, Server, Connect, ConnectData, SendCommand, Leave, Authenticate, SendToken,
                  Poll, ServeDone, Command, Return, Exit
    <3> QED
      BY <1>1, <3>1, <3>2, <3>3, <3>4 DEF Next
  <2> QED
    BY <2>1, <2>3 DEF Controls
<1>4. user'[s].owner \in Clients
  BY TypeStep DEF TypeOK
<1>5. CASE user'[s].owner = user[s].owner /\ user'[s].ctl = user[s].ctl
  BY <1>2, <1>3, <1>4, <1>5
<1>6. ASSUME loop.fd \in Fds, Open(loop.fd), conn[loop.fd].kind = "control", conn' = conn,
             s = loop.slot, user'[loop.slot].owner = conn[loop.fd].client, user'[loop.slot].ctl = loop.fd
      PROVE  user'[s].ctl \in Controls(user[s].owner)'
  BY <1>6, Connected DEF Inv, Controls
<1>7. ASSUME user'[Served] = EmptySlot PROVE s # Served
  BY <1>7 DEF EmptySlot
<1> QED
  BY <1>5, <1>6, <1>7, SlotOwners

-----------------------------------------------------------------------------
LEMMA InvInit == Init => Inv
<1> SUFFICES ASSUME Init PROVE Inv
  OBVIOUS
<1> USE DEF Init
<1>1. TypeOK
  BY MaxConnectionsAssumption, MaxUnreadAssumption DEF TypeOK, Waiting, EmptySlot
<1>2. \A f \in Fds : ~Open(f)
  BY DEF Open
<1>3. \A c \in Clients, k \in {"control", "data"}, f \in Fds : conn[f] # [client |-> c, kind |-> k]
  BY NoRecordIsNone
<1>4. \A c \in Clients : ~Owned(c)
  BY NoneAssumption DEF Owned, EmptySlot
<1> QED
  BY <1>1, <1>2, <1>3, <1>4
     DEF Inv, LoopHolds, Waiting, Orderly, Controls, SlotsHeld, EmptySlot, JobsHeld, WatchedControls,
         WatchedIsServed, SoleOwner, Attached

\* The descriptors in slots, copies and the epoll set name what they were put there
\* for, over all logins, disconnects and reuses of numbers (server.c, session.c).
THEOREM Invariance == Spec => []Inv
<1>1. Init => Inv
  BY InvInit
<1>2. Inv /\ [Next]_vars => Inv'
  BY TypeStep, LoopStep, OrderlyStep, SlotsStep, JobsStep, WatchedStep, SoleOwnerStep,
     AttachedStep DEF Inv
<1> QED
  BY <1>1, <1>2, PTL DEF Spec

\* Commands are executed in the name of their sender unless a token send has failed.
THEOREM SendersAreUsers == Spec => []SenderIsUser
<1>1. Inv => SenderIsUser
  <2> SUFFICES ASSUME Inv, NoTokenLost, Serving PROVE user[Served].owner = conn[loop.fd].client
    BY DEF SenderIsUser
  <2>1. Served \in Slots /\ user[Served].ctl = loop.fd /\ user[Served].owner # None
    BY ServedFacts, NoneAssumption DEF Inv
  <2>2. loop.fd \in Controls(user[Served].owner)
    BY <2>1 DEF Inv, Attached
  <2> QED
    BY <2>2 DEF Controls
<1> QED
  BY <1>1, Invariance, PTL

\* A handler's data descriptor is a data connection of its session's token.
THEOREM DataIsKept == Spec => []HandlerKeepsItsData
<1>1. Inv => HandlerKeepsItsData
  BY DEF Inv, JobsHeld, Held, HandlerKeepsItsData
<1> QED
  BY <1>1, Invariance, PTL

\* What epoll watches has a slot that consumes it.
THEOREM WatchedAreServed == Spec => []WatchedIsServed
<1>1. Inv => WatchedIsServed
  BY DEF Inv
<1> QED
  BY <1>1, Invariance, PTL

\* A handler's message reaches another client only after its own has left.
THEOREM FeedbackStaysHome == Spec => []FeedbackReachesSender
<1>1. Inv => FeedbackReachesSender
  BY DEF Inv, TypeOK, JobsHeld, Reaches, Controls, Held, Copies, FeedbackReachesSender
<1> QED
  BY <1>1, Invariance, PTL

\* Slots, descriptors and the locals of the loop keep their types for every number
\* of clients and slots (server.c, session.c).
THEOREM TypeCorrect == Spec => []TypeOK
<1>1. Inv => TypeOK
  BY DEF Inv
<1> QED
  BY <1>1, Invariance, PTL
=============================================================================
