---------------------------- MODULE Resume_proofs ----------------------------
(***************************************************************************)
(* Proofs about a session of Download whose transfers follow each other,   *)
(* with any number of files, chunks, failures and lost connections, and    *)
(* whatever earlier transfers have left unread: how the offsets of the     *)
(* client go with the file it writes, that a small download resumes, and   *)
(* that every step takes an answer the client will read nearer to its end. *)
(***************************************************************************)
EXTENDS Download_proofs

Alone == \A t, u \in Transfers : t = u

\* How the locals of client_gets go with the file: until it is opened it is as long
\* as announced; what arrives in frames goes to its end; a large file has its
\* room, of which the rest is empty; what is to be hashed is there. What it reports
\* is its last word.
Have(f) == IF local[f] = Absent THEN 0 ELSE Len(local[f])
Room(t) ==
  /\ cpc[t] # "idle" => result[t] = "none"
  /\ cpc[t] \in {"name", "remaining", "total"} => resume[t] = Have(file[t])
  /\ cpc[t] = "framed" => at[t] = Len(Mine(t))
  /\ cpc[t] = "raw" => /\ Len(Mine(t)) = want[t] /\ want[t] > Threshold /\ at[t] < want[t]
                       /\ \A i \in at[t] + 1 .. want[t] : Mine(t)[i] = Hole
  /\ cpc[t] = "sha" => want[t] <= Len(Mine(t))

\* A small file that a lost connection left half received is a part of the
\* server's, or longer than the server's, and no thread has opened it since.
Kept ==
  \A f \in broken :
    Total(f) <= Threshold =>
      /\ local[f] \in Seq(Chunks) /\ Len(local[f]) > 0
      /\ Len(local[f]) <= Total(f) => local[f] = Prefix(Content[f], Len(local[f]))
Untouched(t) == cpc[t] \in Receiving => file[t] \notin broken

\* What the thread has asked for is the last thing in the connection. A handler
\* that has read it to the end starts over, or where the client's file ends when
\* this is a part of the server's, as it is for a small file that was cut off.
Agreed(t) ==
  from[t] # 0 => from[t] = resume[t] /\ Mine(t) = Prefix(Content[file[t]], from[t])
Asked(t) ==
  LET n == Len(toServer)
  IN cpc[t] = "name" /\ resume[t] > 0 =>
       /\ spc[t] = "offset" =>
            n >= 2 /\ toServer[n - 1] = Msg("size", resume[t]) /\ toServer[n] = Msg("sha", Mine(t))
       /\ spc[t] = "hash" =>
            n >= 1 /\ toServer[n] = Msg("sha", Mine(t)) /\ (n = 1 => from[t] = resume[t])
       /\ spc[t] = "name" /\ n = 0 =>
            Agreed(t) /\ (Total(file[t]) <= Threshold /\ file[t] \in broken => from[t] = resume[t])
AskedWhole(t) ==
  LET n == Len(toServer)
  IN cpc[t] = "name" /\ resume[t] = 0 =>
       /\ spc[t] \in {"offset", "hash"} => n >= 1 /\ toServer[n] = Msg("size", 0)
       /\ spc[t] = "name" /\ n = 0 => from[t] = 0

ResumeInv ==
  /\ Inv /\ Kept
  /\ \A t \in Transfers : Room(t) /\ Untouched(t) /\ Asked(t) /\ AskedWhole(t)

-----------------------------------------------------------------------------
LEMMA ResizedIs ==
  ASSUME NEW s \in Seq(Chunks), NEW n \in Nat
  PROVE  \A i \in 1 .. n : Resized(s, n)[i] = IF i <= Len(s) THEN s[i] ELSE Hole
  BY DEF Resized

LEMMA WrittenIs ==
  ASSUME NEW s \in Seq(Chunks), NEW i \in 1 .. Len(s) + 1, NEW c \in Chunks
  PROVE  /\ Written(s, i, c) \in Seq(Chunks)
         /\ Len(Written(s, i, c)) = IF i > Len(s) THEN i ELSE Len(s)
         /\ \A j \in 1 .. Len(Written(s, i, c)) : Written(s, i, c)[j] = IF j = i THEN c ELSE s[j]
<1> DEFINE n == IF i > Len(s) THEN i ELSE Len(s)
           r == Resized(s, n)
<1>1. n \in Nat /\ i \in 1 .. n /\ n <= Len(s) + 1
  OBVIOUS
<1>2. /\ r \in Seq(Chunks) /\ Len(r) = n
      /\ \A j \in 1 .. n : j # i => r[j] = s[j]
  <2>1. \A j \in 1 .. n : r[j] = IF j <= Len(s) THEN s[j] ELSE Hole
    BY <1>1, ResizedIs
  <2>2. r \in Seq(Chunks) /\ Len(r) = n
    BY <1>1, ResizedTyped
  <2> HIDE DEF r
  <2> QED
    BY <1>1, <2>1, <2>2
<1>3. Written(s, i, c) = [r EXCEPT ![i] = c]
  BY DEF Written
<1> HIDE DEF r, n
<1>4. /\ [r EXCEPT ![i] = c] \in Seq(Chunks) /\ Len([r EXCEPT ![i] = c]) = n
      /\ \A j \in 1 .. n : [r EXCEPT ![i] = c][j] = IF j = i THEN c ELSE r[j]
  BY <1>1, <1>2, ExceptSeq
<1> QED
  BY <1>1, <1>2, <1>3, <1>4 DEF n

\* A handler touches only the connection and its own locals.
LEMMA ServerFrame ==
  ASSUME NEW t \in Transfers, ServerStep(t) \/ GiveUp(t)
  PROVE  UNCHANGED <<local, aligned, file, cpc, resume, rest, want, at, result, broken>>
  BY DEF ServerStep, GiveUp, TakeOffset, TakeHash, SendName, SendRemaining, SendTotal, SendChunk,
         SendEnd, SendSha, client

\* A thread touches only the connection, its own locals, and its file.
LEMMA ClientFrame ==
  ASSUME NEW t \in Transfers, ClientStep(t) \/ TakeTotalFails(t) \/ Abandon(t)
  PROVE  UNCHANGED <<toServer, file, spc, from, sent>>
  BY DEF ClientStep, TakeTotalFails, Abandon, Take, TakeName, TakeRemaining, TakeTotalDone,
         TakeTotal, TakeRaw, TakeFrame, TakeEnd, TakeSha, TakeWrong, TakeGarbage, server

\* These end a thread's work on its file.
Leaves(t) ==
  TakeTotalDone(t) \/ TakeSha(t) \/ TakeWrong(t) \/ TakeGarbage(t) \/ TakeTotalFails(t) \/ Abandon(t)

LEMMA LeavesReport ==
  ASSUME Typed, NEW t \in Transfers, Leaves(t), cpc[t] # "idle" => result[t] = "none"
  PROVE  cpc'[t] # "idle" => result'[t] = "none"
<1>1. CASE TakeGarbage(t)
  BY <1>1 DEF TakeGarbage
<1>2. CASE ~ TakeGarbage(t)
  BY <1>2 DEF Typed, Leaves, TakeTotalDone, TakeSha, TakeWrong, TakeTotalFails, Abandon, Return, ClientGoto
<1> QED
  BY <1>1, <1>2

LEMMA LeavesFile ==
  ASSUME Typed, NEW t \in Transfers, Leaves(t)
  PROVE  cpc'[t] \in {"idle", "astray"} /\ local' = local /\ broken' \subseteq broken
  BY DEF Typed, Leaves, TakeTotalDone, TakeSha, TakeWrong, TakeGarbage, TakeTotalFails, Abandon,
         Return, ClientGoto

\* What TakeTotal leaves behind.
LEMMA Opens ==
  ASSUME Typed, NEW t \in Transfers, Room(t), TakeTotal(t)
  PROVE  \E r \in Nat, kept \in Seq(Chunks), large \in BOOLEAN :
           LET w == rest[t] + r
           IN /\ w > r /\ w \in Nat /\ Len(kept) = r
              /\ (kept = <<>> \/ kept = Mine(t))
              /\ large = (w > Threshold)
              /\ local' = [local EXCEPT ![file[t]] = IF large THEN Resized(kept, w) ELSE kept]
              /\ want'[t] = w /\ at'[t] = r
              /\ cpc'[t] = IF large THEN "raw" ELSE "framed"
              /\ broken' = broken \ {file[t]}
<1>1. PICK large \in BOOLEAN :
        /\ Plan(t, rest[t] # Head(toClient).val, large)
        /\ ClientGoto(t, IF large THEN "raw" ELSE "framed")
  BY DEF TakeTotal
<1> DEFINE resumes == rest[t] # Head(toClient).val
           r == IF resumes THEN resume[t] ELSE 0
           kept == IF resumes THEN Mine(t) ELSE <<>>
           w == rest[t] + r
<1>2. /\ resumes => Mine(t) # Absent
      /\ large = (w > Threshold)
      /\ want' = [want EXCEPT ![t] = w] /\ at' = [at EXCEPT ![t] = r]
      /\ local' = [local EXCEPT ![file[t]] = IF large THEN Resized(kept, w) ELSE kept]
  BY <1>1 DEF Plan, SetMine
<1>3. rest[t] \in Nat /\ rest[t] # 0 /\ resume[t] \in Nat /\ cpc[t] = "total"
  BY DEF Typed, TakeTotal, Take
<1>4. kept \in Seq(Chunks) /\ Len(kept) = r
  BY <1>2, <1>3 DEF Typed, Room, Have, Mine
<1>5. cpc'[t] = IF large THEN "raw" ELSE "framed"
  BY <1>1 DEF Typed, ClientGoto
<1>6. want'[t] = w /\ at'[t] = r
  BY <1>2 DEF Typed
<1>7. r \in Nat /\ w > r /\ w \in Nat /\ (kept = <<>> \/ kept = Mine(t)) /\ broken' = broken \ {file[t]}
  BY <1>3 DEF TakeTotal
<1> HIDE DEF resumes, kept, r, w
<1> QED
  BY <1>2, <1>4, <1>5, <1>6, <1>7 DEF w

LEMMA RoomClient ==
  ASSUME Typed, Started, NEW t \in Transfers, Room(t),
         ClientStep(t) \/ TakeTotalFails(t) \/ Abandon(t)
  PROVE  Room(t)'
<1>0. file' = file /\ DOMAIN cpc = Transfers /\ DOMAIN want = Transfers /\ DOMAIN at = Transfers
  BY ClientFrame DEF Typed
<1>r. cpc'[t] # "idle" => result'[t] = "none"
  <2>1. CASE Leaves(t)
    BY <2>1, LeavesReport DEF Room
  <2>2. CASE ~ Leaves(t)
    BY <2>2 DEF ClientStep, Leaves, TakeName, TakeRemaining, TakeTotal, TakeRaw, TakeFrame, TakeEnd, Take, Room
  <2> QED
    BY <2>1, <2>2
<1>1. CASE Leaves(t)
  BY <1>1, <1>r, LeavesFile DEF Room
<1>2. CASE TakeName(t)
  BY <1>2, <1>0, <1>r DEF TakeName, Take, ClientGoto, Room, Have
<1>3. CASE TakeRemaining(t)
  BY <1>3, <1>0, <1>r DEF TakeRemaining, Take, ClientGoto, Room, Have
<1>4. CASE TakeTotal(t)
  <2>1. PICK r \in Nat, kept \in Seq(Chunks), large \in BOOLEAN :
          LET w == rest[t] + r
          IN /\ w > r /\ w \in Nat /\ Len(kept) = r
             /\ (kept = <<>> \/ kept = Mine(t))
             /\ large = (w > Threshold)
             /\ local' = [local EXCEPT ![file[t]] = IF large THEN Resized(kept, w) ELSE kept]
             /\ want'[t] = w /\ at'[t] = r
             /\ cpc'[t] = IF large THEN "raw" ELSE "framed"
    BY <1>4, Opens
  <2> DEFINE w == rest[t] + r
  <2>2. Mine(t)' = IF large THEN Resized(kept, w) ELSE kept
    BY <1>0, <2>1 DEF Typed, Mine
  <2>3. CASE large
    <3>1. Mine(t)' \in Seq(Chunks) /\ Len(Mine(t)') = w
      BY <2>1, <2>2, <2>3, ResizedTyped
    <3>2. \A i \in r + 1 .. w : Mine(t)'[i] = Hole
      BY <2>1, <2>2, <2>3, ResizedIs
    <3> QED
      BY <1>r, <2>1, <2>3, <3>1, <3>2 DEF Room
  <2>4. CASE ~ large
    BY <1>r, <2>1, <2>2, <2>4 DEF Room
  <2> QED
    BY <2>3, <2>4
<1>5. CASE TakeRaw(t)
  <2> DEFINE i == at[t] + 1
  <2>1. PICK c \in Chunks :
          /\ local' = [local EXCEPT ![file[t]] = Written(Mine(t), i, c)]
          /\ at' = [at EXCEPT ![t] = i] /\ want' = want
          /\ cpc' = [cpc EXCEPT ![t] = IF i = want[t] THEN "sha" ELSE "raw"]
          /\ cpc[t] = "raw"
    <3>1. toClient # <<>> => Head(toClient) \in Messages
      BY DEF Typed
    <3> QED
      BY <1>5, <3>1, MessageTyped, HoleIsChunk DEF TakeRaw, SetMine, ClientGoto
  <2>2. /\ Mine(t) \in Seq(Chunks) /\ Len(Mine(t)) = want[t] /\ want[t] > Threshold
        /\ at[t] < want[t] /\ at[t] \in Nat /\ want[t] \in Nat
        /\ \A j \in at[t] + 1 .. want[t] : Mine(t)[j] = Hole
    BY <2>1 DEF Started, Typed, Receiving, Room, Mine
  <2>3. /\ Mine(t)' = Written(Mine(t), i, c)
        /\ Len(Written(Mine(t), i, c)) = want[t]
        /\ \A j \in 1 .. want[t] : Written(Mine(t), i, c)[j] = IF j = i THEN c ELSE Mine(t)[j]
    <3>1. i \in 1 .. Len(Mine(t)) + 1 /\ i \in 1 .. Len(Mine(t))
      BY <2>2
    <3>2. Mine(t)' = Written(Mine(t), i, c)
      BY <1>0, <2>1 DEF Typed, Mine
    <3>3. Mine(t) \in Seq(Chunks)
      BY <2>2
    <3> HIDE DEF i
    <3>4. /\ Len(Written(Mine(t), i, c)) = IF i > Len(Mine(t)) THEN i ELSE Len(Mine(t))
          /\ \A j \in 1 .. Len(Written(Mine(t), i, c)) :
               Written(Mine(t), i, c)[j] = IF j = i THEN c ELSE Mine(t)[j]
      BY <3>1, <3>3, WrittenIs
    <3> QED
      BY <2>2, <3>1, <3>2, <3>4
  <2>4. at'[t] = i /\ want'[t] = want[t] /\ cpc'[t] \in {"sha", "raw"} /\ (cpc'[t] = "raw" => i # want[t])
    BY <1>0, <2>1
  <2>5. cpc'[t] = "raw" => /\ Len(Mine(t)') = want'[t] /\ want'[t] > Threshold /\ at'[t] < want'[t]
                           /\ \A j \in at'[t] + 1 .. want'[t] : Mine(t)'[j] = Hole
    BY <2>2, <2>3, <2>4
  <2>6. want'[t] <= Len(Mine(t)')
    BY <2>2, <2>3, <2>4
  <2> QED
    BY <1>r, <2>4, <2>5, <2>6 DEF Room
<1>6. CASE TakeFrame(t)
  <2> DEFINE i == at[t] + 1
  <2>1. PICK c \in Chunks :
          /\ local' = [local EXCEPT ![file[t]] = Written(Mine(t), i, c)]
          /\ at' = [at EXCEPT ![t] = i] /\ cpc' = cpc /\ cpc[t] = "framed"
    <3>1. toClient # <<>> => Head(toClient) \in Messages
      BY DEF Typed
    <3> QED
      BY <1>6, <3>1, MessageTyped, HoleIsChunk DEF TakeFrame, Take, SetMine
  <2>2. Mine(t) \in Seq(Chunks) /\ Len(Mine(t)) = at[t]
    BY <2>1 DEF Started, Receiving, Room, Mine
  <2>3. Len(Written(Mine(t), i, c)) = i
    <3>1. i \in 1 .. Len(Mine(t)) + 1 /\ i > Len(Mine(t))
      BY <2>2
    <3> HIDE DEF i
    <3> QED
      BY <2>2, <3>1, WrittenIs
  <2>4. Mine(t)' = Written(Mine(t), i, c) /\ at'[t] = i
    BY <1>0, <2>1 DEF Typed, Mine
  <2> QED
    BY <1>r, <2>1, <2>3, <2>4 DEF Room
<1>7. CASE TakeEnd(t)
  <2>1. Mine(t)' = Mine(t) /\ want' = want
    BY <1>7 DEF TakeEnd, Take, Mine
  <2>2. cpc'[t] = IF Len(Mine(t)) < want[t] THEN "spin" ELSE "sha"
    BY <1>0, <1>7 DEF TakeEnd, ClientGoto
  <2>3. Mine(t) \in Seq(Chunks) /\ want[t] \in Nat
    BY <1>7 DEF TakeEnd, Take, Started, Receiving, Typed, Mine
  <2> QED
    BY <1>r, <2>1, <2>2, <2>3 DEF Room
<1> QED
  BY <1>1, <1>2, <1>3, <1>4, <1>5, <1>6, <1>7 DEF ClientStep, Leaves

LEMMA RoomBegin ==
  ASSUME Typed, NEW t \in Transfers, NEW f \in Files, Begin(t, f)
  PROVE  Room(t)'
<1>1. cpc'[t] = "name" /\ file'[t] = f /\ local' = local /\ resume'[t] = Have(f)
      /\ result'[t] = "none"
  BY DEF Typed, Begin, ClientGoto, Have
<1> QED
  BY <1>1 DEF Room, Have

-----------------------------------------------------------------------------
(* Interrupted downloads *)

\* A thread that opens a file is no longer about an interrupted download of it.
LEMMA KeptClient ==
  ASSUME Alone, ResumeInv, NEW t \in Transfers, ClientStep(t) \/ TakeTotalFails(t) \/ Abandon(t)
  PROVE  Kept' /\ Untouched(t)'
<1>0. Typed /\ Room(t) /\ file' = file
  BY ClientFrame DEF ResumeInv, Inv
<1>1. CASE Leaves(t)
  BY <1>0, <1>1, LeavesFile DEF Kept, ResumeInv, Untouched, Receiving
<1>2. CASE TakeName(t) \/ TakeRemaining(t)
  <2>1. local' = local /\ broken' = broken /\ cpc'[t] \in {"remaining", "total"}
    BY <1>0, <1>2 DEF Typed, TakeName, TakeRemaining, ClientGoto
  <2> QED
    BY <2>1 DEF Kept, ResumeInv, Untouched, Receiving
<1>3. CASE TakeTotal(t)
  <2>1. broken' = broken \ {file[t]} /\ \E s : local' = [local EXCEPT ![file[t]] = s]
    BY <1>0, <1>3, Opens
  <2>2. \A f \in broken' : f \in broken /\ local'[f] = local[f]
    BY <1>0, <2>1 DEF Typed
  <2> QED
    BY <1>0, <2>1, <2>2 DEF Kept, ResumeInv, Untouched
<1>4. CASE TakeRaw(t) \/ TakeFrame(t) \/ TakeEnd(t)
  <2>1. cpc[t] \in Receiving /\ broken' = broken
    BY <1>4, Zenon DEF TakeRaw, TakeFrame, TakeEnd, Take, Receiving
  <2>2. \E s : local' = [local EXCEPT ![file[t]] = s]
    <3>1. local = [local EXCEPT ![file[t]] = local[file[t]]]
      BY <1>0 DEF Typed
    <3> QED
      BY <1>4, <3>1, Zenon DEF TakeRaw, TakeFrame, TakeEnd, SetMine
  <2>3. file[t] \notin broken
    BY <2>1 DEF ResumeInv, Untouched
  <2>4. \A f \in broken : local'[f] = local[f]
    BY <1>0, <2>2, <2>3 DEF Typed
  <2> QED
    BY <1>0, <2>1, <2>3, <2>4 DEF Kept, ResumeInv, Untouched
<1> QED
  BY <1>1, <1>2, <1>3, <1>4 DEF ClientStep, Leaves

\* What a lost connection leaves of a small file.
LEMMA KeptDisconnect ==
  ASSUME ResumeInv, Disconnect
  PROVE  Kept'
<1> SUFFICES ASSUME NEW f \in broken', Total(f) <= Threshold
             PROVE  /\ local[f] \in Seq(Chunks) /\ Len(local[f]) > 0
                    /\ Len(local[f]) <= Total(f) => local[f] = Prefix(Content[f], Len(local[f]))
  BY DEF Kept, Disconnect
<1>1. CASE f \in broken
  BY <1>1 DEF ResumeInv, Kept
<1>2. CASE f \notin broken
  <2>1. PICK u \in Transfers : /\ file[u] = f /\ cpc[u] \in {"raw", "framed"} /\ at[u] > 0
                               /\ IsPrefix(Prefix(Mine(u), at[u]), Content[f])
    BY <1>2 DEF Disconnect
  <2> DEFINE s == local[f]
             c == Content[f]
  <2>2. s \in Seq(Chunks) /\ Mine(u) = s /\ at[u] \in Nat /\ want[u] \in Nat
    BY <2>1 DEF ResumeInv, Inv, Typed, Started, Receiving, Mine
  <2>3. c \in Seq(Chunks) /\ Total(f) = Len(c)
    BY <2>1, ContentTyped DEF ResumeInv, Inv, Typed, Total
  <2>4. Room(u)
    BY DEF ResumeInv
  <2>5. CASE cpc[u] = "raw"
    BY <2>1, <2>2, <2>3, <2>4, <2>5, ThresholdAssumption DEF Room
  <2>6. CASE cpc[u] = "framed"
    <3>1. Len(s) = at[u]
      BY <2>2, <2>4, <2>6 DEF Room
    <3>2. SubSeq(s, 1, Len(s)) = s
      BY <2>2, SubSeqFull
    <3>3. IsPrefix(s, c)
      BY <2>1, <2>2, <3>1, <3>2 DEF Prefix
    <3> HIDE DEF s, c
    <3>4. s = SubSeq(c, 1, Len(s))
      BY <3>2, <3>3 DEF IsPrefix
    <3> QED
      BY <2>1, <2>2, <3>1, <3>4 DEF Prefix, s, c
  <2> QED
    BY <2>1, <2>5, <2>6
<1> QED
  BY <1>1, <1>2

-----------------------------------------------------------------------------
(* What the handler is asked *)

\* It reads the offset and the hash in this order, whatever stands before them.
LEMMA AskedServer ==
  ASSUME ResumeInv, NEW t \in Transfers, ServerStep(t) \/ GiveUp(t)
  PROVE  Asked(t)'
<1> DEFINE n == Len(toServer)
<1>0. /\ UNCHANGED <<local, file, cpc, resume, broken>> /\ Mine(t)' = Mine(t)
      /\ Typed /\ toServer \in Seq(Messages) /\ Asked(t)
  BY ServerFrame DEF ResumeInv, Inv, Mine
<1>t. toServer # <<>> => /\ n \in Nat \ {0} /\ Len(Tail(toServer)) = n - 1
                         /\ \A j \in 1 .. n - 1 : Tail(toServer)[j] = toServer[j + 1]
                         /\ Head(toServer) = toServer[1]
  BY <1>0
<1> SUFFICES ASSUME cpc[t] = "name", resume[t] > 0
             PROVE  LET m == Len(toServer')
                    IN /\ spc'[t] = "offset" =>
                            /\ m >= 2 /\ toServer'[m - 1] = Msg("size", resume[t])
                            /\ toServer'[m] = Msg("sha", Mine(t))
                       /\ spc'[t] = "hash" =>
                            /\ m >= 1 /\ toServer'[m] = Msg("sha", Mine(t))
                            /\ m = 1 => from'[t] = resume[t]
                       /\ spc'[t] = "name" /\ m = 0 =>
                            /\ from'[t] # 0 => /\ from'[t] = resume[t]
                                               /\ Mine(t) = Prefix(Content[file[t]], from'[t])
                            /\ Total(file[t]) <= Threshold /\ file[t] \in broken => from'[t] = resume[t]
  BY <1>0 DEF Asked, Agreed
<1>1. CASE TakeOffset(t)
  <2>1. /\ toServer # <<>> /\ toServer' = Tail(toServer) /\ spc[t] = "offset"
        /\ n >= 2 /\ toServer[n - 1] = Msg("size", resume[t]) /\ toServer[n] = Msg("sha", Mine(t))
    BY <1>0, <1>1 DEF TakeOffset, Asked
  <2>2. Len(toServer') = n - 1 /\ toServer'[n - 1] = toServer[n]
    BY <1>t, <2>1
  <2>3. n - 1 = 1 => Head(toServer) = Msg("size", resume[t])
    BY <1>t, <2>1
  <2>4. CASE Head(toServer).kind = "size"
    <3>1. /\ from' = [from EXCEPT ![t] = Head(toServer).val]
          /\ spc' = [spc EXCEPT ![t] = IF Head(toServer).val > 0 THEN "hash" ELSE "name"]
      BY <1>1, <2>4 DEF TakeOffset, ServerGoto
    <3>2. from'[t] = Head(toServer).val /\ spc'[t] \in {"hash", "name"}
      BY <1>0, <3>1 DEF Typed
    <3> QED
      BY <1>t, <2>1, <2>2, <2>3, <3>2 DEF Msg
  <2>5. CASE Head(toServer).kind # "size"
    <3>1. spc'[t] \in {"gone", "astray", "hash", "name"}
      BY <1>0, <1>1, <2>5 DEF TakeOffset, ServerGoto, Typed
    <3>2. n - 1 # 1
      BY <2>3, <2>5 DEF Msg
    <3> QED
      BY <1>t, <2>1, <2>2, <3>1, <3>2
  <2> QED
    BY <2>4, <2>5
<1>2. CASE TakeHash(t)
  <2>1. /\ toServer # <<>> /\ toServer' = Tail(toServer) /\ spc[t] = "hash"
        /\ toServer[n] = Msg("sha", Mine(t)) /\ (n = 1 => from[t] = resume[t])
    BY <1>0, <1>2 DEF TakeHash, Asked
  <2>2. spc'[t] \in {"gone", "spin", "name"}
    BY <1>0, <1>2 DEF TakeHash, ServerGoto, Typed
  <2> SUFFICES ASSUME spc'[t] = "name", Len(toServer') = 0
               PROVE  /\ from'[t] # 0 => from'[t] = resume[t] /\ Mine(t) = Prefix(Content[file[t]], from'[t])
                      /\ Total(file[t]) <= Threshold /\ file[t] \in broken => from'[t] = resume[t]
    BY <2>2
  <2>s. Len(Tail(toServer)) = 0
    BY <2>1
  <2>3. n = 1 /\ Head(toServer) = Msg("sha", Mine(t)) /\ from[t] = resume[t]
    <3>1. n - 1 = 0 /\ n \in Nat /\ Head(toServer) = toServer[1]
      BY <1>t, <2>1, <2>s
    <3> HIDE DEF n
    <3>2. n = 1
      BY <3>1
    <3> QED
      BY <2>1, <3>1, <3>2
  <2>4. Head(toServer).kind = "sha" /\ Head(toServer).val = Mine(t)
    BY <2>3 DEF Msg
  <2>5. ~ (from[t] > Total(file[t]))
    <3>1. SUFFICES ASSUME from[t] > Total(file[t]) PROVE spc'[t] = "spin"
      OBVIOUS
    <3> QED
      BY <1>0, <1>2, <2>4, <3>1 DEF TakeHash, ServerGoto, Typed
  <2>6. from' = [from EXCEPT ![t] = IF Head(toServer).val = Prefix(Content[file[t]], from[t]) THEN @ ELSE 0]
    BY <1>2, <2>4, <2>5 DEF TakeHash
  <2>7. from'[t] = IF Mine(t) = Prefix(Content[file[t]], from[t]) THEN from[t] ELSE 0
    BY <1>0, <2>4, <2>6 DEF Typed
  <2>8. ASSUME Total(file[t]) <= Threshold, file[t] \in broken
        PROVE  Mine(t) = Prefix(Content[file[t]], Len(Mine(t))) /\ resume[t] = Len(Mine(t))
    <3>1. resume[t] = Len(Mine(t)) /\ Mine(t) \in Seq(Chunks)
      BY <2>8, MarksAssumption DEF ResumeInv, Kept, Room, Have, Mine
    <3>2. Total(file[t]) \in Nat
      BY <1>0, ContentTyped DEF Typed
    <3> QED
      BY <2>3, <2>5, <2>8, <3>1, <3>2 DEF ResumeInv, Kept, Mine
  <2> QED
    BY <2>3, <2>7, <2>8
<1>3. CASE ~ (TakeOffset(t) \/ TakeHash(t))
  <2>1. spc'[t] \notin {"offset", "hash", "name"}
    BY <1>0, <1>3 DEF Typed, ServerStep, GiveUp, SendName, SendRemaining, SendTotal, SendChunk,
                      SendEnd, SendSha, ServerGoto
  <2> QED
    BY <2>1
<1> QED
  BY <1>1, <1>2, <1>3

\* A thread that has nothing asks for all, and nobody takes it for a hash.
LEMMA AskedWholeServer ==
  ASSUME ResumeInv, NEW t \in Transfers, ServerStep(t) \/ GiveUp(t)
  PROVE  AskedWhole(t)'
<1> DEFINE n == Len(toServer)
<1>0. /\ UNCHANGED <<cpc, resume>> /\ Typed /\ toServer \in Seq(Messages) /\ AskedWhole(t)
  BY ServerFrame DEF ResumeInv, Inv
<1>t. toServer # <<>> => /\ n \in Nat \ {0} /\ Len(Tail(toServer)) = n - 1
                         /\ \A j \in 1 .. n - 1 : Tail(toServer)[j] = toServer[j + 1]
                         /\ Head(toServer) = toServer[1]
  BY <1>0
<1> SUFFICES ASSUME cpc[t] = "name", resume[t] = 0
             PROVE  LET m == Len(toServer')
                    IN /\ spc'[t] \in {"offset", "hash"} => m >= 1 /\ toServer'[m] = Msg("size", 0)
                       /\ spc'[t] = "name" /\ m = 0 => from'[t] = 0
  BY <1>0 DEF AskedWhole
<1>1. CASE TakeOffset(t) \/ TakeHash(t)
  <2>1. /\ toServer # <<>> /\ toServer' = Tail(toServer) /\ spc[t] \in {"offset", "hash"}
        /\ toServer[n] = Msg("size", 0)
    BY <1>0, <1>1 DEF TakeOffset, TakeHash, AskedWhole
  <2>2. CASE n = 1
    <3>1. Head(toServer) = Msg("size", 0) /\ Len(toServer') = 0
      BY <1>t, <2>1, <2>2
    <3>2. Head(toServer).kind = "size" /\ Head(toServer).val = 0
      BY <3>1 DEF Msg
    <3>3. CASE TakeOffset(t)
      <4>1. from' = [from EXCEPT ![t] = 0] /\ spc' = [spc EXCEPT ![t] = "name"]
        BY <3>2, <3>3 DEF TakeOffset, ServerGoto
      <4> QED
        BY <1>0, <3>1, <4>1 DEF Typed
    <3>4. CASE TakeHash(t)
      <4>1. \/ spc' = [spc EXCEPT ![t] = "spin"]
            \/ from' = [from EXCEPT ![t] = 0] /\ spc' = [spc EXCEPT ![t] = "name"]
        BY <3>2, <3>4 DEF TakeHash, ServerGoto
      <4> QED
        BY <1>0, <3>1, <4>1 DEF Typed
    <3> QED
      BY <1>1, <3>3, <3>4
  <2>3. CASE n # 1
    <3>1. /\ n \in Nat \ {0} /\ Len(toServer') = n - 1
          /\ \A j \in 1 .. n - 1 : toServer'[j] = toServer[j + 1]
      BY <1>t, <2>1
    <3> HIDE DEF n
    <3>2. n - 1 \in 1 .. n - 1 /\ (n - 1) + 1 = n
      BY <2>3, <3>1
    <3>3. toServer'[n - 1] = toServer[n]
      BY <3>1, <3>2
    <3> QED
      BY <2>1, <3>1, <3>2, <3>3
  <2> QED
    BY <2>2, <2>3
<1>2. CASE ~ (TakeOffset(t) \/ TakeHash(t))
  <2>1. spc'[t] \notin {"offset", "hash", "name"}
    BY <1>0, <1>2 DEF Typed, ServerStep, GiveUp, SendName, SendRemaining, SendTotal, SendChunk,
                      SendEnd, SendSha, ServerGoto
  <2> QED
    BY <2>1
<1> QED
  BY <1>1, <1>2

LEMMA AskedWholeBegin ==
  ASSUME ResumeInv, NEW t \in Transfers, NEW f \in Files, Begin(t, f)
  PROVE  AskedWhole(t)'
<1>1. /\ resume'[t] = Have(f) /\ spc'[t] = "offset" /\ toServer \in Seq(Messages)
      /\ Have(f) \in Nat
  BY DEF ResumeInv, Inv, Typed, Begin, ServerGoto, Have
<1> SUFFICES ASSUME Have(f) = 0
             PROVE  Len(toServer') >= 1 /\ toServer'[Len(toServer')] = Msg("size", 0)
  BY <1>1 DEF AskedWhole
<1> DEFINE x == Msg("size", 0)
<1>2. toServer' = (toServer \o <<x>>) \o <<>>
  <2>1. toServer' = toServer \o <<Msg("size", Have(f))>>
                      \o (IF Have(f) > 0 THEN <<Msg("sha", local[f])>> ELSE <<>>)
    BY DEF Begin, Have
  <2> QED
    BY <2>1
<1>3. x \in Messages
  BY DEF Msg, Messages
<1> HIDE DEF x
<1>4. /\ Len((toServer \o <<x>>) \o <<>>) = Len(toServer) + 1
      /\ ((toServer \o <<x>>) \o <<>>)[Len(toServer) + 1] = x
      /\ Len(toServer) \in Nat
  BY <1>1, <1>3
<1> QED
  BY <1>2, <1>4 DEF x

LEMMA AskedBegin ==
  ASSUME ResumeInv, NEW t \in Transfers, NEW f \in Files, Begin(t, f)
  PROVE  Asked(t)'
<1>1. /\ file'[t] = f /\ local' = local /\ resume'[t] = Have(f) /\ spc'[t] = "offset"
      /\ Have(f) \in Nat
  BY DEF ResumeInv, Inv, Typed, Begin, ServerGoto, Have
<1> SUFFICES ASSUME Have(f) > 0
             PROVE  LET m == Len(toServer')
                    IN /\ m >= 2 /\ toServer'[m - 1] = Msg("size", Have(f))
                       /\ toServer'[m] = Msg("sha", local[f])
  BY <1>1 DEF Asked, Mine
<1> DEFINE x == Msg("size", Have(f))
           y == Msg("sha", local[f])
<1>2. toServer' = toServer \o <<x>> \o <<y>>
  BY DEF Begin, Have
<1>3. x \in Messages /\ y \in Messages /\ toServer \in Seq(Messages)
  BY <1>1 DEF ResumeInv, Inv, Typed, Have, Msg, Messages
<1> HIDE DEF x, y
<1>4. /\ Len(toServer \o <<x>> \o <<y>>) = Len(toServer) + 2
      /\ (toServer \o <<x>> \o <<y>>)[Len(toServer) + 1] = x
      /\ (toServer \o <<x>> \o <<y>>)[Len(toServer) + 2] = y
  BY <1>3
<1> QED
  BY <1>2, <1>3, <1>4 DEF x, y

-----------------------------------------------------------------------------
(* The specification *)

LEMMA ResumeInit == Init => ResumeInv
<1> SUFFICES ASSUME Init PROVE ResumeInv
  OBVIOUS
<1>1. \A t \in Transfers : cpc[t] = "idle"
  BY DEF Init
<1> QED
  BY <1>1, InvInit DEF Init, ResumeInv, Kept, Room, Untouched, Asked, AskedWhole, Receiving

\* A thread that has taken a step waits no more for the answer.
LEMMA AskedClient ==
  ASSUME Typed, NEW t \in Transfers, ClientStep(t) \/ TakeTotalFails(t) \/ Abandon(t)
  PROVE  Asked(t)' /\ AskedWhole(t)'
<1>1. CASE Leaves(t)
  BY <1>1, LeavesFile DEF Asked, AskedWhole
<1>2. CASE TakeTotal(t)
  <2>1. \E large \in BOOLEAN : cpc' = [cpc EXCEPT ![t] = IF large THEN "raw" ELSE "framed"]
    BY <1>2 DEF TakeTotal, ClientGoto
  <2> QED
    BY <2>1 DEF Typed, Asked, AskedWhole
<1>3. CASE TakeName(t) \/ TakeRemaining(t) \/ TakeRaw(t) \/ TakeFrame(t) \/ TakeEnd(t)
  <2>1. cpc'[t] # "name"
    BY <1>3 DEF Typed, TakeName, TakeRemaining, TakeRaw, TakeFrame, TakeEnd, Take, ClientGoto
  <2> QED
    BY <2>1 DEF Asked, AskedWhole
<1> QED
  BY <1>1, <1>2, <1>3 DEF ClientStep, Leaves

LEMMA ResumeNext ==
  ASSUME Alone, ResumeInv, [Next]_vars
  PROVE  ResumeInv'
<1>0. Inv' /\ Typed /\ Started
  BY InvNext DEF ResumeInv, Inv
<1>a. ASSUME Kept', NEW t \in Transfers, Room(t)', Untouched(t)', Asked(t)', AskedWhole(t)' PROVE ResumeInv'
  BY <1>0, <1>a DEF ResumeInv, Alone
<1>1. ASSUME NEW t \in Transfers, ServerStep(t) \/ GiveUp(t) PROVE ResumeInv'
  <2>1. UNCHANGED <<local, aligned, file, cpc, resume, rest, want, at, result, broken>>
    BY <1>1, ServerFrame
  <2>2. Kept' /\ Room(t)' /\ Untouched(t)'
    BY <2>1 DEF ResumeInv, Kept, Room, Have, Mine, Untouched
  <2>3. Asked(t)' /\ AskedWhole(t)'
    BY <1>1, AskedServer, AskedWholeServer
  <2> QED
    BY <2>2, <2>3, <1>a
<1>2. ASSUME NEW t \in Transfers, ClientStep(t) \/ TakeTotalFails(t) \/ Abandon(t) PROVE ResumeInv'
  <2>1. Room(t)
    BY DEF ResumeInv
  <2> QED
    BY <1>0, <1>2, <1>a, <2>1, RoomClient, KeptClient, AskedClient
<1>3. ASSUME NEW t \in Transfers, NEW f \in Files, Begin(t, f) PROVE ResumeInv'
  <2>1. Kept' /\ Untouched(t)'
    <3>1. local' = local /\ broken' = broken /\ cpc'[t] = "name"
      BY <1>0, <1>3 DEF Typed, Begin, ClientGoto
    <3> QED
      BY <3>1 DEF ResumeInv, Kept, Untouched, Receiving
  <2> QED
    BY <1>0, <1>3, <1>a, <2>1, RoomBegin, AskedBegin, AskedWholeBegin
<1>4. CASE Disconnect
  <2>1. \A t \in Transfers : cpc'[t] = "idle"
    BY <1>4 DEF Disconnect
  <2>2. \A t \in Transfers : Room(t)' /\ Untouched(t)' /\ Asked(t)' /\ AskedWhole(t)'
    BY <2>1 DEF Room, Untouched, Asked, AskedWhole, Receiving
  <2> QED
    BY <1>0, <1>4, <2>2, KeptDisconnect DEF ResumeInv
<1>5. CASE UNCHANGED vars
  <2>1. UNCHANGED <<local, toServer, file, cpc, resume, want, at, result, spc, from, broken>>
    BY <1>5 DEF vars, client, server
  <2> QED
    BY <1>0, <2>1 DEF ResumeInv, Kept, Room, Have, Mine, Untouched, Asked, Agreed, AskedWhole
<1> QED
  BY <1>1, <1>2, <1>3, <1>4, <1>5 DEF Next

LEMMA ResumeInvResumes ==
  ASSUME ResumeInv
  PROVE  SmallResumes
<1> SUFFICES ASSUME NEW t \in Transfers, Total(file[t]) <= Threshold, InStep(t), file[t] \in broken
             PROVE  from[t] = Len(Mine(t))
  BY DEF SmallResumes, Resumes
<1>1. local[file[t]] \in Seq(Chunks) /\ Len(local[file[t]]) > 0
  BY DEF ResumeInv, Kept
<1>2. resume[t] = Have(file[t]) /\ Have(file[t]) = Len(Mine(t))
  BY <1>1, MarksAssumption DEF ResumeInv, Room, InStep, Have, Mine
<1>3. Len(toServer) = 0
  BY DEF InStep
<1> QED
  BY <1>1, <1>2, <1>3 DEF ResumeInv, Asked, InStep, Mine

\* A download of a small file that a lost connection cut off resumes where it
\* broke, whatever was left unread in the connections before and since, in a
\* session whose downloads follow each other: of two handlers at once, either may
\* read the offset meant for the other (client_file_transfer.c:127-162, 294-339,
\* file_transfer.c:163-213).
THEOREM InterruptedSmallResumes ==
  (\A t, u \in Transfers : t = u) => (Spec => []SmallResumes)
<1> SUFFICES ASSUME Alone PROVE Spec => []SmallResumes
  BY DEF Alone
<1>1. ResumeInv /\ [Next]_vars => ResumeInv'
  BY ResumeNext
<1>2. Spec => []ResumeInv
  BY <1>1, ResumeInit, PTL DEF Spec
<1> QED
  BY <1>2, ResumeInvResumes, PTL

-----------------------------------------------------------------------------
(* Answers *)

\* What handle_gets sends, from the name to the hash, and the form of the chunks.
Framed(t) == Left(t) <= Threshold
Form(t) == IF Framed(t) THEN "framed" ELSE "raw"
AnswerLength(t) == IF Left(t) = 0 THEN 3 ELSE IF Framed(t) THEN Left(t) + 5 ELSE Left(t) + 4
AnswerAt(t, i) ==
  IF i = 1 THEN Msg("name", file[t])
  ELSE IF i = 2 THEN Msg("size", Left(t))
  ELSE IF i = 3 THEN Msg("size", Total(file[t]))
  ELSE IF i <= Left(t) + 3
    THEN Msg(IF Framed(t) THEN "frame" ELSE "raw", Content[file[t]][from[t] + (i - 3)])
  ELSE IF i = Left(t) + 4 /\ Framed(t) THEN Msg("end", 0)
  ELSE Msg("sha", Content[file[t]])

\* How many of these the handler has sent and the thread has read, by their places.
Produced(t) ==
  CASE spc[t] = "name" -> 0
    [] spc[t] = "remaining" -> 1
    [] spc[t] = "total" -> 2
    [] spc[t] \in {"raw", "framed"} -> 3 + sent[t] - from[t]
    [] spc[t] = "sha" -> AnswerLength(t) - 1
    [] spc[t] = "idle" -> AnswerLength(t)
Consumed(t) ==
  CASE cpc[t] = "name" -> 0
    [] cpc[t] = "remaining" -> 1
    [] cpc[t] = "total" -> 2
    [] cpc[t] \in {"raw", "framed"} -> 3 + at[t] - from[t]
    [] cpc[t] = "sha" -> AnswerLength(t) - 1

\* The handler and the thread are in the same answer, each with what it needs to go
\* on, and what is in the connection is what one has sent and the other not read.
Served(t) ==
  /\ from[t] <= Total(file[t])
  /\ spc[t] \in Sending \cup {"idle"}
  /\ spc[t] \in {"raw", "framed"} => spc[t] = Form(t) /\ sent[t] \in from[t] .. Total(file[t])
  /\ spc[t] \in {"raw", "framed", "sha"} => Left(t) > 0
Received(t) ==
  /\ aligned /\ result[t] = "none" /\ cpc[t] \in {"name", "remaining", "total", "raw", "framed", "sha"}
  /\ cpc[t] \in {"name", "remaining", "total"} => Agreed(t)
  /\ cpc[t] = "total" => rest[t] = Left(t)
  /\ cpc[t] \in Receiving => Left(t) > 0 /\ want[t] = Total(file[t])
  /\ cpc[t] \in {"raw", "framed"} => /\ cpc[t] = Form(t) /\ at[t] \in from[t] .. Total(file[t])
                                     /\ \A i \in 1 .. at[t] : Mine(t)[i] = Content[file[t]][i]
  /\ cpc[t] = "sha" => Prefix(Mine(t), want[t]) = Content[file[t]]
Fed(t) ==
  /\ Len(toClient) = Produced(t) - Consumed(t)
  /\ \A i \in 1 .. Len(toClient) : toClient[i] = AnswerAt(t, Consumed(t) + i)
OnCourse(t) == SameFraming(t) /\ Served(t) /\ Received(t) /\ Fed(t)

\* Steps until the end, one of which may be the handler's without a message.
StepsLeft(t) ==
  (AnswerLength(t) - Produced(t)) + (AnswerLength(t) - Consumed(t))
    + (IF spc[t] \in {"sha", "idle"} THEN 0 ELSE 1)

LEMMA AnswerIs ==
  ASSUME Typed, NEW t \in Transfers, from[t] <= Total(file[t])
  PROVE  /\ Left(t) \in Nat /\ Total(file[t]) = from[t] + Left(t) /\ from[t] \in Nat
         /\ AnswerLength(t) = IF Left(t) = 0 THEN 3 ELSE IF Framed(t) THEN Left(t) + 5 ELSE Left(t) + 4
         /\ AnswerAt(t, 1) = Msg("name", file[t])
         /\ AnswerAt(t, 2) = Msg("size", Left(t))
         /\ AnswerAt(t, 3) = Msg("size", Total(file[t]))
         /\ \A i \in 1 .. Left(t) :
              AnswerAt(t, 3 + i) = Msg(IF Framed(t) THEN "frame" ELSE "raw", Content[file[t]][from[t] + i])
         /\ Framed(t) => AnswerAt(t, Left(t) + 4) = Msg("end", 0)
         /\ Left(t) > 0 => AnswerAt(t, AnswerLength(t)) = Msg("sha", Content[file[t]])
<1>1. Left(t) \in Nat /\ Total(file[t]) = from[t] + Left(t) /\ from[t] \in Nat
  BY ContentTyped DEF Typed, Left
<1>2. AnswerAt(t, 1) = Msg("name", file[t])
  BY DEF AnswerAt
<1>3. AnswerAt(t, 2) = Msg("size", Left(t))
  BY DEF AnswerAt
<1>4. AnswerAt(t, 3) = Msg("size", Total(file[t]))
  BY DEF AnswerAt
<1>5. ASSUME NEW i \in 1 .. Left(t)
      PROVE  AnswerAt(t, 3 + i) = Msg(IF Framed(t) THEN "frame" ELSE "raw", Content[file[t]][from[t] + i])
  <2>1. 3 + i <= Left(t) + 3 /\ 3 + i # 1 /\ 3 + i # 2 /\ 3 + i # 3 /\ (3 + i) - 3 = i
    BY <1>1
  <2> QED
    BY <2>1 DEF AnswerAt
<1>6. ASSUME Framed(t) PROVE AnswerAt(t, Left(t) + 4) = Msg("end", 0)
  <2>1. /\ ~ (Left(t) + 4 <= Left(t) + 3)
        /\ Left(t) + 4 # 1 /\ Left(t) + 4 # 2 /\ Left(t) + 4 # 3
    BY <1>1
  <2> QED
    BY <1>6, <2>1 DEF AnswerAt
<1>7. ASSUME Left(t) > 0 PROVE AnswerAt(t, AnswerLength(t)) = Msg("sha", Content[file[t]])
  <2>1. /\ ~ (AnswerLength(t) <= Left(t) + 3)
        /\ AnswerLength(t) # 1 /\ AnswerLength(t) # 2 /\ AnswerLength(t) # 3
        /\ ~ (AnswerLength(t) = Left(t) + 4 /\ Framed(t))
    BY <1>1, <1>7 DEF AnswerLength
  <2> QED
    BY <2>1 DEF AnswerAt
<1> QED
  BY <1>1, <1>2, <1>3, <1>4, <1>5, <1>6, <1>7 DEF AnswerLength

LEMMA SameAnswer ==
  ASSUME NEW t \in Transfers, UNCHANGED <<file, from>>
  PROVE  /\ Left(t)' = Left(t) /\ Framed(t)' = Framed(t) /\ Form(t)' = Form(t)
         /\ AnswerLength(t)' = AnswerLength(t) /\ SameFraming(t)' = SameFraming(t)
         /\ \A i : AnswerAt(t, i)' = AnswerAt(t, i)
<1>1. Left(t)' = Left(t)
  BY DEF Left
<1>2. Framed(t)' = Framed(t)
  BY <1>1 DEF Framed
<1> QED
  BY <1>1, <1>2 DEF Form, AnswerLength, SameFraming, AnswerAt

\* A message sent is read when those before it have been read.
LEMMA FedAppend ==
  ASSUME NEW t \in Transfers, toClient \in Seq(Messages), Fed(t), UNCHANGED <<file, from>>,
         Produced(t) \in Int, Consumed(t) \in Int, Consumed(t)' = Consumed(t),
         NEW m \in Messages, m = AnswerAt(t, Produced(t) + 1),
         toClient' = Append(toClient, m), Produced(t)' = Produced(t) + 1
  PROVE  Fed(t)'
<1> DEFINE p == Produced(t)
           q == Consumed(t)
           n == Len(toClient)
<1>1. /\ n \in Nat /\ Len(toClient') = n + 1 /\ toClient'[n + 1] = m
      /\ \A j \in 1 .. n : toClient'[j] = toClient[j]
  OBVIOUS
<1>2. /\ n = p - q /\ \A j \in 1 .. n : toClient[j] = AnswerAt(t, q + j)
      /\ \A i : AnswerAt(t, i)' = AnswerAt(t, i)
  BY SameAnswer DEF Fed
<1> SUFFICES /\ n + 1 = (p + 1) - q
             /\ \A j \in 1 .. n + 1 : toClient'[j] = AnswerAt(t, q + j)
  BY <1>1, <1>2 DEF Fed
<1>3. q + (n + 1) = p + 1
  BY <1>1, <1>2
<1> HIDE DEF p, q, n
<1>4. ASSUME NEW j \in 1 .. n + 1 PROVE toClient'[j] = AnswerAt(t, q + j)
  <2>1. j \in 1 .. n \/ j = n + 1
    BY <1>1
  <2> QED
    BY <1>1, <1>2, <1>3, <2>1 DEF p
<1> QED
  BY <1>1, <1>2, <1>4 DEF p, q

LEMMA FedTail ==
  ASSUME NEW t \in Transfers, toClient \in Seq(Messages), Fed(t), UNCHANGED <<file, from>>,
         Produced(t) \in Int, Consumed(t) \in Int, Produced(t)' = Produced(t),
         toClient # <<>>, toClient' = Tail(toClient), Consumed(t)' = Consumed(t) + 1
  PROVE  Fed(t)'
<1> DEFINE p == Produced(t)
           q == Consumed(t)
           n == Len(toClient)
<1>1. /\ n \in Nat \ {0} /\ Len(toClient') = n - 1
      /\ \A j \in 1 .. n - 1 : toClient'[j] = toClient[j + 1]
  OBVIOUS
<1>2. /\ n = p - q /\ \A j \in 1 .. n : toClient[j] = AnswerAt(t, q + j)
      /\ \A i : AnswerAt(t, i)' = AnswerAt(t, i)
  BY SameAnswer DEF Fed
<1> SUFFICES /\ n - 1 = p - (q + 1)
             /\ \A j \in 1 .. n - 1 : toClient'[j] = AnswerAt(t, (q + 1) + j)
  BY <1>1, <1>2 DEF Fed
<1>3. p \in Int /\ q \in Int
  OBVIOUS
<1> HIDE DEF p, q, n
<1>4. ASSUME NEW j \in 1 .. n - 1 PROVE toClient'[j] = AnswerAt(t, (q + 1) + j)
  <2>1. j + 1 \in 1 .. n /\ q + (j + 1) = (q + 1) + j
    BY <1>1, <1>3
  <2> QED
    BY <1>1, <1>2, <2>1
<1> QED
  BY <1>1, <1>2, <1>3, <1>4


LEMMA OnCourseBounds ==
  ASSUME Typed, NEW t \in Transfers, OnCourse(t)
  PROVE  /\ Produced(t) \in 0 .. AnswerLength(t) /\ Consumed(t) \in 0 .. AnswerLength(t) - 1
         /\ AnswerLength(t) \in Nat /\ StepsLeft(t) \in Nat
<1>1. /\ Left(t) \in Nat /\ Total(file[t]) = from[t] + Left(t) /\ from[t] \in Nat
      /\ AnswerLength(t) = IF Left(t) = 0 THEN 3 ELSE IF Framed(t) THEN Left(t) + 5 ELSE Left(t) + 4
  BY AnswerIs DEF OnCourse, Served
<1>2. Framed(t) \in BOOLEAN
  BY DEF Framed
<1>3. AnswerLength(t) \in Nat /\ AnswerLength(t) >= 3 /\ AnswerLength(t) >= Left(t) + 3
      /\ (Left(t) > 0 => AnswerLength(t) >= Left(t) + 4)
  BY <1>1, <1>2
<1>4. Produced(t) \in 0 .. AnswerLength(t)
  <2>1. spc[t] \in {"raw", "framed"} => sent[t] \in from[t] .. from[t] + Left(t)
    BY <1>1 DEF OnCourse, Served
  <2> QED
    BY <1>1, <1>3, <2>1 DEF OnCourse, Served, Sending, Produced
<1>5. Consumed(t) \in 0 .. AnswerLength(t) - 1
  <2>1. cpc[t] \in {"raw", "framed"} => at[t] \in from[t] .. from[t] + Left(t)
    BY <1>1 DEF OnCourse, Received
  <2>2. cpc[t] \in {"raw", "framed"} => Left(t) > 0
    BY DEF OnCourse, Received, Receiving
  <2> QED
    BY <1>1, <1>3, <2>1, <2>2 DEF OnCourse, Received, Consumed
<1> QED
  BY <1>3, <1>4, <1>5 DEF StepsLeft

\* The handler sends what comes next.
LEMMA OnCourseServer ==
  ASSUME Typed, NEW t \in Transfers, OnCourse(t), ServerStep(t)
  PROVE  OnCourse(t)' /\ StepsLeft(t)' \in Nat /\ StepsLeft(t)' < StepsLeft(t)
<1> DEFINE p == Produced(t)
           q == Consumed(t)
           n == AnswerLength(t)
<1>0. /\ Left(t) \in Nat /\ Total(file[t]) = from[t] + Left(t) /\ from[t] \in Nat /\ sent[t] \in Nat
      /\ n = IF Left(t) = 0 THEN 3 ELSE IF Framed(t) THEN Left(t) + 5 ELSE Left(t) + 4
      /\ toClient \in Seq(Messages) /\ spc[t] \in Sending \cup {"idle"}
  BY AnswerIs DEF OnCourse, Served, Typed
<1>1. ~ TakeOffset(t) /\ ~ TakeHash(t)
  BY <1>0 DEF TakeOffset, TakeHash, Sending
<1>2. /\ UNCHANGED <<local, aligned, file, cpc, resume, rest, want, at, from, result>>
      /\ DOMAIN spc = Transfers /\ DOMAIN sent = Transfers
  <2>1. UNCHANGED from
    BY <1>1 DEF ServerStep, SendName, SendRemaining, SendTotal, SendChunk, SendEnd, SendSha
  <2> QED
    BY <2>1, ServerFrame DEF Typed
<1>3. /\ Left(t)' = Left(t) /\ Form(t)' = Form(t) /\ AnswerLength(t)' = n /\ Framed(t)' = Framed(t)
      /\ SameFraming(t)' = SameFraming(t) /\ \A j : AnswerAt(t, j)' = AnswerAt(t, j)
  BY <1>2, SameAnswer
<1>4. Consumed(t)' = q /\ Received(t)'
  BY <1>2, <1>3 DEF OnCourse, Consumed, Received, Agreed, Mine
<1>5. p \in 0 .. n /\ q \in 0 .. n - 1 /\ n \in Nat
  BY OnCourseBounds
<1>6. ASSUME NEW m \in Messages, m = AnswerAt(t, p + 1), toClient' = Append(toClient, m),
             Produced(t)' = p + 1, Served(t)', p + 1 <= n,
             spc[t] \in {"sha", "idle"} => spc'[t] \in {"sha", "idle"}
      PROVE  OnCourse(t)' /\ StepsLeft(t)' \in Nat /\ StepsLeft(t)' < StepsLeft(t)
  <2>1. Fed(t)'
    BY <1>0, <1>2, <1>4, <1>5, <1>6, FedAppend DEF OnCourse
  <2>2. OnCourse(t)'
    BY <1>3, <1>4, <1>6, <2>1 DEF OnCourse
  <2>3. /\ StepsLeft(t) = (n - p) + (n - q) + (IF spc[t] \in {"sha", "idle"} THEN 0 ELSE 1)
        /\ StepsLeft(t)' = (n - (p + 1)) + (n - q) + (IF spc'[t] \in {"sha", "idle"} THEN 0 ELSE 1)
    BY <1>3, <1>4, <1>6 DEF StepsLeft
  <2> HIDE DEF p, q, n
  <2> QED
    BY <1>5, <1>6, <2>2, <2>3
<1>7. CASE SendName(t)
  <2>1. /\ toClient' = Append(toClient, Msg("name", file[t])) /\ spc'[t] = "remaining" /\ p = 0
        /\ Produced(t)' = 1 /\ spc[t] = "name"
    BY <1>2, <1>7 DEF SendName, Send, ServerGoto, Produced
  <2>2. Msg("name", file[t]) \in Messages /\ Msg("name", file[t]) = AnswerAt(t, 1)
    BY AnswerIs DEF Typed, Msg, Messages, OnCourse, Served
  <2>3. Served(t)'
    BY <1>2, <2>1 DEF OnCourse, Served, Sending
  <2> QED
    BY <1>0, <1>6, <2>1, <2>2, <2>3
<1>8. CASE SendRemaining(t)
  <2>1. /\ toClient' = Append(toClient, Msg("size", Left(t))) /\ spc'[t] = "total" /\ p = 1
        /\ Produced(t)' = 2 /\ spc[t] = "remaining"
    BY <1>2, <1>8 DEF SendRemaining, Send, ServerGoto, Produced
  <2>2. Msg("size", Left(t)) \in Messages /\ Msg("size", Left(t)) = AnswerAt(t, 2)
    BY <1>0, AnswerIs DEF Msg, Messages, OnCourse, Served
  <2>3. Served(t)'
    BY <1>2, <2>1 DEF OnCourse, Served, Sending
  <2> QED
    BY <1>0, <1>6, <2>1, <2>2, <2>3
<1>9. CASE SendTotal(t)
  <2>1. /\ toClient' = Append(toClient, Msg("size", Total(file[t]))) /\ sent'[t] = from[t]
        /\ spc'[t] = IF Left(t) = 0 THEN "idle" ELSE IF Left(t) > Threshold THEN "raw" ELSE "framed"
        /\ p = 2 /\ spc[t] = "total"
    BY <1>2, <1>9 DEF SendTotal, Send, ServerGoto, Produced
  <2>2. Msg("size", Total(file[t])) \in Messages /\ Msg("size", Total(file[t])) = AnswerAt(t, 3)
    BY <1>0, AnswerIs DEF Msg, Messages, OnCourse, Served
  <2>3. spc'[t] = IF Left(t) = 0 THEN "idle" ELSE Form(t)
    BY <1>0, <2>1, ThresholdAssumption DEF Form, Framed
  <2>4. Served(t)'
    BY <1>0, <1>2, <1>3, <2>1, <2>3 DEF OnCourse, Served, Sending
  <2>5. Produced(t)' = 3
    <3>1. CASE Left(t) = 0
      BY <1>0, <1>3, <2>3, <3>1 DEF Produced
    <3>2. CASE Left(t) # 0
      <4>1. spc'[t] \in {"raw", "framed"}
        BY <2>3, <3>2 DEF Form
      <4> QED
        BY <1>0, <1>2, <2>1, <4>1 DEF Produced
    <3> QED
      BY <3>1, <3>2
  <2> QED
    BY <1>0, <1>6, <2>1, <2>2, <2>4, <2>5
<1>10. CASE SendChunk(t)
  <2> DEFINE k == sent[t] - from[t] + 1
             m == Msg(IF spc[t] = "raw" THEN "raw" ELSE "frame", Content[file[t]][sent[t] + 1])
  <2>1. /\ toClient' = Append(toClient, m) /\ spc' = spc /\ sent'[t] = sent[t] + 1
        /\ spc[t] \in {"raw", "framed"} /\ sent[t] < Total(file[t])
    BY <1>2, <1>10 DEF SendChunk, Send
  <2>2. spc[t] = Form(t) /\ sent[t] \in from[t] .. Total(file[t])
    BY <2>1 DEF OnCourse, Served
  <2>3. k \in 1 .. Left(t) /\ from[t] + k = sent[t] + 1
    BY <1>0, <2>1, <2>2
  <2>4. p = 3 + sent[t] - from[t] /\ Produced(t)' = 3 + sent'[t] - from[t]
    BY <1>2, <2>1 DEF Produced
  <2>5. p + 1 = 3 + k /\ Produced(t)' = p + 1
    BY <1>0, <2>1, <2>4
  <2>6. m = AnswerAt(t, p + 1)
    <3>1. (IF spc[t] = "raw" THEN "raw" ELSE "frame") = IF Framed(t) THEN "frame" ELSE "raw"
      BY <2>2 DEF Form
    <3> HIDE DEF k
    <3>2. AnswerAt(t, 3 + k) = Msg(IF Framed(t) THEN "frame" ELSE "raw", Content[file[t]][from[t] + k])
      BY <2>3, AnswerIs DEF OnCourse, Served
    <3> QED
      BY <2>3, <2>5, <3>1, <3>2
  <2>7. m \in Messages
    <3>1. Content[file[t]] \in Seq(Chunks) /\ sent[t] + 1 \in 1 .. Len(Content[file[t]])
      BY <1>0, <2>1, ContentTyped DEF Typed, Total
    <3>2. Content[file[t]][sent[t] + 1] \in Chunks
      BY <3>1
    <3> QED
      BY <3>2 DEF Msg, Messages
  <2>8. Served(t)'
    BY <1>0, <1>2, <1>3, <2>1, <2>2 DEF OnCourse, Served
  <2>9. p + 1 <= n
    BY <1>0, <2>3, <2>5
  <2> HIDE DEF m, k, p, n
  <2> QED
    BY <1>6, <2>1, <2>5, <2>6, <2>7, <2>8, <2>9
<1>11. CASE SendEnd(t)
  <2>1. /\ spc[t] \in {"raw", "framed"} /\ sent[t] = Total(file[t]) /\ spc'[t] = "sha" /\ sent' = sent
        /\ IF spc[t] = "framed" THEN toClient' = Append(toClient, Msg("end", 0)) ELSE toClient' = toClient
    BY <1>2, <1>11 DEF SendEnd, Send, ServerGoto
  <2>2. /\ spc[t] = Form(t) /\ Left(t) > 0
    BY <2>1 DEF OnCourse, Served
  <2>3. p = Left(t) + 3 /\ Produced(t)' = n - 1
    BY <1>0, <1>3, <2>1 DEF Produced
  <2>4. Served(t)'
    BY <1>2, <1>3, <2>1, <2>2 DEF OnCourse, Served, Sending
  <2>5. CASE Framed(t)
    <3>1. spc[t] = "framed" /\ p + 1 = Left(t) + 4 /\ n = Left(t) + 5
      BY <1>0, <2>2, <2>3, <2>5 DEF Form
    <3>2. Msg("end", 0) \in Messages /\ Msg("end", 0) = AnswerAt(t, p + 1)
      BY <2>5, <3>1, AnswerIs DEF Msg, Messages, OnCourse, Served
    <3>3. Produced(t)' = p + 1 /\ p + 1 <= n
      BY <1>0, <2>3, <3>1
    <3> HIDE DEF p, n
    <3> QED
      BY <1>6, <2>1, <2>4, <3>1, <3>2, <3>3
  <2>6. CASE ~ Framed(t)
    <3>1. spc[t] = "raw" /\ n = Left(t) + 4 /\ Produced(t)' = p
      BY <1>0, <2>2, <2>3, <2>6 DEF Form
    <3>2. toClient' = toClient
      BY <2>1, <3>1
    <3>3. Fed(t)'
      BY <1>3, <1>4, <3>1, <3>2 DEF OnCourse, Fed
    <3>4. OnCourse(t)'
      BY <1>3, <1>4, <2>4, <3>3 DEF OnCourse
    <3>5. StepsLeft(t) = (n - p) + (n - q) + 1 /\ StepsLeft(t)' = (n - p) + (n - q) + 0
      BY <1>3, <1>4, <2>1, <3>1 DEF StepsLeft
    <3> HIDE DEF p, q, n
    <3> QED
      BY <1>5, <3>4, <3>5
  <2> QED
    BY <2>5, <2>6
<1>12. CASE SendSha(t)
  <2>1. /\ toClient' = Append(toClient, Msg("sha", Content[file[t]])) /\ spc'[t] = "idle" /\ p = n - 1
        /\ Produced(t)' = n /\ spc[t] = "sha"
    BY <1>2, <1>3, <1>12 DEF SendSha, Send, ServerGoto, Produced
  <2>2. Msg("sha", Content[file[t]]) \in Messages /\ Msg("sha", Content[file[t]]) = AnswerAt(t, n)
    <3>1. Left(t) > 0 /\ file[t] \in Files
      BY <2>1 DEF OnCourse, Served, Typed
    <3> QED
      BY <3>1, AnswerIs, ContentTyped DEF Msg, Messages, OnCourse, Served
  <2>3. Served(t)'
    BY <1>2, <2>1 DEF OnCourse, Served
  <2>4. p + 1 = n
    BY <1>5, <2>1
  <2> HIDE DEF p, n
  <2> QED
    BY <1>5, <1>6, <2>1, <2>2, <2>3, <2>4
<1> QED
  BY <1>1, <1>7, <1>8, <1>9, <1>10, <1>11, <1>12 DEF ServerStep

\* The end of a download on course, for good or by a failure.
EndedWell(t) == result[t] \in {"verified", "exists", "abandoned", "lost"} \/ spc[t] = "gone"

\* The thread finds what it waits for.
LEMMA OnCourseHead ==
  ASSUME Typed, NEW t \in Transfers, OnCourse(t), toClient # <<>>
  PROVE  Head(toClient) = AnswerAt(t, Consumed(t) + 1)
<1>1. Len(toClient) \in Nat \ {0} /\ Head(toClient) = toClient[1]
  BY DEF Typed
<1> QED
  BY <1>1 DEF OnCourse, Fed

LEMMA OnCourseStarts ==
  ASSUME ResumeInv, NEW t \in Transfers, InStep(t), SameFraming(t)
  PROVE  OnCourse(t)
<1>1. /\ Typed /\ from[t] <= Total(file[t]) /\ spc[t] = "name" /\ cpc[t] = "name"
      /\ aligned /\ Len(toServer) = 0 /\ Len(toClient) = 0 /\ resume[t] \in Nat
      /\ result[t] = "none"
  BY DEF ResumeInv, Inv, Typed, Started, Sending, InStep, Room
<1>2. Agreed(t)
  <2>1. CASE resume[t] > 0
    BY <1>1, <2>1 DEF ResumeInv, Asked
  <2>2. CASE resume[t] = 0
    BY <1>1, <2>2 DEF ResumeInv, AskedWhole, Agreed
  <2> QED
    BY <1>1, <2>1, <2>2
<1>3. Produced(t) = 0 /\ Consumed(t) = 0
  BY <1>1 DEF Produced, Consumed
<1> QED
  BY <1>1, <1>2, <1>3 DEF OnCourse, Served, Sending, Received, Receiving, Fed

\* It reads on, and has in its file what it has read.
LEMMA OnCourseClient ==
  ASSUME ResumeInv, NEW t \in Transfers, OnCourse(t), ClientStep(t)
  PROVE  EndedWell(t)' \/ (OnCourse(t)' /\ StepsLeft(t)' \in Nat /\ StepsLeft(t)' < StepsLeft(t))
<1> DEFINE p == Produced(t)
           q == Consumed(t)
           n == AnswerLength(t)
           h == Head(toClient)
           c == Content[file[t]]
           T == Total(file[t])
<1>0. /\ Left(t) \in Nat /\ T = from[t] + Left(t) /\ from[t] \in Nat /\ T \in Nat
      /\ n = IF Left(t) = 0 THEN 3 ELSE IF Framed(t) THEN Left(t) + 5 ELSE Left(t) + 4
      /\ toClient \in Seq(Messages) /\ Typed /\ Started /\ Room(t) /\ file[t] \in Files
      /\ c \in Seq(Chunks) /\ T = Len(c) /\ Framed(t) \in BOOLEAN
  <2>1. Typed /\ Started /\ Room(t) /\ toClient \in Seq(Messages) /\ file[t] \in Files
    BY DEF ResumeInv, Inv, Typed
  <2>2. c \in Seq(Chunks) /\ T = Len(c) /\ T \in Nat
    BY <2>1, ContentTyped DEF Total
  <2>3. from[t] <= T
    BY DEF OnCourse, Served
  <2> QED
    BY <2>1, <2>2, <2>3, AnswerIs DEF Framed
<1>1. /\ UNCHANGED <<toServer, file, spc, from, sent>>
      /\ DOMAIN cpc = Transfers /\ DOMAIN rest = Transfers /\ DOMAIN want = Transfers
      /\ DOMAIN at = Transfers /\ DOMAIN result = Transfers /\ DOMAIN local = Files
  BY <1>0, ClientFrame DEF Typed
<1>2. toClient # <<>> /\ toClient' = Tail(toClient)
  BY DEF ClientStep, TakeName, TakeRemaining, TakeTotalDone, TakeTotal, TakeRaw, TakeFrame, TakeEnd,
         TakeSha, TakeWrong, TakeGarbage, Take
<1>3. /\ Left(t)' = Left(t) /\ Form(t)' = Form(t) /\ AnswerLength(t)' = n /\ Framed(t)' = Framed(t)
      /\ SameFraming(t)' = SameFraming(t) /\ \A j : AnswerAt(t, j)' = AnswerAt(t, j)
  BY <1>1, SameAnswer
<1>4. Produced(t)' = p /\ Served(t)'
  BY <1>1, <1>3 DEF OnCourse, Produced, Served
<1>5. p \in 0 .. n /\ q \in 0 .. n - 1 /\ n \in Nat
  BY <1>0, OnCourseBounds
<1>6. h = AnswerAt(t, q + 1)
  BY <1>0, <1>2, OnCourseHead
<1>7. ASSUME Consumed(t)' = q + 1, Received(t)', q + 1 <= n
      PROVE  OnCourse(t)' /\ StepsLeft(t)' \in Nat /\ StepsLeft(t)' < StepsLeft(t)
  <2>1. Fed(t)'
    BY <1>0, <1>1, <1>2, <1>4, <1>5, <1>7, FedTail DEF OnCourse
  <2>2. OnCourse(t)'
    BY <1>3, <1>4, <1>7, <2>1 DEF OnCourse
  <2>3. /\ StepsLeft(t) = (n - p) + (n - q) + (IF spc[t] \in {"sha", "idle"} THEN 0 ELSE 1)
        /\ StepsLeft(t)' = (n - p) + (n - (q + 1)) + (IF spc[t] \in {"sha", "idle"} THEN 0 ELSE 1)
    BY <1>1, <1>3, <1>4, <1>7 DEF StepsLeft
  <2> HIDE DEF p, q, n
  <2> QED
    BY <1>5, <1>7, <2>2, <2>3
<1>8. aligned /\ result[t] = "none" /\ cpc[t] \in {"name", "remaining", "total", "raw", "framed", "sha"}
  BY DEF OnCourse, Received
<1>9. CASE cpc[t] = "name"
  <2>1. h = Msg("name", file[t]) /\ q = 0
    BY <1>0, <1>6, <1>9, AnswerIs DEF Consumed, OnCourse, Served
  <2>2. h.kind = "name" /\ h.val = file[t]
    BY <2>1 DEF Msg
  <2>3. TakeName(t)
    BY <1>8, <1>9, <2>2 DEF ClientStep, TakeRemaining, TakeTotalDone, TakeTotal, TakeRaw, TakeFrame,
                            TakeEnd, TakeSha, TakeWrong, TakeGarbage, Take
  <2>4. /\ cpc'[t] = "remaining" /\ aligned' = aligned /\ local' = local /\ resume' = resume
        /\ result' = result
    BY <1>1, <2>3 DEF TakeName, Take, ClientGoto
  <2>5. Received(t)' /\ Consumed(t)' = 1
    BY <1>1, <1>8, <1>9, <2>4 DEF OnCourse, Received, Receiving, Agreed, Mine, Consumed
  <2> QED
    BY <1>5, <1>7, <2>1, <2>5
<1>10. CASE cpc[t] = "remaining"
  <2>1. h = Msg("size", Left(t)) /\ q = 1
    BY <1>0, <1>6, <1>10, AnswerIs DEF Consumed, OnCourse, Served
  <2>2. h.kind = "size" /\ h.val = Left(t)
    BY <2>1 DEF Msg
  <2>3. TakeRemaining(t)
    BY <1>8, <1>10, <2>2 DEF ClientStep, TakeName, TakeTotalDone, TakeTotal, TakeRaw, TakeFrame,
                             TakeEnd, TakeSha, TakeWrong, TakeGarbage, Take
  <2>4. /\ cpc'[t] = "total" /\ aligned' = aligned /\ local' = local /\ resume' = resume
        /\ rest'[t] = Left(t) /\ result' = result
    BY <1>1, <2>2, <2>3 DEF TakeRemaining, Take, ClientGoto
  <2>5. Received(t)' /\ Consumed(t)' = 2
    BY <1>1, <1>3, <1>8, <1>10, <2>4 DEF OnCourse, Received, Receiving, Agreed, Mine, Consumed
  <2> QED
    BY <1>0, <1>7, <2>1, <2>5
<1>11. CASE cpc[t] = "total"
  <2>1. h = Msg("size", T) /\ q = 2
    BY <1>0, <1>6, <1>11, AnswerIs DEF Consumed, OnCourse, Served
  <2>2. h.kind = "size" /\ h.val = T
    BY <2>1 DEF Msg
  <2>3. TakeTotalDone(t) \/ TakeTotal(t)
    BY <1>8, <1>11, <2>2 DEF ClientStep, TakeName, TakeRemaining, TakeRaw, TakeFrame,
                             TakeEnd, TakeSha, TakeWrong, TakeGarbage, Take
  <2>4. CASE TakeTotalDone(t)
    <3>1. result'[t] = "exists"
      BY <1>1, <2>4 DEF TakeTotalDone, Return
    <3> QED
      BY <3>1 DEF EndedWell
  <2>5. CASE TakeTotal(t)
    <3>1. PICK large \in BOOLEAN :
            /\ Plan(t, rest[t] # T, large)
            /\ cpc' = [cpc EXCEPT ![t] = IF large THEN "raw" ELSE "framed"]
      BY <2>2, <2>5 DEF TakeTotal, ClientGoto
    <3>2. rest[t] = Left(t) /\ Left(t) > 0 /\ aligned' = aligned /\ result' = result
      BY <1>0, <1>11, <2>5 DEF OnCourse, Received, TakeTotal, Take
    <3> DEFINE kept == IF from[t] = 0 THEN <<>> ELSE Mine(t)
    <3>3. /\ large = (T > Threshold) /\ want'[t] = T /\ at'[t] = from[t]
          /\ local' = [local EXCEPT ![file[t]] = IF large THEN Resized(kept, T) ELSE kept]
          /\ from[t] # 0 => Mine(t) # Absent /\ resume[t] = from[t]
      <4>1. CASE from[t] = 0
        <5>1. ~ (rest[t] # T)
          BY <1>0, <3>2, <4>1
        <5>2. /\ large = (rest[t] + 0 > Threshold) /\ want' = [want EXCEPT ![t] = rest[t] + 0]
              /\ at' = [at EXCEPT ![t] = 0]
              /\ local' = [local EXCEPT ![file[t]] = IF large THEN Resized(<<>>, rest[t] + 0) ELSE <<>>]
          BY <3>1, <5>1 DEF Plan, SetMine
        <5>3. rest[t] + 0 = T
          BY <1>0, <3>2, <4>1
        <5> QED
          BY <1>1, <4>1, <5>2, <5>3
      <4>2. CASE from[t] # 0
        <5>1. (rest[t] # T) /\ resume[t] = from[t]
          BY <1>0, <1>11, <3>2, <4>2 DEF OnCourse, Received, Agreed
        <5>2. rest[t] + resume[t] = T
          BY <1>0, <3>2, <5>1
        <5>3. /\ large = (rest[t] + resume[t] > Threshold)
              /\ want' = [want EXCEPT ![t] = rest[t] + resume[t]]
              /\ at' = [at EXCEPT ![t] = resume[t]] /\ Mine(t) # Absent
              /\ local' = [local EXCEPT ![file[t]] =
                             IF large THEN Resized(Mine(t), rest[t] + resume[t]) ELSE Mine(t)]
          BY <3>1, <5>1 DEF Plan, SetMine
        <5> QED
          BY <1>1, <4>2, <5>1, <5>2, <5>3
      <4> QED
        BY <4>1, <4>2
    <3>4. /\ kept \in Seq(Chunks) /\ Len(kept) = from[t]
          /\ \A j \in 1 .. from[t] : kept[j] = c[j]
      <4>1. CASE from[t] = 0
        BY <1>0, <4>1
      <4>2. CASE from[t] # 0
        <5>1. Mine(t) \in Seq(Chunks) /\ resume[t] = Len(Mine(t))
          BY <1>0, <1>11, <3>3, <4>2 DEF Typed, Mine, Room, Have
        <5>2. Mine(t) = SubSeq(c, 1, from[t])
          BY <1>11, <4>2 DEF OnCourse, Received, Agreed, Prefix
        <5>3. \A j \in 1 .. from[t] : SubSeq(c, 1, from[t])[j] = c[j]
          BY <1>0
        <5> QED
          BY <3>3, <4>2, <5>1, <5>2, <5>3
      <4> QED
        BY <4>1, <4>2
    <3>5. Mine(t)' = IF large THEN Resized(kept, T) ELSE kept
      BY <1>0, <1>1, <3>3 DEF Mine
    <3> HIDE DEF kept
    <3>6. \A j \in 1 .. from[t] : Mine(t)'[j] = c[j]
      <4>1. CASE large
        <5>1. \A j \in 1 .. T : Resized(kept, T)[j] = IF j <= Len(kept) THEN kept[j] ELSE Hole
          BY <1>0, <3>4, ResizedIs
        <5> QED
          BY <1>0, <3>4, <3>5, <4>1, <5>1
      <4>2. CASE ~ large
        BY <3>4, <3>5, <4>2
      <4> QED
        BY <4>1, <4>2
    <3>7. cpc'[t] = Form(t)
      <4>1. large = ~ Framed(t)
        BY <1>0, <3>3, ThresholdAssumption DEF OnCourse, SameFraming, Framed
      <4> QED
        BY <1>1, <3>1, <4>1 DEF Form
    <3>8. Consumed(t)' = 3
      BY <1>0, <1>1, <3>3, <3>7 DEF Consumed, Form
    <3>9. Received(t)'
      <4>1. cpc'[t] \in {"raw", "framed"}
        BY <3>7 DEF Form
      <4>2. from[t] \in from[t] .. T
        BY <1>0
      <4> QED
        BY <1>1, <1>3, <1>8, <3>2, <3>3, <3>6, <3>7, <4>1, <4>2 DEF Received, Receiving
    <3> QED
      BY <1>0, <1>7, <2>1, <3>2, <3>8, <3>9
  <2> QED
    BY <2>3, <2>4, <2>5
<1>12. CASE cpc[t] \in {"raw", "framed"}
  <2> DEFINE i == at[t] + 1
             k == i - from[t]
  <2>1. /\ Left(t) > 0 /\ want[t] = T /\ cpc[t] = Form(t) /\ at[t] \in from[t] .. T
        /\ \A j \in 1 .. at[t] : Mine(t)[j] = c[j]
        /\ Mine(t) \in Seq(Chunks) /\ at[t] \in Nat
    BY <1>0, <1>12 DEF OnCourse, Received, Receiving, Started, Typed, Mine
  <2>2. q = 3 + at[t] - from[t]
    BY <1>12 DEF Consumed
  <2>3. at[t] < T => /\ k \in 1 .. Left(t) /\ from[t] + k = i /\ q + 1 = 3 + k /\ i \in 1 .. T
                     /\ c[i] \in Chunks /\ q + 1 < n
    <3>1. from[t] \in Nat /\ at[t] \in Nat /\ Left(t) \in Nat /\ T = from[t] + Left(t) /\ at[t] \in from[t] .. T
      BY <1>0, <2>1
    <3>2. n >= Left(t) + 4 /\ n \in Nat
      BY <1>0, <2>1
    <3>3. at[t] < T => /\ k \in 1 .. Left(t) /\ from[t] + k = i /\ q + 1 = 3 + k /\ i \in 1 .. T
                       /\ q + 1 < Left(t) + 4
      BY <2>2, <3>1
    <3>4. c \in Seq(Chunks) /\ T = Len(c)
      BY <1>0
    <3> HIDE DEF c, T, i, k, q, n
    <3>5. \A j \in 1 .. T : c[j] \in Chunks
      BY <3>4
    <3>6. at[t] < T => q + 1 < n
      <4>1. q + 1 < Left(t) + 4 => q + 1 \in Int
        BY <3>1, <2>2
      <4> QED
        BY <3>1, <3>2, <3>3, <4>1
    <3> QED
      BY <3>3, <3>5, <3>6
  <2>4. at[t] < T => h = Msg(IF Framed(t) THEN "frame" ELSE "raw", c[i])
    <3> SUFFICES ASSUME at[t] < T PROVE h = Msg(IF Framed(t) THEN "frame" ELSE "raw", c[i])
      OBVIOUS
    <3>1. k \in 1 .. Left(t) /\ from[t] + k = i /\ q + 1 = 3 + k
      BY <2>3
    <3> HIDE DEF k, q, i, h
    <3>2. AnswerAt(t, 3 + k) = Msg(IF Framed(t) THEN "frame" ELSE "raw", Content[file[t]][from[t] + k])
      BY <1>0, <3>1, AnswerIs DEF OnCourse, Served
    <3> QED
      BY <1>6, <3>1, <3>2
  \* A chunk that is written is the next of the server's file.
  <2>5. ASSUME at[t] < T, local' = [local EXCEPT ![file[t]] = Written(Mine(t), i, c[i])],
               Len(Mine(t)) >= at[t]
        PROVE  \A j \in 1 .. i : Mine(t)'[j] = c[j]
    <3>1. i \in 1 .. Len(Mine(t)) + 1 /\ i \in Nat
      BY <2>1, <2>5
    <3>2. Mine(t)' = Written(Mine(t), i, c[i])
      BY <1>0, <1>1, <2>5 DEF Mine
    <3>3. c[i] \in Chunks /\ Mine(t) \in Seq(Chunks) /\ Len(Mine(t)) \in Nat
      BY <2>1, <2>3, <2>5
    <3>4. \A j \in 1 .. i : j = i \/ j \in 1 .. at[t]
      BY <2>1
    <3> HIDE DEF i
    <3>5. /\ Len(Written(Mine(t), i, c[i])) = IF i > Len(Mine(t)) THEN i ELSE Len(Mine(t))
          /\ \A j \in 1 .. Len(Written(Mine(t), i, c[i])) :
               Written(Mine(t), i, c[i])[j] = IF j = i THEN c[i] ELSE Mine(t)[j]
      BY <3>1, <3>3, WrittenIs
    <3>6. Len(Written(Mine(t), i, c[i])) >= i /\ Len(Written(Mine(t), i, c[i])) \in Nat
      BY <3>1, <3>3, <3>5
    <3>7. \A j \in 1 .. i : j \in 1 .. Len(Written(Mine(t), i, c[i]))
      BY <3>1, <3>6
    <3> QED
      BY <2>1, <3>2, <3>4, <3>5, <3>7
  <2>6. CASE cpc[t] = "raw"
    <3>1. ~ Framed(t) /\ n = Left(t) + 4
      BY <1>0, <2>1, <2>6 DEF Form
    <3>2. at[t] < T /\ Len(Mine(t)) = T
      <4>1. at[t] < want[t] /\ Len(Mine(t)) = want[t]
        BY <1>0, <2>6 DEF Room
      <4> QED
        BY <2>1, <4>1
    <3>3. h.kind = "raw" /\ h.val = c[i]
      BY <2>4, <3>1, <3>2 DEF Msg
    <3>4. TakeRaw(t)
      BY <1>8, <2>6, <3>3 DEF ClientStep, TakeName, TakeRemaining, TakeTotalDone, TakeTotal, TakeFrame,
                              TakeEnd, TakeSha, TakeWrong, TakeGarbage, Take
    <3>5. /\ aligned' /\ local' = [local EXCEPT ![file[t]] = Written(Mine(t), i, c[i])]
          /\ at'[t] = i /\ cpc'[t] = (IF i = T THEN "sha" ELSE "raw") /\ want' = want
          /\ result' = result
      BY <1>1, <1>8, <2>1, <3>3, <3>4 DEF TakeRaw, SetMine, ClientGoto
    <3>6. \A j \in 1 .. i : Mine(t)'[j] = c[j]
      BY <1>0, <2>1, <2>5, <3>2, <3>5
    <3>7. CASE i = T
      <4>1. Room(t)'
        BY <1>0, RoomClient
      <4>2. Mine(t)' \in Seq(Chunks) /\ cpc'[t] = "sha" /\ T <= Len(Mine(t)')
        <5>1. Inv'
          BY InvNext DEF ResumeInv, Next
        <5>2. cpc'[t] = "sha"
          BY <3>5, <3>7
        <5> QED
          BY <1>1, <2>1, <3>5, <4>1, <5>1, <5>2 DEF Inv, Started, Receiving, Mine, Room
      <4>3. SubSeq(Mine(t)', 1, T) = c
        BY <1>0, <3>6, <3>7, <4>2
      <4>4. Received(t)'
        BY <1>1, <1>3, <1>8, <2>1, <3>5, <4>2, <4>3 DEF Received, Receiving, Prefix
      <4>5. Consumed(t)' = n - 1 /\ q + 1 = n - 1
        <5>1. Consumed(t)' = AnswerLength(t)' - 1
          BY <4>2 DEF Consumed
        <5>2. i = at[t] + 1 /\ at[t] \in Nat
          BY <2>1
        <5> QED
          BY <1>0, <1>3, <2>2, <3>1, <3>7, <5>1, <5>2
      <4> HIDE DEF q, n, p
      <4> QED
        BY <1>5, <1>7, <4>4, <4>5
    <3>8. CASE i # T
      <4>1. cpc'[t] = "raw" /\ i \in from[t] .. T
        BY <1>0, <2>1, <3>2, <3>5, <3>8
      <4>2. Received(t)'
        BY <1>1, <1>3, <1>8, <2>1, <2>6, <3>5, <3>6, <4>1 DEF Received, Receiving
      <4>3. Consumed(t)' = q + 1
        <5>1. Consumed(t)' = 3 + at'[t] - from[t]
          BY <1>1, <4>1 DEF Consumed
        <5>2. at'[t] = at[t] + 1 /\ at[t] \in Nat /\ from[t] \in Nat
          BY <1>0, <2>1, <3>5
        <5> QED
          BY <2>2, <5>1, <5>2
      <4> QED
        BY <1>5, <1>7, <4>2, <4>3
    <3> QED
      BY <3>7, <3>8
  <2>7. CASE cpc[t] = "framed"
    <3>1. Framed(t) /\ n = Left(t) + 5 /\ Len(Mine(t)) = at[t]
      BY <1>0, <2>1, <2>7 DEF Form, Room
    <3>2. CASE at[t] < T
      <4>1. h.kind = "frame" /\ h.val = c[i]
        BY <2>4, <3>1, <3>2 DEF Msg
      <4>2. TakeFrame(t)
        BY <1>8, <2>7, <4>1 DEF ClientStep, TakeName, TakeRemaining, TakeTotalDone, TakeTotal, TakeRaw,
                                TakeEnd, TakeSha, TakeWrong, TakeGarbage, Take
      <4>3. /\ aligned' /\ local' = [local EXCEPT ![file[t]] = Written(Mine(t), i, c[i])]
            /\ at'[t] = i /\ cpc' = cpc /\ want' = want /\ result' = result
        BY <1>1, <1>8, <4>1, <4>2 DEF TakeFrame, Take, SetMine
      <4>4. \A j \in 1 .. i : Mine(t)'[j] = c[j]
        BY <2>1, <2>5, <3>1, <3>2, <4>3
      <4>5. i \in from[t] .. T
        BY <1>0, <2>1, <3>2
      <4>6. Received(t)'
        BY <1>1, <1>3, <1>8, <2>1, <2>7, <4>3, <4>4, <4>5 DEF Received, Receiving
      <4>7. Consumed(t)' = q + 1
        <5>1. Consumed(t)' = 3 + at'[t] - from[t]
          BY <1>1, <2>7, <4>3 DEF Consumed
        <5>2. at'[t] = at[t] + 1 /\ at[t] \in Nat /\ from[t] \in Nat
          BY <1>0, <2>1, <4>3
        <5> QED
          BY <2>2, <5>1, <5>2
      <4> QED
        BY <1>5, <1>7, <4>6, <4>7
    <3>3. CASE ~ (at[t] < T)
      <4>1. at[t] = T /\ q + 1 = Left(t) + 4
        BY <1>0, <2>1, <2>2, <3>3
      <4>2. h = Msg("end", 0)
        BY <1>0, <1>6, <3>1, <4>1, AnswerIs DEF OnCourse, Served
      <4>3. h.kind = "end"
        BY <4>2 DEF Msg
      <4>4. TakeEnd(t)
        BY <1>8, <2>7, <4>3 DEF ClientStep, TakeName, TakeRemaining, TakeTotalDone, TakeTotal, TakeRaw,
                                TakeFrame, TakeSha, TakeWrong, TakeGarbage, Take
      <4>5. aligned' /\ local' = local /\ want' = want /\ cpc'[t] = "sha" /\ result' = result
        <5>1. ~ (Len(Mine(t)) < want[t])
          BY <1>0, <2>1, <3>1, <4>1
        <5> QED
          BY <1>1, <1>8, <4>4, <5>1 DEF TakeEnd, Take, ClientGoto
      <4>6. SubSeq(Mine(t), 1, T) = c
        BY <1>0, <2>1, <3>1, <4>1
      <4>7. Received(t)'
        BY <1>1, <1>3, <1>8, <2>1, <4>5, <4>6 DEF Received, Receiving, Prefix, Mine
      <4>8. Consumed(t)' = n - 1 /\ q + 1 = n - 1
        <5>1. Consumed(t)' = AnswerLength(t)' - 1
          BY <4>5 DEF Consumed
        <5> QED
          BY <1>0, <1>3, <3>1, <4>1, <5>1
      <4> HIDE DEF q, n, p
      <4> QED
        BY <1>5, <1>7, <4>7, <4>8
    <3> QED
      BY <3>2, <3>3
  <2> QED
    BY <1>12, <2>6, <2>7
<1>13. CASE cpc[t] = "sha"
  <2>1. Left(t) > 0 /\ want[t] = T /\ Prefix(Mine(t), want[t]) = c
    BY <1>13 DEF OnCourse, Received, Receiving
  <2>2. q + 1 = n
    BY <1>5, <1>13 DEF Consumed
  <2>3. h = Msg("sha", c)
    BY <1>0, <1>6, <2>1, <2>2, AnswerIs DEF OnCourse, Served
  <2>4. h.kind = "sha" /\ h.val = c
    BY <2>3 DEF Msg
  <2>5. TakeSha(t)
    BY <1>8, <1>13, <2>4 DEF ClientStep, TakeName, TakeRemaining, TakeTotalDone, TakeTotal, TakeRaw,
                             TakeFrame, TakeEnd, TakeWrong, TakeGarbage, Take
  <2>6. result'[t] = "verified"
    BY <1>1, <2>1, <2>4, <2>5 DEF TakeSha, Return
  <2> QED
    BY <2>6 DEF EndedWell
<1> QED
  BY <1>8, <1>9, <1>10, <1>11, <1>12, <1>13

\* Somebody can go on: the thread has something to read or the handler to send.
LEMMA OnCourseGoesOn ==
  ASSUME Typed, NEW t \in Transfers, OnCourse(t)
  PROVE  toClient # <<>> \/ spc[t] # "idle"
<1>1. CASE toClient = <<>>
  <2>1. /\ Len(toClient) = 0 /\ AnswerLength(t) \in Nat /\ Produced(t) \in Int
        /\ Consumed(t) \in 0 .. AnswerLength(t) - 1 /\ Len(toClient) = Produced(t) - Consumed(t)
    BY <1>1, OnCourseBounds DEF OnCourse, Fed
  <2>2. Produced(t) # AnswerLength(t)
    BY <2>1
  <2> QED
    BY <2>2 DEF Produced
<1> QED
  BY <1>1

LEMMA OnCourseNext ==
  ASSUME Alone, ResumeInv, Next, NEW t \in Transfers, OnCourse(t)
  PROVE  EndedWell(t)' \/ (OnCourse(t)' /\ StepsLeft(t)' \in Nat /\ StepsLeft(t)' < StepsLeft(t))
<1>0. Typed /\ cpc[t] # "idle"
  BY DEF ResumeInv, Inv, OnCourse, Received
<1>1. CASE ServerStep(t)
  BY <1>0, <1>1, OnCourseServer
<1>2. CASE ClientStep(t)
  BY <1>2, OnCourseClient
<1>3. CASE GiveUp(t)
  BY <1>0, <1>3 DEF GiveUp, ServerGoto, Typed, EndedWell
<1>4. CASE TakeTotalFails(t) \/ Abandon(t)
  BY <1>0, <1>4 DEF TakeTotalFails, Abandon, Return, Typed, EndedWell
<1>5. CASE Disconnect
  BY <1>0, <1>5 DEF Disconnect, EndedWell
<1>6. ~ \E f \in Files : Begin(t, f)
  BY <1>0 DEF Begin
<1> QED
  BY <1>1, <1>2, <1>3, <1>4, <1>5, <1>6 DEF Next, Alone

\* A download whose start is settled is on course, somebody can then go on, and
\* every step brings it nearer to its end or ends it well (file_transfer.c:215-346,
\* client_file_transfer.c:164-377).
Begins == \A t \in Transfers : InStep(t) /\ SameFraming(t) => OnCourse(t)
GoesOn == \A t \in Transfers : OnCourse(t) => toClient # <<>> \/ spc[t] # "idle"
Advances ==
  [][\A t \in Transfers :
       OnCourse(t) =>
         EndedWell(t)' \/ (OnCourse(t)' /\ StepsLeft(t)' \in Nat /\ StepsLeft(t)' < StepsLeft(t))]_vars

\* Once the server has settled where to start, every step of the session takes the
\* download, if the client will read the rest in the form in which it is sent,
\* nearer to its end, until it is verified or known to exist, a system call fails
\* or the connection is lost, and until then one of the two can go on: it never
\* fails, and never waits for what does not come. What is left of
\* AnsweredIsVerified is the scheduling (file_transfer.c:215-346,
\* client_file_transfer.c:164-377).
THEOREM AnswersAreTaken ==
  (\A t, u \in Transfers : t = u) => (Spec => [](Begins /\ GoesOn) /\ Advances)
<1> SUFFICES ASSUME Alone PROVE Spec => [](Begins /\ GoesOn) /\ Advances
  BY DEF Alone
<1>1. ResumeInv /\ [Next]_vars => ResumeInv'
  BY ResumeNext
<1>2. ResumeInv => Begins /\ GoesOn
  BY OnCourseStarts, OnCourseGoesOn DEF Begins, GoesOn, ResumeInv, Inv
<1>3. ResumeInv /\ [Next]_vars =>
        [\A t \in Transfers :
           OnCourse(t) =>
             EndedWell(t)' \/ (OnCourse(t)' /\ StepsLeft(t)' \in Nat /\ StepsLeft(t)' < StepsLeft(t))]_vars
  BY OnCourseNext
<1> QED
  BY <1>1, <1>2, <1>3, ResumeInit, PTL DEF Spec, Advances

=============================================================================
