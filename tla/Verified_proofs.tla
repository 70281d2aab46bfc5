---------------------------- MODULE Verified_proofs ----------------------------
(***************************************************************************)
(* Proofs about what client_gets calls "downloaded and verified", in       *)
(* sessions whose transfers follow each other: downloads alone (Download), *)
(* and between uploads (Upload), with any number of files, chunks,         *)
(* failures and lost connections, and whatever is left unread.             *)
(***************************************************************************)
EXTENDS Upload, Resume_proofs

\* Chunks belong to the file whose name stands before them in the connection.
Chunk(m) == m.kind \in {"raw", "frame"}
NoName(s, i, j) == \A k \in i .. j : s[k].kind # "name"
Owned(s) ==
  \A j \in 1 .. Len(s) : \A i \in j + 1 .. Len(s) :
    s[j].kind = "name" /\ Chunk(s[i]) /\ NoName(s, j + 1, i) => s[i].val \in ToSet(Content[s[j].val])

\* Those that come before any name, and those that the handler appends.
Leading(s, f) ==
  \A i \in 1 .. Len(s) : Chunk(s[i]) /\ NoName(s, 1, i) => s[i].val \in ToSet(Content[f])
LastName(s, f) ==
  \A j \in 1 .. Len(s) : s[j].kind = "name" /\ NoName(s, j + 1, Len(s)) => s[j].val = f

\* A hash is that of a whole file of the server, which is not empty.
Hashes(s) ==
  \A i \in 1 .. Len(s) : s[i].kind = "sha" => \E g \in Files : s[i].val = Content[g] /\ Total(g) > 0

\* Up to its first hole a file of the client has only chunks of the server's.
Clean(s, f) == \A i \in 1 .. Len(s) : (\A j \in 1 .. i : s[j] # Hole) => s[i] \in ToSet(Content[f])

\* The thread has read the name of its file, and has not gone astray since.
Following(t) ==
  \/ cpc[t] \in {"remaining", "total"}
  \/ cpc[t] = "raw" /\ aligned
  \/ cpc[t] = "framed" /\ \A i \in 1 .. Len(Mine(t)) : Mine(t)[i] # Hole

CleanFiles == \A f \in Files : local[f] # Absent => Clean(local[f], f)
Traced ==
  /\ Owned(toClient) /\ Hashes(toClient)
  /\ \A t \in Transfers :
       /\ Following(t) => Leading(toClient, file[t])
       /\ spc[t] \in Sending \ {"name"} => LastName(toClient, file[t])
       /\ spc[t] \in {"raw", "framed", "sha"} => Total(file[t]) > 0

-----------------------------------------------------------------------------
(* Sequences *)

LEMMA TailIs ==
  ASSUME NEW s \in Seq(Messages), s # <<>>
  PROVE  /\ Tail(s) \in Seq(Messages) /\ Len(s) \in Nat \ {0} /\ Len(Tail(s)) = Len(s) - 1
         /\ \A j \in 1 .. Len(s) - 1 : Tail(s)[j] = s[j + 1]
         /\ Head(s) = s[1]
  OBVIOUS

LEMMA AppendIs ==
  ASSUME NEW s \in Seq(Messages), NEW m \in Messages
  PROVE  /\ Append(s, m) \in Seq(Messages) /\ Len(s) \in Nat /\ Len(Append(s, m)) = Len(s) + 1
         /\ \A j \in 1 .. Len(s) : Append(s, m)[j] = s[j]
         /\ Append(s, m)[Len(s) + 1] = m
  OBVIOUS

LEMMA TracesTail ==
  ASSUME NEW s \in Seq(Messages), s # <<>>
  PROVE  /\ Owned(s) => Owned(Tail(s))
         /\ Hashes(s) => Hashes(Tail(s))
         /\ \A f : LastName(s, f) => LastName(Tail(s), f)
         /\ \A f : Leading(s, f) /\ Head(s).kind # "name" => Leading(Tail(s), f)
         /\ Owned(s) /\ Head(s).kind = "name" => Leading(Tail(s), Head(s).val)
<1> DEFINE r == Tail(s)
           n == Len(s)
<1>1. /\ n \in Nat \ {0} /\ Len(r) = n - 1 /\ Head(s) = s[1]
      /\ \A j \in 1 .. n - 1 : r[j] = s[j + 1]
  BY TailIs
<1> HIDE DEF r
<1>2. \A i \in 1 .. n - 1 : \A j \in 1 .. n : NoName(r, j, i) => NoName(s, j + 1, i + 1)
  <2> SUFFICES ASSUME NEW i \in 1 .. n - 1, NEW j \in 1 .. n, NoName(r, j, i),
                      NEW k \in j + 1 .. i + 1
               PROVE  s[k].kind # "name"
    BY DEF NoName
  <2>1. k - 1 \in j .. i /\ k - 1 \in 1 .. n - 1
    BY <1>1
  <2>2. r[k - 1] = s[(k - 1) + 1] /\ (k - 1) + 1 = k
    BY <1>1, <2>1
  <2> QED
    BY <2>1, <2>2 DEF NoName
<1>3. Owned(s) => Owned(r)
  <2> SUFFICES ASSUME Owned(s), NEW j \in 1 .. n - 1, NEW i \in j + 1 .. n - 1,
                      r[j].kind = "name", Chunk(r[i]), NoName(r, j + 1, i)
               PROVE  r[i].val \in ToSet(Content[r[j].val])
    BY <1>1 DEF Owned
  <2>1. i \in 1 .. n - 1 /\ j + 1 \in 1 .. n
    BY <1>1
  <2>2. r[j] = s[j + 1] /\ r[i] = s[i + 1]
    BY <1>1, <2>1
  <2>3. NoName(s, (j + 1) + 1, i + 1)
    BY <1>2, <2>1
  <2>4. j + 1 \in 1 .. n /\ i + 1 \in (j + 1) + 1 .. n
    BY <1>1
  <2> QED
    BY <2>2, <2>3, <2>4 DEF Owned
<1>4. Hashes(s) => Hashes(r)
  <2> SUFFICES ASSUME Hashes(s), NEW i \in 1 .. n - 1, r[i].kind = "sha"
               PROVE  \E g \in Files : r[i].val = Content[g] /\ Total(g) > 0
    BY <1>1 DEF Hashes
  <2>1. r[i] = s[i + 1] /\ i + 1 \in 1 .. n
    BY <1>1
  <2> QED
    BY <2>1 DEF Hashes
<1>5. ASSUME NEW f, LastName(s, f) PROVE LastName(r, f)
  <2> SUFFICES ASSUME NEW j \in 1 .. n - 1, r[j].kind = "name", NoName(r, j + 1, n - 1)
               PROVE  r[j].val = f
    BY <1>1 DEF LastName
  <2>1. r[j] = s[j + 1] /\ j + 1 \in 1 .. n
    BY <1>1
  <2>2. NoName(s, (j + 1) + 1, n)
    <3>1. n - 1 \in 1 .. n - 1 /\ (n - 1) + 1 = n
      BY <1>1
    <3> QED
      BY <1>2, <2>1, <3>1
  <2> QED
    BY <1>5, <2>1, <2>2 DEF LastName
<1>6. ASSUME NEW f, Leading(s, f), Head(s).kind # "name" PROVE Leading(r, f)
  <2> SUFFICES ASSUME NEW i \in 1 .. n - 1, Chunk(r[i]), NoName(r, 1, i)
               PROVE  r[i].val \in ToSet(Content[f])
    BY <1>1 DEF Leading
  <2>1. r[i] = s[i + 1] /\ i + 1 \in 1 .. n
    BY <1>1
  <2>2. NoName(s, 2, i + 1)
    BY <1>1, <1>2
  <2>3. NoName(s, 1, i + 1)
    <3> SUFFICES ASSUME NEW k \in 1 .. i + 1 PROVE s[k].kind # "name"
      BY DEF NoName
    <3>1. k = 1 \/ k \in 2 .. i + 1
      OBVIOUS
    <3> QED
      BY <1>1, <1>6, <2>2, <3>1 DEF NoName
  <2> QED
    BY <1>6, <2>1, <2>3 DEF Leading
<1>7. ASSUME Owned(s), Head(s).kind = "name" PROVE Leading(r, Head(s).val)
  <2> SUFFICES ASSUME NEW i \in 1 .. n - 1, Chunk(r[i]), NoName(r, 1, i)
               PROVE  r[i].val \in ToSet(Content[Head(s).val])
    BY <1>1 DEF Leading
  <2>1. r[i] = s[i + 1] /\ i + 1 \in 2 .. n /\ 1 \in 1 .. n
    BY <1>1
  <2>2. NoName(s, 2, i + 1)
    BY <1>1, <1>2
  <2>3. 1 + 1 = 2
    OBVIOUS
  <2> QED
    BY <1>1, <1>7, <2>1, <2>2, <2>3 DEF Owned
<1> QED
  BY <1>3, <1>4, <1>5, <1>6, <1>7 DEF r

LEMMA TracesAppend ==
  ASSUME NEW s \in Seq(Messages), NEW m \in Messages
  PROVE  /\ Owned(s) /\ (Chunk(m) => \E f : LastName(s, f) /\ m.val \in ToSet(Content[f]))
              => Owned(Append(s, m))
         /\ Hashes(s) /\ (m.kind = "sha" => \E g \in Files : m.val = Content[g] /\ Total(g) > 0)
              => Hashes(Append(s, m))
         /\ \A f : Leading(s, f) /\ (Chunk(m) => m.val \in ToSet(Content[f])) => Leading(Append(s, m), f)
         /\ \A f : LastName(s, f) /\ m.kind # "name" => LastName(Append(s, m), f)
         /\ m.kind = "name" => LastName(Append(s, m), m.val)
<1> DEFINE r == Append(s, m)
           n == Len(s)
<1>1. /\ n \in Nat /\ Len(r) = n + 1 /\ r[n + 1] = m
      /\ \A j \in 1 .. n : r[j] = s[j]
  BY AppendIs
<1> HIDE DEF r
<1>2. \A j \in Nat \ {0} : \A i \in 1 .. n : NoName(r, j, i) => NoName(s, j, i)
  <2> SUFFICES ASSUME NEW j \in Nat \ {0}, NEW i \in 1 .. n, NoName(r, j, i), NEW k \in j .. i
               PROVE  s[k].kind # "name"
    BY DEF NoName
  <2>1. k \in 1 .. n
    BY <1>1
  <2> QED
    BY <1>1, <2>1 DEF NoName
<1>3. \A j \in Nat \ {0} : NoName(r, j, n + 1) => NoName(s, j, n)
  <2> SUFFICES ASSUME NEW j \in Nat \ {0}, NoName(r, j, n + 1), NEW k \in j .. n
               PROVE  s[k].kind # "name"
    BY DEF NoName
  <2>1. k \in 1 .. n /\ k \in j .. n + 1
    BY <1>1
  <2> QED
    BY <1>1, <2>1 DEF NoName
<1>4. ASSUME Owned(s), Chunk(m) => \E f : LastName(s, f) /\ m.val \in ToSet(Content[f])
      PROVE  Owned(r)
  <2> SUFFICES ASSUME NEW j \in 1 .. n + 1, NEW i \in j + 1 .. n + 1,
                      r[j].kind = "name", Chunk(r[i]), NoName(r, j + 1, i)
               PROVE  r[i].val \in ToSet(Content[r[j].val])
    BY <1>1 DEF Owned
  <2>1. j \in 1 .. n /\ j + 1 \in Nat \ {0} /\ r[j] = s[j]
    BY <1>1
  <2>2. CASE i = n + 1
    <3>1. NoName(s, j + 1, n) /\ r[i] = m
      BY <1>1, <1>3, <2>1, <2>2
    <3> QED
      BY <1>4, <2>1, <3>1 DEF LastName
  <2>3. CASE i # n + 1
    <3>1. i \in 1 .. n /\ i \in j + 1 .. n /\ r[i] = s[i]
      BY <1>1, <2>1, <2>3
    <3> QED
      BY <1>2, <1>4, <2>1, <3>1 DEF Owned
  <2> QED
    BY <2>2, <2>3
<1>5. ASSUME Hashes(s), m.kind = "sha" => \E g \in Files : m.val = Content[g] /\ Total(g) > 0
      PROVE  Hashes(r)
  <2> SUFFICES ASSUME NEW i \in 1 .. n + 1, r[i].kind = "sha"
               PROVE  \E g \in Files : r[i].val = Content[g] /\ Total(g) > 0
    BY <1>1 DEF Hashes
  <2>1. i \in 1 .. n \/ i = n + 1
    BY <1>1
  <2> QED
    BY <1>1, <1>5, <2>1 DEF Hashes
<1>6. ASSUME NEW f, Leading(s, f), Chunk(m) => m.val \in ToSet(Content[f]) PROVE Leading(r, f)
  <2> SUFFICES ASSUME NEW i \in 1 .. n + 1, Chunk(r[i]), NoName(r, 1, i)
               PROVE  r[i].val \in ToSet(Content[f])
    BY <1>1 DEF Leading
  <2>1. CASE i = n + 1
    BY <1>1, <1>6, <2>1
  <2>2. CASE i # n + 1
    <3>1. i \in 1 .. n /\ r[i] = s[i]
      BY <1>1, <2>2
    <3> QED
      BY <1>2, <1>6, <3>1 DEF Leading
  <2> QED
    BY <2>1, <2>2
<1>7. ASSUME NEW f, LastName(s, f), m.kind # "name" PROVE LastName(r, f)
  <2> SUFFICES ASSUME NEW j \in 1 .. n + 1, r[j].kind = "name", NoName(r, j + 1, n + 1)
               PROVE  r[j].val = f
    BY <1>1 DEF LastName
  <2>1. j \in 1 .. n /\ j + 1 \in Nat \ {0} /\ r[j] = s[j]
    BY <1>1, <1>7
  <2> QED
    BY <1>3, <1>7, <2>1 DEF LastName
<1>8. ASSUME m.kind = "name" PROVE LastName(r, m.val)
  <2> SUFFICES ASSUME NEW j \in 1 .. n + 1, NoName(r, j + 1, n + 1) PROVE j = n + 1
    BY <1>1 DEF LastName
  <2>1. j # n + 1 => n + 1 \in j + 1 .. n + 1
    BY <1>1
  <2> QED
    BY <1>1, <1>8, <2>1 DEF NoName
<1> QED
  BY <1>4, <1>5, <1>6, <1>7, <1>8 DEF r

LEMMA TracesEmpty == Owned(<<>>) /\ Hashes(<<>>)
  BY DEF Owned, Hashes

\* What is written at the end of a file, or before nothing but holes.
LEMMA CleanWritten ==
  ASSUME NEW f, NEW s \in Seq(Chunks), NEW i \in 1 .. Len(s) + 1, NEW c \in Chunks
  PROVE  /\ Clean(s, f)
         /\ \A j \in i .. Len(s) : s[j] = Hole
         /\ c = Hole \/ c \in ToSet(Content[f]) \/ \E j \in 1 .. i - 1 : s[j] = Hole
         => Clean(Written(s, i, c), f)
<1> DEFINE r == Written(s, i, c)
<1> HIDE DEF r
<1>1. /\ Len(r) = IF i > Len(s) THEN i ELSE Len(s)
      /\ \A j \in 1 .. Len(r) : r[j] = IF j = i THEN c ELSE s[j]
  <2>1. /\ Len(Written(s, i, c)) = IF i > Len(s) THEN i ELSE Len(s)
        /\ \A j \in 1 .. Len(Written(s, i, c)) : Written(s, i, c)[j] = IF j = i THEN c ELSE s[j]
    BY WrittenIs
  <2> QED
    BY <2>1 DEF r
<1> SUFFICES ASSUME Clean(s, f), \A j \in i .. Len(s) : s[j] = Hole,
                    c = Hole \/ c \in ToSet(Content[f]) \/ \E j \in 1 .. i - 1 : s[j] = Hole,
                    NEW k \in 1 .. Len(r), \A j \in 1 .. k : r[j] # Hole
             PROVE  r[k] \in ToSet(Content[f])
  BY DEF Clean, r
<1>2. i \in Nat /\ k \in Nat /\ i > 0 /\ k > 0 /\ Len(r) \in Nat
  BY <1>1
<1>3. CASE k < i
  <2>1. \A j \in 1 .. k : s[j] # Hole
    BY <1>1, <1>2, <1>3
  <2>2. k \in 1 .. Len(s) /\ r[k] = s[k]
    BY <1>1, <1>2, <1>3
  <2> QED
    BY <2>1, <2>2 DEF Clean
<1>4. CASE k >= i
  <2>1. c # Hole /\ \A j \in 1 .. i - 1 : s[j] # Hole
    <3>1. i \in 1 .. k /\ i \in 1 .. Len(r) /\ \A j \in 1 .. i - 1 : j \in 1 .. k /\ j \in 1 .. Len(r) /\ j # i
      BY <1>1, <1>2, <1>4
    <3> QED
      BY <1>1, <3>1
  <2>2. CASE k = i
    BY <1>1, <2>1, <2>2
  <2>3. CASE k # i
    <3>1. k \in i .. Len(s) /\ r[k] = s[k]
      BY <1>1, <1>2, <1>4, <2>3
    <3>2. k \in 1 .. k
      BY <1>2
    <3> QED
      BY <3>1, <3>2
  <2> QED
    BY <2>2, <2>3
<1> QED
  BY <1>2, <1>3, <1>4

LEMMA CleanResized ==
  ASSUME NEW f, NEW s \in Seq(Chunks), Clean(s, f), NEW n \in Nat, n >= Len(s)
  PROVE  Clean(Resized(s, n), f)
<1> DEFINE r == Resized(s, n)
<1>1. Len(r) = n /\ \A i \in 1 .. n : r[i] = IF i <= Len(s) THEN s[i] ELSE Hole
  BY ResizedTyped, ResizedIs
<1> HIDE DEF r
<1> SUFFICES ASSUME NEW k \in 1 .. n, \A j \in 1 .. k : r[j] # Hole
             PROVE  r[k] \in ToSet(Content[f])
  BY <1>1 DEF Clean, r
<1>2. k \in 1 .. k
  OBVIOUS
<1>3. k \in 1 .. Len(s) /\ r[k] = s[k]
  BY <1>1, <1>2
<1>4. \A j \in 1 .. k : s[j] # Hole
  BY <1>1, <1>3
<1> QED
  BY <1>3, <1>4 DEF Clean

-----------------------------------------------------------------------------
(* Steps *)

\* The handler's messages go with the name it has sent.
LEMMA ServerTraced ==
  ASSUME Alone, Typed, Started, Traced, NEW t \in Transfers, ServerStep(t) \/ GiveUp(t)
  PROVE  Traced'
<1> DEFINE f == file[t]
<1>0. /\ UNCHANGED <<local, aligned, file, cpc>> /\ toClient \in Seq(Messages)
      /\ DOMAIN spc = Transfers /\ f \in Files
      /\ Content[f] \in Seq(Chunks) /\ Total(f) \in Nat
  BY ServerFrame, ContentTyped DEF Typed
<1>f. Following(t)' <=> Following(t)
  BY <1>0 DEF Following, Mine
<1>a. ASSUME NEW m \in Messages, toClient' = Append(toClient, m),
             Chunk(m) => LastName(toClient, f) /\ m.val \in ToSet(Content[f]),
             m.kind = "sha" => m.val = Content[f] /\ Total(f) > 0,
             LastName(Append(toClient, m), f),
             spc'[t] \in {"raw", "framed", "sha"} => Total(f) > 0
      PROVE  Traced'
  <2>1. Owned(toClient') /\ Hashes(toClient')
    BY <1>0, <1>a, TracesAppend DEF Traced
  <2>2. Following(t)' => Leading(toClient', f)
    BY <1>0, <1>a, <1>f, TracesAppend DEF Traced
  <2> QED
    BY <1>0, <1>a, <2>1, <2>2 DEF Traced, Alone
<1>b. ASSUME toClient' = toClient,
             spc'[t] \in Sending \ {"name"} => spc[t] \in Sending \ {"name"},
             spc'[t] \in {"raw", "framed", "sha"} => spc[t] \in {"raw", "framed", "sha"}
      PROVE  Traced'
  BY <1>0, <1>b, <1>f DEF Traced, Alone
<1>l. ASSUME NEW m \in Messages, m.kind # "name", spc[t] \in Sending \ {"name"}
      PROVE  LastName(toClient, f) /\ LastName(Append(toClient, m), f)
  BY <1>0, <1>l, TracesAppend DEF Traced
<1>p. spc[t] \in {"raw", "framed", "sha"} => Total(f) > 0
  BY DEF Traced
<1> USE DEF Sending
<1>1. CASE TakeOffset(t) \/ TakeHash(t) \/ GiveUp(t)
  <2>1. spc'[t] \in {"hash", "name", "astray", "spin", "gone"} /\ toClient' = toClient
    BY <1>0, <1>1 DEF TakeOffset, TakeHash, GiveUp, ServerGoto
  <2> QED
    BY <2>1, <1>b
<1>2. CASE SendName(t)
  <2> DEFINE m == Msg("name", f)
  <2>1. m \in Messages /\ m.kind = "name" /\ m.val = f
    BY <1>0 DEF Msg, Messages
  <2>2. toClient' = Append(toClient, m) /\ spc'[t] = "remaining"
    BY <1>0, <1>2 DEF SendName, Send, ServerGoto
  <2> HIDE DEF m, f
  <2>3. LastName(Append(toClient, m), f)
    BY <1>0, <2>1, TracesAppend
  <2> QED
    BY <1>a, <2>1, <2>2, <2>3 DEF Chunk
<1>3. CASE SendRemaining(t)
  <2> DEFINE m == Msg("size", Left(t))
  <2>1. m \in Messages /\ m.kind = "size"
    BY <1>0, <1>3 DEF SendRemaining, Started, Typed, Left, Msg, Messages
  <2>2. toClient' = Append(toClient, m) /\ spc'[t] = "total" /\ spc[t] = "remaining"
    BY <1>0, <1>3 DEF SendRemaining, Send, ServerGoto
  <2> HIDE DEF m, f
  <2> QED
    BY <1>a, <1>l, <2>1, <2>2 DEF Chunk
<1>4. CASE SendTotal(t)
  <2> DEFINE m == Msg("size", Total(f))
  <2>1. m \in Messages /\ m.kind = "size"
    BY <1>0 DEF Msg, Messages
  <2>2. toClient' = Append(toClient, m) /\ spc[t] = "total"
    BY <1>4 DEF SendTotal, Send
  <2>3. spc'[t] \in {"raw", "framed", "sha"} => Left(t) # 0
    BY <1>0, <1>4 DEF SendTotal, ServerGoto
  <2>4. Left(t) # 0 => Total(f) > 0
    BY <1>0, <2>2 DEF Started, Typed, Left
  <2> HIDE DEF m, f
  <2> QED
    BY <1>a, <1>l, <2>1, <2>2, <2>3, <2>4 DEF Chunk
<1>5. CASE SendChunk(t)
  <2> DEFINE x == Content[f][sent[t] + 1]
             m == Msg(IF spc[t] = "raw" THEN "raw" ELSE "frame", x)
  <2>1. x \in Chunks /\ x \in ToSet(Content[f])
    <3>1. sent[t] + 1 \in 1 .. Len(Content[f])
      BY <1>0, <1>5 DEF SendChunk, Typed, Total
    <3> QED
      BY <1>0, <3>1 DEF ToSet
  <2>2. toClient' = Append(toClient, m) /\ spc' = spc /\ spc[t] \in {"raw", "framed"}
    BY <1>5 DEF SendChunk, Send
  <2> HIDE DEF x
  <2>3. m \in Messages /\ m.kind \in {"raw", "frame"} /\ m.val = x
    BY <2>1 DEF Msg, Messages
  <2> HIDE DEF m, f
  <2> QED
    BY <1>a, <1>l, <1>p, <2>1, <2>2, <2>3
<1>6. CASE SendEnd(t)
  <2>1. spc[t] \in {"raw", "framed"} /\ spc'[t] = "sha"
    BY <1>0, <1>6 DEF SendEnd, ServerGoto
  <2>2. CASE spc[t] = "framed"
    <3> DEFINE m == Msg("end", 0)
    <3>1. m \in Messages /\ m.kind = "end"
      BY DEF Msg, Messages
    <3>2. toClient' = Append(toClient, m)
      BY <1>6, <2>2 DEF SendEnd, Send
    <3> HIDE DEF m, f
    <3> QED
      BY <1>a, <1>l, <1>p, <2>1, <3>1, <3>2 DEF Chunk
  <2>3. CASE spc[t] # "framed"
    <3>1. toClient' = toClient
      BY <1>6, <2>3 DEF SendEnd
    <3> QED
      BY <1>b, <2>1, <3>1
  <2> QED
    BY <2>2, <2>3
<1>7. CASE SendSha(t)
  <2> DEFINE m == Msg("sha", Content[f])
  <2>1. m \in Messages /\ m.kind = "sha" /\ m.val = Content[f]
    BY <1>0 DEF Msg, Messages
  <2>2. toClient' = Append(toClient, m) /\ spc[t] = "sha" /\ spc'[t] = "idle"
    BY <1>0, <1>7 DEF SendSha, Send, ServerGoto
  <2> HIDE DEF m, f
  <2> QED
    BY <1>a, <1>l, <1>p, <2>1, <2>2 DEF Chunk
<1> QED
  BY <1>1, <1>2, <1>3, <1>4, <1>5, <1>6, <1>7 DEF ServerStep

\* The thread reads the name that the chunks it writes stand behind.
LEMMA ClientTraced ==
  ASSUME Alone, Typed, Started, Traced, CleanFiles, NEW t \in Transfers, Room(t),
         ClientStep(t) \/ TakeTotalFails(t) \/ Abandon(t)
  PROVE  Traced' /\ CleanFiles'
<1> DEFINE f == file[t]
           m == Head(toClient)
<1>0. /\ UNCHANGED <<file, spc>> /\ f \in Files /\ toClient \in Seq(Messages)
      /\ DOMAIN cpc = Transfers /\ DOMAIN local = Files /\ DOMAIN at = Transfers
      /\ Mine(t)' = local'[f] /\ Mine(t) = local[f]
  BY ClientFrame DEF Typed, Mine
<1>m. toClient # <<>> => m \in Messages /\ (m.kind \in {"raw", "frame"} => m.val \in Chunks)
  BY <1>0, MessageTyped
<1>h. /\ \A g \in Files : Hole \notin ToSet(Content[g])
      /\ Absent \notin Seq(Chunks)
  BY MarksAssumption
<1>a. ASSUME toClient' = toClient \/ (toClient # <<>> /\ toClient' = Tail(toClient)),
             Following(t)' => Leading(toClient', f)
      PROVE  Traced'
  BY <1>0, <1>a, TracesTail DEF Traced, Alone
<1>l. ASSUME toClient # <<>>, m.kind # "name", Following(t)
      PROVE  Leading(Tail(toClient), f) /\ (Chunk(m) => m.val \in ToSet(Content[f]))
  <2>1. Leading(toClient, f)
    BY <1>l DEF Traced
  <2>2. Leading(Tail(toClient), f)
    BY <1>0, <1>l, <2>1, TracesTail
  <2>3. 1 \in 1 .. Len(toClient) /\ m = toClient[1] /\ NoName(toClient, 1, 1)
    BY <1>0, <1>l, TailIs DEF NoName
  <2> HIDE DEF m
  <2> QED
    BY <2>1, <2>2, <2>3 DEF Leading
<1>c. ASSUME NEW s, local' = [local EXCEPT ![f] = s], Clean(s, f)
      PROVE  CleanFiles'
  BY <1>0, <1>c DEF CleanFiles
<1> HIDE DEF f, m
<1>1. CASE Leaves(t)
  <2>1. cpc'[t] \in {"idle", "astray"} /\ local' = local
    BY <1>1, LeavesFile
  <2>2. toClient' = toClient \/ (toClient # <<>> /\ toClient' = Tail(toClient))
    BY <1>1, Zenon DEF Leaves, TakeTotalDone, TakeSha, TakeWrong, TakeGarbage, TakeTotalFails, Abandon, Take
  <2> QED
    BY <1>a, <2>1, <2>2 DEF Following, CleanFiles
<1>2. CASE TakeName(t)
  <2>1. toClient # <<>> /\ toClient' = Tail(toClient) /\ local' = local /\ m.kind = "name" /\ m.val = f
    BY <1>2 DEF TakeName, Take, m, f
  <2>2. Leading(toClient', f)
    BY <1>0, <2>1, TracesTail DEF Traced, m
  <2> QED
    BY <1>a, <2>1, <2>2 DEF CleanFiles
<1>3. CASE TakeRemaining(t)
  <2>1. toClient # <<>> /\ toClient' = Tail(toClient) /\ local' = local /\ m.kind = "size" /\ cpc[t] = "remaining"
    BY <1>3 DEF TakeRemaining, Take, m
  <2>2. Leading(toClient', f)
    BY <1>l, <2>1 DEF Following
  <2> QED
    BY <1>a, <2>1, <2>2 DEF CleanFiles
<1>4. CASE TakeTotal(t)
  <2>1. toClient # <<>> /\ toClient' = Tail(toClient) /\ m.kind = "size" /\ cpc[t] = "total"
    BY <1>4 DEF TakeTotal, Take, m
  <2>2. Leading(toClient', f)
    BY <1>l, <2>1 DEF Following
  <2>3. PICK r \in Nat, kept \in Seq(Chunks), large \in BOOLEAN :
          LET w == rest[t] + r
          IN /\ w > r /\ w \in Nat /\ Len(kept) = r
             /\ (kept = <<>> \/ kept = Mine(t))
             /\ local' = [local EXCEPT ![f] = IF large THEN Resized(kept, w) ELSE kept]
    BY <1>4, Opens DEF f
  <2> DEFINE w == rest[t] + r
             s == IF large THEN Resized(kept, w) ELSE kept
  <2>4. Clean(kept, f)
    <3>1. CASE kept = <<>>
      BY <3>1 DEF Clean
    <3>2. CASE kept = Mine(t)
      BY <1>0, <1>h, <3>2 DEF CleanFiles
    <3> QED
      BY <2>3, <3>1, <3>2
  <2>5. Clean(Resized(kept, w), f)
    BY <2>3, <2>4, CleanResized
  <2>6. Clean(s, f) /\ local' = [local EXCEPT ![f] = s]
    BY <2>3, <2>4, <2>5
  <2> HIDE DEF s
  <2> QED
    BY <1>a, <1>c, <2>1, <2>2, <2>6
<1>5. CASE TakeRaw(t)
  <2> DEFINE i == at[t] + 1
             good == aligned /\ m.kind = "raw"
             c == IF good THEN m.val ELSE Hole
  <2>1. /\ toClient # <<>> /\ toClient' = Tail(toClient) /\ cpc[t] = "raw"
        /\ aligned' = good /\ local' = [local EXCEPT ![f] = Written(Mine(t), i, c)]
        /\ cpc'[t] \in {"sha", "raw"}
    BY <1>0, <1>5 DEF TakeRaw, SetMine, ClientGoto, m, f
  <2>2. /\ Mine(t) \in Seq(Chunks) /\ Len(Mine(t)) = want[t] /\ at[t] < want[t]
        /\ at[t] \in Nat /\ want[t] \in Nat
        /\ \A j \in at[t] + 1 .. want[t] : Mine(t)[j] = Hole
    BY <2>1 DEF Started, Typed, Receiving, Room, Mine
  <2>3. good => Leading(toClient', f) /\ m.val \in ToSet(Content[f])
    BY <1>l, <2>1 DEF Following, Chunk
  <2>4. Following(t)' => good
    BY <2>1 DEF Following
  <2>5. Clean(Mine(t), f)
    BY <1>0, <1>h, <2>2 DEF CleanFiles
  <2>6. c \in Chunks /\ (c = Hole \/ c \in ToSet(Content[f]))
    BY <1>m, <2>1, <2>3, HoleIsChunk
  <2>7. i \in 1 .. Len(Mine(t)) + 1 /\ \A j \in i .. Len(Mine(t)) : Mine(t)[j] = Hole
    BY <2>2
  <2> HIDE DEF i, c, good
  <2>8. Clean(Written(Mine(t), i, c), f)
    BY <2>2, <2>5, <2>6, <2>7, CleanWritten
  <2> QED
    BY <1>a, <1>c, <2>1, <2>3, <2>4, <2>8
<1>6. CASE TakeFrame(t)
  <2> DEFINE i == at[t] + 1
             c == IF m.kind = "frame" THEN m.val ELSE Hole
             holes == \E j \in 1 .. i - 1 : Mine(t)[j] = Hole
  <2>1. /\ toClient # <<>> /\ toClient' = Tail(toClient) /\ cpc[t] = "framed" /\ cpc' = cpc
        /\ local' = [local EXCEPT ![f] = Written(Mine(t), i, c)]
    BY <1>6 DEF TakeFrame, Take, SetMine, m, f
  <2>2. Mine(t) \in Seq(Chunks) /\ Len(Mine(t)) = at[t] /\ at[t] \in Nat
    BY <2>1 DEF Started, Typed, Receiving, Room, Mine
  <2>3. /\ i \in 1 .. Len(Mine(t)) + 1 /\ i > Len(Mine(t)) /\ i - 1 = Len(Mine(t))
        /\ \A j \in i .. Len(Mine(t)) : Mine(t)[j] = Hole
    BY <2>2
  <2>4. ~ holes => Following(t)
    BY <2>1, <2>3 DEF Following
  <2>5. c \in Chunks
    BY <1>m, <2>1, HoleIsChunk
  <2>6. c = Hole \/ c \in ToSet(Content[f]) \/ holes
    BY <1>l, <2>1, <2>4 DEF Chunk
  <2>7. Clean(Mine(t), f)
    BY <1>0, <1>h, <2>2 DEF CleanFiles
  <2>8. Mine(t)' = Written(Mine(t), i, c)
    BY <1>0, <2>1
  <2> HIDE DEF i, c
  <2>9. Clean(Written(Mine(t), i, c), f)
    BY <2>2, <2>3, <2>5, <2>6, <2>7, CleanWritten
  <2>10. /\ Len(Written(Mine(t), i, c)) = i
         /\ \A j \in 1 .. i : Written(Mine(t), i, c)[j] = IF j = i THEN c ELSE Mine(t)[j]
    <3> DEFINE r == Written(Mine(t), i, c)
    <3>1. /\ Len(r) = IF i > Len(Mine(t)) THEN i ELSE Len(Mine(t))
          /\ \A j \in 1 .. Len(r) : r[j] = IF j = i THEN c ELSE Mine(t)[j]
      BY <2>2, <2>3, <2>5, WrittenIs
    <3> HIDE DEF r
    <3>2. Len(r) = i
      BY <2>3, <3>1
    <3> QED
      BY <3>1, <3>2 DEF r
  <2>11. Following(t)' => ~ holes /\ c # Hole
    <3> SUFFICES ASSUME Following(t)' PROVE ~ holes /\ c # Hole
      OBVIOUS
    <3>1. \A j \in 1 .. i : Written(Mine(t), i, c)[j] # Hole
      BY <2>1, <2>8, <2>10 DEF Following
    <3>2. i \in 1 .. i /\ \A j \in 1 .. i - 1 : j \in 1 .. i /\ j # i
      BY <2>2, <2>3
    <3> QED
      BY <2>10, <3>1, <3>2
  <2>12. c # Hole => m.kind # "name"
    BY DEF c
  <2>13. Following(t)' => Leading(toClient', f)
    BY <1>l, <2>1, <2>4, <2>11, <2>12
  <2> QED
    BY <1>a, <1>c, <2>1, <2>9, <2>13
<1>7. CASE TakeEnd(t)
  <2>1. toClient # <<>> /\ toClient' = Tail(toClient) /\ local' = local /\ cpc'[t] \in {"spin", "sha"}
    BY <1>0, <1>7 DEF TakeEnd, Take, ClientGoto
  <2> QED
    BY <1>a, <2>1 DEF Following, CleanFiles
<1> QED
  BY <1>1, <1>2, <1>3, <1>4, <1>5, <1>6, <1>7 DEF ClientStep, Leaves

\* The other steps leave what the client reads, or throw it away.
LEMMA BeginTraced ==
  ASSUME Alone, Typed, Traced, CleanFiles, NEW t \in Transfers, NEW f \in Files, Begin(t, f)
  PROVE  Traced' /\ CleanFiles'
<1>1. UNCHANGED <<local, toClient>> /\ cpc'[t] = "name" /\ spc'[t] = "offset"
  BY DEF Typed, Begin, ClientGoto, ServerGoto
<1> QED
  BY <1>1 DEF Traced, CleanFiles, Alone, Following, Sending

LEMMA DisconnectTraced ==
  ASSUME CleanFiles, Disconnect
  PROVE  Traced' /\ CleanFiles'
<1>1. /\ local' = local /\ toClient' = <<>>
      /\ \A t \in Transfers : cpc'[t] = "idle" /\ spc'[t] \in {"idle", "spin"}
  BY DEF Disconnect
<1> QED
  BY <1>1, TracesEmpty DEF Traced, CleanFiles, Following, Sending

LEMMA OthersTraced ==
  ASSUME Alone, Typed, Traced, CleanFiles, NEW t \in Transfers,
         UNCHANGED <<local, toClient, aligned, file, cpc>>, spc'[t] \in {spc[t], "idle", "astray"}
  PROVE  Traced' /\ CleanFiles'
<1>1. Following(t)' <=> Following(t)
  BY DEF Following, Mine
<1> QED
  BY <1>1 DEF Traced, CleanFiles, Alone, Sending

-----------------------------------------------------------------------------
(* Verified *)

\* A file of the server, all of whose chunks the one asked for has too, stands
\* whole at the beginning of what the client has.
Whole(t) ==
  \E g \in Files : /\ Total(g) > 0 /\ ToSet(Content[g]) \subseteq ToSet(Content[file[t]])
                  /\ IsPrefix(Content[g], local'[file[t]])
OnlyWhole == \A t \in Transfers : Reports(t, "verified") => Whole(t)

LEMMA VerifiedStep ==
  ASSUME Typed, Started, Traced, CleanFiles, NEW t \in Transfers, Room(t), TakeSha(t),
         result'[t] = "verified"
  PROVE  Whole(t)
<1> DEFINE f == file[t]
           s == local[f]
           m == Head(toClient)
           w == want[t]
<1>1. /\ toClient # <<>> /\ cpc[t] = "sha" /\ local' = local
      /\ m.kind = "sha" /\ m.val = SubSeq(s, 1, w)
  BY DEF Typed, TakeSha, Take, Return, Prefix, Mine
<1>2. s \in Seq(Chunks) /\ w \in Nat /\ w <= Len(s) /\ s # Absent /\ f \in Files
  BY <1>1, MarksAssumption DEF Typed, Started, Receiving, Room, Mine
<1>3. PICK g \in Files : m.val = Content[g] /\ Total(g) > 0
  <2>1. m = toClient[1] /\ 1 \in 1 .. Len(toClient)
    BY <1>1, TailIs DEF Typed
  <2> HIDE DEF m
  <2> QED
    BY <1>1, <2>1 DEF Traced, Hashes
<1> DEFINE c == Content[g]
<1>4. c \in Seq(Chunks) /\ Hole \notin ToSet(c) /\ c = SubSeq(s, 1, w)
  BY <1>1, <1>3, ContentTyped, MarksAssumption
<1>5. Clean(s, f)
  BY <1>2 DEF CleanFiles
<1> HIDE DEF m, s, w, c
<1>6. Len(c) = w /\ \A i \in 1 .. w : c[i] = s[i]
  BY <1>2, <1>4
<1>7. \A i \in 1 .. w : s[i] # Hole
  BY <1>4, <1>6 DEF ToSet
<1>8. \A i \in 1 .. w : s[i] \in ToSet(Content[f])
  BY <1>2, <1>5, <1>7 DEF Clean
<1>9. ToSet(c) \subseteq ToSet(Content[f])
  BY <1>4, <1>6, <1>8 DEF ToSet
<1>10. IsPrefix(c, s)
  BY <1>2, <1>4, <1>6 DEF IsPrefix
<1> QED
  BY <1>1, <1>3, <1>9, <1>10 DEF Whole, c, s

-----------------------------------------------------------------------------
(* The specifications *)

\* What a client sends in the data connection: messages of downloads, and of uploads.
Offered == UNION {Versions[f] : f \in Sources}
Sent ==
  Messages \cup [kind : {"name"}, val : Sources] \cup [kind : {"sha"}, val : Offered]
    \cup [kind : {"raw", "frame"}, val : {Hole} \cup UNION {ToSet(c) : c \in Offered}]

VerifiedInv ==
  /\ Typed /\ Started /\ toServer \in Seq(Sent)
  /\ \A t \in Transfers : Room(t)
  /\ Traced /\ CleanFiles

LEMMA VerifiedInit == Init => VerifiedInv
<1> SUFFICES ASSUME Init PROVE VerifiedInv
  OBVIOUS
<1>1. Typed /\ Started /\ toServer \in Seq(Sent)
  BY TypedInit
<1>2. /\ \A t \in Transfers : cpc[t] = "idle" /\ spc[t] = "idle"
      /\ toClient = <<>>
  BY DEF Init
<1>3. Traced /\ \A t \in Transfers : Room(t)
  BY <1>2, TracesEmpty DEF Traced, Following, Sending, Room
<1>4. CleanFiles
  <2> SUFFICES ASSUME NEW f \in Files, local[f] # Absent PROVE Clean(local[f], f)
    BY DEF CleanFiles
  <2> DEFINE c == Content[f]
  <2>1. local[f] \in OldFiles(f) /\ c \in Seq(Chunks)
    BY ContentTyped DEF Init
  <2>2. CASE local[f] = <<Hole>>
    <3>1. Len(<<Hole>>) = 1 /\ <<Hole>>[1] = Hole
      OBVIOUS
    <3> QED
      BY <2>2, <3>1 DEF Clean
  <2>3. CASE local[f] = c \o <<Hole>>
    <3> HIDE DEF c
    <3>1. /\ Len(c \o <<Hole>>) = Len(c) + 1 /\ (c \o <<Hole>>)[Len(c) + 1] = Hole
          /\ \A i \in 1 .. Len(c) : (c \o <<Hole>>)[i] = c[i]
      BY <2>1
    <3> SUFFICES ASSUME NEW i \in 1 .. Len(c) + 1, \A j \in 1 .. i : (c \o <<Hole>>)[j] # Hole
                 PROVE  (c \o <<Hole>>)[i] \in ToSet(c)
      BY <2>3, <3>1 DEF Clean, c
    <3>2. i \in 1 .. i /\ Len(c) \in Nat
      BY <2>1
    <3>3. i \in 1 .. Len(c)
      BY <3>1, <3>2
    <3> QED
      BY <3>1, <3>3 DEF ToSet
  <2>4. ASSUME NEW n \in 0 .. Total(f), local[f] = Prefix(c, n) PROVE Clean(local[f], f)
    <3> HIDE DEF c
    <3>1. n \in 0 .. Len(c)
      BY DEF Total, c
    <3>2. Len(SubSeq(c, 1, n)) = n /\ \A i \in 1 .. n : SubSeq(c, 1, n)[i] = c[i] /\ i \in 1 .. Len(c)
      BY <2>1, <3>1
    <3> QED
      BY <2>4, <3>2 DEF Clean, Prefix, ToSet, c
  <2> QED
    BY <2>1, <2>2, <2>3, <2>4 DEF OldFiles
<1> QED
  BY <1>1, <1>3, <1>4 DEF VerifiedInv

\* The steps of downloads.
LEMMA DownloadStep ==
  ASSUME Alone, VerifiedInv, NEW t \in Transfers,
         \/ \E f \in Files : Begin(t, f)
         \/ ServerStep(t) \/ GiveUp(t)
         \/ ClientStep(t) \/ TakeTotalFails(t) \/ Abandon(t)
  PROVE  VerifiedInv' /\ OnlyWhole
<1>0. Typed /\ Started /\ Room(t) /\ Traced /\ CleanFiles /\ toServer \in Seq(Sent)
  BY DEF VerifiedInv
<1>1. HeadTyped
  <2>1. toServer # <<>> => Head(toServer) \in Sent
    BY <1>0
  <2>2. \A m \in Sent : m.kind = "size" => m.val \in Nat
    BY MessageTyped DEF Sent
  <2> QED
    BY <2>1, <2>2 DEF HeadTyped
<1>2. CASE ServerStep(t) \/ GiveUp(t)
  <2>1. UNCHANGED <<local, aligned, file, cpc, resume, rest, want, at, result, broken>>
    BY <1>2, ServerFrame
  <2>2. toServer' \in Seq(Sent)
    <3>1. toServer' = toServer \/ (toServer # <<>> /\ toServer' = Tail(toServer))
      BY <1>2, Zenon DEF ServerStep, GiveUp, TakeOffset, TakeHash, SendName, SendRemaining, SendTotal,
                         SendChunk, SendEnd, SendSha
    <3> QED
      BY <1>0, <3>1
  <2>3. Typed' /\ Started' /\ Traced'
    BY <1>0, <1>1, <1>2, ServerTyped, ServerTraced
  <2> QED
    BY <2>1, <2>2, <2>3 DEF VerifiedInv, CleanFiles, Room, Have, Mine, OnlyWhole, Reports
<1>3. CASE ClientStep(t) \/ TakeTotalFails(t) \/ Abandon(t)
  <2>1. Typed' /\ Started' /\ Room(t)' /\ Traced' /\ CleanFiles'
    BY <1>0, <1>3, ClientTyped, RoomClient, ClientTraced
  <2>2. toServer' = toServer
    BY <1>3, ClientFrame
  <2>3. result'[t] = "verified" /\ result[t] # "verified" => TakeSha(t)
    BY <1>0, <1>3 DEF Typed, ClientStep, TakeTotalFails, Abandon, TakeName, TakeRemaining,
                      TakeTotalDone, TakeTotal, TakeRaw, TakeFrame, TakeEnd, TakeWrong, TakeGarbage, Return
  <2>4. OnlyWhole
    BY <1>0, <2>3, VerifiedStep DEF OnlyWhole, Reports, Alone
  <2> QED
    BY <1>0, <2>1, <2>2, <2>4 DEF VerifiedInv, Alone
<1>4. ASSUME NEW f \in Files, Begin(t, f) PROVE VerifiedInv' /\ OnlyWhole
  <2>1. Messages \subseteq Sent
    BY DEF Sent
  <2>2. Typed' /\ Started' /\ toServer' \in Seq(Sent)
    <3>1. /\ Typed' /\ Started'
          /\ \E m \in Messages :
               /\ m.kind = "size"
               /\ \/ toServer' = toServer \o <<m>>
                  \/ \E h \in Messages : toServer' = (toServer \o <<m>>) \o <<h>>
      BY <1>0, <1>4, <2>1, BeginTyped
    <3>2. \A q \in Seq(Sent), m \in Sent : q \o <<m>> \in Seq(Sent)
      OBVIOUS
    <3> QED
      BY <1>0, <2>1, <3>1, <3>2
  <2>3. Room(t)' /\ Traced' /\ CleanFiles'
    BY <1>0, <1>4, RoomBegin, BeginTraced
  <2>4. result'[t] = "none"
    BY <1>0, <1>4 DEF Typed, Begin
  <2> QED
    BY <2>2, <2>3, <2>4 DEF VerifiedInv, OnlyWhole, Reports, Alone
<1> QED
  BY <1>2, <1>3, <1>4

LEMMA DisconnectStep ==
  ASSUME VerifiedInv, Disconnect
  PROVE  VerifiedInv' /\ OnlyWhole
<1>1. Typed' /\ Started' /\ toServer' \in Seq(Sent) /\ Traced' /\ CleanFiles'
  BY DisconnectTyped, DisconnectTraced DEF VerifiedInv
<1>2. \A t \in Transfers : cpc'[t] = "idle" /\ result'[t] \in {"lost", result[t]}
  BY DEF Disconnect
<1> QED
  BY <1>1, <1>2 DEF VerifiedInv, Room, OnlyWhole, Reports

LEMMA StutterStep ==
  ASSUME VerifiedInv, UNCHANGED vars
  PROVE  VerifiedInv' /\ OnlyWhole
<1>1. UNCHANGED <<local, toServer, toClient, aligned, file, cpc, resume, rest, want, at, result,
                  spc, from, sent, broken>>
  BY DEF vars, client, server
<1>2. Typed' /\ Started'
  BY <1>1 DEF VerifiedInv, Typed, Started
<1>3. Traced' /\ CleanFiles' /\ \A t \in Transfers : Room(t)'
  BY <1>1 DEF VerifiedInv, Traced, Following, Mine, CleanFiles, Room, Have
<1> QED
  BY <1>1, <1>2, <1>3 DEF VerifiedInv, OnlyWhole, Reports

\* The steps of uploads leave what the client reads.
LEMMA UploadStep ==
  ASSUME Alone, VerifiedInv, NEW t \in Transfers,
         UNCHANGED <<local, toClient, aligned, file, cpc, broken>>,
         \/ UNCHANGED <<resume, rest, want, at, result, from, sent>>
         \/ Forget(t) /\ cpc[t] = "idle",
         toServer' \in Seq(Sent),
         \E l \in {spc[t], "idle", "astray"} : spc' = [spc EXCEPT ![t] = l]
  PROVE  VerifiedInv' /\ OnlyWhole
<1>0. Typed /\ Started /\ Room(t) /\ Traced /\ CleanFiles
  BY DEF VerifiedInv
<1>1. spc' \in [Transfers -> ServerPCs] /\ spc'[t] \in {spc[t], "idle", "astray"}
  BY <1>0 DEF Typed, ServerPCs
<1>2. Traced' /\ CleanFiles'
  BY <1>0, <1>1, OthersTraced
<1>3. CASE UNCHANGED <<resume, rest, want, at, result, from, sent>>
  <2>1. Typed'
    BY <1>0, <1>1, <1>3 DEF Typed
  <2>2. Started'
    BY <1>0, <1>1, <1>3 DEF Started, Sending, Alone
  <2>3. Room(t)'
    BY <1>0, <1>3 DEF Room, Have, Mine
  <2> QED
    BY <1>2, <1>3, <2>1, <2>2, <2>3 DEF VerifiedInv, Alone, OnlyWhole, Reports
<1>4. CASE Forget(t) /\ cpc[t] = "idle"
  <2>1. /\ resume' \in [Transfers -> Nat] /\ rest' \in [Transfers -> Nat]
        /\ want' \in [Transfers -> Nat] /\ at' \in [Transfers -> Nat]
        /\ from' \in [Transfers -> Nat] /\ sent' \in [Transfers -> Nat]
        /\ result' \in [Transfers -> Results]
    BY <1>0, <1>4 DEF Typed, Forget, Results
  <2>2. Typed'
    BY <1>0, <1>1, <2>1 DEF Typed
  <2>3. spc'[t] = "idle" /\ result'[t] = "none"
    BY <1>0, <1>4 DEF Typed, Forget
  <2>4. Started' /\ Room(t)'
    BY <1>0, <1>4, <2>3 DEF Started, Sending, Receiving, Room, Alone
  <2> QED
    BY <1>2, <2>2, <2>3, <2>4 DEF VerifiedInv, Alone, OnlyWhole, Reports
<1> QED
  BY <1>3, <1>4

LEMMA GroupIsSent ==
  ASSUME NEW f \in Sources, NEW c \in Versions[f], NEW n \in 0 .. Len(Group(f, c))
  PROVE  Prefix(Group(f, c), n) \in Seq(Sent)
<1> DEFINE k == Len(c)
           h == <<Msg("name", f), Msg("size", k), Msg("sha", c)>>
           r == [i \in 1 .. k |-> Msg("raw", c[i])]
           d == [i \in 1 .. k |-> Msg("frame", c[i])]
<1>1. k \in Nat /\ c \in Offered /\ \A i \in 1 .. k : c[i] \in ToSet(c)
  <2>1. c \in Seq(ToSet(c))
    BY VersionsAssumption
  <2> QED
    BY <2>1 DEF Offered, ToSet
<1>2. Msg("name", f) \in Sent /\ Msg("size", k) \in Sent /\ Msg("sha", c) \in Sent /\ Msg("end", 0) \in Sent
  BY <1>1 DEF Sent, Messages, Msg
<1>3. r \in Seq(Sent) /\ d \in Seq(Sent)
  <2>1. \A i \in 1 .. k : Msg("raw", c[i]) \in Sent /\ Msg("frame", c[i]) \in Sent
    BY <1>1 DEF Sent, Msg
  <2> HIDE DEF k
  <2> QED
    BY <1>1, <2>1
<1>4. Group(f, c) = h \o (IF k > Threshold THEN r ELSE Append(d, Msg("end", 0)))
  BY DEF Group
<1>5. h \in Seq(Sent)
  BY <1>2
<1> HIDE DEF h, r, d, k
<1>6. Append(d, Msg("end", 0)) \in Seq(Sent)
  BY <1>2, <1>3
<1> DEFINE g == Group(f, c)
<1>7. g \in Seq(Sent)
  BY <1>3, <1>4, <1>5, <1>6
<1> HIDE DEF g
<1>8. ASSUME NEW j \in 0 .. Len(g) PROVE SubSeq(g, 1, j) \in Seq(Sent)
  BY <1>7, <1>8
<1> QED
  BY <1>8 DEF Prefix, g

LEMMA UploadNextStep ==
  ASSUME Alone, VerifiedInv, [UploadNext]_vvars
  PROVE  VerifiedInv' /\ OnlyWhole
<1>0. Typed /\ toServer \in Seq(Sent) /\ (toServer # <<>> => Tail(toServer) \in Seq(Sent))
  BY DEF VerifiedInv
<1>p. toServer # <<>> => <<Piece>> \o Tail(toServer) \in Seq(Sent)
  <2>1. Piece \in Sent
    BY DEF Piece, Msg, Sent
  <2> QED
    BY <1>0, <2>1
<1>1. ASSUME NEW t \in Transfers, Gets(t) PROVE VerifiedInv' /\ OnlyWhole
  BY <1>1, DownloadStep DEF Gets
<1>2. ASSUME NEW t \in Transfers, NEW f \in Sources, Puts(t, f) PROVE VerifiedInv' /\ OnlyWhole
  <2>1. /\ UNCHANGED <<local, toClient, aligned, file, cpc, broken>> /\ Forget(t) /\ cpc[t] = "idle"
        /\ spc' = [spc EXCEPT ![t] = "idle"]
    BY <1>2 DEF Puts, Quiet, Forget
  <2>2. toServer' \in Seq(Sent)
    <3>1. PICK c \in Versions[f] : \E n \in 0 .. Len(Group(f, c)) : toServer' = toServer \o Prefix(Group(f, c), n)
      BY <1>2 DEF Puts
    <3>2. \A n \in 0 .. Len(Group(f, c)) : Prefix(Group(f, c), n) \in Seq(Sent)
      BY GroupIsSent
    <3> QED
      BY <1>0, <3>1, <3>2
  <2> QED
    BY <2>1, <2>2, UploadStep
<1>3. ASSUME NEW t \in Transfers, PutsStep(t) \/ PutsFails(t) PROVE VerifiedInv' /\ OnlyWhole
  <2>1. UNCHANGED <<local, toClient, aligned, file, client, server, broken>>
    BY <1>3, Zenon DEF PutsStep, PutsFails, TakePutsEmpty, TakePutsName, TakePutsSize, TakePutsHash, Instant,
                       Create, TakePutsRaw, TakePutsFrame, TakePutsEnd, Insert, Record, TakePuts, vars
  <2>2. \/ toServer' = toServer
        \/ toServer # <<>> /\ (toServer' = Tail(toServer) \/ toServer' = <<Piece>> \o Tail(toServer))
    BY <1>3, Zenon DEF PutsStep, PutsFails, TakePutsEmpty, TakePutsName, TakePutsSize, TakePutsHash, Instant,
                       Create, TakePutsRaw, TakePutsFrame, TakePutsEnd, Insert, Record, TakePuts, vars
  <2>3. spc' = [spc EXCEPT ![t] = spc[t]]
    BY <1>0, <2>1 DEF Typed, server
  <2> QED
    BY <1>0, <1>p, <2>1, <2>2, <2>3, UploadStep DEF client, server
<1>4. ASSUME NEW t \in Transfers, ServerGarbage(t) PROVE VerifiedInv' /\ OnlyWhole
  <2>1. \E l \in {spc[t], "idle", "astray"} : spc' = [spc EXCEPT ![t] = l]
    <3>1. spc = [spc EXCEPT ![t] = spc[t]]
      BY <1>0 DEF Typed
    <3> QED
      BY <1>4, <3>1 DEF ServerGarbage, Reads, ServerGoto
  <2>2. toServer' \in Seq(Sent)
    BY <1>0, <1>p, <1>4 DEF ServerGarbage
  <2> QED
    BY <1>4, <2>1, <2>2, UploadStep DEF ServerGarbage, client
<1>5. CASE Reconnect
  BY <1>5, DisconnectStep DEF Reconnect
<1>6. CASE UNCHANGED vvars
  BY <1>6, StutterStep DEF vvars
<1> QED
  BY <1>1, <1>2, <1>3, <1>4, <1>5, <1>6 DEF UploadNext

LEMMA DownloadNextStep ==
  ASSUME Alone, VerifiedInv, [Next]_vars
  PROVE  VerifiedInv' /\ OnlyWhole
  BY DownloadStep, DisconnectStep, StutterStep DEF Next

-----------------------------------------------------------------------------
\* Whatever files the server holds, and whatever is left unread in the connection,
\* client_gets never takes pieces of several files, or of one that was cut off, for
\* a whole one: what it calls verified begins with a whole file of the server that
\* is made of chunks of the one asked for (client_file_transfer.c:257-376,
\* file_transfer.c:227-341).
THEOREM VerifiedIsWhole ==
  (\A t, u \in Transfers : t = u) =>
    /\ Spec => [][OnlyWhole]_vars
    /\ UploadSpec => [][OnlyWhole]_vars
<1> SUFFICES ASSUME Alone
             PROVE  /\ Spec => [][OnlyWhole]_vars
                    /\ UploadSpec => [][OnlyWhole]_vars
  BY DEF Alone
<1>1. VerifiedInv /\ [Next]_vars => VerifiedInv' /\ [OnlyWhole]_vars
  BY DownloadNextStep
<1>2. VerifiedInv /\ [UploadNext]_vvars => VerifiedInv' /\ [OnlyWhole]_vars
  BY UploadNextStep
<1>3. UploadInit => VerifiedInv
  BY VerifiedInit DEF UploadInit
<1> QED
  BY <1>1, <1>2, <1>3, VerifiedInit, PTL DEF Spec, UploadSpec

\* No file of the server is made of chunks of another alone.
Distinct ==
  \A f, g \in Files : ToSet(Content[g]) \subseteq ToSet(Content[f]) => f = g \/ Content[g] = <<>>

\* When client_gets says "downloaded and verified", the file it has begins with all
\* of what the server has under that name, if the files of the server can be told
\* apart by their chunks: in a session of downloads, and of downloads and uploads
\* (client_file_transfer.c:257-376, file_transfer.c:227-341).
THEOREM Verified ==
  (\A t, u \in Transfers : t = u) /\ Distinct =>
    /\ Spec => VerifiedMatchesServer
    /\ UploadSpec => VerifiedMatchesServer
<1> DEFINE Matches ==
             \A t \in Transfers : Reports(t, "verified") => IsPrefix(Content[file[t]], local'[file[t]])
<1> SUFFICES ASSUME Alone, Distinct
             PROVE  /\ Spec => [][Matches]_vars
                    /\ UploadSpec => [][Matches]_vars
  BY DEF Alone, VerifiedMatchesServer
<1>1. VerifiedInv /\ OnlyWhole => Matches
  <2> SUFFICES ASSUME VerifiedInv, NEW t \in Transfers, Whole(t)
               PROVE  IsPrefix(Content[file[t]], local'[file[t]])
    BY DEF OnlyWhole
  <2>1. PICK g \in Files : /\ Total(g) > 0 /\ ToSet(Content[g]) \subseteq ToSet(Content[file[t]])
                          /\ IsPrefix(Content[g], local'[file[t]])
    BY DEF Whole
  <2>2. Content[g] # <<>> /\ file[t] \in Files
    BY <2>1 DEF Total, VerifiedInv, Typed
  <2> QED
    BY <2>1, <2>2 DEF Distinct
<1> HIDE DEF Matches
<1>2. VerifiedInv /\ [Next]_vars => VerifiedInv' /\ [Matches]_vars
  BY <1>1, DownloadNextStep
<1>3. VerifiedInv /\ [UploadNext]_vvars => VerifiedInv' /\ [Matches]_vars
  BY <1>1, UploadNextStep
<1>4. UploadInit => VerifiedInv
  BY VerifiedInit DEF UploadInit
<1> QED
  BY <1>2, <1>3, <1>4, VerifiedInit, PTL DEF Spec, UploadSpec
=============================================================================
