--------------------------- MODULE Download_proofs ---------------------------
(***************************************************************************)
(* Proofs about Download for any number of transfers, files and chunks.    *)
(***************************************************************************)
EXTENDS Download, SequenceTheorems, TLAPS

Messages ==
  [kind : {"name"}, val : Files] \cup [kind : {"size"}, val : Nat]
    \cup [kind : {"end"}, val : {0}] \cup [kind : {"raw", "frame"}, val : Chunks]
    \cup [kind : {"sha"}, val : Seq(Chunks)]

\* All but what the client has sent: other clients of the connection send more.
Typed ==
  /\ local \in [Files -> Seq(Chunks) \cup {Absent}]
  /\ toClient \in Seq(Messages)
  /\ aligned \in BOOLEAN /\ broken \subseteq Files
  /\ file \in [Transfers -> Files]
  /\ cpc \in [Transfers -> ClientPCs] /\ spc \in [Transfers -> ServerPCs]
  /\ resume \in [Transfers -> Nat] /\ rest \in [Transfers -> Nat]
  /\ want \in [Transfers -> Nat] /\ at \in [Transfers -> Nat]
  /\ from \in [Transfers -> Nat] /\ sent \in [Transfers -> Nat]
  /\ result \in [Transfers -> Results]

\* A download does not start after the end of the file, and a client that writes
\* has a file.
Sending == {"name", "remaining", "total", "raw", "framed", "sha"}
Receiving == {"raw", "framed", "sha"}
Started ==
  \A t \in Transfers :
    /\ spc[t] \in Sending => from[t] <= Total(file[t])
    /\ cpc[t] \in Receiving => local[file[t]] \in Seq(Chunks)

\* What the server reads next.
HeadTyped == toServer # <<>> /\ Head(toServer).kind = "size" => Head(toServer).val \in Nat

-----------------------------------------------------------------------------
LEMMA HoleIsChunk == Hole \in Chunks
  BY DEF Chunks

LEMMA ContentTyped == \A f \in Files : Content[f] \in Seq(Chunks) /\ Total(f) \in Nat
  BY ContentAssumption DEF Total

LEMMA ResizedTyped ==
  ASSUME NEW s \in Seq(Chunks), NEW n \in Nat
  PROVE  Resized(s, n) \in Seq(Chunks) /\ Len(Resized(s, n)) = n
<1>1. Resized(s, n) \in [1 .. n -> Chunks]
  BY HoleIsChunk DEF Resized
<1> QED
  BY <1>1

LEMMA WrittenTyped ==
  ASSUME NEW s \in Seq(Chunks), NEW i \in Nat \ {0}, NEW c \in Chunks
  PROVE  Written(s, i, c) \in Seq(Chunks)
<1> DEFINE n == IF i > Len(s) THEN i ELSE Len(s)
<1>1. n \in Nat /\ i \in 1 .. n
  OBVIOUS
<1>2. Resized(s, n) \in Seq(Chunks) /\ Len(Resized(s, n)) = n
  BY <1>1, ResizedTyped
<1>3. [Resized(s, n) EXCEPT ![i] = c] \in Seq(Chunks)
  BY <1>1, <1>2
<1> QED
  BY <1>3 DEF Written

LEMMA PrefixTyped ==
  ASSUME NEW s \in Seq(Chunks), NEW n \in Nat, n <= Len(s)
  PROVE  Prefix(s, n) \in Seq(Chunks)
  BY DEF Prefix

LEMMA OldFilesTyped ==
  ASSUME NEW f \in Files
  PROVE  OldFiles(f) \subseteq Seq(Chunks) \cup {Absent}
<1>1. <<Hole>> \in Seq(Chunks) /\ Content[f] \o <<Hole>> \in Seq(Chunks)
  BY HoleIsChunk, ContentTyped
<1>2. \A n \in 0 .. Total(f) : Prefix(Content[f], n) \in Seq(Chunks)
  BY ContentTyped, PrefixTyped DEF Total
<1> QED
  BY <1>1, <1>2 DEF OldFiles

LEMMA MessageTyped ==
  ASSUME NEW m \in Messages
  PROVE  /\ m.kind = "size" => m.val \in Nat
         /\ m.kind \in {"raw", "frame"} => m.val \in Chunks
         /\ MessageOK(m)
<1>1. CASE m \in [kind : {"sha"}, val : Seq(Chunks)]
  BY <1>1 DEF MessageOK, ToSet
<1>2. CASE m \notin [kind : {"sha"}, val : Seq(Chunks)]
  BY <1>2 DEF Messages, MessageOK
<1> QED
  BY <1>1, <1>2

-----------------------------------------------------------------------------
LEMMA TypedInit == Init => Typed /\ Started /\ toServer = <<>>
<1> SUFFICES ASSUME Init PROVE Typed /\ Started /\ toServer = <<>>
  OBVIOUS
<1>1. local \in [Files -> Seq(Chunks) \cup {Absent}]
  BY OldFilesTyped DEF Init
<1>2. Started
  BY DEF Init, Started, Sending, Receiving
<1> QED
  BY <1>1, <1>2 DEF Init, Typed, ClientPCs, ServerPCs, Results

\* The handler's steps.
LEMMA ServerTyped ==
  ASSUME Typed, Started, HeadTyped, NEW t \in Transfers, ServerStep(t) \/ GiveUp(t)
  PROVE  Typed' /\ Started'
<1> USE DEF Typed, Started, Sending, Receiving, ServerPCs, ClientPCs, ServerGoto, client
<1>0. \A u \in Transfers : Content[file[u]] \in Seq(Chunks) /\ Total(file[u]) \in Nat
  BY ContentTyped
\* Both of the steps that take a message set where the download starts.
<1>a. ASSUME NEW x \in Nat, NEW l \in ServerPCs, l \in Sending => x <= Total(file[t]),
             from' = [from EXCEPT ![t] = x], spc' = [spc EXCEPT ![t] = l],
             UNCHANGED <<local, toClient, aligned, file, client, sent, broken>>
      PROVE  Typed' /\ Started'
  <2>1. from' \in [Transfers -> Nat] /\ spc' \in [Transfers -> ServerPCs]
    BY <1>a
  <2>2. Typed'
    BY <1>a, <2>1
  <2>3. \A u \in Transfers : spc'[u] \in Sending => from'[u] <= Total(file[u])
    BY <1>a
  <2> QED
    BY <1>a, <2>2, <2>3
\* The steps that send leave it.
<1>b. ASSUME toClient' \in Seq(Messages), sent' \in [Transfers -> Nat], spc[t] \in Sending,
             NEW l \in ServerPCs, spc' = [spc EXCEPT ![t] = l],
             UNCHANGED <<local, aligned, file, client, from, broken>>
      PROVE  Typed' /\ Started'
  <2>1. Typed'
    BY <1>b
  <2>2. \A u \in Transfers : spc'[u] \in Sending => spc[u] \in Sending
    BY <1>b
  <2>3. Started'
    BY <1>b, <2>2
  <2> QED
    BY <2>1, <2>3
<1>1. CASE TakeOffset(t)
  <2>1. UNCHANGED <<local, toClient, aligned, file, client, sent, broken>>
    BY <1>1 DEF TakeOffset
  <2>2. CASE Head(toServer).kind = "size"
    <3> DEFINE v == Head(toServer).val
    <3>1. v \in Nat
      BY <1>1, <2>2 DEF TakeOffset, HeadTyped
    <3>2. from' = [from EXCEPT ![t] = v] /\ spc' = [spc EXCEPT ![t] = IF v > 0 THEN "hash" ELSE "name"]
      BY <1>1, <2>2 DEF TakeOffset
    <3> HIDE DEF v
    <3>3. \E l \in {"hash", "name"} :
            /\ spc' = [spc EXCEPT ![t] = l]
            /\ l \in Sending => v <= Total(file[t])
      <4>1. CASE v > 0
        BY <3>2, <4>1
      <4>2. CASE ~ (v > 0)
        BY <1>0, <3>1, <3>2, <4>2
      <4> QED
        BY <4>1, <4>2
    <3> QED
      BY <3>1, <3>2, <3>3, <2>1, <1>a
  <2>3. CASE Head(toServer).kind # "size"
    <3>1. \E x \in Nat, l \in {"hash", "name", "gone", "astray"} :
            /\ from' = [from EXCEPT ![t] = x] /\ spc' = [spc EXCEPT ![t] = l]
            /\ l = "name" => x = 0
      <4>1. [from EXCEPT ![t] = from[t]] = from /\ from[t] \in Nat
        OBVIOUS
      <4>2. CASE Head(toServer).kind = "end"
        <5>1. spc' = [spc EXCEPT ![t] = "gone"] /\ from' = from
          BY <1>1, <4>2 DEF TakeOffset
        <5> QED
          BY <4>1, <5>1
      <4>3. CASE Head(toServer).kind # "end"
        <5>1. \/ spc' = [spc EXCEPT ![t] = "astray"] /\ from' = from
              \/ \E n \in 0 .. Total(file[t]) + 1 :
                   /\ from' = [from EXCEPT ![t] = n]
                   /\ spc' = [spc EXCEPT ![t] = IF n > 0 THEN "hash" ELSE "name"]
          BY <1>1, <2>3, <4>3 DEF TakeOffset
        <5>2. \A n \in 0 .. Total(file[t]) + 1 : n \in Nat /\ (~ (n > 0) => n = 0)
          BY <1>0
        <5> QED
          BY <4>1, <5>1, <5>2
      <4> QED
        BY <4>2, <4>3
    <3> QED
      BY <3>1, <2>1, <1>0, <1>a
  <2> QED
    BY <2>2, <2>3
<1>2. CASE TakeHash(t)
  <2>1. UNCHANGED <<local, toClient, aligned, file, client, sent, broken>>
    BY <1>2 DEF TakeHash
  <2>2. \E x \in Nat, l \in {"gone", "spin", "name"} :
          /\ from' = [from EXCEPT ![t] = x] /\ spc' = [spc EXCEPT ![t] = l]
          /\ l = "name" => x <= Total(file[t])
    <3>1. [from EXCEPT ![t] = from[t]] = from /\ from[t] \in Nat
      OBVIOUS
    <3>2. CASE Head(toServer).kind = "end"
      <4>1. spc' = [spc EXCEPT ![t] = "gone"] /\ from' = from
        BY <1>2, <3>2 DEF TakeHash
      <4> QED
        BY <3>1, <4>1
    <3>3. CASE Head(toServer).kind # "end" /\ from[t] > Total(file[t])
      <4>1. spc' = [spc EXCEPT ![t] = "spin"] /\ from' = from
        BY <1>2, <3>3 DEF TakeHash
      <4> QED
        BY <3>1, <4>1
    <3>4. CASE Head(toServer).kind # "end" /\ ~ (from[t] > Total(file[t]))
      <4>1. \E x \in {0, from[t]} : from' = [from EXCEPT ![t] = x] /\ spc' = [spc EXCEPT ![t] = "name"]
        BY <1>2, <3>4 DEF TakeHash
      <4>2. \A x \in {0, from[t]} : x \in Nat /\ x <= Total(file[t])
        BY <1>0, <3>1, <3>4
      <4> QED
        BY <4>1, <4>2
    <3> QED
      BY <3>2, <3>3, <3>4
  <2> QED
    BY <2>1, <2>2, <1>a
<1>3. CASE SendName(t)
  <2>1. toClient' \in Seq(Messages)
    BY <1>3 DEF SendName, Send, Msg, Messages
  <2>2. spc' = [spc EXCEPT ![t] = "remaining"] /\ spc[t] = "name"
    BY <1>3 DEF SendName
  <2>3. UNCHANGED <<local, aligned, file, client, from, sent, broken>>
    BY <1>3 DEF SendName
  <2> QED
    BY <2>1, <2>2, <2>3, <1>b
<1>4. CASE SendRemaining(t)
  <2>1. toClient' \in Seq(Messages)
    BY <1>0, <1>4 DEF SendRemaining, Send, Msg, Messages, Left
  <2>2. spc' = [spc EXCEPT ![t] = "total"] /\ spc[t] = "remaining"
    BY <1>4 DEF SendRemaining
  <2>3. UNCHANGED <<local, aligned, file, client, from, sent, broken>>
    BY <1>4 DEF SendRemaining
  <2> QED
    BY <2>1, <2>2, <2>3, <1>b
<1>5. CASE SendTotal(t)
  <2>1. toClient' \in Seq(Messages)
    BY <1>0, <1>5 DEF SendTotal, Send, Msg, Messages
  <2>2. \E l \in {"idle", "raw", "framed"} : spc' = [spc EXCEPT ![t] = l]
    BY <1>5 DEF SendTotal
  <2>3. UNCHANGED <<local, aligned, file, client, from, broken>> /\ spc[t] = "total"
    BY <1>5 DEF SendTotal
  <2>4. sent' \in [Transfers -> Nat]
    BY <1>5 DEF SendTotal
  <2> QED
    BY <2>1, <2>2, <2>3, <2>4, <1>b
<1>6. CASE SendChunk(t)
  <2>1. Content[file[t]][sent[t] + 1] \in Chunks
    BY <1>0, <1>6 DEF SendChunk, Total
  <2>2. toClient' \in Seq(Messages)
    BY <1>6, <2>1 DEF SendChunk, Send, Msg, Messages
  <2>3. UNCHANGED <<local, aligned, file, client, from, broken>> /\ spc[t] \in {"raw", "framed"}
    BY <1>6 DEF SendChunk
  <2>4. sent' \in [Transfers -> Nat]
    BY <1>6 DEF SendChunk
  <2>5. spc' = [spc EXCEPT ![t] = spc[t]]
    BY <1>6 DEF SendChunk
  <2> QED
    BY <2>2, <2>3, <2>4, <2>5, <1>b
<1>7. CASE SendEnd(t)
  <2> DEFINE e == Msg("end", 0)
  <2>1. e \in Messages
    BY DEF Msg, Messages
  <2>2. toClient' = Append(toClient, e) \/ toClient' = toClient
    BY <1>7 DEF SendEnd, Send
  <2> HIDE DEF e
  <2>3. toClient' \in Seq(Messages)
    <3>1. toClient \in Seq(Messages)
      OBVIOUS
    <3> HIDE DEF Typed
    <3>2. Append(toClient, e) \in Seq(Messages)
      BY <2>1, <3>1
    <3> QED
      BY <2>2, <3>1, <3>2
  <2>4. spc' = [spc EXCEPT ![t] = "sha"] /\ spc[t] \in {"raw", "framed"}
    BY <1>7 DEF SendEnd
  <2>5. UNCHANGED <<local, aligned, file, client, from, sent, broken>>
    BY <1>7 DEF SendEnd
  <2> QED
    BY <2>3, <2>4, <2>5, <1>b
<1>8. CASE SendSha(t)
  <2>1. Msg("sha", Content[file[t]]) \in Messages
    BY <1>0 DEF Msg, Messages
  <2>2. toClient' = Append(toClient, Msg("sha", Content[file[t]]))
    BY <1>8 DEF SendSha, Send
  <2>3. toClient' \in Seq(Messages)
    BY <2>1, <2>2
  <2>4. spc' = [spc EXCEPT ![t] = "idle"] /\ spc[t] = "sha"
    BY <1>8 DEF SendSha
  <2>5. UNCHANGED <<local, aligned, file, client, from, sent, broken>>
    BY <1>8 DEF SendSha
  <2> QED
    BY <2>3, <2>4, <2>5, <1>b
<1>9. CASE GiveUp(t)
  BY <1>9 DEF GiveUp
<1> QED
  BY <1>1, <1>2, <1>3, <1>4, <1>5, <1>6, <1>7, <1>8, <1>9 DEF ServerStep

\* The client thread's steps.
LEMMA ClientTyped ==
  ASSUME Typed, Started, NEW t \in Transfers,
         ClientStep(t) \/ TakeTotalFails(t) \/ Abandon(t)
  PROVE  Typed' /\ Started'
<1> DEFINE m == Head(toClient)
<1> USE DEF Typed, Started, Sending, Receiving, ServerPCs, ClientPCs, Results,
            ClientGoto, Return, Take, server, Mine, SetMine
<1>m. toClient # <<>> => m \in Messages /\ Tail(toClient) \in Seq(Messages)
  OBVIOUS
<1>v. toClient # <<>> => /\ m.kind = "size" => m.val \in Nat
                         /\ m.kind \in {"raw", "frame"} => m.val \in Chunks
  BY <1>m, MessageTyped
<1> HIDE DEF m
\* A step that leaves the files alone starts no thread receiving.
<1>a. ASSUME NEW l \in ClientPCs, l \in Receiving => cpc[t] \in Receiving,
             cpc' = [cpc EXCEPT ![t] = l], UNCHANGED <<local, file, spc, from>>
      PROVE  /\ cpc' \in [Transfers -> ClientPCs] /\ local' \in [Files -> Seq(Chunks) \cup {Absent}]
             /\ Started'
  BY <1>a
\* A step that writes leaves a file.
<1>b. ASSUME NEW l \in ClientPCs, NEW s \in Seq(Chunks),
             cpc' = [cpc EXCEPT ![t] = l], local' = [local EXCEPT ![file[t]] = s],
             UNCHANGED <<file, spc, from>>
      PROVE  /\ cpc' \in [Transfers -> ClientPCs] /\ local' \in [Files -> Seq(Chunks) \cup {Absent}]
             /\ Started'
  BY <1>b
<1>1. CASE TakeName(t)
  <2>1. Started' /\ cpc' \in [Transfers -> ClientPCs]
    BY <1>1, <1>a DEF TakeName
  <2> QED
    BY <1>1, <1>m, <2>1 DEF TakeName
<1>2. CASE TakeRemaining(t)
  <2>1. Started' /\ cpc' \in [Transfers -> ClientPCs]
    BY <1>2, <1>a DEF TakeRemaining
  <2>2. rest' \in [Transfers -> Nat]
    BY <1>2, <1>v DEF TakeRemaining, m
  <2> QED
    BY <1>2, <1>m, <2>1, <2>2 DEF TakeRemaining
<1>3. CASE TakeTotalDone(t)
  <2>1. Started' /\ cpc' \in [Transfers -> ClientPCs]
    BY <1>3, <1>a DEF TakeTotalDone
  <2> QED
    BY <1>3, <1>m, <2>1 DEF TakeTotalDone
<1>4. CASE TakeTotal(t)
  <2>1. PICK resumes \in BOOLEAN, large \in BOOLEAN :
          Plan(t, resumes, large) /\ cpc' = [cpc EXCEPT ![t] = IF large THEN "raw" ELSE "framed"]
    BY <1>4 DEF TakeTotal
  <2> DEFINE r == IF resumes THEN resume[t] ELSE 0
             kept == IF resumes THEN Mine(t) ELSE <<>>
             s == IF large THEN Resized(kept, rest[t] + r) ELSE kept
  <2>2. r \in Nat /\ rest[t] + r \in Nat
    OBVIOUS
  <2>3. kept \in Seq(Chunks)
    BY <2>1 DEF Plan
  <2>4. s \in Seq(Chunks)
    <3> HIDE DEF r, kept
    <3> QED
      BY <2>2, <2>3, ResizedTyped
  <2>5. /\ local' = [local EXCEPT ![file[t]] = s] /\ resume' = [resume EXCEPT ![t] = r]
        /\ want' = [want EXCEPT ![t] = rest[t] + r] /\ at' = [at EXCEPT ![t] = r]
    BY <2>1 DEF Plan
  <2>6. PICK l \in ClientPCs : cpc' = [cpc EXCEPT ![t] = l]
    BY <2>1
  <2> HIDE DEF r, s
  <2>7. UNCHANGED <<file, spc, from, sent, aligned, rest, result>> /\ toClient' = Tail(toClient) /\ toClient # <<>>
    BY <1>4 DEF TakeTotal
  <2>8. /\ Started' /\ cpc' \in [Transfers -> ClientPCs]
        /\ local' \in [Files -> Seq(Chunks) \cup {Absent}]
    BY <2>4, <2>5, <2>6, <2>7, <1>b
  <2>9. /\ resume' \in [Transfers -> Nat] /\ want' \in [Transfers -> Nat]
        /\ at' \in [Transfers -> Nat]
    BY <2>2, <2>5
  <2>10. broken' \subseteq Files
    BY <1>4 DEF TakeTotal
  <2> QED
    BY <1>m, <2>7, <2>8, <2>9, <2>10
<1>5. CASE TakeRaw(t)
  <2>1. PICK c \in Chunks : local' = [local EXCEPT ![file[t]] = Written(Mine(t), at[t] + 1, c)]
    <3>1. CASE aligned /\ m.kind = "raw"
      BY <1>5, <1>v, <3>1 DEF TakeRaw, m
    <3>2. CASE ~ (aligned /\ m.kind = "raw")
      BY <1>5, <3>2, HoleIsChunk DEF TakeRaw, m
    <3> QED
      BY <3>1, <3>2
  <2>2. Written(Mine(t), at[t] + 1, c) \in Seq(Chunks)
    <3>1. Mine(t) \in Seq(Chunks)
      BY <1>5 DEF TakeRaw
    <3>2. at[t] + 1 \in Nat \ {0}
      OBVIOUS
    <3> HIDE DEF Mine
    <3> QED
      BY <3>1, <3>2, WrittenTyped
  <2>3. PICK l \in ClientPCs : cpc' = [cpc EXCEPT ![t] = l]
    BY <1>5 DEF TakeRaw
  <2>4. /\ Started' /\ cpc' \in [Transfers -> ClientPCs]
        /\ local' \in [Files -> Seq(Chunks) \cup {Absent}]
    BY <1>5, <2>1, <2>2, <2>3, <1>b DEF TakeRaw
  <2>5. aligned' \in BOOLEAN
    BY <1>5 DEF TakeRaw
  <2>6. at' \in [Transfers -> Nat]
    BY <1>5 DEF TakeRaw
  <2> QED
    BY <1>5, <1>m, <2>4, <2>5, <2>6 DEF TakeRaw
<1>6. CASE TakeFrame(t)
  <2>1. PICK c \in Chunks : local' = [local EXCEPT ![file[t]] = Written(Mine(t), at[t] + 1, c)]
    BY <1>6, <1>v, HoleIsChunk DEF TakeFrame, m
  <2>2. Written(Mine(t), at[t] + 1, c) \in Seq(Chunks)
    <3>1. Mine(t) \in Seq(Chunks)
      BY <1>6 DEF TakeFrame
    <3>2. at[t] + 1 \in Nat \ {0}
      OBVIOUS
    <3> HIDE DEF Mine
    <3> QED
      BY <3>1, <3>2, WrittenTyped
  <2>3. cpc' = [cpc EXCEPT ![t] = "framed"]
    BY <1>6 DEF TakeFrame
  <2>4. /\ Started' /\ cpc' \in [Transfers -> ClientPCs]
        /\ local' \in [Files -> Seq(Chunks) \cup {Absent}]
    BY <1>6, <2>1, <2>2, <2>3, <1>b DEF TakeFrame
  <2>5. at' \in [Transfers -> Nat]
    BY <1>6 DEF TakeFrame
  <2> QED
    BY <1>6, <1>m, <2>4, <2>5 DEF TakeFrame
<1>7. CASE TakeEnd(t)
  <2>1. PICK l \in {"spin", "sha"} : cpc' = [cpc EXCEPT ![t] = l]
    BY <1>7 DEF TakeEnd
  <2>2. Started' /\ cpc' \in [Transfers -> ClientPCs]
    BY <1>7, <2>1, <1>a DEF TakeEnd
  <2> QED
    BY <1>7, <1>m, <2>2 DEF TakeEnd
<1>8. CASE TakeSha(t)
  <2>1. Started' /\ cpc' \in [Transfers -> ClientPCs]
    BY <1>8, <1>a DEF TakeSha
  <2>2. result' \in [Transfers -> Results]
    BY <1>8 DEF TakeSha
  <2> QED
    BY <1>8, <1>m, <2>1, <2>2 DEF TakeSha
<1>9. CASE TakeWrong(t)
  <2>1. Started' /\ cpc' \in [Transfers -> ClientPCs]
    BY <1>9, <1>a DEF TakeWrong
  <2> QED
    BY <1>9, <1>m, <2>1 DEF TakeWrong
<1>10. CASE TakeGarbage(t)
  <2>1. Started' /\ cpc' \in [Transfers -> ClientPCs]
    BY <1>10, <1>a DEF TakeGarbage
  <2> QED
    BY <1>10, <1>m, <2>1 DEF TakeGarbage
<1>11. CASE TakeTotalFails(t)
  <2>1. Started' /\ cpc' \in [Transfers -> ClientPCs]
    BY <1>11, <1>a DEF TakeTotalFails
  <2> QED
    BY <1>11, <1>m, <2>1 DEF TakeTotalFails
<1>12. CASE Abandon(t)
  <2>1. Started' /\ cpc' \in [Transfers -> ClientPCs]
    BY <1>12, <1>a DEF Abandon
  <2> QED
    BY <1>12, <2>1 DEF Abandon
<1> QED
  BY <1>1, <1>2, <1>3, <1>4, <1>5, <1>6, <1>7, <1>8, <1>9, <1>10, <1>11, <1>12 DEF ClientStep

LEMMA BeginTyped ==
  ASSUME Typed, Started, NEW S, toServer \in Seq(S), Messages \subseteq S,
         NEW t \in Transfers, NEW f \in Files, Begin(t, f)
  PROVE  /\ Typed' /\ Started'
         /\ \E m \in Messages :
              /\ m.kind = "size"
              /\ \/ toServer' = toServer \o <<m>>
                 \/ \E h \in Messages : toServer' = (toServer \o <<m>>) \o <<h>>
<1> DEFINE n == IF local[f] = Absent THEN 0 ELSE Len(local[f])
<1>1. n \in Nat /\ (n > 0 => local[f] \in Seq(Chunks))
  BY DEF Typed
<1> HIDE DEF n
<1>2. /\ file' = [file EXCEPT ![t] = f] /\ resume' = [resume EXCEPT ![t] = n]
      /\ cpc' = [cpc EXCEPT ![t] = "name"] /\ spc' = [spc EXCEPT ![t] = "offset"]
      /\ result' = [result EXCEPT ![t] = "none"]
      /\ rest' = [rest EXCEPT ![t] = 0] /\ want' = [want EXCEPT ![t] = 0]
      /\ at' = [at EXCEPT ![t] = 0] /\ from' = [from EXCEPT ![t] = 0]
      /\ sent' = [sent EXCEPT ![t] = 0] /\ UNCHANGED <<local, toClient, aligned, broken>>
  BY DEF Begin, ClientGoto, ServerGoto, n
<1>3. /\ file' \in [Transfers -> Files] /\ resume' \in [Transfers -> Nat]
      /\ cpc' \in [Transfers -> ClientPCs] /\ spc' \in [Transfers -> ServerPCs]
      /\ result' \in [Transfers -> Results]
      /\ rest' \in [Transfers -> Nat] /\ want' \in [Transfers -> Nat]
      /\ at' \in [Transfers -> Nat] /\ from' \in [Transfers -> Nat]
      /\ sent' \in [Transfers -> Nat]
  BY <1>1, <1>2 DEF Typed, ClientPCs, ServerPCs, Results
<1>4. Typed'
  BY <1>2, <1>3 DEF Typed
<1>5. Started'
  BY <1>2 DEF Started, Typed, Sending, Receiving
<1>6. Msg("size", n) \in Messages /\ (n > 0 => Msg("sha", local[f]) \in Messages)
  BY <1>1 DEF Msg, Messages
<1>7. toServer' = toServer \o <<Msg("size", n)>> \o (IF n > 0 THEN <<Msg("sha", local[f])>> ELSE <<>>)
  BY DEF Begin, n
<1>8. CASE n > 0
  BY <1>4, <1>5, <1>6, <1>7, <1>8 DEF Msg
<1>9. CASE ~ (n > 0)
  <2> DEFINE m == Msg("size", n)
  <2>1. toServer' = (toServer \o <<m>>) \o <<>>
    BY <1>7, <1>9
  <2>2. m \in Messages /\ m.kind = "size"
    BY <1>6 DEF Msg
  <2> HIDE DEF m
  <2>3. toServer \o <<m>> \in Seq(S)
    BY <2>2
  <2>4. toServer' = toServer \o <<m>>
    <3> DEFINE z == toServer \o <<m>>
    <3>1. z \o <<>> = z
      <4> HIDE DEF z
      <4> QED
        BY <2>3, ConcatEmptySeq DEF z
    <3> QED
      BY <2>1, <3>1
  <2> QED
    BY <1>4, <1>5, <2>2, <2>4
<1> QED
  BY <1>8, <1>9

LEMMA DisconnectTyped ==
  ASSUME Typed, Started, Disconnect
  PROVE  Typed' /\ Started' /\ toServer' = <<>>
<1> USE DEF Typed, Disconnect
<1>1. /\ cpc' \in [Transfers -> ClientPCs] /\ spc' \in [Transfers -> ServerPCs]
      /\ result' \in [Transfers -> Results]
  BY DEF ClientPCs, ServerPCs, Results
<1>2. broken' \subseteq Files
  OBVIOUS
<1>3. Typed'
  BY <1>1, <1>2
<1>4. Started'
  BY DEF Started, Sending, Receiving
<1> QED
  BY <1>3, <1>4

-----------------------------------------------------------------------------
(* The specification *)

\* Typed, with what the client has sent.
Inv == Typed /\ Started /\ toServer \in Seq(Messages)

LEMMA InvInit == Init => Inv
<1>1. <<>> \in Seq(Messages)
  OBVIOUS
<1> QED
  BY <1>1, TypedInit DEF Inv

LEMMA InvNext == Inv /\ [Next]_vars => Inv'
<1> SUFFICES ASSUME Inv, [Next]_vars PROVE Inv'
  OBVIOUS
<1> USE DEF Inv
<1>1. HeadTyped
  <2>1. toServer # <<>> => Head(toServer) \in Messages
    OBVIOUS
  <2> QED
    BY <2>1, MessageTyped DEF HeadTyped
<1>2. ASSUME NEW t \in Transfers, ServerStep(t) \/ GiveUp(t) PROVE Inv'
  <2>1. toServer' \in Seq(Messages)
    <3>1. toServer # <<>> => Tail(toServer) \in Seq(Messages)
      OBVIOUS
    <3>2. CASE TakeOffset(t) \/ TakeHash(t)
      <4>1. toServer # <<>> /\ toServer' = Tail(toServer)
        BY <3>2, Zenon DEF TakeOffset, TakeHash
      <4> QED
        BY <3>1, <4>1
    <3>3. CASE ~ (TakeOffset(t) \/ TakeHash(t))
      <4>1. toServer' = toServer
        BY <1>2, <3>3, Zenon DEF ServerStep, GiveUp, SendName, SendRemaining, SendTotal,
                                 SendChunk, SendEnd, SendSha
      <4> QED
        BY <4>1
    <3> QED
      BY <3>2, <3>3
  <2> QED
    BY <1>1, <1>2, <2>1, ServerTyped
<1>3. ASSUME NEW t \in Transfers, ClientStep(t) \/ TakeTotalFails(t) \/ Abandon(t) PROVE Inv'
  <2>1. toServer' = toServer
    BY <1>3 DEF ClientStep, TakeTotalFails, Abandon, Take, TakeName, TakeRemaining, TakeTotalDone,
                TakeTotal, TakeRaw, TakeFrame, TakeEnd, TakeSha, TakeWrong, TakeGarbage
  <2> QED
    BY <1>3, <2>1, ClientTyped
<1>4. ASSUME NEW t \in Transfers, NEW f \in Files, Begin(t, f) PROVE Inv'
  <2>1. /\ Typed' /\ Started'
        /\ \E m \in Messages :
             /\ m.kind = "size"
             /\ \/ toServer' = toServer \o <<m>>
                \/ \E h \in Messages : toServer' = (toServer \o <<m>>) \o <<h>>
    BY <1>4, BeginTyped
  <2>2. \A m, h \in Messages :
          /\ toServer \o <<m>> \in Seq(Messages)
          /\ (toServer \o <<m>>) \o <<h>> \in Seq(Messages)
    <3>1. \A s \in Seq(Messages), m \in Messages : s \o <<m>> \in Seq(Messages)
      OBVIOUS
    <3> QED
      BY <3>1
  <2> QED
    BY <2>1, <2>2
<1>5. CASE Disconnect
  BY <1>5, DisconnectTyped
<1>6. CASE UNCHANGED vars
  BY <1>6 DEF vars, client, server, Typed, Started
<1> QED
  BY <1>2, <1>3, <1>4, <1>5, <1>6 DEF Next

LEMMA InvIsTypeOK == Inv => TypeOK
<1> SUFFICES ASSUME Inv PROVE TypeOK
  OBVIOUS
<1>1. \A f \in Files : local[f] = Absent \/ ToSet(local[f]) \subseteq Chunks
  BY DEF Inv, Typed, ToSet
<1>2. \A m \in ToSet(toServer) \cup ToSet(toClient) : m \in Messages
  BY DEF Inv, Typed, ToSet
<1> QED
  BY <1>1, <1>2, MessageTyped DEF Inv, Typed, TypeOK

\* The types of the files, of what is in the connection and of the locals of both
\* functions hold for any files, threads and failures: a chunk of a file is the
\* server's or a hole, and no size the server announces is negative, though the
\* client chooses where the download starts (file_transfer.c:163-346,
\* client_file_transfer.c:117-377).
THEOREM TypeCorrect == Spec => []TypeOK
<1>1. Spec => []Inv
  BY InvInit, InvNext, PTL DEF Spec
<1> QED
  BY <1>1, InvIsTypeOK, PTL
=============================================================================
