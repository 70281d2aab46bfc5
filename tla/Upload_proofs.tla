---------------------------- MODULE Upload_proofs ----------------------------
(***************************************************************************)
(* Proofs about Upload, for sessions of any length, of a client that runs  *)
(* one transfer at a time.                                                 *)
(***************************************************************************)
EXTENDS Upload, SequenceTheorems, TLAPS

\* One slot: a handler is alone with the connection.
Alone == \A t, u \in Transfers : t = u

\* A sequence, of whatever.
IsSeq(s) == s \in Seq({s[i] : i \in 1 .. Len(s)})

\* What is left of g after its first k messages stands first in s, or alone.
Ahead(s, alone, g, k) ==
  /\ k \in 0 .. Len(g)
  /\ Len(s) >= Len(g) - k
  /\ alone => Len(s) = Len(g) - k
  /\ \A j \in 1 .. Len(g) - k : s[j] = g[k + j]

\* A name is followed by all that client_puts sends with it.
WholeAt(s, i) ==
  \E f \in Sources : \E c \in Versions[f] :
    /\ i + Len(Group(f, c)) - 1 <= Len(s)
    /\ \A j \in 1 .. Len(Group(f, c)) : s[i + j - 1] = Group(f, c)[j]
Grouped(s) == \A i \in 1 .. Len(s) : s[i].kind = "name" => WholeAt(s, i)

-----------------------------------------------------------------------------
(* Sequences *)

LEMMA SeqIsSeq ==
  ASSUME NEW S, NEW s \in Seq(S)
  PROVE  IsSeq(s)
<1>1. s \in [1 .. Len(s) -> {s[i] : i \in 1 .. Len(s)}] /\ Len(s) \in Nat
  OBVIOUS
<1> QED
  BY <1>1 DEF IsSeq

LEMMA TailIsSeq ==
  ASSUME NEW s, IsSeq(s), s # <<>>
  PROVE  /\ IsSeq(Tail(s)) /\ Len(s) \in Nat \ {0} /\ Head(s) = s[1]
         /\ Len(Tail(s)) = Len(s) - 1
         /\ \A j \in 1 .. Len(s) - 1 : Tail(s)[j] = s[j + 1]
<1> DEFINE S == {s[i] : i \in 1 .. Len(s)}
<1>1. s \in Seq(S)
  BY DEF IsSeq
<1> HIDE DEF S
<1>2. Tail(s) \in Seq(S)
  BY <1>1
<1>3. IsSeq(Tail(s))
  BY <1>2, SeqIsSeq
<1>4. Len(s) \in Nat \ {0} /\ Head(s) = s[1] /\ Len(Tail(s)) = Len(s) - 1
  BY <1>1
<1>5. \A j \in 1 .. Len(s) - 1 : Tail(s)[j] = s[j + 1]
  BY <1>1
<1> QED
  BY <1>3, <1>4, <1>5

LEMMA SeqInLarger ==
  ASSUME NEW A, NEW B, A \subseteq B, NEW s \in Seq(A)
  PROVE  s \in Seq(B)
  OBVIOUS

LEMMA ConcatIsSeq ==
  ASSUME NEW s, NEW r, IsSeq(s), IsSeq(r)
  PROVE  /\ IsSeq(s \o r) /\ Len(s) \in Nat /\ Len(r) \in Nat
         /\ Len(s \o r) = Len(s) + Len(r)
         /\ \A j \in 1 .. Len(s) + Len(r) :
              (s \o r)[j] = IF j <= Len(s) THEN s[j] ELSE r[j - Len(s)]
<1> DEFINE A == {s[i] : i \in 1 .. Len(s)}
           B == {r[i] : i \in 1 .. Len(r)}
<1>1. s \in Seq(A) /\ r \in Seq(B)
  BY DEF IsSeq
<1> HIDE DEF A, B
<1>2. s \in Seq(A \cup B) /\ r \in Seq(A \cup B)
  BY <1>1, SeqInLarger
<1>3. s \o r \in Seq(A \cup B)
  BY <1>2
<1>4. IsSeq(s \o r)
  BY <1>3, SeqIsSeq
<1>5. /\ Len(s) \in Nat /\ Len(r) \in Nat /\ Len(s \o r) = Len(s) + Len(r)
      /\ \A j \in 1 .. Len(s) + Len(r) :
           (s \o r)[j] = IF j <= Len(s) THEN s[j] ELSE r[j - Len(s)]
  BY <1>2
<1> QED
  BY <1>4, <1>5

\* The first message of what is left is read, the rest is left.
LEMMA AheadTail ==
  ASSUME NEW s, IsSeq(s), NEW b \in BOOLEAN, NEW g, Len(g) \in Nat, NEW k,
         Ahead(s, b, g, k), k < Len(g)
  PROVE  s # <<>> /\ Head(s) = g[k + 1] /\ Ahead(Tail(s), b, g, k + 1)
<1>1. k \in Nat /\ Len(s) >= 1
  BY DEF Ahead, IsSeq
<1>2. s # <<>>
  BY <1>1
<1>3. Head(s) = s[1] /\ Len(Tail(s)) = Len(s) - 1 /\ Len(s) \in Nat
      /\ \A j \in 1 .. Len(s) - 1 : Tail(s)[j] = s[j + 1]
  BY <1>2, TailIsSeq
<1>4. \A j \in 1 .. Len(g) - (k + 1) : Tail(s)[j] = g[(k + 1) + j]
  <2> SUFFICES ASSUME NEW j \in 1 .. Len(g) - (k + 1) PROVE Tail(s)[j] = g[(k + 1) + j]
    OBVIOUS
  <2>1. j \in 1 .. Len(s) - 1 /\ j + 1 \in 1 .. Len(g) - k
    BY <1>1, <1>3 DEF Ahead
  <2>2. s[j + 1] = g[k + (j + 1)]
    BY <2>1 DEF Ahead
  <2> QED
    BY <1>1, <1>3, <2>1, <2>2
<1> QED
  BY <1>1, <1>2, <1>3, <1>4 DEF Ahead

-----------------------------------------------------------------------------
(* What the client sends *)

LEMMA BodyIs ==
  ASSUME NEW A, NEW c \in Seq(A), NEW kind
  PROVE  LET d == [i \in 1 .. Len(c) |-> Msg(kind, c[i])]
         IN /\ IsSeq(d) /\ Len(d) = Len(c)
            /\ \A i \in 1 .. Len(c) : d[i] = Msg(kind, c[i])
<1> DEFINE D == {Msg(kind, x) : x \in A}
           d == [i \in 1 .. Len(c) |-> Msg(kind, c[i])]
<1>1. d \in [1 .. Len(c) -> D]
  OBVIOUS
<1> HIDE DEF D
<1>2. d \in Seq(D) /\ Len(d) = Len(c)
  BY <1>1
<1>3. IsSeq(d)
  BY <1>2, SeqIsSeq
<1> QED
  BY <1>2, <1>3

LEMMA GroupIs ==
  ASSUME NEW A, NEW c \in Seq(A), NEW f
  PROVE  LET g == Group(f, c)
             n == Len(c)
         IN /\ IsSeq(g) /\ n \in Nat
            /\ Len(g) = IF n > Threshold THEN n + 3 ELSE n + 4
            /\ g[1] = Msg("name", f) /\ g[2] = Msg("size", n) /\ g[3] = Msg("sha", c)
            /\ \A i \in 1 .. n : g[3 + i] = Msg(IF n > Threshold THEN "raw" ELSE "frame", c[i])
            /\ n <= Threshold => g[n + 4] = Msg("end", 0)
            /\ \A j \in 2 .. Len(g) : g[j].kind # "name"
<1> USE ThresholdAssumption
<1> DEFINE g == Group(f, c)
           n == Len(c)
           h == <<Msg("name", f), Msg("size", n), Msg("sha", c)>>
           r == [i \in 1 .. n |-> Msg("raw", c[i])]
           d == [i \in 1 .. n |-> Msg("frame", c[i])]
           e == <<Msg("end", 0)>>
<1>1. n \in Nat
  OBVIOUS
<1>2. /\ IsSeq(h) /\ Len(h) = 3
      /\ h[1] = Msg("name", f) /\ h[2] = Msg("size", n) /\ h[3] = Msg("sha", c)
  <2>1. h \in Seq({Msg("name", f), Msg("size", n), Msg("sha", c)})
    OBVIOUS
  <2> QED
    BY <2>1, SeqIsSeq
<1>3. IsSeq(r) /\ Len(r) = n /\ \A i \in 1 .. n : r[i] = Msg("raw", c[i])
  BY BodyIs
<1>4. IsSeq(d) /\ Len(d) = n /\ \A i \in 1 .. n : d[i] = Msg("frame", c[i])
  BY BodyIs
<1>5. IsSeq(e) /\ Len(e) = 1 /\ e[1] = Msg("end", 0)
  <2>1. e \in Seq({Msg("end", 0)})
    OBVIOUS
  <2> QED
    BY <2>1, SeqIsSeq
<1>6. n > Threshold => g = h \o r
  BY DEF Group
<1>7. ~ (n > Threshold) => g = h \o (d \o e)
  <2>1. Append(d, Msg("end", 0)) = d \o e
    <3>1. d \in Seq({d[i] : i \in 1 .. Len(d)} \cup {Msg("end", 0)})
      BY <1>4, SeqInLarger DEF IsSeq
    <3> HIDE DEF d
    <3> QED
      BY <3>1, AppendIsConcat
  <2> QED
    BY <2>1 DEF Group
<1> HIDE DEF g, n, h, r, d, e
<1>8. CASE n > Threshold
  <2>1. /\ IsSeq(g) /\ Len(g) = 3 + n
        /\ \A j \in 1 .. 3 + n : g[j] = IF j <= 3 THEN h[j] ELSE r[j - 3]
    <3>1. /\ IsSeq(h \o r) /\ Len(h \o r) = Len(h) + Len(r)
          /\ \A j \in 1 .. Len(h) + Len(r) : (h \o r)[j] = IF j <= Len(h) THEN h[j] ELSE r[j - Len(h)]
      BY <1>2, <1>3, ConcatIsSeq
    <3>2. g = h \o r /\ Len(h) = 3 /\ Len(r) = n
      BY <1>2, <1>3, <1>6, <1>8
    <3> QED
      BY <3>1, <3>2
  <2>2. \A i \in 1 .. n : g[3 + i] = Msg("raw", c[i])
    BY <1>1, <1>3, <2>1
  <2>3. g[1] = Msg("name", f) /\ g[2] = Msg("size", n) /\ g[3] = Msg("sha", c)
    BY <1>1, <1>2, <2>1
  <2>4. \A j \in 2 .. Len(g) : g[j].kind # "name"
    <3> SUFFICES ASSUME NEW j \in 2 .. Len(g) PROVE g[j].kind # "name"
      OBVIOUS
    <3>1. j = 2 \/ j = 3 \/ \E i \in 1 .. n : j = 3 + i
      <4>1. j \in {2, 3} \/ (j - 3 \in 1 .. n /\ j = 3 + (j - 3))
        BY <1>1, <2>1
      <4> QED
        BY <4>1
    <3>2. CASE j \in {2, 3}
      BY <2>3, <3>2 DEF Msg
    <3>3. CASE \E i \in 1 .. n : j = 3 + i
      <4>1. PICK i \in 1 .. n : j = 3 + i
        BY <3>3
      <4>2. g[j] = Msg("raw", c[i])
        BY <2>2, <4>1
      <4> QED
        BY <4>2 DEF Msg
    <3> QED
      BY <3>1, <3>2, <3>3
  <2> QED
    BY <1>1, <1>8, <2>1, <2>2, <2>3, <2>4 DEF g, n
<1>9. CASE ~ (n > Threshold)
  <2>1. /\ IsSeq(d \o e) /\ Len(d \o e) = n + 1
        /\ \A j \in 1 .. n + 1 : (d \o e)[j] = IF j <= n THEN d[j] ELSE e[j - n]
    <3>1. /\ IsSeq(d \o e) /\ Len(d \o e) = Len(d) + Len(e)
          /\ \A j \in 1 .. Len(d) + Len(e) : (d \o e)[j] = IF j <= Len(d) THEN d[j] ELSE e[j - Len(d)]
      BY <1>4, <1>5, ConcatIsSeq
    <3>2. Len(d) = n /\ Len(e) = 1
      BY <1>4, <1>5
    <3> QED
      BY <3>1, <3>2
  <2>2. /\ IsSeq(g) /\ Len(g) = n + 4
        /\ \A j \in 1 .. n + 4 : g[j] = IF j <= 3 THEN h[j] ELSE (d \o e)[j - 3]
    <3> DEFINE z == d \o e
    <3>1. IsSeq(z) /\ Len(z) = n + 1 /\ g = h \o z /\ Len(h) = 3 /\ 3 + (n + 1) = n + 4
      BY <1>1, <1>2, <1>7, <1>9, <2>1
    <3> HIDE DEF z
    <3>2. /\ IsSeq(h \o z) /\ Len(h \o z) = Len(h) + Len(z)
          /\ \A j \in 1 .. Len(h) + Len(z) : (h \o z)[j] = IF j <= Len(h) THEN h[j] ELSE z[j - Len(h)]
      BY <1>2, <3>1, ConcatIsSeq
    <3>3. /\ IsSeq(g) /\ Len(g) = n + 4
          /\ \A j \in 1 .. n + 4 : g[j] = IF j <= 3 THEN h[j] ELSE z[j - 3]
      BY <3>1, <3>2
    <3> QED
      BY <3>3 DEF z
  <2>3. \A i \in 1 .. n : g[3 + i] = Msg("frame", c[i])
    BY <1>1, <1>4, <2>1, <2>2
  <2>4. g[n + 4] = Msg("end", 0)
    <3>1. (n + 4) - 3 = n + 1 /\ (n + 1) - n = 1 /\ ~ (n + 4 <= 3) /\ ~ (n + 1 <= n)
      BY <1>1
    <3> QED
      BY <1>1, <1>5, <2>1, <2>2, <3>1
  <2>5. g[1] = Msg("name", f) /\ g[2] = Msg("size", n) /\ g[3] = Msg("sha", c)
    BY <1>1, <1>2, <2>2
  <2>6. \A j \in 2 .. Len(g) : g[j].kind # "name"
    <3> SUFFICES ASSUME NEW j \in 2 .. Len(g) PROVE g[j].kind # "name"
      OBVIOUS
    <3>1. j = 2 \/ j = 3 \/ j = n + 4 \/ \E i \in 1 .. n : j = 3 + i
      <4>1. j \in {2, 3, n + 4} \/ (j - 3 \in 1 .. n /\ j = 3 + (j - 3))
        BY <1>1, <2>2
      <4> QED
        BY <4>1
    <3>2. CASE j \in {2, 3}
      BY <2>5, <3>2 DEF Msg
    <3>3. CASE \E i \in 1 .. n : j = 3 + i
      <4>1. PICK i \in 1 .. n : j = 3 + i
        BY <3>3
      <4>2. g[j] = Msg("frame", c[i])
        BY <2>3, <4>1
      <4> QED
        BY <4>2 DEF Msg
    <3>4. CASE j = n + 4
      BY <2>4, <3>4 DEF Msg
    <3> QED
      BY <3>1, <3>2, <3>3, <3>4
  <2> QED
    BY <1>1, <1>9, <2>2, <2>3, <2>4, <2>5, <2>6 DEF g, n
<1> QED
  BY <1>8, <1>9

LEMMA GroupLength ==
  \A f \in Sources : \A c \in Versions[f] : IsSeq(Group(f, c)) /\ Len(Group(f, c)) \in Nat /\ Len(Group(f, c)) > 2
<1> SUFFICES ASSUME NEW f \in Sources, NEW c \in Versions[f]
             PROVE  IsSeq(Group(f, c)) /\ Len(Group(f, c)) \in Nat /\ Len(Group(f, c)) > 2
  OBVIOUS
<1> DEFINE n == Len(c)
           L == Len(Group(f, c))
<1>1. c \in Seq(ToSet(c))
  BY VersionsAssumption
<1>2. n \in Nat /\ IsSeq(Group(f, c)) /\ L = IF n > Threshold THEN n + 3 ELSE n + 4
  BY <1>1, GroupIs
<1> HIDE DEF n, L
<1>3. L \in Nat /\ L > 2
  BY <1>2
<1> QED
  BY <1>2, <1>3 DEF L

\* Files that were sent whole stay whole as the first message is read, ...
LEMMA GroupedTail ==
  ASSUME NEW s, IsSeq(s), s # <<>>, Grouped(s)
  PROVE  Grouped(Tail(s))
<1>1. Len(s) \in Nat \ {0} /\ Len(Tail(s)) = Len(s) - 1 /\ \A j \in 1 .. Len(s) - 1 : Tail(s)[j] = s[j + 1]
  BY TailIsSeq
<1> SUFFICES ASSUME NEW i \in 1 .. Len(s) - 1, s[i + 1].kind = "name" PROVE WholeAt(Tail(s), i)
  BY <1>1 DEF Grouped
<1>2. WholeAt(s, i + 1)
  BY <1>1 DEF Grouped
<1>3. PICK f \in Sources : \E c \in Versions[f] :
        /\ (i + 1) + Len(Group(f, c)) - 1 <= Len(s)
        /\ \A j \in 1 .. Len(Group(f, c)) : s[(i + 1) + j - 1] = Group(f, c)[j]
  BY <1>2 DEF WholeAt
<1>4. PICK c \in Versions[f] :
        /\ (i + 1) + Len(Group(f, c)) - 1 <= Len(s)
        /\ \A j \in 1 .. Len(Group(f, c)) : s[(i + 1) + j - 1] = Group(f, c)[j]
  BY <1>3
<1> DEFINE g == Group(f, c)
<1>5. Len(g) \in Nat
  BY GroupLength
<1> HIDE DEF g
<1>6. i + Len(g) - 1 <= Len(Tail(s))
  BY <1>1, <1>4, <1>5 DEF g
<1>7. \A j \in 1 .. Len(g) : Tail(s)[i + j - 1] = g[j]
  <2> SUFFICES ASSUME NEW j \in 1 .. Len(g) PROVE Tail(s)[i + j - 1] = g[j]
    OBVIOUS
  <2>1. i + j - 1 \in 1 .. Len(s) - 1 /\ (i + j - 1) + 1 = (i + 1) + j - 1
    BY <1>1, <1>5, <1>6
  <2>2. s[(i + 1) + j - 1] = g[j]
    BY <1>4 DEF g
  <2>3. Tail(s)[i + j - 1] = s[(i + j - 1) + 1]
    BY <1>1, <2>1
  <2> QED
    BY <2>1, <2>2, <2>3
<1> QED
  BY <1>6, <1>7 DEF WholeAt, g

LEMMA PieceIsSeq ==
  ASSUME NEW s, IsSeq(s), s # <<>>
  PROVE  IsSeq(<<Piece>> \o Tail(s))
<1> DEFINE p == <<Piece>>
<1>1. p \in Seq({Piece})
  OBVIOUS
<1> HIDE DEF p
<1>2. IsSeq(p)
  BY <1>1, SeqIsSeq
<1>3. IsSeq(p \o Tail(s))
  BY <1>2, TailIsSeq, ConcatIsSeq
<1> QED
  BY <1>3 DEF p

\* ... as a part of it is, ...
LEMMA GroupedPiece ==
  ASSUME NEW s, IsSeq(s), s # <<>>, Grouped(s)
  PROVE  IsSeq(<<Piece>> \o Tail(s)) /\ Grouped(<<Piece>> \o Tail(s))
<1> DEFINE p == <<Piece>>
           r == p \o Tail(s)
<1>1. IsSeq(p) /\ Len(p) = 1 /\ p[1] = Piece
  <2>1. p \in Seq({Piece})
    OBVIOUS
  <2> QED
    BY <2>1, SeqIsSeq
<1>2. /\ IsSeq(Tail(s)) /\ Len(s) \in Nat \ {0} /\ Len(Tail(s)) = Len(s) - 1
      /\ \A j \in 1 .. Len(s) - 1 : Tail(s)[j] = s[j + 1]
  BY TailIsSeq
<1> HIDE DEF p
<1>3. /\ IsSeq(r) /\ Len(r) = Len(p) + Len(Tail(s))
      /\ \A j \in 1 .. Len(p) + Len(Tail(s)) : r[j] = IF j <= Len(p) THEN p[j] ELSE Tail(s)[j - Len(p)]
  BY <1>1, <1>2, ConcatIsSeq
<1> HIDE DEF r
<1>4. Len(r) = Len(s) /\ r[1] = Piece /\ \A j \in 2 .. Len(s) : r[j] = s[j]
  <2>1. Len(r) = Len(s) /\ r[1] = Piece
    BY <1>1, <1>2, <1>3
  <2>2. ASSUME NEW j \in 2 .. Len(s) PROVE r[j] = s[j]
    <3>1. j - 1 \in 1 .. Len(s) - 1 /\ (j - 1) + 1 = j /\ ~ (j <= 1) /\ j \in 1 .. Len(p) + Len(Tail(s))
      BY <1>1, <1>2
    <3>2. r[j] = Tail(s)[j - 1]
      BY <1>1, <1>3, <3>1
    <3> QED
      BY <1>2, <3>1, <3>2
  <2> QED
    BY <2>1, <2>2
<1>5. ASSUME NEW i \in 1 .. Len(s), r[i].kind = "name" PROVE WholeAt(r, i)
  <2>1. i \in 2 .. Len(s)
    <3>1. r[1].kind # "name"
      BY <1>4 DEF Piece, Msg
    <3> QED
      BY <1>2, <1>5, <3>1
  <2>2. WholeAt(s, i)
    BY <1>4, <1>5, <2>1 DEF Grouped
  <2>3. PICK f \in Sources : \E c \in Versions[f] :
          /\ i + Len(Group(f, c)) - 1 <= Len(s)
          /\ \A j \in 1 .. Len(Group(f, c)) : s[i + j - 1] = Group(f, c)[j]
    BY <2>2 DEF WholeAt
  <2>4. PICK c \in Versions[f] :
          /\ i + Len(Group(f, c)) - 1 <= Len(s)
          /\ \A j \in 1 .. Len(Group(f, c)) : s[i + j - 1] = Group(f, c)[j]
    BY <2>3
  <2> DEFINE g == Group(f, c)
  <2>5. Len(g) \in Nat
    BY GroupLength
  <2> HIDE DEF g
  <2>6. i + Len(g) - 1 <= Len(r)
    BY <1>4, <2>4 DEF g
  <2>7. \A j \in 1 .. Len(g) : r[i + j - 1] = g[j]
    <3> SUFFICES ASSUME NEW j \in 1 .. Len(g) PROVE r[i + j - 1] = g[j]
      OBVIOUS
    <3>1. i + j - 1 \in 2 .. Len(s)
      BY <1>2, <1>4, <2>1, <2>5, <2>6
    <3>2. s[i + j - 1] = g[j]
      BY <2>4 DEF g
    <3> QED
      BY <1>4, <3>1, <3>2
  <2> QED
    BY <2>6, <2>7 DEF WholeAt, g
<1> QED
  BY <1>3, <1>4, <1>5 DEF Grouped, r, p

\* ... and as more is sent.
LEMMA GroupedConcat ==
  ASSUME NEW s, IsSeq(s), Grouped(s), NEW r, IsSeq(r), Grouped(r)
  PROVE  Grouped(s \o r)
<1> DEFINE z == s \o r
<1>1. /\ Len(s) \in Nat /\ Len(r) \in Nat /\ Len(z) = Len(s) + Len(r)
      /\ \A j \in 1 .. Len(s) + Len(r) : z[j] = IF j <= Len(s) THEN s[j] ELSE r[j - Len(s)]
  BY ConcatIsSeq
<1> HIDE DEF z
<1>2. ASSUME NEW q, Grouped(q), NEW d \in Nat, Len(q) \in Nat, d + Len(q) <= Len(z),
             \A j \in 1 .. Len(q) : z[d + j] = q[j], NEW i \in 1 .. Len(q), q[i].kind = "name"
      PROVE  WholeAt(z, d + i)
  <2>1. WholeAt(q, i)
    BY <1>2 DEF Grouped
  <2>2. PICK f \in Sources : \E c \in Versions[f] :
          /\ i + Len(Group(f, c)) - 1 <= Len(q)
          /\ \A j \in 1 .. Len(Group(f, c)) : q[i + j - 1] = Group(f, c)[j]
    BY <2>1 DEF WholeAt
  <2>3. PICK c \in Versions[f] :
          /\ i + Len(Group(f, c)) - 1 <= Len(q)
          /\ \A j \in 1 .. Len(Group(f, c)) : q[i + j - 1] = Group(f, c)[j]
    BY <2>2
  <2> DEFINE g == Group(f, c)
  <2>4. Len(g) \in Nat
    BY GroupLength
  <2> HIDE DEF g
  <2>5. i + Len(g) - 1 <= Len(q) /\ (d + i) + Len(g) - 1 <= Len(z)
    BY <1>1, <1>2, <2>3, <2>4 DEF g
  <2>6. \A j \in 1 .. Len(g) : z[(d + i) + j - 1] = g[j]
    <3> SUFFICES ASSUME NEW j \in 1 .. Len(g) PROVE z[(d + i) + j - 1] = g[j]
      OBVIOUS
    <3>1. i + j - 1 \in 1 .. Len(q) /\ d + (i + j - 1) = (d + i) + j - 1
      BY <1>2, <2>4, <2>5
    <3>2. q[i + j - 1] = g[j]
      BY <2>3 DEF g
    <3>3. z[d + (i + j - 1)] = q[i + j - 1]
      BY <1>2, <3>1
    <3> QED
      BY <3>1, <3>2, <3>3
  <2> QED
    BY <2>5, <2>6 DEF WholeAt, g
<1>3. ASSUME NEW i \in 1 .. Len(s), z[i].kind = "name" PROVE WholeAt(z, i)
  <2>1. \A j \in 1 .. Len(s) : z[0 + j] = s[j]
    BY <1>1
  <2>2. s[i].kind = "name" /\ 0 + Len(s) <= Len(z) /\ 0 + i = i
    BY <1>1, <1>3
  <2>3. WholeAt(z, 0 + i)
    BY <1>1, <1>2, <2>1, <2>2
  <2> QED
    BY <2>2, <2>3
<1>4. ASSUME NEW i \in 1 .. Len(z), ~ (i <= Len(s)), z[i].kind = "name" PROVE WholeAt(z, i)
  <2>1. \A j \in 1 .. Len(r) : z[Len(s) + j] = r[j]
    <3> SUFFICES ASSUME NEW j \in 1 .. Len(r) PROVE z[Len(s) + j] = r[j]
      OBVIOUS
    <3>1. Len(s) + j \in 1 .. Len(s) + Len(r) /\ ~ (Len(s) + j <= Len(s)) /\ (Len(s) + j) - Len(s) = j
      BY <1>1
    <3> QED
      BY <1>1, <3>1
  <2>2. i - Len(s) \in 1 .. Len(r) /\ Len(s) + (i - Len(s)) = i /\ Len(s) + Len(r) <= Len(z)
    BY <1>1, <1>4
  <2>3. r[i - Len(s)].kind = "name"
    BY <1>4, <2>1, <2>2
  <2>4. WholeAt(z, Len(s) + (i - Len(s)))
    BY <1>1, <1>2, <2>1, <2>2, <2>3
  <2> QED
    BY <2>2, <2>4
<1>5. \A i \in 1 .. Len(z) : z[i].kind = "name" => WholeAt(z, i)
  <2> SUFFICES ASSUME NEW i \in 1 .. Len(z), z[i].kind = "name" PROVE WholeAt(z, i)
    OBVIOUS
  <2>1. i <= Len(s) => i \in 1 .. Len(s)
    BY <1>1
  <2> QED
    BY <1>3, <1>4, <2>1
<1> QED
  BY <1>5 DEF Grouped, z

LEMMA EmptyIsGrouped == IsSeq(<<>>) /\ Grouped(<<>>)
<1>1. <<>> \in Seq({}) /\ Len(<<>>) = 0
  OBVIOUS
<1>2. IsSeq(<<>>)
  BY <1>1, SeqIsSeq
<1>3. Grouped(<<>>)
  BY <1>1 DEF Grouped
<1> QED
  BY <1>2, <1>3

LEMMA GroupIsGrouped ==
  ASSUME NEW f \in Sources, NEW c \in Versions[f]
  PROVE  Grouped(Group(f, c))
<1> DEFINE g == Group(f, c)
<1>1. c \in Seq(ToSet(c))
  BY VersionsAssumption
<1>2. Len(g) \in Nat /\ \A j \in 2 .. Len(g) : g[j].kind # "name"
  BY <1>1, GroupIs, GroupLength
<1>3. 1 + Len(g) - 1 <= Len(g) /\ \A j \in 1 .. Len(g) : 1 + j - 1 = j
  BY <1>2
<1>4. WholeAt(g, 1)
  BY <1>3 DEF WholeAt
<1> HIDE DEF g
<1>5. \A i \in 1 .. Len(g) : g[i].kind = "name" => i = 1
  BY <1>2
<1> QED
  BY <1>4, <1>5 DEF Grouped, g

-----------------------------------------------------------------------------
(* The invariant *)

\* A handler that knows nothing yet, or one that has read part of what was sent
\* for its file, with the rest of it next.
InPlace(u, s) ==
  \/ u.at \in {"idle", "name", "astray"} /\ ~ u.inStep
  \/ \E c \in Versions[u.name] :
       LET n == Len(c)
           Rests(k) == Ahead(s, u.inStep, Group(u.name, c), k)
       IN \/ u.at = "name" /\ Rests(0)
          \/ u.at = "size" /\ Rests(1)
          \/ u.at = "hash" /\ u.size = n /\ Rests(2)
          \/ u.at = "lookup" /\ u.size = n /\ u.hash = c /\ Rests(3)
          \/ /\ u.at = "raw" /\ n > Threshold /\ u.size = n /\ u.hash = c
             /\ u.got \in 0 .. n - 1 /\ Rests(3 + u.got)
             /\ u.data = [i \in 1 .. n |-> IF i <= u.got THEN c[i] ELSE Hole]
          \/ /\ u.at = "framed" /\ n <= Threshold /\ u.hash = c
             /\ \E k \in 0 .. n : u.data = Prefix(c, k) /\ Rests(3 + k)
          \/ u.at = "insert" /\ u.hash = c /\ u.data = c /\ (u.inStep => s = <<>>)

\* The steps before the content.
Early == {"name", "size", "hash", "lookup"}

Shape(u) ==
  /\ u = [at |-> u.at, name |-> u.name, size |-> u.size, hash |-> u.hash,
          data |-> u.data, got |-> u.got, inStep |-> u.inStep]
  /\ u.inStep \in BOOLEAN /\ (u.at \in Early => u.got = 0)

\* One handler or one thread at a time; while the client has not stopped inside a
\* file, or the handler found nothing unread, it is in place.
Inv ==
  /\ up = [t \in Transfers |-> up[t]] /\ \A t \in Transfers : Shape(up[t])
  /\ IsSeq(toServer) /\ DOMAIN spc = Transfers /\ DOMAIN cpc = Transfers
  /\ \A t \in Transfers : up[t].at # "idle" => /\ cpc[t] = "idle" /\ spc[t] = "idle"
                                               /\ up[t].name \in Sources
  /\ ~ cut => Grouped(toServer)
  /\ \A t \in Transfers : ~ cut \/ up[t].inStep => InPlace(up[t], toServer)

LEMMA NoPutsIs ==
  /\ Shape(NoPuts) /\ NoPuts.at = "idle" /\ \A s : InPlace(NoPuts, s)
  BY DEF Shape, NoPuts, InPlace, Early

\* What a step of a handler has to do.
LEMMA HandlerStep ==
  ASSUME Alone, Inv, NEW t \in Transfers, up[t].at # "idle",
         NEW u, up' = [up EXCEPT ![t] = u], Shape(u), u.at # "idle" => u.name = up[t].name,
         UNCHANGED <<spc, cpc, cut>>, IsSeq(toServer'), ~ cut => Grouped(toServer'),
         ~ cut \/ u.inStep => InPlace(u, toServer')
  PROVE  Inv'
<1>1. \A v \in Transfers : v = t
  BY DEF Alone
<1>2. up'[t] = u /\ up' = [v \in Transfers |-> up'[v]]
  BY DEF Inv
<1> QED
  BY <1>1, <1>2 DEF Inv

\* The message read is the first; what is left is still a sequence, and grouped.
LEMMA HeadRead ==
  ASSUME Inv, NEW t \in Transfers, NEW l, NEW kinds, TakePuts(t, l, kinds)
  PROVE  /\ up[t].at = l /\ toServer # <<>> /\ Head(toServer).kind \in kinds
         /\ Shape(up[t]) /\ UNCHANGED <<spc, cpc, cut>> /\ toServer' = Tail(toServer)
         /\ IsSeq(toServer') /\ (~ cut => Grouped(toServer'))
         /\ ~ cut \/ up[t].inStep => InPlace(up[t], toServer)
  BY TailIsSeq, GroupedTail DEF Inv, TakePuts, client, server

\* The handler returns.
LEMMA PutsReturnStep ==
  ASSUME Alone, Inv, NEW t \in Transfers, up[t].at # "idle", PutsReturn(t),
         UNCHANGED <<spc, cpc, cut>>, IsSeq(toServer'), ~ cut => Grouped(toServer')
  PROVE  Inv'
  BY NoPutsIs, HandlerStep DEF PutsReturn

LEMMA TakePutsEmptyStep ==
  ASSUME Alone, Inv, NEW t \in Transfers, TakePutsEmpty(t)
  PROVE  Inv'
<1>1. PICK l \in {"name", "size", "hash"} : TakePuts(t, l, {"end"})
  BY DEF TakePutsEmpty
<1> QED
  BY <1>1, HeadRead, PutsReturnStep DEF TakePutsEmpty

LEMMA TakePutsNameStep ==
  ASSUME Alone, Inv, NEW t \in Transfers, TakePutsName(t)
  PROVE  Inv'
<1> DEFINE u == [up[t] EXCEPT !.at = "size"]
           f == up[t].name
<1>1. TakePuts(t, "name", Bodies)
  BY DEF TakePutsName
<1>2. /\ up[t].at = "name" /\ toServer # <<>> /\ Shape(up[t]) /\ UNCHANGED <<spc, cpc, cut>>
      /\ toServer' = Tail(toServer) /\ IsSeq(toServer') /\ (~ cut => Grouped(toServer'))
      /\ ~ cut \/ up[t].inStep => InPlace(up[t], toServer)
  BY <1>1, HeadRead
<1>3. CASE Head(toServer) # Msg("name", f)
  BY <1>2, <1>3, PutsReturnStep DEF TakePutsName
<1>4. CASE Head(toServer) = Msg("name", f)
  <2>1. up' = [up EXCEPT ![t] = u]
    BY <1>4 DEF TakePutsName, PutsGoto
  <2>2. /\ Shape(u) /\ u.at = "size" /\ u.name = f /\ u.inStep = up[t].inStep
    BY <1>2 DEF Shape, Early
  <2>3. ASSUME ~ cut \/ up[t].inStep
        PROVE  \E c \in Versions[f] : Ahead(toServer, up[t].inStep, Group(f, c), 0)
    <3>1. CASE up[t].inStep
      BY <1>2, <2>3, <3>1 DEF InPlace
    <3>2. CASE ~ up[t].inStep
      <4>1. Len(toServer) \in Nat \ {0} /\ Head(toServer) = toServer[1] /\ Grouped(toServer)
        BY <1>2, <2>3, <3>2, TailIsSeq DEF Inv
      <4>2. WholeAt(toServer, 1)
        BY <1>4, <4>1 DEF Grouped, Msg
      <4>3. PICK e \in Sources : \E c \in Versions[e] :
              /\ 1 + Len(Group(e, c)) - 1 <= Len(toServer)
              /\ \A j \in 1 .. Len(Group(e, c)) : toServer[1 + j - 1] = Group(e, c)[j]
        BY <4>2 DEF WholeAt
      <4>4. PICK c \in Versions[e] :
              /\ 1 + Len(Group(e, c)) - 1 <= Len(toServer)
              /\ \A j \in 1 .. Len(Group(e, c)) : toServer[1 + j - 1] = Group(e, c)[j]
        BY <4>3
      <4> DEFINE g == Group(e, c)
      <4>5. Len(g) \in Nat \ {0} /\ g[1] = Msg("name", e)
        BY GroupLength, GroupIs, VersionsAssumption
      <4>6. e = f
        <5>1. toServer[1 + 1 - 1] = g[1]
          BY <4>4, <4>5
        <5> QED
          BY <1>4, <4>1, <4>5, <5>1 DEF Msg
      <4> HIDE DEF g
      <4>7. Len(toServer) >= Len(g) /\ \A j \in 1 .. Len(g) : toServer[j] = g[j]
        <5>1. 1 + Len(g) - 1 <= Len(toServer) /\ \A j \in 1 .. Len(g) : toServer[1 + j - 1] = g[j]
          BY <4>4 DEF g
        <5>2. \A j \in 1 .. Len(g) : 1 + j - 1 = j
          BY <4>5
        <5> QED
          BY <4>1, <4>5, <5>1, <5>2
      <4>8. Ahead(toServer, up[t].inStep, g, 0)
        BY <3>2, <4>1, <4>5, <4>7 DEF Ahead
      <4> QED
        BY <4>6, <4>8 DEF g
    <3> QED
      BY <3>1, <3>2
  <2>4. ASSUME ~ cut \/ up[t].inStep PROVE InPlace(u, toServer')
    <3>1. PICK c \in Versions[f] : Ahead(toServer, up[t].inStep, Group(f, c), 0)
      BY <2>3, <2>4
    <3>2. Len(Group(f, c)) \in Nat \ {0}
      BY <1>2, GroupLength DEF Inv
    <3>3. Ahead(Tail(toServer), up[t].inStep, Group(f, c), 1)
      BY <1>2, <3>1, <3>2, AheadTail DEF Inv, Shape
    <3> QED
      BY <1>2, <2>2, <3>3 DEF InPlace
  <2> HIDE DEF u
  <2> QED
    BY <1>2, <2>1, <2>2, <2>4, HandlerStep
<1> QED
  BY <1>3, <1>4

\* Assignments to fields of the handler's locals.
LEMMA SetAt ==
  ASSUME NEW u, Shape(u), NEW l, u.at \in Early \/ l \notin Early \/ u.got = 0
  PROVE  LET v == [u EXCEPT !.at = l]
         IN /\ Shape(v) /\ v.at = l /\ v.name = u.name /\ v.size = u.size /\ v.hash = u.hash
            /\ v.data = u.data /\ v.got = u.got /\ v.inStep = u.inStep
<1> DEFINE v == [u EXCEPT !.at = l]
<1>1. v = [at |-> l, name |-> u.name, size |-> u.size, hash |-> u.hash,
           data |-> u.data, got |-> u.got, inStep |-> u.inStep]
  BY DEF Shape
<1>2. u.inStep \in BOOLEAN /\ (u.at \in Early => u.got = 0)
  BY DEF Shape
<1> HIDE DEF v
<1> QED
  BY <1>1, <1>2 DEF Shape, v

LEMMA SetSize ==
  ASSUME NEW u, Shape(u), NEW l
  PROVE  LET v == [u EXCEPT !.size = l]
         IN /\ Shape(v) /\ v.at = u.at /\ v.name = u.name /\ v.size = l /\ v.hash = u.hash
            /\ v.data = u.data /\ v.got = u.got /\ v.inStep = u.inStep
<1> DEFINE v == [u EXCEPT !.size = l]
<1>1. v = [at |-> u.at, name |-> u.name, size |-> l, hash |-> u.hash,
           data |-> u.data, got |-> u.got, inStep |-> u.inStep]
  BY DEF Shape
<1>2. u.inStep \in BOOLEAN /\ (u.at \in Early => u.got = 0)
  BY DEF Shape
<1> HIDE DEF v
<1> QED
  BY <1>1, <1>2 DEF Shape, v

LEMMA SetHash ==
  ASSUME NEW u, Shape(u), NEW l
  PROVE  LET v == [u EXCEPT !.hash = l]
         IN /\ Shape(v) /\ v.at = u.at /\ v.name = u.name /\ v.size = u.size /\ v.hash = l
            /\ v.data = u.data /\ v.got = u.got /\ v.inStep = u.inStep
<1> DEFINE v == [u EXCEPT !.hash = l]
<1>1. v = [at |-> u.at, name |-> u.name, size |-> u.size, hash |-> l,
           data |-> u.data, got |-> u.got, inStep |-> u.inStep]
  BY DEF Shape
<1>2. u.inStep \in BOOLEAN /\ (u.at \in Early => u.got = 0)
  BY DEF Shape
<1> HIDE DEF v
<1> QED
  BY <1>1, <1>2 DEF Shape, v

LEMMA SetData ==
  ASSUME NEW u, Shape(u), NEW l
  PROVE  LET v == [u EXCEPT !.data = l]
         IN /\ Shape(v) /\ v.at = u.at /\ v.name = u.name /\ v.size = u.size /\ v.hash = u.hash
            /\ v.data = l /\ v.got = u.got /\ v.inStep = u.inStep
<1> DEFINE v == [u EXCEPT !.data = l]
<1>1. v = [at |-> u.at, name |-> u.name, size |-> u.size, hash |-> u.hash,
           data |-> l, got |-> u.got, inStep |-> u.inStep]
  BY DEF Shape
<1>2. u.inStep \in BOOLEAN /\ (u.at \in Early => u.got = 0)
  BY DEF Shape
<1> HIDE DEF v
<1> QED
  BY <1>1, <1>2 DEF Shape, v

LEMMA SetGot ==
  ASSUME NEW u, Shape(u), NEW l, u.at \notin Early
  PROVE  LET v == [u EXCEPT !.got = l]
         IN /\ Shape(v) /\ v.at = u.at /\ v.name = u.name /\ v.size = u.size /\ v.hash = u.hash
            /\ v.data = u.data /\ v.got = l /\ v.inStep = u.inStep
<1> DEFINE v == [u EXCEPT !.got = l]
<1>1. v = [at |-> u.at, name |-> u.name, size |-> u.size, hash |-> u.hash,
           data |-> u.data, got |-> l, inStep |-> u.inStep]
  BY DEF Shape
<1>2. u.inStep \in BOOLEAN /\ (u.at \in Early => u.got = 0)
  BY DEF Shape
<1> HIDE DEF v
<1> QED
  BY <1>1, <1>2 DEF Shape, v

LEMMA SetName ==
  ASSUME NEW u, Shape(u), NEW l
  PROVE  LET v == [u EXCEPT !.name = l]
         IN /\ Shape(v) /\ v.at = u.at /\ v.name = l /\ v.size = u.size /\ v.hash = u.hash
            /\ v.data = u.data /\ v.got = u.got /\ v.inStep = u.inStep
<1> DEFINE v == [u EXCEPT !.name = l]
<1>1. v = [at |-> u.at, name |-> l, size |-> u.size, hash |-> u.hash,
           data |-> u.data, got |-> u.got, inStep |-> u.inStep]
  BY DEF Shape
<1>2. u.inStep \in BOOLEAN /\ (u.at \in Early => u.got = 0)
  BY DEF Shape
<1> HIDE DEF v
<1> QED
  BY <1>1, <1>2 DEF Shape, v

LEMMA SetInStep ==
  ASSUME NEW u, Shape(u), NEW l \in BOOLEAN
  PROVE  LET v == [u EXCEPT !.inStep = l]
         IN /\ Shape(v) /\ v.at = u.at /\ v.name = u.name /\ v.size = u.size /\ v.hash = u.hash
            /\ v.data = u.data /\ v.got = u.got /\ v.inStep = l
<1> DEFINE v == [u EXCEPT !.inStep = l]
<1>1. v = [at |-> u.at, name |-> u.name, size |-> u.size, hash |-> u.hash,
           data |-> u.data, got |-> u.got, inStep |-> l]
  BY DEF Shape
<1>2. (u.at \in Early => u.got = 0)
  BY DEF Shape
<1> HIDE DEF v
<1> QED
  BY <1>1, <1>2 DEF Shape, v

LEMMA EmptyIsEmpty ==
  ASSUME NEW s, IsSeq(s), Len(s) = 0
  PROVE  s = <<>>
  BY DEF IsSeq

LEMMA TakePutsSizeStep ==
  ASSUME Alone, Inv, NEW t \in Transfers, TakePutsSize(t)
  PROVE  Inv'
<1> DEFINE m == Head(toServer)
           f == up[t].name
<1>1. TakePuts(t, "size", Bodies)
  BY DEF TakePutsSize
<1>2. /\ up[t].at = "size" /\ toServer # <<>> /\ Shape(up[t]) /\ UNCHANGED <<spc, cpc, cut>>
      /\ toServer' = Tail(toServer) /\ IsSeq(toServer') /\ (~ cut => Grouped(toServer'))
      /\ ~ cut \/ up[t].inStep => InPlace(up[t], toServer)
  BY <1>1, HeadRead
<1>3. ASSUME ~ cut \/ up[t].inStep
      PROVE  \E c \in Versions[f] : /\ m = Msg("size", Len(c))
                                   /\ Ahead(toServer', up[t].inStep, Group(f, c), 2)
  <2>1. PICK c \in Versions[f] : Ahead(toServer, up[t].inStep, Group(f, c), 1)
    BY <1>2, <1>3 DEF InPlace
  <2>2. Len(Group(f, c)) \in Nat /\ Len(Group(f, c)) > 2 /\ Group(f, c)[2] = Msg("size", Len(c))
    BY <1>2, GroupLength, GroupIs, VersionsAssumption DEF Inv
  <2>3. Len(Group(f, c)) \in Nat /\ 1 < Len(Group(f, c)) /\ up[t].inStep \in BOOLEAN /\ IsSeq(toServer)
    BY <1>2, <2>2 DEF Inv, Shape
  <2>4. /\ Head(toServer) = Group(f, c)[1 + 1]
        /\ Ahead(Tail(toServer), up[t].inStep, Group(f, c), 1 + 1)
    BY <2>1, <2>3, AheadTail
  <2> QED
    BY <1>2, <2>2, <2>4
<1>4. ASSUME NEW u, up' = [up EXCEPT ![t] = u], u.at \in {"hash", "astray"},
             Shape(u), u.name = f, u.inStep = up[t].inStep,
             m.kind = "size" => u.at = "hash" /\ u.size = m.val
      PROVE  Inv'
  <2>1. ASSUME ~ cut \/ up[t].inStep PROVE InPlace(u, toServer')
    <3>1. PICK c \in Versions[f] : m = Msg("size", Len(c)) /\ Ahead(toServer', up[t].inStep, Group(f, c), 2)
      BY <1>3, <2>1
    <3>2. u.at = "hash" /\ u.size = Len(c)
      BY <1>4, <3>1 DEF Msg
    <3> QED
      BY <1>4, <3>1, <3>2 DEF InPlace
  <2> QED
    BY <1>2, <1>4, <2>1, HandlerStep
<1> HIDE DEF m
<1>5. CASE m.kind = "size"
  <2> DEFINE v == [up[t] EXCEPT !.at = "hash"]
             u == [v EXCEPT !.size = m.val]
  <2>1. up' = [up EXCEPT ![t] = u]
    BY <1>5 DEF TakePutsSize, m
  <2>2. Shape(v) /\ v.at = "hash" /\ v.name = f /\ v.inStep = up[t].inStep
    <3>1. Shape(up[t]) /\ up[t].at \in Early
      BY <1>2 DEF Early
    <3> QED
      BY <3>1, SetAt
  <2> HIDE DEF v
  <2>3. Shape(u) /\ u.at = "hash" /\ u.size = m.val /\ u.name = f /\ u.inStep = up[t].inStep
    BY <2>2, SetSize
  <2> HIDE DEF u
  <2> QED
    BY <1>4, <2>1, <2>3
<1>6. CASE m.kind # "size"
  <2> DEFINE v(l) == [up[t] EXCEPT !.at = l]
             u(n) == [v("hash") EXCEPT !.size = n]
  <2>1. up' = [up EXCEPT ![t] = v("astray")] \/ \E n : up' = [up EXCEPT ![t] = u(n)]
    BY <1>6 DEF TakePutsSize, PutsGoto, m
  <2>2. \A l : Shape(v(l)) /\ v(l).at = l /\ v(l).name = f /\ v(l).inStep = up[t].inStep
    <3>1. up[t].at \in Early /\ Shape(up[t])
      BY <1>2 DEF Early
    <3> QED
      BY <3>1, SetAt
  <2> HIDE DEF v
  <2>3. \A n : Shape(u(n)) /\ u(n).at = "hash" /\ u(n).name = f /\ u(n).inStep = up[t].inStep
    BY <2>2, SetSize
  <2> HIDE DEF u
  <2> QED
    BY <1>4, <1>6, <2>1, <2>2, <2>3
<1> QED
  BY <1>5, <1>6

LEMMA TakePutsHashStep ==
  ASSUME Alone, Inv, NEW t \in Transfers, TakePutsHash(t)
  PROVE  Inv'
<1> DEFINE m == Head(toServer)
           f == up[t].name
<1>1. TakePuts(t, "hash", Bodies)
  BY DEF TakePutsHash
<1>2. /\ up[t].at = "hash" /\ toServer # <<>> /\ Shape(up[t]) /\ UNCHANGED <<spc, cpc, cut>>
      /\ toServer' = Tail(toServer) /\ IsSeq(toServer') /\ (~ cut => Grouped(toServer'))
      /\ ~ cut \/ up[t].inStep => InPlace(up[t], toServer)
  BY <1>1, HeadRead
<1>3. ASSUME ~ cut \/ up[t].inStep
      PROVE  \E c \in Versions[f] : /\ m = Msg("sha", c) /\ up[t].size = Len(c)
                                   /\ Ahead(toServer', up[t].inStep, Group(f, c), 3)
  <2>1. PICK c \in Versions[f] : up[t].size = Len(c) /\ Ahead(toServer, up[t].inStep, Group(f, c), 2)
    BY <1>2, <1>3 DEF InPlace
  <2>2. Len(Group(f, c)) \in Nat /\ Len(Group(f, c)) > 2 /\ Group(f, c)[3] = Msg("sha", c)
    BY <1>2, GroupLength, GroupIs, VersionsAssumption DEF Inv
  <2>3. Len(Group(f, c)) \in Nat /\ 2 < Len(Group(f, c)) /\ up[t].inStep \in BOOLEAN /\ IsSeq(toServer)
    BY <1>2, <2>2 DEF Inv, Shape
  <2>4. /\ Head(toServer) = Group(f, c)[2 + 1]
        /\ Ahead(Tail(toServer), up[t].inStep, Group(f, c), 2 + 1)
    BY <2>1, <2>3, AheadTail
  <2> QED
    BY <1>2, <2>1, <2>2, <2>4
<1>4. ASSUME NEW u, up' = [up EXCEPT ![t] = u], u.at \in {"lookup", "astray"},
             Shape(u), u.name = f, u.inStep = up[t].inStep, u.size = up[t].size,
             m.kind = "sha" => u.at = "lookup" /\ u.hash = m.val
      PROVE  Inv'
  <2>1. ASSUME ~ cut \/ up[t].inStep PROVE InPlace(u, toServer')
    <3>1. PICK c \in Versions[f] : /\ m = Msg("sha", c) /\ up[t].size = Len(c)
                                 /\ Ahead(toServer', up[t].inStep, Group(f, c), 3)
      BY <1>3, <2>1
    <3>2. u.at = "lookup" /\ u.hash = c /\ u.size = Len(c)
      BY <1>4, <3>1 DEF Msg
    <3> QED
      BY <1>4, <3>1, <3>2 DEF InPlace
  <2> QED
    BY <1>2, <1>4, <2>1, HandlerStep
<1> HIDE DEF m
<1>5. CASE m.kind = "sha"
  <2> DEFINE v == [up[t] EXCEPT !.at = "lookup"]
             u == [v EXCEPT !.hash = m.val]
  <2>1. up' = [up EXCEPT ![t] = u]
    BY <1>5 DEF TakePutsHash, m
  <2>2. Shape(v) /\ v.at = "lookup" /\ v.name = f /\ v.inStep = up[t].inStep /\ v.size = up[t].size
    <3>1. Shape(up[t]) /\ up[t].at \in Early
      BY <1>2 DEF Early
    <3> QED
      BY <3>1, SetAt
  <2> HIDE DEF v
  <2>3. /\ Shape(u) /\ u.at = "lookup" /\ u.hash = m.val /\ u.name = f
        /\ u.inStep = up[t].inStep /\ u.size = up[t].size
    BY <2>2, SetHash
  <2> HIDE DEF u
  <2> QED
    BY <1>4, <2>1, <2>3
<1>6. CASE m.kind # "sha"
  <2> DEFINE v(l) == [up[t] EXCEPT !.at = l]
             u == [v("lookup") EXCEPT !.hash = <<Hole>>]
  <2>1. up' = [up EXCEPT ![t] = v("astray")] \/ up' = [up EXCEPT ![t] = u]
    BY <1>6 DEF TakePutsHash, PutsGoto, m
  <2>2. \A l : /\ Shape(v(l)) /\ v(l).at = l /\ v(l).name = f
               /\ v(l).inStep = up[t].inStep /\ v(l).size = up[t].size
    <3>1. up[t].at \in Early /\ Shape(up[t])
      BY <1>2 DEF Early
    <3> QED
      BY <3>1, SetAt
  <2> HIDE DEF v
  <2>3. Shape(u) /\ u.at = "lookup" /\ u.name = f /\ u.inStep = up[t].inStep /\ u.size = up[t].size
    BY <2>2, SetHash
  <2> HIDE DEF u
  <2> QED
    BY <1>4, <1>6, <2>1, <2>2, <2>3
<1> QED
  BY <1>5, <1>6

\* The steps that read nothing and return.
LEMMA ReturnStep ==
  ASSUME Alone, Inv, NEW t \in Transfers, Instant(t) \/ Insert(t) \/ PutsFails(t)
  PROVE  Inv'
<1>1. up[t].at # "idle" /\ PutsReturn(t) /\ UNCHANGED <<toServer, spc, cpc, cut>>
  BY DEF Instant, Insert, PutsFails, Record, vars, client, server
<1> QED
  BY <1>1, PutsReturnStep DEF Inv

LEMMA CreateStep ==
  ASSUME Alone, Inv, NEW t \in Transfers, Create(t)
  PROVE  Inv'
<1> DEFINE large == up[t].size > Threshold
           l == IF large THEN "raw" ELSE "framed"
           d == IF large THEN Resized(<<>>, up[t].size) ELSE <<>>
           v == [up[t] EXCEPT !.at = l]
           u == [v EXCEPT !.data = d]
           f == up[t].name
<1>1. /\ up[t].at = "lookup" /\ up' = [up EXCEPT ![t] = u] /\ UNCHANGED <<toServer, spc, cpc, cut>>
  BY DEF Create, vars, client, server
<1>2. Shape(up[t]) /\ up[t].got = 0
  BY <1>1 DEF Inv, Shape, Early
<1> HIDE DEF d, l
<1>3. /\ Shape(v) /\ v.at = l /\ v.name = f /\ v.size = up[t].size /\ v.hash = up[t].hash
      /\ v.got = 0 /\ v.inStep = up[t].inStep
  <2>1. Shape(up[t]) /\ up[t].at \in Early /\ up[t].got = 0
    BY <1>1, <1>2 DEF Early
  <2> QED
    BY <2>1, SetAt
<1> HIDE DEF v
<1>4. /\ Shape(u) /\ u.at = l /\ u.name = f /\ u.size = up[t].size /\ u.hash = up[t].hash
      /\ u.data = d /\ u.got = 0 /\ u.inStep = up[t].inStep
  BY <1>3, SetData
<1> HIDE DEF u
<1>5. ASSUME ~ cut \/ up[t].inStep PROVE InPlace(u, toServer)
  <2>1. InPlace(up[t], toServer)
    BY <1>5 DEF Inv
  <2>2. PICK c \in Versions[f] : /\ up[t].size = Len(c) /\ up[t].hash = c
                               /\ Ahead(toServer, up[t].inStep, Group(f, c), 3)
    BY <1>1, <2>1 DEF InPlace
  <2>3. c \in Seq(ToSet(c)) /\ Len(c) \in Nat
    BY <1>1, VersionsAssumption DEF Inv
  <2>4. CASE large
    <3>1. d = [i \in 1 .. Len(c) |-> IF i <= 0 THEN c[i] ELSE Hole]
      <4>1. d = [i \in 1 .. Len(c) |-> IF i <= Len(<<>>) THEN <<>>[i] ELSE Hole]
        BY <2>2, <2>4 DEF d, Resized
      <4>2. \A i \in 1 .. Len(c) : ~ (i <= 0) /\ ~ (i <= Len(<<>>))
        BY <2>3
      <4> QED
        BY <4>1, <4>2
    <3>2. l = "raw" /\ Len(c) > Threshold /\ u.got \in 0 .. Len(c) - 1 /\ 3 + u.got = 3
      BY <1>4, <2>2, <2>3, <2>4, ThresholdAssumption DEF l
    <3> QED
      BY <1>4, <2>2, <3>1, <3>2 DEF InPlace
  <2>5. CASE ~ large
    <3>1. d = Prefix(c, 0)
      BY <2>3, <2>5 DEF d, Prefix
    <3>2. l = "framed" /\ Len(c) <= Threshold /\ 0 \in 0 .. Len(c) /\ 3 + 0 = 3
      BY <2>2, <2>3, <2>5, ThresholdAssumption DEF l
    <3> QED
      BY <1>4, <2>2, <3>1, <3>2 DEF InPlace
  <2> QED
    BY <2>4, <2>5
<1>6. IsSeq(toServer') /\ (~ cut => Grouped(toServer'))
  BY <1>1 DEF Inv
<1>7. ~ cut \/ u.inStep => InPlace(u, toServer')
  BY <1>1, <1>4, <1>5
<1> QED
  BY <1>1, <1>4, <1>6, <1>7, HandlerStep

LEMMA PrefixGrows ==
  ASSUME NEW A, NEW c \in Seq(A), NEW k \in Nat, k < Len(c)
  PROVE  Append(Prefix(c, k), c[k + 1]) = Prefix(c, k + 1)
<1>1. Prefix(c, k) \in Seq(A) /\ Len(Prefix(c, k)) = k /\ \A i \in 1 .. k : Prefix(c, k)[i] = c[i]
  BY DEF Prefix
<1>2. /\ Prefix(c, k + 1) \in Seq(A) /\ Len(Prefix(c, k + 1)) = k + 1
      /\ \A i \in 1 .. k + 1 : Prefix(c, k + 1)[i] = c[i]
  BY DEF Prefix
<1> HIDE DEF Prefix
<1>3. c[k + 1] \in A
  OBVIOUS
<1>4. /\ Append(Prefix(c, k), c[k + 1]) \in Seq(A) /\ Len(Append(Prefix(c, k), c[k + 1])) = k + 1
      /\ \A i \in 1 .. k + 1 : Append(Prefix(c, k), c[k + 1])[i] = c[i]
  BY <1>1, <1>3
<1> QED
  BY <1>2, <1>4, SeqEqual

LEMMA PrefixWhole ==
  ASSUME NEW A, NEW c \in Seq(A)
  PROVE  Prefix(c, Len(c)) = c
<1>1. /\ Prefix(c, Len(c)) \in Seq(A) /\ Len(Prefix(c, Len(c))) = Len(c)
      /\ \A i \in 1 .. Len(c) : Prefix(c, Len(c))[i] = c[i]
  BY DEF Prefix
<1> QED
  BY <1>1, SeqEqual

LEMMA TakePutsRawStep ==
  ASSUME Alone, Inv, NEW t \in Transfers, TakePutsRaw(t)
  PROVE  Inv'
<1> DEFINE m == Head(toServer)
           i == up[t].got + 1
           x == IF m.kind = "raw" THEN m.val ELSE Hole
           l == IF i = up[t].size THEN "insert" ELSE "raw"
           d == [up[t].data EXCEPT ![i] = x]
           v == [up[t] EXCEPT !.data = d]
           w == [v EXCEPT !.got = i]
           u == [w EXCEPT !.at = l]
           f == up[t].name
<1>0. up' = [up EXCEPT ![t] = u]
  BY Zenon DEF TakePutsRaw
<1>1. /\ up[t].at = "raw" /\ toServer # <<>> /\ UNCHANGED <<spc, cpc, cut>>
      /\ toServer' \in {Tail(toServer), <<Piece>> \o Tail(toServer)}
      /\ m.kind = "raw" => toServer' = Tail(toServer)
  <2>1. up[t].at = "raw" /\ toServer # <<>>
    BY Zenon DEF TakePutsRaw
  <2>2. /\ toServer' \in {Tail(toServer), <<Piece>> \o Tail(toServer)}
        /\ m.kind = "raw" => toServer' = Tail(toServer)
    BY Zenon DEF TakePutsRaw
  <2>3. UNCHANGED <<local, toClient, aligned, file, client, server, broken, cut>>
    BY Zenon DEF TakePutsRaw
  <2>4. UNCHANGED <<spc, cpc, cut>>
    BY <2>3 DEF client, server
  <2> QED
    BY <2>1, <2>2, <2>4
<1>2. Shape(up[t])
  BY DEF Inv
<1> HIDE DEF l, x, i, d
<1>3. /\ Shape(v) /\ v.at = up[t].at /\ v.name = f /\ v.size = up[t].size /\ v.hash = up[t].hash
      /\ v.data = d /\ v.inStep = up[t].inStep
  BY <1>2, SetData
<1> HIDE DEF v
<1>4. /\ Shape(w) /\ w.at = "raw" /\ w.name = f /\ w.size = up[t].size /\ w.hash = up[t].hash
      /\ w.data = v.data /\ w.got = i /\ w.inStep = up[t].inStep
  <2>1. up[t].at = "raw" /\ v.at \notin Early
    BY <1>1, <1>3 DEF Early
  <2> QED
    BY <1>3, <2>1, SetGot
<1> HIDE DEF w
<1>5. /\ Shape(u) /\ u.at = l /\ u.name = f /\ u.size = up[t].size /\ u.hash = up[t].hash
      /\ u.data = d /\ u.got = i /\ u.inStep = up[t].inStep
  <2>1. Shape(w) /\ l \notin Early
    BY <1>4 DEF Early, l
  <2>2. /\ Shape(u) /\ u.at = l /\ u.name = w.name /\ u.size = w.size /\ u.hash = w.hash
        /\ u.data = w.data /\ u.got = w.got /\ u.inStep = w.inStep
    BY <2>1, SetAt
  <2> QED
    BY <1>3, <1>4, <2>2
<1> HIDE DEF u, m
<1>6. IsSeq(toServer') /\ (~ cut => Grouped(toServer'))
  <2>1. IsSeq(toServer) /\ (~ cut => Grouped(toServer))
    BY DEF Inv
  <2>2. CASE toServer' = Tail(toServer)
    BY <1>1, <2>1, <2>2, TailIsSeq, GroupedTail
  <2>3. CASE toServer' = <<Piece>> \o Tail(toServer)
    BY <1>1, <2>1, <2>3, PieceIsSeq, GroupedPiece
  <2> QED
    BY <1>1, <2>2, <2>3
<1>7. ASSUME ~ cut \/ up[t].inStep PROVE InPlace(u, toServer')
  <2>1. InPlace(up[t], toServer)
    BY <1>7 DEF Inv
  <2>2. PICK c \in Versions[f] :
          /\ Len(c) > Threshold /\ up[t].size = Len(c) /\ up[t].hash = c
          /\ up[t].got \in 0 .. Len(c) - 1 /\ Ahead(toServer, up[t].inStep, Group(f, c), 3 + up[t].got)
          /\ up[t].data = [j \in 1 .. Len(c) |-> IF j <= up[t].got THEN c[j] ELSE Hole]
    BY <1>1, <2>1 DEF InPlace
  <2> DEFINE g == Group(f, c)
             n == Len(c)
  <2>3. c \in Seq(ToSet(c)) /\ n \in Nat
    BY <1>1, VersionsAssumption DEF Inv
  <2>4. Len(g) = n + 3 /\ \A j \in 1 .. n : g[3 + j] = Msg("raw", c[j])
    BY <2>2, <2>3, GroupIs
  <2>5. up[t].got \in 0 .. n - 1 /\ Ahead(toServer, up[t].inStep, g, 3 + up[t].got)
    BY <2>2
  <2> HIDE DEF g, n
  <2>6. i \in 1 .. n /\ 3 + up[t].got < Len(g) /\ (3 + up[t].got) + 1 = 3 + i
    BY <2>3, <2>4, <2>5 DEF i
  <2>7. m = g[3 + i] /\ Ahead(Tail(toServer), up[t].inStep, g, 3 + i)
    <3>1. up[t].inStep \in BOOLEAN /\ IsSeq(toServer) /\ Len(g) \in Nat
      BY <1>2, <2>3, <2>4 DEF Inv, Shape
    <3>2. /\ Head(toServer) = g[(3 + up[t].got) + 1]
          /\ Ahead(Tail(toServer), up[t].inStep, g, (3 + up[t].got) + 1)
      BY <2>5, <2>6, <3>1, AheadTail
    <3> QED
      BY <2>6, <3>2 DEF m
  <2>8. m = Msg("raw", c[i]) /\ x = c[i] /\ toServer' = Tail(toServer)
    BY <1>1, <2>4, <2>6, <2>7 DEF x, Msg
  <2>9. u.data = [j \in 1 .. n |-> IF j <= i THEN c[j] ELSE Hole]
    <3>1. \A j \in 1 .. n : (IF j = i THEN c[i] ELSE IF j <= up[t].got THEN c[j] ELSE Hole)
                           = IF j <= i THEN c[j] ELSE Hole
      BY <2>3, <2>5 DEF i
    <3>2. u.data = [[j \in 1 .. n |-> IF j <= up[t].got THEN c[j] ELSE Hole] EXCEPT ![i] = c[i]]
      BY <1>5, <2>2, <2>8 DEF n, d
    <3> QED
      BY <2>6, <3>1, <3>2
  <2>10. CASE i = n
    <3>1. u.at = "insert"
      BY <1>5, <2>2, <2>10 DEF l, n
    <3>2. u.data = c
      <4>1. c = [j \in 1 .. n |-> c[j]]
        BY <2>3 DEF n
      <4>2. \A j \in 1 .. n : j <= i
        BY <2>10, <2>3
      <4> QED
        BY <2>9, <4>1, <4>2
    <3>3. up[t].inStep => Len(toServer') = 0
      <4>1. up[t].inStep => Len(Tail(toServer)) = Len(g) - (3 + i)
        BY <2>7 DEF Ahead
      <4>2. Len(g) - (3 + i) = 0
        BY <2>3, <2>4, <2>10
      <4> QED
        BY <2>8, <4>1, <4>2
    <3>4. u.inStep => toServer' = <<>>
      BY <1>5, <1>6, <3>3, EmptyIsEmpty
    <3> QED
      BY <1>5, <2>2, <3>1, <3>2, <3>4 DEF InPlace
  <2>11. CASE i # n
    <3>1. u.at = "raw" /\ u.got \in 0 .. n - 1
      BY <1>5, <2>2, <2>3, <2>6, <2>11 DEF l, n
    <3> QED
      <4> DEFINE e == [j \in 1 .. n |-> IF j <= u.got THEN c[j] ELSE Hole]
      <4>1. u.data = e
        BY <1>5, <2>9
      <4>2. Ahead(toServer', u.inStep, g, 3 + u.got)
        BY <1>5, <2>7, <2>8
      <4>3. n > Threshold /\ u.size = n /\ u.hash = c /\ c \in Versions[u.name] /\ Group(u.name, c) = g
        BY <1>5, <2>2 DEF n, g
      <4> QED
        BY <3>1, <4>1, <4>2, <4>3 DEF InPlace, n
  <2> QED
    BY <2>10, <2>11
<1> QED
  BY <1>0, <1>1, <1>5, <1>6, <1>7, HandlerStep

LEMMA TakePutsFrameStep ==
  ASSUME Alone, Inv, NEW t \in Transfers, TakePutsFrame(t)
  PROVE  Inv'
<1> DEFINE m == Head(toServer)
           x == IF m.kind = "frame" THEN m.val ELSE Hole
           d == Append(up[t].data, x)
           u == [up[t] EXCEPT !.data = d]
           f == up[t].name
<1>1. TakePuts(t, "framed", Bodies)
  BY DEF TakePutsFrame
<1>2. /\ up[t].at = "framed" /\ toServer # <<>> /\ m.kind \in Bodies /\ Shape(up[t])
      /\ UNCHANGED <<spc, cpc, cut>>
      /\ toServer' = Tail(toServer) /\ IsSeq(toServer') /\ (~ cut => Grouped(toServer'))
      /\ ~ cut \/ up[t].inStep => InPlace(up[t], toServer)
  BY <1>1, HeadRead
<1>3. up' = [up EXCEPT ![t] = u]
  BY Zenon DEF TakePutsFrame
<1> HIDE DEF d
<1>4. /\ Shape(u) /\ u.at = "framed" /\ u.name = f /\ u.size = up[t].size /\ u.hash = up[t].hash
      /\ u.data = d /\ u.inStep = up[t].inStep
  <2>1. Shape(up[t]) /\ up[t].at = "framed"
    BY <1>2
  <2> QED
    BY <2>1, SetData
<1> HIDE DEF u, m, x
<1>5. ASSUME ~ cut \/ up[t].inStep PROVE InPlace(u, toServer')
  <2>1. PICK c \in Versions[f] :
          /\ Len(c) <= Threshold /\ up[t].hash = c
          /\ \E k \in 0 .. Len(c) : /\ up[t].data = Prefix(c, k)
                                   /\ Ahead(toServer, up[t].inStep, Group(f, c), 3 + k)
    BY <1>2, <1>5 DEF InPlace
  <2> DEFINE g == Group(f, c)
             n == Len(c)
  <2>2. PICK k \in 0 .. n : up[t].data = Prefix(c, k) /\ Ahead(toServer, up[t].inStep, g, 3 + k)
    BY <2>1
  <2>3. c \in Seq(ToSet(c)) /\ n \in Nat
    BY <1>2, VersionsAssumption DEF Inv
  <2>4. /\ Len(g) = n + 4 /\ g[n + 4] = Msg("end", 0)
        /\ \A j \in 1 .. n : g[3 + j] = Msg("frame", c[j])
    BY <2>1, <2>3, GroupIs, ThresholdAssumption
  <2> HIDE DEF g
  <2>5. m = g[(3 + k) + 1] /\ Ahead(Tail(toServer), up[t].inStep, g, (3 + k) + 1)
    <3>1. up[t].inStep \in BOOLEAN /\ IsSeq(toServer) /\ Len(g) \in Nat /\ 3 + k < Len(g)
      BY <1>2, <2>3, <2>4 DEF Inv, Shape
    <3> HIDE DEF n
    <3> QED
      BY <2>2, <3>1, AheadTail DEF m
  <2>6. k < n
    <3> SUFFICES ASSUME k = n PROVE FALSE
      BY <2>3
    <3>1. (3 + k) + 1 = n + 4
      BY <2>3
    <3>2. m = Msg("end", 0)
      BY <2>4, <2>5, <3>1
    <3> QED
      BY <1>2, <3>2 DEF Msg, Bodies
  <2>7. k + 1 \in 1 .. n /\ (3 + k) + 1 = 3 + (k + 1)
    BY <2>3, <2>6
  <2>8. x = c[k + 1]
    <3>1. m = Msg("frame", c[k + 1])
      BY <2>4, <2>5, <2>7
    <3> QED
      BY <3>1 DEF x, Msg
  <2>9. u.data = Prefix(c, k + 1)
    BY <1>4, <2>2, <2>3, <2>6, <2>8, PrefixGrows DEF d
  <2>10. Ahead(toServer', u.inStep, g, 3 + (k + 1))
    BY <1>2, <1>4, <2>5, <2>7
  <2>11. k + 1 \in 0 .. n
    BY <2>3, <2>7
  <2> QED
    BY <1>4, <2>1, <2>9, <2>10, <2>11 DEF InPlace, g
<1> QED
  BY <1>2, <1>3, <1>4, <1>5, HandlerStep

LEMMA TakePutsEndStep ==
  ASSUME Alone, Inv, NEW t \in Transfers, TakePutsEnd(t)
  PROVE  Inv'
<1> DEFINE m == Head(toServer)
           u == [up[t] EXCEPT !.at = "insert"]
           f == up[t].name
<1>1. TakePuts(t, "framed", {"end"})
  BY DEF TakePutsEnd
<1>2. /\ up[t].at = "framed" /\ toServer # <<>> /\ m.kind = "end" /\ Shape(up[t])
      /\ UNCHANGED <<spc, cpc, cut>>
      /\ toServer' = Tail(toServer) /\ IsSeq(toServer') /\ (~ cut => Grouped(toServer'))
      /\ ~ cut \/ up[t].inStep => InPlace(up[t], toServer)
  BY <1>1, HeadRead
<1>3. up' = [up EXCEPT ![t] = u]
  BY Zenon DEF TakePutsEnd, PutsGoto
<1>4. /\ Shape(u) /\ u.at = "insert" /\ u.name = f /\ u.hash = up[t].hash
      /\ u.data = up[t].data /\ u.inStep = up[t].inStep
  <2>1. Shape(up[t]) /\ "insert" \notin Early
    BY <1>2 DEF Early
  <2> QED
    BY <2>1, SetAt
<1> HIDE DEF u, m
<1>5. ASSUME ~ cut \/ up[t].inStep PROVE InPlace(u, toServer')
  <2>1. PICK c \in Versions[f] :
          /\ Len(c) <= Threshold /\ up[t].hash = c
          /\ \E k \in 0 .. Len(c) : /\ up[t].data = Prefix(c, k)
                                   /\ Ahead(toServer, up[t].inStep, Group(f, c), 3 + k)
    BY <1>2, <1>5 DEF InPlace
  <2> DEFINE g == Group(f, c)
             n == Len(c)
  <2>2. PICK k \in 0 .. n : up[t].data = Prefix(c, k) /\ Ahead(toServer, up[t].inStep, g, 3 + k)
    BY <2>1
  <2>3. c \in Seq(ToSet(c)) /\ n \in Nat
    BY <1>2, VersionsAssumption DEF Inv
  <2>4. /\ Len(g) = n + 4
        /\ \A j \in 1 .. n : g[3 + j] = Msg("frame", c[j])
    BY <2>1, <2>3, GroupIs, ThresholdAssumption
  <2> HIDE DEF g
  <2>5. m = g[(3 + k) + 1] /\ Ahead(Tail(toServer), up[t].inStep, g, (3 + k) + 1)
    <3>1. up[t].inStep \in BOOLEAN /\ IsSeq(toServer) /\ Len(g) \in Nat /\ 3 + k < Len(g)
      BY <1>2, <2>3, <2>4 DEF Inv, Shape
    <3> HIDE DEF n
    <3> QED
      BY <2>2, <3>1, AheadTail DEF m
  <2>6. k = n
    <3> SUFFICES ASSUME k < n PROVE FALSE
      BY <2>3
    <3>1. k + 1 \in 1 .. n /\ (3 + k) + 1 = 3 + (k + 1)
      BY <2>3
    <3>2. m = Msg("frame", c[k + 1])
      BY <2>4, <2>5, <3>1
    <3> QED
      BY <1>2, <3>2 DEF Msg
  <2>7. u.data = c
    BY <1>4, <2>2, <2>3, <2>6, PrefixWhole
  <2>8. u.inStep => toServer' = <<>>
    <3>1. up[t].inStep => Len(Tail(toServer)) = Len(g) - ((3 + k) + 1)
      BY <2>5 DEF Ahead
    <3>2. Len(g) - ((3 + k) + 1) = 0
      BY <2>3, <2>4, <2>6
    <3> QED
      BY <1>2, <1>4, <3>1, <3>2, EmptyIsEmpty
  <2> QED
    BY <1>4, <2>1, <2>7, <2>8 DEF InPlace
<1> QED
  BY <1>2, <1>3, <1>4, <1>5, HandlerStep

\* A step of a download, beside a handler that is not at work.
LEMMA IdleStep ==
  ASSUME Alone, Inv, NEW t \in Transfers, up[t].at = "idle", UNCHANGED <<up, cut>>,
         DOMAIN spc' = Transfers, DOMAIN cpc' = Transfers,
         IsSeq(toServer'), ~ cut => Grouped(toServer')
  PROVE  Inv'
<1>1. \A v \in Transfers : v = t
  BY DEF Alone
<1>2. ~ cut \/ up[t].inStep => ~ up[t].inStep
  BY DEF Inv, InPlace
<1>3. ~ cut \/ up[t].inStep => InPlace(up[t], toServer')
  BY <1>2 DEF InPlace
<1> QED
  BY <1>1, <1>3 DEF Inv

\* A handler in step meets no bytes without a header before the content.
LEMMA NoRawAhead ==
  ASSUME Inv, NEW t \in Transfers, up[t].inStep, up[t].at \in {"name", "size", "hash", "framed"},
         toServer # <<>>
  PROVE  Head(toServer).kind # "raw"
<1> DEFINE f == up[t].name
<1>1. InPlace(up[t], toServer) /\ IsSeq(toServer) /\ up[t].inStep \in BOOLEAN /\ f \in Sources
  BY DEF Inv, Shape
<1>2. PICK c \in Versions[f] :
        \/ \E k \in {0, 1, 2} : Ahead(toServer, up[t].inStep, Group(f, c), k)
        \/ /\ Len(c) <= Threshold
           /\ \E k \in 0 .. Len(c) : Ahead(toServer, up[t].inStep, Group(f, c), 3 + k)
  BY <1>1 DEF InPlace
<1> DEFINE g == Group(f, c)
           n == Len(c)
<1>3. c \in Seq(ToSet(c)) /\ n \in Nat
  BY <1>1, VersionsAssumption
<1>4. /\ Len(g) \in Nat /\ Len(g) > 2 /\ \A j \in {1, 2, 3} : g[j].kind # "raw"
      /\ n <= Threshold => /\ Len(g) = n + 4 /\ g[n + 4].kind # "raw"
                           /\ \A j \in 1 .. n : g[3 + j].kind # "raw"
  <2>1. g[1].kind # "raw" /\ g[2].kind # "raw" /\ g[3].kind # "raw"
    <3>1. g[1] = Msg("name", f) /\ g[2] = Msg("size", n) /\ g[3] = Msg("sha", c)
      BY <1>3, GroupIs
    <3> HIDE DEF g, n
    <3> QED
      BY <3>1 DEF Msg
  <2>2. ASSUME n <= Threshold
        PROVE  /\ Len(g) = n + 4 /\ g[n + 4].kind # "raw"
               /\ \A j \in 1 .. n : g[3 + j].kind # "raw"
    <3>1. /\ Len(g) = n + 4 /\ g[n + 4] = Msg("end", 0)
          /\ \A j \in 1 .. n : g[3 + j] = Msg("frame", c[j])
      BY <1>3, <2>2, GroupIs, ThresholdAssumption
    <3>2. Msg("end", 0).kind # "raw" /\ \A j : Msg("frame", c[j]).kind # "raw"
      BY DEF Msg
    <3> QED
      BY <3>1, <3>2
  <2> QED
    BY <1>1, <2>1, <2>2, GroupLength
<1> HIDE DEF g, n
<1>5. \A k : Ahead(toServer, up[t].inStep, g, k) /\ k < Len(g) => Head(toServer) = g[k + 1]
  BY <1>1, <1>4, AheadTail
<1>6. CASE \E k \in {0, 1, 2} : Ahead(toServer, up[t].inStep, g, k)
  <2>1. PICK k \in {0, 1, 2} : Ahead(toServer, up[t].inStep, g, k)
    BY <1>6
  <2>2. k < Len(g) /\ k + 1 \in {1, 2, 3}
    BY <1>4
  <2> QED
    BY <1>4, <1>5, <2>1, <2>2
<1>7. CASE n <= Threshold /\ \E k \in 0 .. n : Ahead(toServer, up[t].inStep, g, 3 + k)
  <2>1. PICK k \in 0 .. n : Ahead(toServer, up[t].inStep, g, 3 + k)
    BY <1>7
  <2>2. Head(toServer) = g[(3 + k) + 1]
    <3>1. Len(g) = n + 4
      BY <1>4, <1>7
    <3>2. 3 + k < Len(g)
      BY <1>3, <3>1
    <3> QED
      BY <1>5, <2>1, <3>2
  <2>3. (3 + k) + 1 = n + 4 \/ (k + 1 \in 1 .. n /\ (3 + k) + 1 = 3 + (k + 1))
    BY <1>3
  <2> QED
    BY <1>4, <1>7, <2>2, <2>3
<1> QED
  BY <1>2, <1>6, <1>7 DEF g, n

LEMMA ServerGarbageStep ==
  ASSUME Alone, Inv, NEW t \in Transfers, ServerGarbage(t)
  PROVE  Inv'
<1>1. /\ toServer # <<>> /\ Reads(t) /\ toServer' \in {Tail(toServer), <<Piece>> \o Tail(toServer)}
      /\ UNCHANGED <<cpc, cut>>
  BY DEF ServerGarbage, client
<1>2. IsSeq(toServer') /\ (~ cut => Grouped(toServer'))
  <2>1. IsSeq(toServer) /\ (~ cut => Grouped(toServer))
    BY DEF Inv
  <2>2. CASE toServer' = Tail(toServer)
    BY <1>1, <2>1, <2>2, TailIsSeq, GroupedTail
  <2>3. CASE toServer' = <<Piece>> \o Tail(toServer)
    BY <1>1, <2>1, <2>3, PieceIsSeq, GroupedPiece
  <2> QED
    BY <1>1, <2>2, <2>3
<1>3. CASE /\ up[t].at = "astray" \/ (up[t].at \in {"name", "size", "hash", "framed"} /\ Head(toServer).kind = "raw")
           /\ PutsGoto(t, "astray") /\ UNCHANGED spc
  <2> DEFINE u == [up[t] EXCEPT !.at = "astray"]
  <2>1. up' = [up EXCEPT ![t] = u]
    BY <1>3, Zenon DEF PutsGoto
  <2>2. Shape(u) /\ u.at = "astray" /\ u.name = up[t].name /\ u.inStep = up[t].inStep
    <3>1. Shape(up[t]) /\ "astray" \notin Early
      BY DEF Inv, Early
    <3> QED
      BY <3>1, SetAt
  <2> HIDE DEF u
  <2>3. ~ up[t].inStep
    <3>1. CASE up[t].at = "astray"
      BY <3>1 DEF Inv, InPlace
    <3>2. CASE up[t].at # "astray"
      BY <1>1, <1>3, <3>2, NoRawAhead
    <3> QED
      BY <3>1, <3>2
  <2>4. InPlace(u, toServer')
    BY <2>2, <2>3 DEF InPlace
  <2>5. up[t].at # "idle"
    BY <1>3
  <2> QED
    BY <1>1, <1>2, <1>3, <2>1, <2>2, <2>4, <2>5, HandlerStep
<1>4. CASE /\ spc[t] = "astray" \/ (spc[t] \in {"offset", "hash"} /\ Head(toServer).kind = "raw")
           /\ ServerGoto(t, "astray") /\ UNCHANGED up
  <2>1. up[t].at = "idle"
    BY <1>4 DEF Inv
  <2>2. DOMAIN spc' = Transfers /\ DOMAIN cpc' = Transfers
    BY <1>1, <1>4 DEF Inv, ServerGoto
  <2> QED
    BY <1>1, <1>2, <1>4, <2>1, <2>2, IdleStep
<1> QED
  BY <1>1, <1>3, <1>4, Zenon DEF Reads

\* The steps of a download take no name and send none.
LEMMA GetsStep ==
  ASSUME Alone, Inv, NEW t \in Transfers, Gets(t)
  PROVE  Inv'
<1>1. UNCHANGED <<up, cut>>
  BY DEF Gets
<1>2. CASE Quiet(t) /\ \E f \in Files : Begin(t, f)
  <2>1. PICK f \in Files : Begin(t, f)
    BY <1>2
  <2> DEFINE n == IF local[f] = Absent THEN 0 ELSE Len(local[f])
             a == <<Msg("size", n)>>
             h == IF n > 0 THEN <<Msg("sha", local[f])>> ELSE <<>>
  <2>2. /\ toServer' = toServer \o a \o h
        /\ cpc' = [cpc EXCEPT ![t] = "name"] /\ spc' = [spc EXCEPT ![t] = "offset"]
    BY <2>1 DEF Begin, ClientGoto, ServerGoto
  <2>3. IsSeq(a) /\ Grouped(a)
    <3>1. a \in Seq({Msg("size", n)}) /\ \A j \in 1 .. Len(a) : a[j].kind # "name"
      BY DEF Msg
    <3> QED
      BY <3>1, SeqIsSeq DEF Grouped
  <2>4. IsSeq(h) /\ Grouped(h)
    <3> DEFINE c == <<Msg("sha", local[f])>>
    <3>1. c \in Seq({Msg("sha", local[f])}) /\ \A j \in 1 .. Len(c) : c[j].kind # "name"
      BY DEF Msg
    <3>2. IsSeq(c) /\ Grouped(c)
      BY <3>1, SeqIsSeq DEF Grouped
    <3> HIDE DEF c
    <3>3. h = c \/ h = <<>>
      BY DEF c
    <3> QED
      BY <3>2, <3>3, EmptyIsGrouped
  <2> HIDE DEF a, h
  <2>5. IsSeq(toServer) /\ (~ cut => Grouped(toServer))
    BY DEF Inv
  <2>6. IsSeq(toServer \o a) /\ (~ cut => Grouped(toServer \o a))
    BY <2>3, <2>5, ConcatIsSeq, GroupedConcat
  <2>7. IsSeq(toServer') /\ (~ cut => Grouped(toServer'))
    BY <2>2, <2>4, <2>6, ConcatIsSeq, GroupedConcat
  <2>8. DOMAIN spc' = Transfers /\ DOMAIN cpc' = Transfers
    BY <2>2 DEF Inv
  <2>9. up[t].at = "idle"
    BY <1>2, NoPutsIs DEF Quiet
  <2> QED
    BY <1>1, <2>7, <2>8, <2>9, IdleStep
<1>3. CASE ServerStep(t) \/ GiveUp(t)
  <2>1. spc[t] # "idle" /\ cpc' = cpc /\ DOMAIN spc' = DOMAIN spc
    BY <1>3 DEF ServerStep, GiveUp, TakeOffset, TakeHash, SendName, SendRemaining, SendTotal,
                SendChunk, SendEnd, SendSha, ServerGoto, client
  <2>2. up[t].at = "idle" /\ DOMAIN spc' = Transfers /\ DOMAIN cpc' = Transfers
    BY <2>1 DEF Inv
  <2>3. IsSeq(toServer) /\ (~ cut => Grouped(toServer))
    BY DEF Inv
  <2>4. CASE TakeOffset(t) \/ TakeHash(t)
    <3>1. toServer # <<>> /\ toServer' = Tail(toServer)
      BY <2>4, Zenon DEF TakeOffset, TakeHash
    <3> QED
      BY <1>1, <2>2, <2>3, <3>1, TailIsSeq, GroupedTail, IdleStep
  <2>5. CASE ~ (TakeOffset(t) \/ TakeHash(t))
    <3>1. toServer' = toServer
      BY <1>3, <2>5, Zenon DEF ServerStep, GiveUp, SendName, SendRemaining, SendTotal,
                               SendChunk, SendEnd, SendSha
    <3> QED
      BY <1>1, <2>2, <2>3, <3>1, IdleStep
  <2> QED
    BY <2>4, <2>5
<1>4. CASE ClientStep(t) \/ TakeTotalFails(t) \/ Abandon(t)
  <2>1. cpc[t] # "idle" /\ spc' = spc /\ DOMAIN cpc' = DOMAIN cpc /\ toServer' = toServer
    BY <1>4 DEF ClientStep, TakeTotalFails, Abandon, Take, TakeName, TakeRemaining, TakeTotalDone,
                TakeTotal, TakeRaw, TakeFrame, TakeEnd, TakeSha, TakeWrong, TakeGarbage,
                ClientGoto, Return, server
  <2>2. up[t].at = "idle" /\ DOMAIN spc' = Transfers /\ DOMAIN cpc' = Transfers
    BY <2>1 DEF Inv
  <2> QED
    BY <1>1, <2>1, <2>2, IdleStep DEF Inv
<1> QED
  BY <1>2, <1>3, <1>4, Zenon DEF Gets

LEMMA PutsStepKeeps ==
  ASSUME Alone, Inv, NEW t \in Transfers, PutsStep(t) \/ PutsFails(t) \/ ServerGarbage(t)
  PROVE  Inv'
  BY TakePutsEmptyStep, TakePutsNameStep, TakePutsSizeStep, TakePutsHashStep, ReturnStep, CreateStep,
     TakePutsRawStep, TakePutsFrameStep, TakePutsEndStep, ServerGarbageStep, Zenon DEF PutsStep

LEMMA FreshPuts ==
  ASSUME NEW f, NEW b \in BOOLEAN
  PROVE  LET u == [NoPuts EXCEPT !.at = "name", !.name = f, !.inStep = b]
         IN Shape(u) /\ u.at = "name" /\ u.name = f /\ u.inStep = b
<1> DEFINE v == [NoPuts EXCEPT !.at = "name"]
           w == [v EXCEPT !.name = f]
           x == [w EXCEPT !.inStep = b]
<1>1. NoPuts.got = 0
  BY DEF NoPuts
<1>2. Shape(v) /\ v.at = "name"
  BY <1>1, NoPutsIs, SetAt
<1> HIDE DEF v
<1>3. Shape(w) /\ w.at = "name" /\ w.name = f
  BY <1>2, SetName
<1> HIDE DEF w
<1>4. Shape(x) /\ x.at = "name" /\ x.name = f /\ x.inStep = b
  BY <1>3, SetInStep
<1> QED
  BY <1>4, Zenon DEF v, w, x

\* A file is sent whole, or the client has stopped inside it.
LEMMA PutsKeeps ==
  ASSUME Alone, Inv, NEW t \in Transfers, NEW f \in Sources, Puts(t, f)
  PROVE  Inv'
<1>1. PICK c \in Versions[f] : \E n \in 0 .. Len(Group(f, c)) :
        /\ toServer' = toServer \o Prefix(Group(f, c), n)
        /\ cut' = (cut \/ n \in 1 .. Len(Group(f, c)) - 1)
        /\ up' = [up EXCEPT ![t] = [NoPuts EXCEPT !.at = "name", !.name = f,
                                     !.inStep = (toServer = <<>> /\ n = Len(Group(f, c)))]]
  BY DEF Puts
<1> DEFINE g == Group(f, c)
<1>2. PICK n \in 0 .. Len(g) :
        /\ toServer' = toServer \o Prefix(g, n)
        /\ cut' = (cut \/ n \in 1 .. Len(g) - 1)
        /\ up' = [up EXCEPT ![t] = [NoPuts EXCEPT !.at = "name", !.name = f,
                                     !.inStep = (toServer = <<>> /\ n = Len(g))]]
  BY <1>1
<1>3. IsSeq(g) /\ Len(g) \in Nat /\ Grouped(g)
  BY GroupLength, GroupIsGrouped
<1> HIDE DEF g
<1> DEFINE p == Prefix(g, n)
           b == (toServer = <<>> /\ n = Len(g))
           u == [NoPuts EXCEPT !.at = "name", !.name = f, !.inStep = b]
<1>4. IsSeq(p) /\ (n = 0 => p = <<>>) /\ (n = Len(g) => p = g)
  <2>1. g \in Seq({g[i] : i \in 1 .. Len(g)})
    BY <1>3 DEF IsSeq
  <2>2. p \in Seq({g[i] : i \in 1 .. Len(g)})
    BY <1>3, <2>1 DEF Prefix
  <2>3. n = 0 => p = <<>>
    BY <2>1 DEF Prefix
  <2>4. n = Len(g) => p = g
    BY <2>1, PrefixWhole
  <2> QED
    BY <2>2, <2>3, <2>4, SeqIsSeq
<1>5. Shape(u) /\ u.at = "name" /\ u.name = f /\ u.inStep = b
  <2>1. b \in BOOLEAN
    OBVIOUS
  <2> HIDE DEF b
  <2> QED
    BY <2>1, FreshPuts DEF u
<1>6. up' = [up EXCEPT ![t] = u] /\ toServer' = toServer \o p
  BY <1>2
<1> HIDE DEF u, p
<1>8. IsSeq(toServer) /\ (~ cut => Grouped(toServer))
  BY DEF Inv
<1>9. IsSeq(toServer') /\ (~ cut' => Grouped(toServer'))
  <2>1. IsSeq(toServer')
    BY <1>4, <1>6, <1>8, ConcatIsSeq
  <2>2. ASSUME ~ cut' PROVE Grouped(toServer')
    <3>1. ~ cut /\ (n = 0 \/ n = Len(g))
      <4>1. ~ (cut \/ n \in 1 .. Len(g) - 1)
        BY <1>2, <2>2, Zenon
      <4>2. n \notin 1 .. Len(g) - 1 => n = 0 \/ n = Len(g)
        BY <1>3
      <4> QED
        BY <4>1, <4>2
    <3>2. Grouped(p)
      BY <1>3, <1>4, <3>1 DEF Grouped
    <3> QED
      BY <1>4, <1>6, <1>8, <3>1, <3>2, GroupedConcat
  <2> QED
    BY <2>1, <2>2
<1>10. InPlace(u, toServer')
  <2>1. CASE b
    <3>1. toServer' = <<>> \o g
      BY <1>4, <1>6, <2>1
    <3>2. IsSeq(<<>>) /\ Len(<<>>) = 0
      <4>1. <<>> \in Seq({})
        OBVIOUS
      <4> QED
        BY <4>1, SeqIsSeq
    <3>3. Len(toServer') = Len(g) /\ \A j \in 1 .. Len(g) : toServer'[j] = g[j]
      <4>1. /\ Len(<<>> \o g) = 0 + Len(g)
            /\ \A j \in 1 .. 0 + Len(g) : (<<>> \o g)[j] = IF j <= 0 THEN <<>>[j] ELSE g[j - 0]
        BY <1>3, <3>2, ConcatIsSeq
      <4>2. \A j \in 1 .. Len(g) : ~ (j <= 0) /\ j - 0 = j /\ 0 + Len(g) = Len(g)
        BY <1>3
      <4>3. 0 + Len(g) = Len(g)
        BY <1>3
      <4> QED
        BY <3>1, <4>1, <4>2, <4>3
    <3>4. Ahead(toServer', u.inStep, g, 0)
      BY <1>3, <3>3 DEF Ahead
    <3> QED
      BY <1>5, <3>4 DEF InPlace, g
  <2>2. CASE ~ b
    BY <1>5, <2>2 DEF InPlace
  <2> QED
    BY <2>1, <2>2
<1>11. /\ cpc[t] = "idle" /\ cpc' = cpc /\ spc' = [spc EXCEPT ![t] = "idle"]
  BY DEF Puts, Forget, Quiet
<1>12. \A v \in Transfers : v = t
  BY DEF Alone
<1>13. up'[t] = u /\ up' = [v \in Transfers |-> up'[v]] /\ spc'[t] = "idle"
       /\ DOMAIN spc' = Transfers /\ DOMAIN cpc' = Transfers
  BY <1>6, <1>11 DEF Inv
<1> QED
  BY <1>5, <1>9, <1>10, <1>11, <1>12, <1>13 DEF Inv

LEMMA ReconnectKeeps == Reconnect => Inv'
<1> SUFFICES ASSUME Reconnect PROVE Inv'
  OBVIOUS
<1>1. /\ toServer' = <<>> /\ up' = [t \in Transfers |-> NoPuts] /\ ~ cut'
      /\ DOMAIN spc' = Transfers /\ DOMAIN cpc' = Transfers
  BY DEF Reconnect, Disconnect
<1> QED
  BY <1>1, EmptyIsGrouped, NoPutsIs DEF Inv

LEMMA InvInit == UploadInit => Inv
<1> SUFFICES ASSUME UploadInit PROVE Inv
  OBVIOUS
<1>1. /\ toServer = <<>> /\ up = [t \in Transfers |-> NoPuts] /\ ~ cut
      /\ DOMAIN spc = Transfers /\ DOMAIN cpc = Transfers
  BY DEF UploadInit, Init
<1> QED
  BY <1>1, EmptyIsGrouped, NoPutsIs DEF Inv

LEMMA InvNext == Alone /\ Inv /\ [UploadNext]_vvars => Inv'
<1> SUFFICES ASSUME Alone, Inv, [UploadNext]_vvars PROVE Inv'
  OBVIOUS
<1>1. ASSUME NEW t \in Transfers, Gets(t) PROVE Inv'
  BY <1>1, GetsStep
<1>2. ASSUME NEW t \in Transfers, NEW f \in Sources, Puts(t, f) PROVE Inv'
  BY <1>2, PutsKeeps
<1>3. ASSUME NEW t \in Transfers, PutsStep(t) \/ PutsFails(t) \/ ServerGarbage(t) PROVE Inv'
  BY <1>3, PutsStepKeeps
<1>4. CASE Reconnect
  BY <1>4, ReconnectKeeps
<1>5. CASE UNCHANGED vvars
  BY <1>5 DEF vvars, vars, client, server, Inv
<1> QED
  BY <1>1, <1>2, <1>3, <1>4, <1>5, Zenon DEF UploadNext

LEMMA InvIsSafe == Inv => RecordedIsSent /\ UploadsStayInStep
<1> SUFFICES ASSUME Inv PROVE RecordedIsSent /\ UploadsStayInStep
  OBVIOUS
<1>1. RecordedIsSent
  <2> SUFFICES ASSUME ~ cut, NEW t \in Transfers
               PROVE  /\ up[t].at \in {"lookup", "insert"} => up[t].hash \in Versions[up[t].name]
                      /\ up[t].at = "insert" => up[t].data = up[t].hash
    BY DEF RecordedIsSent
  <2>1. InPlace(up[t], toServer)
    BY DEF Inv
  <2> QED
    BY <2>1 DEF InPlace
<1>2. UploadsStayInStep
  <2> SUFFICES ASSUME NEW t \in Transfers, up[t].inStep
               PROVE  up[t].at # "astray" /\ (up[t].at = "insert" => toServer = <<>>)
    BY DEF UploadsStayInStep
  <2>1. InPlace(up[t], toServer)
    BY DEF Inv
  <2> QED
    BY <2>1 DEF InPlace
<1> QED
  BY <1>1, <1>2

-----------------------------------------------------------------------------
(* The specification *)

LEMMA Invariance == Alone => (UploadSpec => []Inv)
<1> SUFFICES ASSUME Alone PROVE UploadSpec => []Inv
  OBVIOUS
<1>1. Inv /\ [UploadNext]_vvars => Inv'
  BY InvNext
<1> QED
  BY InvInit, <1>1, PTL DEF UploadSpec

\* When a client runs one transfer at a time, in sessions of any length, whatever
\* number of files of whatever length earlier uploads have left in the connection,
\* no row is inserted for a hash or a content that the client had under another
\* name, unless the client has stopped inside a file (file_transfer.c:378-619,
\* client_file_transfer.c:411-488).
THEOREM Recorded == (\A t, u \in Transfers : t = u) => (UploadSpec => []RecordedIsSent)
<1> SUFFICES ASSUME Alone PROVE UploadSpec => []RecordedIsSent
  BY DEF Alone
<1>1. UploadSpec => []Inv
  BY Invariance
<1> QED
  BY <1>1, InvIsSafe, PTL

\* An upload that starts with nothing unread, of a file of any length that the
\* client sends whole, is read to its end and in the form in which it was sent
\* (client_file_transfer.c:439, file_transfer.c:520).
THEOREM StaysInStep == (\A t, u \in Transfers : t = u) => (UploadSpec => []UploadsStayInStep)
<1> SUFFICES ASSUME Alone PROVE UploadSpec => []UploadsStayInStep
  BY DEF Alone
<1>1. UploadSpec => []Inv
  BY Invariance
<1> QED
  BY <1>1, InvIsSafe, PTL
=============================================================================
