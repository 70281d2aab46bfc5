--------------------------- MODULE FileStore_proofs ---------------------------
(***************************************************************************)
(* Proofs about FileStore for any number of workers, paths, contents and   *)
(* chunks.                                                                 *)
(***************************************************************************)
EXTENDS FileStore, TLAPS

LEMMA TypeStep == TypeOK /\ HasFile /\ [Next]_vars => TypeOK'
<1> SUFFICES ASSUME TypeOK, HasFile, [Next]_vars PROVE TypeOK'
  OBVIOUS
<1> USE SizeAssumption DEF TypeOK, Goto, JobPCs, Writing
<1>1. ASSUME NEW j \in Jobs, NEW p \in Paths, NEW h \in Hashes, Begin(j, p, h)
      PROVE  TypeOK'
  BY <1>1 DEF Begin
<1>2. ASSUME NEW j \in Jobs, FindByHash(j) \/ OpenFails(j) \/ EndOfData(j) PROVE TypeOK'
  BY <1>2 DEF FindByHash, OpenFails, EndOfData
<1>3. ASSUME NEW j \in Jobs, Insert(j) PROVE TypeOK'
  <2>1. CASE rows' = rows
    BY <1>3, <2>1 DEF Insert
  <2>2. CASE rows' = [rows EXCEPT ![path[j]][hash[j]] = @ + 1]
    <3>1. rows' \in [Paths -> [Hashes -> Nat]]
      BY <2>2
    <3> QED
      BY <1>3, <3>1 DEF Insert
  <2> QED
    BY <1>3, <2>1, <2>2 DEF Insert
<1>4. ASSUME NEW j \in Jobs, Open(j) PROVE TypeOK'
  BY <1>4 DEF Open
<1>5. ASSUME NEW j \in Jobs, Extend(j) PROVE TypeOK'
  <2>1. file[hash[j]] # NoFile
    BY <1>5 DEF Extend, HasFile
  <2> QED
    BY <1>5, <2>1 DEF Extend
<1>6. ASSUME NEW j \in Jobs, Write(j) PROVE TypeOK'
  <2>1. file[hash[j]] # NoFile
    BY <1>6 DEF Write, HasFile
  <2> QED
    BY <1>6, <2>1 DEF Write
<1>7. ASSUME NEW j \in Jobs, Lost(j) PROVE TypeOK'
  BY <1>7 DEF Lost
<1>8. CASE Die
  <2>1. {hash[j] : j \in {k \in Jobs : Writing(k)}} \subseteq Hashes
    OBVIOUS
  <2>2. torn' \subseteq Hashes
    BY <1>8, <2>1 DEF Die
  <2>3. pc' \in [Jobs -> JobPCs]
    BY <1>8 DEF Die
  <2>4. UNCHANGED <<rows, file, path, hash, pos>> /\ up' = FALSE
    BY <1>8 DEF Die
  <2> QED
    BY <2>2, <2>3, <2>4
<1>9. ASSUME NEW p \in Paths, Remove(p) PROVE TypeOK'
  BY <1>9 DEF Remove
<1>10. CASE Restart \/ UNCHANGED vars
  BY <1>10 DEF Restart, vars
<1> QED
  BY <1>1, <1>2, <1>3, <1>4, <1>5, <1>6, <1>7, <1>8, <1>9, <1>10 DEF Next, Exit

\* No step removes a physical file.
LEMMA FilesStay ==
  ASSUME TypeOK, [Next]_vars, NEW h \in Hashes, file[h] # NoFile
  PROVE  file'[h] # NoFile
<1> USE SizeAssumption, NoFileAssumption DEF TypeOK
<1>0. \A k \in Hashes : file[k] # NoFile => file[k] \in [len : Nat, good : SUBSET (Nat \ {0})]
  OBVIOUS
<1>1. ASSUME NEW j \in Jobs, Open(j) PROVE file'[h] # NoFile
  <2>1. [len |-> 0, good |-> {}] # NoFile
    OBVIOUS
  <2> QED
    BY <1>1, <2>1 DEF Open
<1>2. ASSUME NEW j \in Jobs, Extend(j) PROVE file'[h] # NoFile
  <2>1. CASE h = hash[j]
    <3>1. file'[h] = [file[h] EXCEPT !.len = Size[h]]
      BY <1>2, <2>1 DEF Extend
    <3>2. file'[h] \in [len : Nat, good : SUBSET Nat]
      BY <1>0, <3>1
    <3> QED
      BY <3>2
  <2> QED
    BY <1>2, <2>1 DEF Extend
<1>3. ASSUME NEW j \in Jobs, Write(j) PROVE file'[h] # NoFile
  <2>1. CASE h = hash[j]
    <3> DEFINE n == pos[j] + 1
    <3>1. file'[h] = [len |-> IF n > file[h].len THEN n ELSE file[h].len,
                      good |-> file[h].good \cup {n}]
      BY <1>3, <2>1 DEF Write
    <3>2. file'[h] \in [len : Nat, good : SUBSET Nat]
      BY <1>0, <3>1
    <3> QED
      BY <3>2
  <2> QED
    BY <1>3, <2>1 DEF Write
<1>4. ASSUME UNCHANGED file PROVE file'[h] # NoFile
  BY <1>4
<1> QED
  BY <1>1, <1>2, <1>3, <1>4
     DEF Next, vars, Begin, FindByHash, Insert, OpenFails, EndOfData, Lost, Exit,
         Die, Remove, Restart

LEMMA RecordedStep ==
  TypeOK /\ HasFile /\ RecordedHasFile /\ [Next]_vars => RecordedHasFile'
<1> SUFFICES ASSUME TypeOK, HasFile, RecordedHasFile, [Next]_vars,
                    NEW h \in Hashes, Recorded(h)'
             PROVE  file'[h] # NoFile
  BY DEF RecordedHasFile
<1>1. file[h] # NoFile
  <2>1. ASSUME Recorded(h) PROVE file[h] # NoFile
    BY <2>1 DEF RecordedHasFile
  <2>2. ASSUME NEW j \in Jobs, Insert(j) PROVE file[h] # NoFile
    <3>1. CASE h = hash[j]
      BY <2>2, <3>1 DEF Insert, HasFile
    <3>2. CASE h # hash[j]
      BY <2>1, <2>2, <3>2 DEF Insert, Recorded, TypeOK
    <3> QED
      BY <3>1, <3>2
  <2>3. ASSUME NEW p \in Paths, Remove(p) PROVE file[h] # NoFile
    <3>1. PICK k \in Hashes : rows[p][k] > 0 /\ rows' = [rows EXCEPT ![p][k] = @ - 1]
      BY <2>3 DEF Remove
    <3>2. PICK q \in Paths : rows'[q][h] > 0
      BY DEF Recorded
    <3>3. rows[q][h] > 0
      BY <3>1, <3>2 DEF TypeOK
    <3> QED
      BY <2>1, <3>3 DEF Recorded
  <2>4. ASSUME UNCHANGED rows PROVE file[h] # NoFile
    BY <2>1, <2>4 DEF Recorded
  <2> QED
    BY <2>2, <2>3, <2>4
       DEF Next, vars, Begin, FindByHash, Open, Extend, Write, OpenFails, EndOfData, Lost,
           Exit, Die, Restart
<1> QED
  BY <1>1, FilesStay

LEMMA HasFileStep ==
  TypeOK /\ HasFile /\ RecordedHasFile /\ [Next]_vars => HasFile'
<1> SUFFICES ASSUME TypeOK, HasFile, RecordedHasFile, [Next]_vars,
                    NEW i \in Jobs, pc'[i] \in {"instant", "extend", "write", "insert"}
             PROVE  file'[hash'[i]] # NoFile
  BY DEF HasFile
<1> USE DEF TypeOK, Goto
<1>0. ASSUME pc[i] \in {"instant", "extend", "write", "insert"}, hash'[i] = hash[i]
      PROVE  file'[hash'[i]] # NoFile
  BY <1>0, FilesStay DEF HasFile
<1>1. ASSUME NEW j \in Jobs, NEW p \in Paths, NEW h \in Hashes, Begin(j, p, h)
      PROVE  file'[hash'[i]] # NoFile
  BY <1>0, <1>1 DEF Begin
<1>2. ASSUME NEW j \in Jobs, FindByHash(j) PROVE file'[hash'[i]] # NoFile
  BY <1>0, <1>2 DEF FindByHash, RecordedHasFile
<1>3. ASSUME NEW j \in Jobs, Open(j) PROVE file'[hash'[i]] # NoFile
  <2>1. CASE i = j
    <3>1. file'[hash'[i]] = [len |-> 0, good |-> {}]
      BY <1>3, <2>1 DEF Open
    <3> QED
      BY <3>1, NoFileAssumption
  <2> QED
    BY <1>0, <1>3, <2>1 DEF Open
<1>4. ASSUME NEW j \in Jobs, Insert(j) \/ OpenFails(j) \/ Extend(j) \/ Write(j) \/ EndOfData(j) \/ Lost(j)
      PROVE  file'[hash'[i]] # NoFile
  BY <1>0, <1>4 DEF Insert, OpenFails, Extend, Write, EndOfData, Lost, Writing
<1>5. CASE Die
  BY <1>5 DEF Die
<1>6. CASE Restart \/ (\E p \in Paths : Remove(p)) \/ UNCHANGED vars
  BY <1>0, <1>6 DEF Restart, Remove, vars
<1> QED
  BY <1>1, <1>2, <1>3, <1>4, <1>5, <1>6 DEF Next, Exit

\* What a physical file is, and what Open, Extend and Write make of it.
LEMMA FileShape ==
  ASSUME TypeOK, NEW h \in Hashes, file[h] # NoFile
  PROVE  /\ file[h].len \in Nat /\ file[h].good \in SUBSET (Nat \ {0})
         /\ file[h] = [len |-> file[h].len, good |-> file[h].good]
BY DEF TypeOK

LEMMA OpenEffect ==
  ASSUME TypeOK, NEW j \in Jobs, Open(j)
  PROVE  /\ file'[hash[j]] = [len |-> 0, good |-> {}]
         /\ \A h \in Hashes : h # hash[j] => file'[h] = file[h]
BY DEF Open, TypeOK

LEMMA ExtendEffect ==
  ASSUME TypeOK, HasFile, NEW j \in Jobs, Extend(j)
  PROVE  /\ file[hash[j]] # NoFile
         /\ file'[hash[j]] = [len |-> Size[hash[j]], good |-> file[hash[j]].good]
         /\ \A h \in Hashes : h # hash[j] => file'[h] = file[h]
<1>1. file[hash[j]] \in [len : Nat, good : SUBSET (Nat \ {0})] /\ file[hash[j]] # NoFile
  BY DEF Extend, TypeOK, HasFile
<1> QED
  BY <1>1 DEF Extend, TypeOK

LEMMA WriteEffect ==
  ASSUME TypeOK, HasFile, NEW j \in Jobs, Write(j)
  PROVE  /\ file[hash[j]] # NoFile /\ pos[j] + 1 \in 1 .. Size[hash[j]]
         /\ file'[hash[j]] =
              [len |-> IF pos[j] + 1 > file[hash[j]].len THEN pos[j] + 1 ELSE file[hash[j]].len,
               good |-> file[hash[j]].good \cup {pos[j] + 1}]
         /\ \A h \in Hashes : h # hash[j] => file'[h] = file[h]
<1>1. file[hash[j]] # NoFile
  BY DEF Write, HasFile
<1>2. pos[j] + 1 \in 1 .. Size[hash[j]]
  <2>1. pos[j] \in Nat /\ hash[j] \in Hashes
    BY DEF TypeOK
  <2>2. Size[hash[j]] \in Nat
    BY <2>1, SizeAssumption
  <2>3. pos[j] < Size[hash[j]]
    BY DEF Write
  <2> QED
    BY <2>1, <2>2, <2>3
<1> QED
  BY <1>1, <1>2 DEF Write, TypeOK

LEMMA BoundedStep ==
  TypeOK /\ HasFile /\ Bounded /\ [Next]_vars => Bounded'
<1> SUFFICES ASSUME TypeOK, HasFile, Bounded, [Next]_vars PROVE Bounded'
  OBVIOUS
<1> DEFINE Within(h) == file[h].len <= Size[h] /\ file[h].good \subseteq 1 .. Size[h]
<1>0. \A h \in Hashes : file[h] # NoFile => Within(h)
  BY DEF Bounded, Chunks
\* It is enough to look at one file and one handler.
<1>1. ASSUME \A h \in Hashes : file'[h] # NoFile => Within(h)',
             \A k \in Jobs : Writing(k)' => pos'[k] <= Size[hash'[k]]
      PROVE  Bounded'
  BY <1>1 DEF Bounded, Chunks
<1>2. ASSUME file' = file, \A k \in Jobs : Writing(k)' => pos'[k] <= Size[hash'[k]]
      PROVE  Bounded'
  BY <1>0, <1>1, <1>2
<1>3. ASSUME NEW j \in Jobs, NEW p \in Paths, NEW h \in Hashes, Begin(j, p, h)
      PROVE  Bounded'
  BY <1>2, <1>3 DEF Begin, Goto, TypeOK, Writing, Bounded
<1>4. ASSUME NEW j \in Jobs, FindByHash(j) \/ Insert(j) \/ OpenFails(j) \/ EndOfData(j) \/ Lost(j)
      PROVE  Bounded'
  BY <1>2, <1>4
     DEF FindByHash, Insert, OpenFails, EndOfData, Lost, Goto, TypeOK, Writing, Bounded
<1>5. ASSUME NEW j \in Jobs, Open(j) PROVE Bounded'
  <2>1. \A h \in Hashes : file'[h] # NoFile => Within(h)'
    <3> SUFFICES ASSUME NEW h \in Hashes, file'[h] # NoFile PROVE Within(h)'
      OBVIOUS
    <3>1. CASE h = hash[j]
      <4>1. file'[h].len = 0 /\ file'[h].good = {} /\ Size[h] \in Nat
        BY <1>5, <3>1, OpenEffect, SizeAssumption
      <4> QED
        BY <4>1
    <3>2. CASE h # hash[j]
      BY <1>0, <1>5, <3>2, OpenEffect
    <3> QED
      BY <3>1, <3>2
  <2>2. \A k \in Jobs : Writing(k)' => pos'[k] <= Size[hash'[k]]
    <3>1. hash' = hash /\ pos'[j] = 0 /\ \A k \in Jobs : k # j => pos'[k] = pos[k] /\ pc'[k] = pc[k]
      BY <1>5 DEF Open, Goto, TypeOK
    <3>2. 0 <= Size[hash[j]]
      BY SizeAssumption DEF TypeOK
    <3> QED
      BY <3>1, <3>2 DEF Writing, Bounded
  <2> QED
    BY <1>1, <2>1, <2>2
<1>6. ASSUME NEW j \in Jobs, Extend(j) PROVE Bounded'
  <2>1. \A h \in Hashes : file'[h] # NoFile => Within(h)'
    <3> SUFFICES ASSUME NEW h \in Hashes, file'[h] # NoFile PROVE Within(h)'
      OBVIOUS
    <3>1. CASE h = hash[j]
      <4>1. /\ file'[h].len = Size[h] /\ file'[h].good = file[h].good /\ Size[h] \in Nat
            /\ file[h] # NoFile
        <5>1. /\ file'[h] = [len |-> Size[h], good |-> file[h].good]
              /\ file[h] # NoFile
          BY <1>6, <3>1, ExtendEffect
        <5> QED
          BY <5>1, SizeAssumption
      <4> QED
        BY <1>0, <4>1
    <3>2. CASE h # hash[j]
      BY <1>0, <1>6, <3>2, ExtendEffect
    <3> QED
      BY <3>1, <3>2
  <2>2. \A k \in Jobs : Writing(k)' => pos'[k] <= Size[hash'[k]]
    BY <1>6 DEF Extend, Goto, TypeOK, Writing, Bounded
  <2> QED
    BY <1>1, <2>1, <2>2
<1>7. ASSUME NEW j \in Jobs, Write(j) PROVE Bounded'
  <2> DEFINE n == pos[j] + 1
  <2>1. \A h \in Hashes : file'[h] # NoFile => Within(h)'
    <3> SUFFICES ASSUME NEW h \in Hashes, file'[h] # NoFile PROVE Within(h)'
      OBVIOUS
    <3>1. CASE h = hash[j]
      <4>1. /\ file[h] # NoFile /\ n \in 1 .. Size[h]
            /\ file'[h].len = IF n > file[h].len THEN n ELSE file[h].len
            /\ file'[h].good = file[h].good \cup {n}
        <5>1. /\ file[h] # NoFile /\ n \in 1 .. Size[h]
              /\ file'[h] = [len |-> IF n > file[h].len THEN n ELSE file[h].len,
                             good |-> file[h].good \cup {n}]
          BY <1>7, <3>1, WriteEffect
        <5> QED
          BY <5>1
      <4>2. Within(h)
        BY <1>0, <4>1
      <4> QED
        BY <4>1, <4>2, SizeAssumption
    <3>2. CASE h # hash[j]
      BY <1>0, <1>7, <3>2, WriteEffect
    <3> QED
      BY <3>1, <3>2
  <2>2. \A k \in Jobs : Writing(k)' => pos'[k] <= Size[hash'[k]]
    <3>1. /\ hash' = hash /\ pc' = pc /\ pos'[j] = n
          /\ \A k \in Jobs : k # j => pos'[k] = pos[k]
      BY <1>7 DEF Write, TypeOK
    <3>2. n <= Size[hash[j]]
      <4>1. n \in 1 .. Size[hash[j]]
        BY <1>7, WriteEffect
      <4>2. Size[hash[j]] \in Nat
        BY SizeAssumption DEF TypeOK
      <4> QED
        BY <4>1, <4>2
    <3> QED
      BY <3>1, <3>2 DEF Writing, Bounded
  <2> QED
    BY <1>1, <2>1, <2>2
<1>8. CASE Die
  BY <1>2, <1>8 DEF Die, Writing
<1>9. CASE Restart \/ (\E p \in Paths : Remove(p)) \/ UNCHANGED vars
  BY <1>2, <1>9 DEF Restart, Remove, vars, Writing, Bounded
<1> QED
  BY <1>3, <1>4, <1>5, <1>6, <1>7, <1>8, <1>9 DEF Next, Exit

\* The upload that truncated a file last covers it, or it is whole.
LEMMA LedStep ==
  TypeOK /\ HasFile /\ Bounded /\ Led /\ [Next]_vars => Led'
<1> SUFFICES ASSUME TypeOK, HasFile, Bounded, Led, [Next]_vars,
                    NEW h \in Hashes, file'[h] # NoFile, h \notin torn'
             PROVE  Complete(h)' \/ \E j \in Writers(h)' : Leads(j)'
  BY DEF Led
<1> DEFINE Goal == Complete(h)' \/ \E j \in Writers(h)' : Leads(j)'
<1>t. Size[h] \in Nat /\ \A j \in Jobs : pos[j] \in Nat /\ hash[j] \in Hashes
  BY SizeAssumption DEF TypeOK
\* Steps that leave this file and its writers alone.
<1>1. ASSUME file'[h] = file[h], torn' = torn,
             \A k \in Writers(h) : pc'[k] = pc[k] /\ hash'[k] = hash[k] /\ pos'[k] = pos[k]
      PROVE  Goal
  <2>1. CASE Complete(h)
    BY <1>1, <2>1 DEF Complete
  <2>2. ASSUME NEW k \in Writers(h), Leads(k) PROVE Goal
    BY <1>1, <2>2 DEF Leads, Writers, Writing
  <2> QED
    BY <1>1, <2>1, <2>2 DEF Led
<1>2. ASSUME NEW j \in Jobs, NEW p \in Paths, NEW k \in Hashes, Begin(j, p, k) PROVE Goal
  BY <1>1, <1>2 DEF Begin, Goto, TypeOK, Writers, Writing
<1>3. ASSUME NEW j \in Jobs, FindByHash(j) \/ Insert(j) \/ OpenFails(j) PROVE Goal
  BY <1>1, <1>3 DEF FindByHash, Insert, OpenFails, Goto, TypeOK, Writers, Writing
<1>4. ASSUME NEW j \in Jobs, Open(j) PROVE Goal
  <2>1. CASE h = hash[j]
    <3>1. /\ hash'[j] = h /\ pos'[j] = 0 /\ pc'[j] \in {"extend", "write"}
          /\ pc'[j] = "write" => h \notin Big
      BY <1>4, <2>1 DEF Open, Goto, TypeOK
    <3>2. file'[h].len = 0 /\ file'[h].good = {}
      BY <1>4, <2>1, OpenEffect
    <3>3. Leads(j)'
      BY <3>1, <3>2 DEF Leads
    <3>4. j \in Writers(h)'
      BY <3>1 DEF Writers, Writing
    <3> QED
      BY <3>3, <3>4
  <2>2. CASE h # hash[j]
    <3>1. file'[h] = file[h]
      BY <1>4, <2>2, OpenEffect
    <3>2. torn' = torn /\ \A k \in Writers(h) : pc'[k] = pc[k] /\ hash'[k] = hash[k] /\ pos'[k] = pos[k]
      BY <1>4, <2>2 DEF Open, Goto, TypeOK, Writers, Writing
    <3> QED
      BY <1>1, <3>1, <3>2
  <2> QED
    BY <2>1, <2>2
<1>5. ASSUME NEW j \in Jobs, Extend(j) PROVE Goal
  <2>1. CASE h = hash[j]
    <3>0. /\ file[h] # NoFile /\ h \notin torn
          /\ file'[h] = [len |-> Size[h], good |-> file[h].good]
      BY <1>5, <2>1, ExtendEffect DEF Extend
    <3>1. CASE Complete(h)
      BY <3>0, <3>1 DEF Complete, Chunks
    <3>2. ASSUME NEW k \in Writers(h), Leads(k) PROVE Goal
      <4>1. /\ k \in Jobs /\ hash[k] = h /\ hash'[k] = h /\ pos'[k] = pos[k]
            /\ pos[k] <= Size[h] /\ Writing(k) /\ Writing(k)'
            /\ pc'[k] = "extend" => pc[k] = "extend"
        BY <1>5, <3>2 DEF Extend, Goto, TypeOK, Writers, Writing, Bounded
      <4>2. file'[h].len = Size[h] /\ file'[h].good = file[h].good
        BY <3>0
      <4>3. Leads(k)'
        BY <3>2, <4>1, <4>2 DEF Leads
      <4> QED
        BY <4>1, <4>3 DEF Writers
    <3> QED
      BY <3>0, <3>1, <3>2 DEF Led
  <2>2. CASE h # hash[j]
    <3>1. file'[h] = file[h]
      BY <1>5, <2>2, ExtendEffect
    <3>2. torn' = torn /\ \A k \in Writers(h) : pc'[k] = pc[k] /\ hash'[k] = hash[k] /\ pos'[k] = pos[k]
      BY <1>5, <2>2 DEF Extend, Goto, TypeOK, Writers, Writing
    <3> QED
      BY <1>1, <3>1, <3>2
  <2> QED
    BY <2>1, <2>2
<1>6. ASSUME NEW j \in Jobs, Write(j) PROVE Goal
  <2>1. CASE h = hash[j]
    <3> DEFINE n == pos[j] + 1
    <3>0. /\ file[h] # NoFile /\ h \notin torn /\ n \in 1 .. Size[h]
          /\ file'[h] = [len |-> IF n > file[h].len THEN n ELSE file[h].len,
                         good |-> file[h].good \cup {n}]
      <4>1. torn' = torn
        BY <1>6 DEF Write
      <4> QED
        BY <1>6, <2>1, <4>1, WriteEffect
    <3>1. file[h].len \in Nat /\ file[h].len <= Size[h]
      BY <3>0, FileShape DEF Bounded
    <3>2. CASE Complete(h)
      <4>1. file[h].len = Size[h] /\ file[h].good = 1 .. Size[h]
        BY <3>2 DEF Complete, Chunks
      <4>2. ~(n > file[h].len) /\ file[h].good \cup {n} = 1 .. Size[h]
        BY <1>t, <3>0, <4>1
      <4>3. file'[h] = [len |-> Size[h], good |-> 1 .. Size[h]]
        BY <3>0, <4>1, <4>2
      <4> QED
        BY <4>3 DEF Complete, Chunks
    <3>3. ASSUME NEW k \in Writers(h), Leads(k) PROVE Goal
      <4>1. /\ k \in Jobs /\ hash[k] = h /\ hash'[k] = h /\ pc'[k] = pc[k] /\ Writing(k)'
            /\ pos'[k] = (IF k = j THEN n ELSE pos[k]) /\ (k = j => pc[k] = "write")
            /\ pos[k] \in Nat
        BY <1>6, <3>3 DEF Write, TypeOK, Writers, Writing
      <4>2. /\ file'[h].len = (IF n > file[h].len THEN n ELSE file[h].len)
            /\ file'[h].good = file[h].good \cup {n}
        BY <3>0
      <4>3. 1 .. pos[k] \subseteq file[h].good /\ pos[k] <= file[h].len
        BY <3>3, <4>1 DEF Leads
      <4>4. 1 .. pos'[k] \subseteq file'[h].good /\ pos'[k] <= file'[h].len
        <5>1. CASE k = j
          <6>1. 1 .. n = (1 .. pos[k]) \cup {n}
            BY <5>1, <4>1
          <6> QED
            BY <5>1, <6>1, <4>1, <4>2, <4>3, <3>0, <3>1
        <5>2. CASE k # j
          BY <5>2, <4>1, <4>2, <4>3, <3>0, <3>1
        <5> QED
          BY <5>1, <5>2
      <4>5. file[h].len = Size[h] => file'[h].len = Size[h]
        BY <1>t, <3>0, <4>2
      <4>6. Leads(k)'
        BY <3>3, <4>1, <4>4, <4>5 DEF Leads
      <4> QED
        BY <4>1, <4>6 DEF Writers
    <3> QED
      BY <3>0, <3>2, <3>3 DEF Led
  <2>2. CASE h # hash[j]
    <3>1. file'[h] = file[h]
      BY <1>6, <2>2, WriteEffect
    <3>2. torn' = torn /\ \A k \in Writers(h) : pc'[k] = pc[k] /\ hash'[k] = hash[k] /\ pos'[k] = pos[k]
      BY <1>6, <2>2 DEF Write, TypeOK, Writers, Writing
    <3> QED
      BY <1>1, <3>1, <3>2
  <2> QED
    BY <2>1, <2>2
<1>7. ASSUME NEW j \in Jobs, EndOfData(j) PROVE Goal
  <2>0. file' = file /\ torn' = torn
    BY <1>7 DEF EndOfData
  <2>1. ASSUME j \in Writers(h), Leads(j) PROVE Complete(h)'
    <3>1. pos[j] = Size[h] /\ hash[j] = h /\ file[h] # NoFile
      BY <1>7, <2>1, <2>0 DEF EndOfData, Writers
    <3>2. 1 .. Size[h] \subseteq file[h].good /\ Size[h] <= file[h].len
      BY <2>1, <3>1 DEF Leads
    <3>3. file[h].good \subseteq 1 .. Size[h] /\ file[h].len <= Size[h]
      BY <3>1 DEF Bounded, Chunks
    <3>4. /\ file[h].len \in Nat
          /\ file[h] = [len |-> file[h].len, good |-> file[h].good]
      BY <3>1, FileShape
    <3>5. file[h].good = 1 .. Size[h] /\ file[h].len = Size[h]
      <4>1. file[h].good = 1 .. Size[h]
        BY <3>2, <3>3
      <4>2. file[h].len = Size[h]
        BY <1>t, <3>2, <3>3, <3>4
      <4> QED
        BY <4>1, <4>2
    <3> QED
      BY <2>0, <3>4, <3>5 DEF Complete, Chunks
  <2>2. ASSUME NEW k \in Writers(h), Leads(k), k # j PROVE Goal
    BY <1>7, <2>2 DEF EndOfData, Goto, TypeOK, Writers, Writing, Leads
  <2>3. CASE Complete(h)
    BY <2>0, <2>3 DEF Complete
  <2> QED
    BY <2>0, <2>1, <2>2, <2>3 DEF Led
<1>8. ASSUME NEW j \in Jobs, Lost(j) PROVE Goal
  BY <1>1, <1>8 DEF Lost, Goto, TypeOK, Writers, Writing, Led, Leads, Complete
<1>9. CASE Die
  BY <1>9 DEF Die, Led, Writers, Writing, Complete
<1>10. CASE Restart \/ (\E p \in Paths : Remove(p)) \/ UNCHANGED vars
  BY <1>1, <1>10 DEF Restart, Remove, vars
<1> QED
  BY <1>2, <1>3, <1>4, <1>5, <1>6, <1>7, <1>8, <1>9, <1>10 DEF Next, Exit

LEMMA InvInit == Init => Inv
<1> SUFFICES ASSUME Init PROVE Inv
  OBVIOUS
<1>1. TypeOK
  BY DEF Init, TypeOK, JobPCs
<1>2. RecordedHasFile /\ HasFile /\ Bounded /\ Led
  BY DEF Init, RecordedHasFile, Recorded, HasFile, Bounded, Writing, Led
<1> QED
  BY <1>1, <1>2 DEF Inv

\* Rows have their files, handlers stay within what they announced, and a hash whose
\* uploads have all come to their end is complete (file_transfer.c:465-620).
THEOREM Invariance == Spec => []Inv
<1>1. Init => Inv
  BY InvInit
<1>2. Inv /\ [Next]_vars => Inv'
  BY TypeStep, RecordedStep, HasFileStep, BoundedStep, LedStep DEF Inv
<1> QED
  BY <1>1, <1>2, PTL DEF Spec

\* Every row can be downloaded: its physical file exists, since nothing ever
\* unlinks one (file_transfer.c:108-119, commands.c:306-312).
THEOREM RowsHaveFiles == Spec => []RecordedHasFile
<1>1. Inv => RecordedHasFile
  BY DEF Inv
<1> QED
  BY <1>1, Invariance, PTL

\* Overlapping uploads of one content leave the whole content behind as long
\* as none of them is cut off (file_transfer.c:510-602).
THEOREM OverlapIsHarmless == Spec => []SettledIsComplete
<1>1. Inv => SettledIsComplete
  BY DEF Inv, Led, SettledIsComplete
<1> QED
  BY <1>1, Invariance, PTL

\* Tables, files and the locals of handle_puts keep their types for every number of
\* workers, paths and contents (file_transfer.c:349-620).
THEOREM TypeCorrect == Spec => []TypeOK
<1>1. Inv => TypeOK
  BY DEF Inv
<1> QED
  BY <1>1, Invariance, PTL
=============================================================================
