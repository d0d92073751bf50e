------------------------ MODULE NexusLedgerProofs ------------------------
(***************************************************************************)
(* Every safety invariant of NexusLedger, for any number of threads, frames *)
(* and crashes.  The invariant LInv says where in the file the records are  *)
(* that the threads, the acknowledged frames and the parents speak of.      *)
(***************************************************************************)
EXTENDS NexusLedger, SequenceTheorems, WellFoundedInduction, TLAPS

(* The first part of frame f is at position k.                              *)
First(f, k) == k \in DOMAIN file /\ file[k].frame = f /\ file[k].part = 1

InFile(f) == \E k \in DOMAIN file : file[k].frame = f

(* m is the last line that starts at or before position n.                  *)
LineAt(m, n) == m \in Lines /\ m <= n /\ \A j \in Lines : j <= n => j <= m

LinesInv == \A n \in DOMAIN file : \E m \in Lines : LineAt(m, n)

(* The hash stored in frame f is that of the last line before position i.   *)
Follows(f, i) == \/ i = 1 /\ prev[f] = 0
                 \/ i > 1 /\ \E m \in Lines : LineAt(m, i - 1) /\ prev[f] = file[m].frame

ChainInv == \A i \in Lines : Follows(file[i].frame, i)

Fresh(t) == /\ ~InFile(cur[t])
            /\ pc[t] = "write" => TailGood /\ Follows(cur[t], Len(file) + 1)

(* What thread t has written so far is the end of the file.                 *)
Written(t) ==
  /\ next_part[t] <= Len(file) + 1
  /\ \A p \in 1 .. next_part[t] - 1 :
       /\ file[Len(file) + 1 - next_part[t] + p].frame = cur[t]
       /\ file[Len(file) + 1 - next_part[t] + p].part = p

CallInv == \A t \in Thread : pc[t] # "idle" =>
  /\ cur[t] \in 1 .. created
  /\ parent[cur[t]] = 0 \/ \E j \in DOMAIN file : First(parent[cur[t]], j)
  /\ next_part[t] = 1 => Fresh(t)
  /\ next_part[t] > 1 => pc[t] = "write" /\ Written(t)

Distinct == /\ \A s, t \in Thread : s # t /\ pc[s] # "idle" /\ pc[t] # "idle" => cur[s] # cur[t]
            /\ \A k \in DOMAIN file : file[k].frame <= created
            /\ \A t \in Thread : pc[t] = "idle" => next_part[t] = 1

ParentInv == \A k \in DOMAIN file : file[k].part = 1 =>
  /\ k > 1 => file[k - 1].part \in {2, NewLine}
  /\ \/ parent[file[k].frame] = 0
     \/ \E j \in DOMAIN file : j < k /\ First(parent[file[k].frame], j)

AckInv == \A f \in acked : \E k \in DOMAIN file :
  /\ k + 2 <= synced /\ First(f, k)
  /\ file[k + 1].frame = f /\ file[k + 1].part = 2
  /\ file[k + 2].frame = f /\ file[k + 2].part = NewLine

CkptInv == /\ \A k \in DOMAIN file : file[k].frame \in kept \cup ignored
           /\ \A t \in Thread : /\ pc[t] = "dir_fsync" => cur[t] \in visible
                                /\ pc[t] \in {"append", "write"} => cur[t] \in kept \cup ignored

LInv == /\ TypeOK /\ LinesInv /\ OnlyTailBad /\ ChainInv
        /\ CallInv /\ Distinct /\ ParentInv /\ AckInv /\ CkptInv
-----------------------------------------------------------------------------
Record == [frame : Frame, part : Part]

(* The file is a sequence of parts.                                         *)
LEMMA FileTypes ==
  ASSUME TypeOK
  PROVE  /\ file \in Seq(Record) /\ Len(file) \in Nat /\ DOMAIN file = 1 .. Len(file)
         /\ \A k \in DOMAIN file : file[k] \in Record
         /\ \A k \in DOMAIN file : file[k].frame \in Frame /\ file[k].part \in Part
<1>1. file \in Seq(Record)
  BY DEF TypeOK, Record
<1>2. /\ Len(file) \in Nat /\ DOMAIN file = 1 .. Len(file)
      /\ \A k \in DOMAIN file : file[k] \in Record
  BY <1>1, LenProperties, ElementOfSeq
<1>3. \A r \in Record : r.frame \in Frame /\ r.part \in Part
  BY DEF Record
<1> QED BY <1>1, <1>2, <1>3

(* Where a thread is in its record, and which frame it creates.             *)
LEMMA NextPart ==
  ASSUME TypeOK, NEW t \in Thread
  PROVE  next_part[t] \in 1 .. 4
BY DEF TypeOK, NewLine

LEMMA CurIsFrame ==
  ASSUME TypeOK, CallInv, NEW t \in Thread, pc[t] # "idle"
  PROVE  cur[t] \in Frame
<1>1. cur[t] \in 1 .. created /\ created \in 0 .. MaxFrames
  BY DEF CallInv, TypeOK
<1>2. MaxFrames \in Nat
  BY LedgerAssumption
<1> QED BY <1>1, <1>2 DEF Frame

LEMMA SeqOfParts ==
  ASSUME NEW S, NEW n \in Nat, NEW g \in [1 .. n -> S]
  PROVE  g \in Seq(S) /\ Len(g) = n
OBVIOUS

(* The file.  If the tail is intact every line is.                          *)
LEMMA AllGood ==
  ASSUME TypeOK, OnlyTailBad, TailGood
  PROVE  \A i \in Lines : Good(i)
<1> SUFFICES ASSUME NEW i \in Lines PROVE Good(i)
  OBVIOUS
<1>1. \A j \in Lines : i \in Nat /\ j \in Nat
  BY DEF Lines, TypeOK
<1>2. CASE \E j \in Lines : i < j
  BY <1>2 DEF OnlyTailBad
<1>3. CASE \A j \in Lines : j <= i
  BY <1>3 DEF TailGood
<1> QED BY <1>1, <1>2, <1>3

(* In an intact line the parts are in order, and it has no fourth one.      *)
LEMMA PartsInOrder ==
  ASSUME TypeOK, LinesInv, NEW k \in DOMAIN file, \A i \in Lines : Good(i)
  PROVE  \E m \in Lines : /\ k \in m .. m + 2 /\ file[k].part = k + 1 - m
                          /\ k < m + 2 => file[k].frame = file[m].frame
<1>1. PICK m \in Lines : LineAt(m, k)
  BY DEF LinesInv
<1>a. /\ DOMAIN file = 1 .. Len(file) /\ Len(file) \in Nat
      /\ \A i \in DOMAIN file : file[i] \in Record
  BY FileTypes
<1>b. m \in DOMAIN file /\ m <= k /\ Good(m)
  BY <1>1 DEF Lines, LineAt
<1>c. m + 1 \in DOMAIN file
  BY <1>b DEF Good
<1>2. /\ m \in DOMAIN file /\ m + 1 \in DOMAIN file /\ m <= k /\ Good(m)
      /\ DOMAIN file = 1 .. Len(file) /\ Len(file) \in Nat
      /\ \A i \in DOMAIN file : file[i] \in Record
  BY <1>a, <1>b, <1>c
<1>3. /\ file[m].part = 1 /\ file[m + 1].part = 2 /\ file[m + 1].frame = file[m].frame
      /\ m + 2 \in DOMAIN file => file[m + 2].part = NewLine
  BY <1>2 DEF Good, Record
<1>4. ~(k >= m + 3)
  <2> SUFFICES ASSUME k >= m + 3 PROVE FALSE
    OBVIOUS
  <2>1. m + 2 \in DOMAIN file /\ m + 3 \in DOMAIN file
    BY <1>2
  <2>2. m + 3 \in Lines
    BY <1>2, <1>3, <2>1 DEF Lines
  <2> QED BY <1>1, <1>2, <2>2 DEF LineAt
<1>5. k = m \/ k = m + 1 \/ k = m + 2
  BY <1>2, <1>4
<1>6. k \in m .. m + 2 /\ file[k].part = k + 1 - m
  BY <1>2, <1>3, <1>5 DEF NewLine
<1>7. k < m + 2 => file[k].frame = file[m].frame
  BY <1>2, <1>3, <1>5
<1> QED BY <1>1, <1>6, <1>7

(* What a write puts behind the file, and the line it may open.             *)
LEMMA WriteFacts ==
  ASSUME TypeOK, NEW t \in Thread, Write(t), cur[t] \in Frame
  PROVE  \E last \in next_part[t] .. NewLine :
           /\ next_part' = [next_part EXCEPT ![t] = last + 1]
           /\ Len(file) \in Nat /\ next_part[t] \in 1 .. NewLine
           /\ Len(file') = Len(file) + last + 1 - next_part[t]
           /\ DOMAIN file' = 1 .. Len(file') /\ DOMAIN file = 1 .. Len(file)
           /\ \A k \in DOMAIN file : file'[k] = file[k]
           /\ \A k \in DOMAIN file' : k > Len(file) =>
                file'[k] = [frame |-> cur[t], part |-> next_part[t] + k - Len(file) - 1]
           /\ file' \in Seq(Record)
<1>1. PICK last \in next_part[t] .. NewLine :
        /\ file' = file \o [i \in 1 .. last + 1 - next_part[t] |->
                               [frame |-> cur[t], part |-> next_part[t] + i - 1]]
        /\ next_part' = [next_part EXCEPT ![t] = last + 1]
  BY DEF Write
<1> DEFINE L == last + 1 - next_part[t]
           new == [i \in 1 .. L |-> [frame |-> cur[t], part |-> next_part[t] + i - 1]]
<1>2. next_part[t] \in 1 .. NewLine /\ last \in 1 .. NewLine /\ L \in Nat
  <2>1. next_part[t] \in 1 .. 4 /\ next_part[t] <= 3
    BY NextPart DEF Write, NewLine
  <2> QED BY <2>1 DEF NewLine
<1>3. /\ new \in Seq(Record) /\ Len(new) = L
      /\ \A i \in 1 .. L : new[i] = [frame |-> cur[t], part |-> next_part[t] + i - 1]
  <2>1. \A i \in 1 .. L : [frame |-> cur[t], part |-> next_part[t] + i - 1] \in Record
    BY <1>2 DEF NewLine, Part, Record
  <2>2. new \in [1 .. L -> Record]
    BY <2>1
  <2>3. \A i \in 1 .. L : new[i] = [frame |-> cur[t], part |-> next_part[t] + i - 1]
    OBVIOUS
  <2> HIDE DEF L, new
  <2>4. new \in Seq(Record) /\ Len(new) = L
    BY <1>2, <2>2, SeqOfParts
  <2> QED BY <2>3, <2>4
<1>4. file \in Seq(Record)
  BY FileTypes
<1> HIDE DEF L, new
<1>5. file' = file \o new
  BY <1>1 DEF new, L
<1>6. /\ file' \in Seq(Record) /\ Len(file') = Len(file) + L
      /\ \A k \in 1 .. Len(file) + L :
           file'[k] = IF k <= Len(file) THEN file[k] ELSE new[k - Len(file)]
  BY <1>3, <1>4, <1>5, ConcatProperties
<1>7. /\ Len(file) \in Nat /\ DOMAIN file = 1 .. Len(file)
      /\ DOMAIN file' = 1 .. Len(file')
  BY <1>4, <1>6, LenProperties
<1>8. \A k \in DOMAIN file' : k > Len(file) => k - Len(file) \in 1 .. L
  BY <1>2, <1>6, <1>7
<1>9. \A k \in DOMAIN file' : k > Len(file) =>
         file'[k] = [frame |-> cur[t], part |-> next_part[t] + k - Len(file) - 1]
  <2> SUFFICES ASSUME NEW k \in DOMAIN file', k > Len(file)
               PROVE  file'[k] = [frame |-> cur[t], part |-> next_part[t] + k - Len(file) - 1]
    OBVIOUS
  <2>1. file'[k] = new[k - Len(file)]
    BY <1>2, <1>6, <1>7
  <2>2. new[k - Len(file)] = [frame |-> cur[t], part |-> next_part[t] + (k - Len(file)) - 1]
    BY <1>3, <1>8
  <2>3. next_part[t] + (k - Len(file)) - 1 = next_part[t] + k - Len(file) - 1
    BY <1>2, <1>7
  <2> QED BY <2>1, <2>2, <2>3
<1>10. \A k \in DOMAIN file : file'[k] = file[k]
  BY <1>2, <1>6, <1>7
<1>11. Len(file') = Len(file) + last + 1 - next_part[t]
  BY <1>2, <1>6, <1>7 DEF L
<1> QED BY <1>1, <1>2, <1>6, <1>7, <1>9, <1>10, <1>11

(* A power loss keeps a prefix.                                             *)
LEMMA CutFacts ==
  ASSUME TypeOK, PowerLoss
  PROVE  \E n \in synced .. Len(file) :
           /\ synced' = n /\ Len(file') = n /\ n \in Nat /\ n <= Len(file)
           /\ DOMAIN file' = 1 .. n /\ DOMAIN file = 1 .. Len(file) /\ Len(file) \in Nat
           /\ \A k \in DOMAIN file' : file'[k] = file[k]
           /\ Lines' = {i \in Lines : i <= n}
           /\ file' \in Seq(Record)
<1>1. PICK n \in synced .. Len(file) : file' = SubSeq(file, 1, n) /\ synced' = n
  BY DEF PowerLoss
<1>2. /\ file \in Seq(Record) /\ Len(file) \in Nat /\ DOMAIN file = 1 .. Len(file)
      /\ \A k \in DOMAIN file : file[k] \in Record
  BY FileTypes
<1>3. n \in Nat /\ n <= Len(file)
  BY <1>2 DEF TypeOK
<1>4. \A k \in 1 .. n : file[k] \in Record
  BY <1>2, <1>3
<1>5. /\ file' \in Seq(Record) /\ Len(file') = n
      /\ \A k \in 1 .. n : file'[k] = file[k]
  BY <1>1, <1>3, <1>4, SubSeqProperties
<1>6. DOMAIN file' = 1 .. n
  BY <1>5, LenProperties
<1>7. Lines' = {i \in Lines : i <= n}
  BY <1>2, <1>3, <1>5, <1>6 DEF Lines
<1> QED BY <1>1, <1>2, <1>3, <1>5, <1>6, <1>7

(* The same in the terms of the invariant: the file grows by a run of parts *)
(* of one record, and a line is opened only behind a newline.               *)
Opens(t) == next_part[t] = 1 /\ (Len(file) = 0 \/ file[Len(file)].part = NewLine)

LEMMA Grow ==
  ASSUME LInv, NEW t \in Thread, Write(t)
  PROVE  \E new \in 1 .. NewLine :
           /\ next_part[t] \in 1 .. NewLine /\ next_part[t] + new <= NewLine + 1
           /\ next_part' = [next_part EXCEPT ![t] = next_part[t] + new]
           /\ Len(file) \in Nat /\ Len(file') = Len(file) + new
           /\ DOMAIN file = 1 .. Len(file) /\ DOMAIN file' = 1 .. Len(file) + new
           /\ \A k \in DOMAIN file : file'[k] = file[k]
           /\ \A k \in DOMAIN file' : k > Len(file) =>
                /\ file'[k].frame = cur[t]
                /\ file'[k].part = next_part[t] + k - Len(file) - 1
           /\ Lines' = IF Opens(t) THEN Lines \cup {Len(file) + 1} ELSE Lines
           /\ file' \in Seq(Record)
           /\ pc[t] = "write" /\ cur[t] \in 1 .. created /\ cur[t] \in Frame
<1> USE DEF NewLine
<1>1. pc[t] = "write" /\ next_part[t] <= 3
  BY DEF Write
<1>2. /\ TypeOK
      /\ cur[t] \in 1 .. created /\ (next_part[t] > 1 => Written(t))
  BY <1>1 DEF LInv, CallInv
<1>3. cur[t] \in Frame /\ next_part[t] \in 1 .. 3
  BY <1>1, <1>2 DEF TypeOK, Frame
<1>4. PICK last \in next_part[t] .. 3 :
           /\ next_part' = [next_part EXCEPT ![t] = last + 1]
           /\ Len(file) \in Nat
           /\ Len(file') = Len(file) + last + 1 - next_part[t]
           /\ DOMAIN file' = 1 .. Len(file') /\ DOMAIN file = 1 .. Len(file)
           /\ \A k \in DOMAIN file : file'[k] = file[k]
           /\ \A k \in DOMAIN file' : k > Len(file) =>
                file'[k] = [frame |-> cur[t], part |-> next_part[t] + k - Len(file) - 1]
           /\ file' \in Seq(Record)
  BY <1>2, <1>3, WriteFacts
<1> DEFINE new == last + 1 - next_part[t]
           n == Len(file)
           p == next_part[t]
<1>5. /\ new \in 1 .. 3 /\ p + new = last + 1 /\ p + new <= 4 /\ p \in 1 .. 3
      /\ n \in Nat /\ Len(file') = n + new
  BY <1>3, <1>4
<1>6. /\ \A k \in DOMAIN file' : k > n => file'[k].frame = cur[t] /\ file'[k].part = p + k - n - 1
      /\ \A k \in DOMAIN file : file'[k] = file[k]
      /\ DOMAIN file' = 1 .. n + new /\ DOMAIN file = 1 .. n
  BY <1>4, <1>5
<1>7. p > 1 => n > 0 /\ file[n].part = p - 1
  <2> SUFFICES ASSUME p > 1 PROVE n > 0 /\ file[n].part = p - 1
    OBVIOUS
  <2>1. n + 1 >= p /\ \A q \in 1 .. p - 1 : file[n + 1 - p + q].part = q
    BY <1>2, <1>5 DEF Written
  <2> HIDE DEF n, p
  <2>2. p - 1 \in 1 .. p - 1 /\ n + 1 - p + (p - 1) = n
    BY <1>5
  <2>3. file[n].part = p - 1
    BY <2>1, <2>2
  <2> QED BY <1>5, <2>1, <2>3
<1>8. Opens(t) <=> p = 1 /\ (n = 0 \/ file[n].part = 3)
  BY DEF Opens
<1> HIDE DEF new, n, p
<1>9. ASSUME NEW i \in 1 .. n + new
      PROVE  i \in Lines' <=> i \in Lines \/ (i = n + 1 /\ Opens(t))
  <2>1. i \in Lines' <=> i = 1 \/ file'[i - 1].part = 3
    BY <1>6 DEF Lines
  <2>2. i \in Lines <=> i <= n /\ (i = 1 \/ file[i - 1].part = 3)
    BY <1>5, <1>6 DEF Lines
  <2>3. CASE i <= n
    <3>1. i # 1 => file'[i - 1] = file[i - 1]
      BY <1>5, <1>6, <2>3
    <3> QED BY <1>5, <2>1, <2>2, <2>3, <3>1
  <2>4. CASE i = n + 1
    <3>1. n # 0 => file'[i - 1] = file[n]
      BY <1>5, <1>6, <2>4
    <3> QED BY <1>5, <1>7, <1>8, <2>1, <2>2, <2>4, <3>1
  <2>5. CASE i > n + 1
    <3>1. i - 1 \in 1 .. n + new /\ i - 1 > n
      BY <1>5, <2>5
    <3>2. file'[i - 1].part = p + (i - 1) - n - 1
      BY <1>6, <3>1
    <3>3. file'[i - 1].part # 3 /\ i # 1
      BY <1>5, <2>5, <3>2
    <3> QED BY <1>5, <2>1, <2>2, <2>5, <3>3
  <2> QED BY <1>5, <2>3, <2>4, <2>5
<1>10. Lines' = IF Opens(t) THEN Lines \cup {n + 1} ELSE Lines
  <2>1. Lines' \subseteq 1 .. n + new /\ Lines \subseteq 1 .. n + new /\ n + 1 \in 1 .. n + new
    BY <1>5, <1>6 DEF Lines
  <2>2. \A i \in Lines : i # n + 1
    BY <1>5, <1>6 DEF Lines
  <2> QED BY <1>9, <2>1, <2>2
<1>11. next_part' = [next_part EXCEPT ![t] = p + new]
  BY <1>4, <1>5
<1>12. file' \in Seq(Record) /\ pc[t] = "write" /\ cur[t] \in 1 .. created /\ cur[t] \in Frame
  BY <1>1, <1>2, <1>3, <1>4
<1>13. /\ next_part[t] \in 1 .. NewLine /\ next_part[t] + new <= NewLine + 1
       /\ next_part' = [next_part EXCEPT ![t] = next_part[t] + new]
  BY <1>5, <1>11 DEF p
<1>14. /\ Len(file) \in Nat /\ Len(file') = Len(file) + new
       /\ DOMAIN file = 1 .. Len(file) /\ DOMAIN file' = 1 .. Len(file) + new
       /\ \A k \in DOMAIN file : file'[k] = file[k]
       /\ \A k \in DOMAIN file' : k > Len(file) =>
            /\ file'[k].frame = cur[t]
            /\ file'[k].part = next_part[t] + k - Len(file) - 1
       /\ Lines' = IF Opens(t) THEN Lines \cup {Len(file) + 1} ELSE Lines
  BY <1>5, <1>6, <1>10 DEF p, n
<1>15. new \in 1 .. NewLine
  BY <1>5
<1> QED BY <1>12, <1>13, <1>14, <1>15
-----------------------------------------------------------------------------
(* A write keeps each part of the invariant.                                *)
LEMMA WriteTypes ==
  ASSUME LInv, NEW t \in Thread, Write(t)
  PROVE  TypeOK'
<1>1. TypeOK /\ UNCHANGED <<synced, ckptVars, pc, cur, lock, frameVars, crashes>>
  BY DEF LInv, Write
<1>2. PICK new \in 1 .. NewLine :
        /\ next_part[t] \in 1 .. NewLine /\ next_part[t] + new <= NewLine + 1
        /\ next_part' = [next_part EXCEPT ![t] = next_part[t] + new]
        /\ Len(file) \in Nat /\ Len(file') = Len(file) + new
        /\ file' \in Seq(Record)
  BY Grow
<1>3. file' \in Seq([frame : Frame, part : Part]) /\ synced' \in 0 .. Len(file')
  BY <1>1, <1>2 DEF TypeOK, Record, NewLine
<1>4. next_part' \in [Thread -> 1 .. NewLine + 1]
  BY <1>1, <1>2 DEF TypeOK, NewLine
<1> QED BY <1>1, <1>3, <1>4 DEF TypeOK, ckptVars, frameVars

LEMMA WriteLines ==
  ASSUME LInv, NEW t \in Thread, Write(t)
  PROVE  /\ \A m, k \in DOMAIN file : LineAt(m, k)' <=> LineAt(m, k)
         /\ LinesInv'
<1>1. PICK new \in 1 .. NewLine :
        /\ next_part[t] \in 1 .. NewLine
        /\ Len(file) \in Nat /\ Len(file') = Len(file) + new
        /\ DOMAIN file = 1 .. Len(file) /\ DOMAIN file' = 1 .. Len(file) + new
        /\ Lines' = IF Opens(t) THEN Lines \cup {Len(file) + 1} ELSE Lines
        /\ pc[t] = "write"
  BY Grow
<1> DEFINE n == Len(file)
<1>2. n \in Nat /\ new \in 1 .. 3 /\ DOMAIN file = 1 .. n /\ DOMAIN file' = 1 .. n + new
  BY <1>1 DEF NewLine
<1>3. /\ \A j \in Lines : j \in 1 .. n
      /\ Lines' = IF Opens(t) THEN Lines \cup {n + 1} ELSE Lines
  BY <1>1 DEF Lines
<1>4. ~Opens(t) => n > 0
  <2>1. CallInv
    BY DEF LInv
  <2>2. next_part[t] > 1 => next_part[t] <= n + 1
    BY <1>1, <2>1 DEF CallInv, Written
  <2> QED BY <1>1, <1>2, <2>2 DEF Opens, NewLine
<1> HIDE DEF n
<1>5. \A m, k \in DOMAIN file : LineAt(m, k)' <=> LineAt(m, k)
  BY <1>2, <1>3 DEF LineAt
<1>6. ASSUME NEW k \in DOMAIN file' PROVE \E m \in Lines' : LineAt(m, k)'
  <2>1. CASE k <= n
    <3>1. k \in DOMAIN file
      BY <1>2, <2>1
    <3>2. PICK m \in Lines : LineAt(m, k)
      BY <3>1 DEF LInv, LinesInv
    <3>3. m \in DOMAIN file /\ m \in Lines'
      BY <1>2, <1>3
    <3> QED BY <1>5, <3>1, <3>2, <3>3
  <2>2. CASE k > n /\ Opens(t)
    <3>1. n + 1 \in Lines' /\ \A j \in Lines' : j <= n + 1
      BY <1>2, <1>3, <2>2
    <3>2. n + 1 <= k
      BY <1>2, <2>2
    <3> QED BY <3>1, <3>2 DEF LineAt
  <2>3. CASE k > n /\ ~Opens(t)
    <3>1. n \in DOMAIN file
      BY <1>2, <1>4, <2>3
    <3>2. PICK m \in Lines : LineAt(m, n)
      BY <3>1 DEF LInv, LinesInv
    <3>3. m <= k /\ m \in Lines' /\ \A j \in Lines' : j <= m
      BY <1>2, <1>3, <2>3, <3>2 DEF LineAt
    <3> QED BY <3>3 DEF LineAt
  <2> QED BY <1>2, <2>1, <2>2, <2>3
<1> QED BY <1>5, <1>6 DEF LinesInv

LEMMA WriteTail ==
  ASSUME LInv, NEW t \in Thread, Write(t)
  PROVE  OnlyTailBad'
<1>1. PICK new \in 1 .. NewLine :
        /\ next_part[t] \in 1 .. NewLine
        /\ Len(file) \in Nat /\ Len(file') = Len(file) + new
        /\ DOMAIN file = 1 .. Len(file) /\ DOMAIN file' = 1 .. Len(file) + new
        /\ \A k \in DOMAIN file : file'[k] = file[k]
        /\ Lines' = IF Opens(t) THEN Lines \cup {Len(file) + 1} ELSE Lines
        /\ pc[t] = "write"
  BY Grow
<1> DEFINE n == Len(file)
<1>2. n \in Nat /\ new \in 1 .. 3 /\ DOMAIN file = 1 .. n /\ DOMAIN file' = 1 .. n + new
  BY <1>1 DEF NewLine
<1>3. /\ Lines' = IF Opens(t) THEN Lines \cup {n + 1} ELSE Lines
      /\ Lines \subseteq DOMAIN file
  BY <1>1 DEF Lines
<1>4. TypeOK /\ OnlyTailBad /\ CallInv
  BY DEF LInv
<1> HIDE DEF n
<1>5. ASSUME NEW i \in Lines', NEW j \in Lines', i < j PROVE Good(i)'
  <2>1. i \in Lines /\ i \in 1 .. n
    BY <1>2, <1>3, <1>5
  <2>2. Good(i)
    <3>1. CASE j \in Lines
      BY <1>4, <1>5, <2>1, <3>1 DEF OnlyTailBad
    <3>2. CASE j \notin Lines
      <4>1. Opens(t)
        BY <1>3, <3>2
      <4>2. TailGood
        BY <1>1, <1>4, <4>1 DEF CallInv, Fresh, Opens
      <4> QED BY <1>4, <2>1, <4>2, AllGood
    <3> QED BY <3>1, <3>2
  <2>3. /\ i + 1 \in 1 .. n /\ file[i].part = 1 /\ file[i + 1].part = 2
        /\ i + 2 \in DOMAIN file => file[i + 2].part = NewLine
    BY <1>2, <1>4, <2>1, <2>2, FileTypes DEF Good, Record
  <2>4. file'[i] = file[i] /\ file'[i + 1] = file[i + 1]
    BY <1>1, <1>2, <2>1, <2>3
  <2>5. j # 1 /\ j \in DOMAIN file' /\ file'[j - 1].part = NewLine
    BY <1>2, <1>5, <2>1 DEF Lines
  <2>6. j # i + 1 /\ j # i + 2
    <3>1. i \in Int /\ j \in Int
      BY <1>2, <2>1, <2>5
    <3>2. j = i + 1 => j - 1 = i
      BY <3>1
    <3>3. j = i + 2 => j - 1 = i + 1
      BY <3>1
    <3> QED BY <2>3, <2>4, <2>5, <3>2, <3>3 DEF NewLine
  <2>7. j <= n + 1
    BY <1>2, <1>3
  <2>8. i + 2 \in DOMAIN file
    BY <1>2, <1>5, <2>1, <2>5, <2>6, <2>7
  <2>9. file'[i + 2].part = NewLine
    BY <1>1, <2>3, <2>8
  <2>10. i + 1 \in DOMAIN file'
    BY <1>2, <2>3
  <2>11. file[i + 1] = [file[i] EXCEPT !.part = 2]
    BY <2>2 DEF Good
  <2> QED BY <2>3, <2>4, <2>9, <2>10, <2>11 DEF Good
<1> QED BY <1>5 DEF OnlyTailBad

LEMMA WriteChain ==
  ASSUME LInv, NEW t \in Thread, Write(t)
  PROVE  ChainInv'
<1>1. PICK new \in 1 .. NewLine :
        /\ Len(file) \in Nat
        /\ DOMAIN file = 1 .. Len(file) /\ DOMAIN file' = 1 .. Len(file) + new
        /\ \A k \in DOMAIN file : file'[k] = file[k]
        /\ \A k \in DOMAIN file' : k > Len(file) => file'[k].frame = cur[t]
        /\ Lines' = IF Opens(t) THEN Lines \cup {Len(file) + 1} ELSE Lines
        /\ pc[t] = "write"
  BY Grow
<1> DEFINE n == Len(file)
<1>2. n \in Nat /\ new \in 1 .. 3 /\ DOMAIN file = 1 .. n /\ DOMAIN file' = 1 .. n + new
  BY <1>1 DEF NewLine
<1>3. /\ Lines' = IF Opens(t) THEN Lines \cup {n + 1} ELSE Lines
      /\ Lines \subseteq DOMAIN file /\ Lines \subseteq Lines'
  BY <1>1 DEF Lines
<1>4. prev' = prev /\ (Opens(t) => Follows(cur[t], n + 1))
  BY <1>1 DEF LInv, CallInv, Fresh, Opens, Write, frameVars
<1>5. file'[n + 1].frame = cur[t]
  BY <1>1, <1>2
<1> HIDE DEF n
<1>6. ASSUME NEW i \in 1 .. n + 1, NEW f, Follows(f, i) PROVE Follows(f, i)'
  <2>1. CASE i = 1
    BY <1>4, <1>6, <2>1 DEF Follows
  <2>2. CASE i > 1
    <3>1. PICK m \in Lines : LineAt(m, i - 1) /\ prev[f] = file[m].frame
      BY <1>6, <2>2 DEF Follows
    <3>2. m \in DOMAIN file /\ i - 1 \in DOMAIN file /\ m \in Lines'
      BY <1>2, <1>3, <2>2
    <3>3. LineAt(m, i - 1)'
      <4> DEFINE k == i - 1
      <4>1. k \in DOMAIN file /\ LineAt(m, k) /\ UNCHANGED k
        BY <3>1, <3>2
      <4> HIDE DEF k
      <4>2. LineAt(m, k)'
        BY <3>2, <4>1, WriteLines
      <4> QED BY <4>2 DEF k
    <3> QED BY <1>1, <1>4, <2>2, <3>1, <3>2, <3>3 DEF Follows
  <2> QED BY <1>2, <2>1, <2>2
<1>7. ASSUME NEW i \in Lines' PROVE Follows(file[i].frame, i)'
  <2>1. PICK f : f = file'[i].frame
    OBVIOUS
  <2>2. i \in 1 .. n + 1 /\ Follows(f, i)
    <3>1. CASE i \in Lines
      <4>1. file'[i] = file[i] /\ i \in 1 .. n + 1
        BY <1>1, <1>2, <1>3, <3>1
      <4>2. Follows(file[i].frame, i)
        BY <3>1 DEF LInv, ChainInv
      <4> QED BY <2>1, <4>1, <4>2
    <3>2. CASE i \notin Lines
      <4>1. i = n + 1 /\ Follows(cur[t], n + 1)
        BY <1>3, <1>4, <3>2
      <4> QED BY <1>2, <1>5, <2>1, <4>1
    <3> QED BY <3>1, <3>2
  <2>3. Follows(f, i)'
    BY <1>6, <2>2
  <2> QED BY <2>1, <2>3 DEF Follows
<1> QED BY <1>7 DEF ChainInv

LEMMA WriteCalls ==
  ASSUME LInv, NEW t \in Thread, Write(t)
  PROVE  CallInv' /\ Distinct'
<1>1. PICK new \in 1 .. NewLine :
        /\ next_part[t] \in 1 .. NewLine /\ next_part[t] + new <= NewLine + 1
        /\ next_part' = [next_part EXCEPT ![t] = next_part[t] + new]
        /\ Len(file) \in Nat /\ Len(file') = Len(file) + new
        /\ DOMAIN file = 1 .. Len(file) /\ DOMAIN file' = 1 .. Len(file) + new
        /\ \A k \in DOMAIN file : file'[k] = file[k]
        /\ \A k \in DOMAIN file' : k > Len(file) =>
             /\ file'[k].frame = cur[t]
             /\ file'[k].part = next_part[t] + k - Len(file) - 1
        /\ pc[t] = "write" /\ cur[t] \in 1 .. created
  BY Grow
<1> DEFINE n == Len(file)
           p == next_part[t]
<1>2. /\ n \in Nat /\ new \in 1 .. 3 /\ p \in 1 .. 3
      /\ DOMAIN file = 1 .. n /\ DOMAIN file' = 1 .. n + new
      /\ Len(file') = n + new
  BY <1>1 DEF NewLine
<1>3. /\ UNCHANGED <<pc, cur, lock, created, parent>>
      /\ TypeOK /\ CallInv /\ Distinct
  BY DEF LInv, Write, frameVars
<1>4. /\ next_part'[t] = p + new
      /\ \A s \in Thread : s # t => next_part'[s] = next_part[s]
  BY <1>1, <1>3 DEF TypeOK
<1>5. p > 1 => p <= n + 1 /\ \A q \in 1 .. p - 1 : /\ file[n + 1 - p + q].frame = cur[t]
                                                 /\ file[n + 1 - p + q].part = q
  BY <1>1, <1>3 DEF CallInv, Written
<1>6. \A k \in DOMAIN file' : k > n => file'[k].frame = cur[t] /\ file'[k].part = p + k - n - 1
  BY <1>1
<1> HIDE DEF n, p
<1>7. ASSUME NEW s \in Thread, s # t, pc[s] # "idle"
      PROVE  /\ pc[s] # "write" /\ next_part[s] = 1 /\ cur[s] # cur[t]
             /\ ~InFile(cur[s])'
  <2>1. pc[s] # "write"
    BY <1>1, <1>3, <1>7 DEF TypeOK
  <2>2. next_part[s] = 1
    <3>1. next_part[s] \in 1 .. NewLine + 1
      BY <1>3 DEF TypeOK
    <3>2. ~(next_part[s] > 1)
      BY <1>3, <1>7, <2>1 DEF CallInv
    <3> QED BY <3>1, <3>2 DEF NewLine
  <2>3. cur[s] # cur[t]
    BY <1>1, <1>3, <1>7 DEF Distinct
  <2>4. ~InFile(cur[s])
    BY <1>3, <1>7, <2>2 DEF CallInv, Fresh
  <2>5. \A k \in DOMAIN file' : file'[k].frame # cur[s]
    BY <1>1, <1>2, <1>6, <2>3, <2>4 DEF InFile
  <2> QED BY <1>3, <2>1, <2>2, <2>3, <2>5 DEF InFile
<1>8. \A s \in Thread : pc[s] # "idle" =>
         /\ cur[s] \in 1 .. created
         /\ parent[cur[s]] = 0 \/ \E j \in DOMAIN file' : First(parent[cur[s]], j)'
  <2>1. DOMAIN file \subseteq DOMAIN file' /\ \A k \in DOMAIN file : file'[k] = file[k]
    BY <1>1, <1>2
  <2>2. \A f : \A j \in DOMAIN file : First(f, j) => First(f, j)'
    BY <2>1 DEF First
  <2> QED BY <1>3, <2>1 DEF CallInv, First
<1>9. Written(t)'
  <2>1. p + new <= n + new + 1
    BY <1>2, <1>5
  <2>2. ASSUME NEW q \in 1 .. p + new - 1
        PROVE  /\ file'[n + 1 - p + q].frame = cur[t]
               /\ file'[n + 1 - p + q].part = q
    <3> DEFINE k == n + 1 - p + q
    <3>1. CASE q < p
      <4>1. p > 1 /\ q \in 1 .. p - 1
        BY <1>2, <2>2, <3>1
      <4>2. k \in DOMAIN file /\ file[k].frame = cur[t] /\ file[k].part = q
        BY <1>2, <1>5, <4>1
      <4> QED BY <1>1, <4>2
    <3>2. CASE q >= p
      <4>1. k \in DOMAIN file' /\ k > n /\ p + k - n - 1 = q
        BY <1>2, <2>2, <3>2
      <4> HIDE DEF k
      <4>2. file'[k].frame = cur[t] /\ file'[k].part = q
        BY <1>6, <4>1
      <4> QED BY <4>2 DEF k
    <3> QED BY <1>2, <2>2, <3>1, <3>2
  <2>3. \A q : (n + new) + 1 - (p + new) + q = (n + new) + 1 - (p + new) + q
    OBVIOUS
  <2>4. \A q \in 1 .. p + new - 1 : (n + new) + 1 - (p + new) + q = n + 1 - p + q
    BY <1>2
  <2>5. \A q \in 1 .. p + new - 1 :
           /\ file'[(n + new) + 1 - (p + new) + q].frame = cur[t]
           /\ file'[(n + new) + 1 - (p + new) + q].part = q
    BY <2>2, <2>4
  <2> QED BY <1>2, <1>3, <1>4, <2>1, <2>5 DEF Written
<1>10. CallInv'
  <2> SUFFICES ASSUME NEW s \in Thread, pc[s] # "idle"
               PROVE  /\ next_part'[s] = 1 => Fresh(s)'
                      /\ next_part'[s] > 1 => pc[s] = "write" /\ Written(s)'
    BY <1>3, <1>8 DEF CallInv, First
  <2>1. CASE s = t
    BY <1>1, <1>2, <1>4, <1>9, <2>1
  <2>2. CASE s # t
    BY <1>3, <1>4, <1>7, <2>2 DEF Fresh, InFile
  <2> QED BY <2>1, <2>2
<1>11. Distinct'
  <2>1. \A k \in DOMAIN file' : file'[k].frame <= created
    <3> SUFFICES ASSUME NEW k \in DOMAIN file' PROVE file'[k].frame <= created
      OBVIOUS
    <3>1. CASE k <= n
      BY <1>1, <1>2, <1>3, <3>1 DEF Distinct
    <3>2. CASE k > n
      <4>1. file'[k].frame = cur[t] /\ created \in Nat
        BY <1>3, <1>6, <3>2 DEF TypeOK
      <4> QED BY <1>1, <4>1
    <3> QED BY <1>2, <3>1, <3>2
  <2>2. \A s \in Thread : pc[s] = "idle" => next_part'[s] = 1
    BY <1>1, <1>3, <1>4 DEF Distinct
  <2>3. /\ pc' = pc /\ cur' = cur /\ created' = created
        /\ \A s, u \in Thread : s # u /\ pc[s] # "idle" /\ pc[u] # "idle" => cur[s] # cur[u]
    BY <1>3 DEF Distinct
  <2> QED BY <2>1, <2>2, <2>3 DEF Distinct
<1> QED BY <1>10, <1>11

LEMMA WriteFrames ==
  ASSUME LInv, NEW t \in Thread, Write(t)
  PROVE  ParentInv' /\ AckInv' /\ CkptInv'
<1>1. PICK new \in 1 .. NewLine :
        /\ next_part[t] \in 1 .. NewLine
        /\ Len(file) \in Nat
        /\ DOMAIN file = 1 .. Len(file) /\ DOMAIN file' = 1 .. Len(file) + new
        /\ \A k \in DOMAIN file : file'[k] = file[k]
        /\ \A k \in DOMAIN file' : k > Len(file) =>
             /\ file'[k].frame = cur[t]
             /\ file'[k].part = next_part[t] + k - Len(file) - 1
        /\ pc[t] = "write"
  BY Grow
<1> DEFINE n == Len(file)
           p == next_part[t]
<1>2. /\ n \in Nat /\ new \in 1 .. 3 /\ p \in 1 .. 3
      /\ DOMAIN file = 1 .. n /\ DOMAIN file' = 1 .. n + new
      /\ DOMAIN file \subseteq DOMAIN file'
  BY <1>1 DEF NewLine
<1>3. UNCHANGED <<synced, visible, kept, pc, cur, parent, acked, ignored>>
  BY DEF Write, ckptVars, frameVars
<1>4. /\ TypeOK /\ LinesInv /\ OnlyTailBad /\ CallInv
      /\ ParentInv /\ AckInv /\ CkptInv
  BY DEF LInv
<1>5. synced <= n
  BY <1>4 DEF TypeOK
<1>6. \A k \in DOMAIN file' : k > n => file'[k].frame = cur[t] /\ file'[k].part = p + k - n - 1
  BY <1>1
<1>7. p = 1 /\ n > 0 => file[n].part \in {2, NewLine}
  <2> SUFFICES ASSUME p = 1, n > 0 PROVE file[n].part \in {2, NewLine}
    OBVIOUS
  <2>1. TailGood
    BY <1>1, <1>4 DEF CallInv, Fresh
  <2>2. \A i \in Lines : Good(i)
    BY <1>4, <2>1, AllGood
  <2>3. n \in DOMAIN file
    BY <1>2
  <2>4. PICK m \in Lines : n \in m .. m + 2 /\ file[n].part = n + 1 - m
    BY <1>4, <2>2, <2>3, PartsInOrder
  <2>5. m + 1 \in DOMAIN file /\ m \in DOMAIN file
    BY <2>2, <2>4 DEF Good, Lines
  <2> HIDE DEF n
  <2> QED BY <1>2, <2>4, <2>5 DEF NewLine
<1> HIDE DEF n, p
<1>8. ParentInv'
  <2> SUFFICES ASSUME NEW k \in DOMAIN file', file'[k].part = 1
               PROVE  /\ k > 1 => file'[k - 1].part \in {2, NewLine}
                      /\ \/ parent[file'[k].frame] = 0
                         \/ \E j \in DOMAIN file' : /\ j < k
                                                   /\ file'[j].frame = parent[file'[k].frame]
                                                   /\ file'[j].part = 1
    BY <1>3 DEF ParentInv, First
  <2>1. CASE k <= n
    <3>1. k \in DOMAIN file /\ file'[k] = file[k] /\ (k > 1 => file'[k - 1] = file[k - 1])
      BY <1>1, <1>2, <2>1
    <3>2. /\ k > 1 => file[k - 1].part \in {2, NewLine}
          /\ \/ parent[file[k].frame] = 0
             \/ \E j \in DOMAIN file : j < k /\ First(parent[file[k].frame], j)
      BY <1>4, <3>1 DEF ParentInv
    <3> QED BY <1>1, <1>2, <1>3, <3>1, <3>2 DEF First
  <2>2. CASE k > n
    <3>1. file'[k].frame = cur[t] /\ p + k - n - 1 = 1
      BY <1>6, <2>2
    <3>2. p = 1 /\ k = n + 1
      BY <1>2, <2>2, <3>1
    <3>3. k > 1 => file'[k - 1] = file[n] /\ n > 0
      BY <1>1, <1>2, <3>2
    <3>4. parent[cur[t]] = 0 \/ \E j \in DOMAIN file : First(parent[cur[t]], j)
      BY <1>1, <1>4 DEF CallInv
    <3>5. \A j \in DOMAIN file : j < k /\ file'[j] = file[j] /\ j \in DOMAIN file'
      BY <1>1, <1>2, <3>2
    <3>6. \/ parent[cur[t]] = 0
          \/ \E j \in DOMAIN file' : j < k /\ First(parent[cur[t]], j)'
      BY <1>3, <3>4, <3>5 DEF First
    <3> QED BY <1>3, <1>7, <3>1, <3>2, <3>3, <3>6 DEF First
  <2> QED BY <1>2, <2>1, <2>2
<1>9. AckInv'
  <2> SUFFICES ASSUME NEW f \in acked
               PROVE  \E k \in DOMAIN file' :
                         /\ k + 2 <= synced /\ First(f, k)'
                         /\ file'[k + 1].frame = f /\ file'[k + 1].part = 2
                         /\ file'[k + 2].frame = f /\ file'[k + 2].part = NewLine
    BY <1>3 DEF AckInv, First
  <2>1. PICK k \in DOMAIN file :
                         /\ k + 2 <= synced /\ First(f, k)
                         /\ file[k + 1].frame = f /\ file[k + 1].part = 2
                         /\ file[k + 2].frame = f /\ file[k + 2].part = NewLine
    BY <1>4 DEF AckInv
  <2>2. synced \in Nat
    BY <1>4, <1>2, FileTypes DEF TypeOK
  <2>3. k + 1 \in DOMAIN file /\ k + 2 \in DOMAIN file /\ k \in DOMAIN file'
    BY <1>2, <1>5, <2>1, <2>2
  <2>4. file'[k] = file[k] /\ file'[k + 1] = file[k + 1] /\ file'[k + 2] = file[k + 2]
    BY <1>1, <2>3
  <2> QED BY <2>1, <2>3, <2>4 DEF First
<1>10. CkptInv'
  <2>1. \A k \in DOMAIN file' : file'[k].frame \in kept \cup ignored
    BY <1>1, <1>2, <1>4, <1>6 DEF CkptInv
  <2> QED BY <1>3, <1>4, <2>1 DEF CkptInv
<1> QED BY <1>8, <1>9, <1>10

LEMMA WriteStep ==
  ASSUME LInv, NEW t \in Thread, Write(t)
  PROVE  LInv'
BY WriteTypes, WriteLines, WriteTail, WriteChain, WriteCalls, WriteFrames DEF LInv
-----------------------------------------------------------------------------
(* A power loss keeps it: every part is about prefixes of the file.         *)
LEMMA CutStep ==
  ASSUME LInv, PowerLoss
  PROVE  LInv'
<1>1. PICK n \in synced .. Len(file) :
        /\ synced' = n /\ Len(file') = n /\ n \in Nat /\ n <= Len(file)
        /\ DOMAIN file' = 1 .. n /\ DOMAIN file = 1 .. Len(file) /\ Len(file) \in Nat
        /\ \A k \in DOMAIN file' : file'[k] = file[k]
        /\ Lines' = {i \in Lines : i <= n}
        /\ file' \in Seq(Record)
  BY CutFacts DEF LInv
<1>2. /\ pc' = [t \in Thread |-> "idle"] /\ cur' = [t \in Thread |-> 0]
      /\ next_part' = [t \in Thread |-> 1] /\ lock' = Nobody
      /\ crashes < MaxCrashes /\ crashes' = crashes + 1
      /\ UNCHANGED <<created, prev, parent, acked, ignored>>
  BY DEF PowerLoss, Restart, frameVars
<1>3. kept' = visible' /\ kept \subseteq kept' /\ visible' \subseteq visible
  BY DEF PowerLoss, LInv, TypeOK
<1>4. DOMAIN file' \subseteq DOMAIN file /\ Lines \subseteq DOMAIN file
  BY <1>1 DEF Lines
<1>5. TypeOK'
  <2>1. /\ file' \in Seq([frame : Frame, part : Part]) /\ synced' \in 0 .. Len(file')
        /\ kept' \subseteq visible' /\ visible' \subseteq Frame
    BY <1>1, <1>3 DEF LInv, TypeOK, Record
  <2>2. /\ pc' \in [Thread -> {"idle", "replace", "dir_fsync", "append", "write"}]
        /\ cur' \in [Thread -> 0 .. MaxFrames] /\ next_part' \in [Thread -> 1 .. NewLine + 1]
        /\ \A t \in Thread : pc'[t] = "write" <=> lock' = t
        /\ crashes' \in 0 .. MaxCrashes
    BY <1>2, LedgerAssumption DEF LInv, TypeOK, NewLine
  <2> QED BY <1>2, <2>1, <2>2 DEF LInv, TypeOK
<1>6. ASSUME NEW m \in Nat, NEW k \in DOMAIN file', LineAt(m, k) PROVE LineAt(m, k)'
  BY <1>1, <1>6 DEF LineAt
<1>7. LinesInv'
  <2> SUFFICES ASSUME NEW k \in DOMAIN file' PROVE \E m \in Lines' : LineAt(m, k)'
    BY DEF LinesInv
  <2>1. PICK m \in Lines : LineAt(m, k)
    BY <1>4 DEF LInv, LinesInv
  <2>2. m \in Nat
    BY <1>1, <1>4
  <2> QED BY <1>6, <2>1, <2>2 DEF LineAt
<1>8. OnlyTailBad'
  <2> SUFFICES ASSUME NEW i \in Lines', NEW j \in Lines', i < j PROVE Good(i)'
    BY DEF OnlyTailBad
  <2>1. Good(i) /\ i \in 1 .. n /\ j \in 1 .. n
    BY <1>1, <1>4 DEF LInv, OnlyTailBad
  <2>2. i + 1 \in DOMAIN file' /\ file'[i] = file[i] /\ file'[i + 1] = file[i + 1]
    BY <1>1, <2>1
  <2>3. i + 2 \in DOMAIN file' => i + 2 \in DOMAIN file /\ file'[i + 2] = file[i + 2]
    BY <1>1, <1>4
  <2> QED BY <2>1, <2>2, <2>3 DEF Good
<1>9. ChainInv'
  <2> SUFFICES ASSUME NEW i \in Lines' PROVE Follows(file[i].frame, i)'
    BY DEF ChainInv
  <2>1. i \in Lines /\ i \in 1 .. n /\ file'[i] = file[i] /\ Follows(file[i].frame, i)
    BY <1>1, <1>4 DEF LInv, ChainInv
  <2>2. CASE i = 1
    BY <1>2, <2>1, <2>2 DEF Follows
  <2>3. CASE i > 1
    <3>1. PICK m \in Lines : LineAt(m, i - 1) /\ prev[file[i].frame] = file[m].frame
      BY <2>1, <2>3 DEF Follows
    <3>2. PICK k : k = i - 1
      OBVIOUS
    <3>3. k \in DOMAIN file' /\ m \in Nat
      BY <1>1, <1>4, <2>1, <2>3, <3>2
    <3>4. LineAt(m, k)'
      BY <1>6, <3>1, <3>2, <3>3
    <3>5. m \in Lines' /\ m \in DOMAIN file'
      BY <3>4 DEF LineAt, Lines
    <3>6. file'[m] = file[m]
      BY <1>1, <3>5
    <3> QED BY <1>2, <2>1, <2>3, <3>1, <3>2, <3>4, <3>5, <3>6 DEF Follows
  <2> QED BY <2>1, <2>2, <2>3
<1>10. CallInv' /\ Distinct'
  <2>1. \A t \in Thread : pc'[t] = "idle" /\ next_part'[t] = 1
    BY <1>2
  <2>2. \A k \in DOMAIN file' : file'[k].frame <= created'
    BY <1>1, <1>2, <1>4 DEF LInv, Distinct
  <2> QED BY <2>1, <2>2 DEF CallInv, Distinct
<1>11. ParentInv'
  <2> SUFFICES ASSUME NEW k \in DOMAIN file', file'[k].part = 1
               PROVE  /\ k > 1 => file'[k - 1].part \in {2, NewLine}
                      /\ \/ parent'[file'[k].frame] = 0
                         \/ \E j \in DOMAIN file' : /\ j < k
                                                   /\ file'[j].frame = parent'[file'[k].frame]
                                                   /\ file'[j].part = 1
    BY DEF ParentInv, First
  <2>1. k \in DOMAIN file /\ file'[k] = file[k] /\ (k > 1 => file'[k - 1] = file[k - 1])
    BY <1>1, <1>4
  <2>2. /\ k > 1 => file[k - 1].part \in {2, NewLine}
        /\ \/ parent[file[k].frame] = 0
           \/ \E j \in DOMAIN file : j < k /\ First(parent[file[k].frame], j)
    BY <2>1 DEF LInv, ParentInv
  <2>3. \A j \in DOMAIN file : j < k => j \in DOMAIN file' /\ file'[j] = file[j]
    BY <1>1
  <2> QED BY <1>2, <2>1, <2>2, <2>3 DEF First
<1>12. AckInv'
  <2> SUFFICES ASSUME NEW f \in acked
               PROVE  \E k \in DOMAIN file' :
                         /\ k + 2 <= synced' /\ First(f, k)'
                         /\ file'[k + 1].frame = f /\ file'[k + 1].part = 2
                         /\ file'[k + 2].frame = f /\ file'[k + 2].part = NewLine
    BY <1>2 DEF AckInv, First
  <2>1. PICK k \in DOMAIN file :
                         /\ k + 2 <= synced /\ First(f, k)
                         /\ file[k + 1].frame = f /\ file[k + 1].part = 2
                         /\ file[k + 2].frame = f /\ file[k + 2].part = NewLine
    BY DEF LInv, AckInv
  <2>2. synced \in Nat /\ synced <= n
    BY <1>1 DEF LInv, TypeOK
  <2>3. k \in DOMAIN file' /\ k + 1 \in DOMAIN file' /\ k + 2 \in DOMAIN file'
    BY <1>1, <2>1, <2>2
  <2>4. file'[k] = file[k] /\ file'[k + 1] = file[k + 1] /\ file'[k + 2] = file[k + 2]
    BY <1>1, <2>3
  <2> QED BY <1>1, <2>1, <2>2, <2>3, <2>4 DEF First
<1>13. CkptInv'
  <2>1. \A k \in DOMAIN file' : file'[k].frame \in kept' \cup ignored'
    BY <1>1, <1>2, <1>3, <1>4 DEF LInv, CkptInv
  <2> QED BY <1>2, <2>1 DEF CkptInv
<1> QED BY <1>5, <1>7, <1>8, <1>9, <1>10, <1>11, <1>12, <1>13 DEF LInv
-----------------------------------------------------------------------------
(* Steps that leave the file alone.                                         *)
LEMMA FileStays ==
  ASSUME LInv, UNCHANGED file
  PROVE  /\ LinesInv' /\ OnlyTailBad' /\ Lines' = Lines
         /\ TailGood => TailGood'
         /\ \A m, k : LineAt(m, k)' <=> LineAt(m, k)
<1>1. Lines' = Lines
  BY DEF Lines
<1>2. \A i : Good(i)' <=> Good(i)
  BY DEF Good
<1>3. \A m, k : LineAt(m, k)' <=> LineAt(m, k)
  BY <1>1 DEF LineAt
<1>4. LinesInv'
  BY <1>1, <1>3 DEF LInv, LinesInv
<1>5. OnlyTailBad'
  BY <1>1, <1>2 DEF LInv, OnlyTailBad
<1> QED BY <1>1, <1>2, <1>3, <1>4, <1>5 DEF TailGood

(* Steps that end calls or take them a step further before the append.      *)
LEMMA CallsGoOn ==
  ASSUME LInv, UNCHANGED <<file, created, prev, parent>>,
         \A t \in Thread :
           \/ pc'[t] = "idle" /\ next_part'[t] = 1
           \/ /\ pc[t] # "idle" /\ cur'[t] = cur[t] /\ next_part'[t] = next_part[t]
              /\ pc'[t] = pc[t] \/ (pc[t] # "write" /\ pc'[t] # "write" /\ pc'[t] # "idle")
  PROVE  LinesInv' /\ OnlyTailBad' /\ ChainInv' /\ CallInv' /\ Distinct' /\ ParentInv'
<1>1. /\ LinesInv' /\ OnlyTailBad' /\ Lines' = Lines
      /\ TailGood => TailGood'
      /\ \A m, k : LineAt(m, k)' <=> LineAt(m, k)
  BY FileStays
<1>2. \A f, i : Follows(f, i) => Follows(f, i)'
  BY <1>1 DEF Follows
<1>3. ChainInv'
  <2> SUFFICES ASSUME NEW i \in Lines' PROVE Follows(file[i].frame, i)'
    BY DEF ChainInv
  <2>1. PICK f : f = file[i].frame
    OBVIOUS
  <2>2. Follows(f, i)'
    BY <1>1, <1>2, <2>1 DEF LInv, ChainInv
  <2> QED BY <2>1, <2>2 DEF Follows
<1>4. ParentInv'
  BY DEF LInv, ParentInv, First
<1>5. ASSUME NEW t \in Thread, pc'[t] # "idle"
      PROVE  /\ cur'[t] \in 1 .. created'
             /\ parent'[cur'[t]] = 0
                  \/ \E j \in DOMAIN file : file[j].frame = parent[cur[t]] /\ file[j].part = 1
             /\ next_part'[t] = 1 => Fresh(t)'
             /\ next_part'[t] > 1 => pc'[t] = "write" /\ Written(t)'
  <2>1. /\ pc[t] # "idle" /\ cur'[t] = cur[t] /\ next_part'[t] = next_part[t]
        /\ pc'[t] = pc[t] \/ (pc[t] # "write" /\ pc'[t] # "write")
    BY <1>5
  <2>2. /\ cur[t] \in 1 .. created
        /\ parent[cur[t]] = 0 \/ \E j \in DOMAIN file : First(parent[cur[t]], j)
        /\ next_part[t] = 1 => Fresh(t)
        /\ next_part[t] > 1 => pc[t] = "write" /\ Written(t)
    BY <2>1 DEF LInv, CallInv
  <2>3. next_part'[t] = 1 => Fresh(t)'
    <3> SUFFICES ASSUME next_part'[t] = 1
                 PROVE  /\ ~InFile(cur[t])'
                        /\ pc'[t] = "write" => TailGood' /\ Follows(cur[t], Len(file) + 1)'
      BY DEF Fresh
    <3>1. ~InFile(cur[t])'
      BY <2>1, <2>2 DEF Fresh, InFile
    <3>2. ASSUME pc'[t] = "write" PROVE TailGood' /\ Follows(cur[t], Len(file) + 1)'
      <4>1. TailGood /\ Follows(cur[t], Len(file) + 1)
        BY <2>1, <2>2, <3>2 DEF Fresh
      <4> QED BY <1>1, <2>1, <4>1 DEF Follows
    <3> QED BY <3>1, <3>2
  <2>4. next_part'[t] > 1 => pc'[t] = "write" /\ Written(t)'
    BY <2>1, <2>2 DEF Written
  <2> QED BY <2>1, <2>2, <2>3, <2>4 DEF First
<1>6. CallInv'
  <2> SUFFICES ASSUME NEW t \in Thread, pc'[t] # "idle"
               PROVE  /\ cur'[t] \in 1 .. created'
                      /\ \/ parent'[cur'[t]] = 0
                         \/ \E j \in DOMAIN file' : /\ file'[j].frame = parent'[cur'[t]]
                                                   /\ file'[j].part = 1
                      /\ next_part'[t] = 1 => Fresh(t)'
                      /\ next_part'[t] > 1 => pc'[t] = "write" /\ Written(t)'
    BY DEF CallInv, First
  <2>1. cur'[t] = cur[t]
    OBVIOUS
  <2> QED BY <1>5, <2>1
<1>7. Distinct'
  BY DEF LInv, Distinct
<1> QED BY <1>1, <1>3, <1>4, <1>6, <1>7

LEMMA KillStep ==
  ASSUME LInv, Kill
  PROVE  LInv'
<1>1. /\ UNCHANGED <<file, synced, visible, kept, created, prev, parent, acked, ignored>>
      /\ pc' = [t \in Thread |-> "idle"] /\ cur' = [t \in Thread |-> 0]
      /\ next_part' = [t \in Thread |-> 1] /\ lock' = Nobody
      /\ crashes < MaxCrashes /\ crashes' = crashes + 1
  BY DEF Kill, Restart, fileVars, ckptVars, frameVars
<1>2. TypeOK'
  <2>1. /\ pc' \in [Thread -> {"idle", "replace", "dir_fsync", "append", "write"}]
        /\ cur' \in [Thread -> 0 .. MaxFrames] /\ next_part' \in [Thread -> 1 .. NewLine + 1]
        /\ \A t \in Thread : pc'[t] = "write" <=> lock' = t
        /\ crashes' \in 0 .. MaxCrashes
    BY <1>1, LedgerAssumption DEF LInv, TypeOK, NewLine
  <2> QED BY <1>1, <2>1 DEF LInv, TypeOK
<1>3. LinesInv' /\ OnlyTailBad' /\ ChainInv' /\ CallInv' /\ Distinct' /\ ParentInv'
  BY <1>1, CallsGoOn
<1>4. AckInv' /\ CkptInv'
  BY <1>1 DEF LInv, AckInv, First, CkptInv
<1> QED BY <1>2, <1>3, <1>4 DEF LInv

LEMMA BeginStep ==
  ASSUME LInv, NEW t \in Thread, Begin(t)
  PROVE  LInv'
<1>1. PICK p \in {0} \cup Readable \cup acked : parent' = [parent EXCEPT ![created'] = p]
  BY DEF Begin
<1>2. /\ pc[t] = "idle" /\ created < MaxFrames /\ created' = created + 1
      /\ cur' = [cur EXCEPT ![t] = created'] /\ pc' = [pc EXCEPT ![t] = "replace"]
      /\ UNCHANGED <<file, synced, visible, kept, next_part, lock, prev, acked, ignored, crashes>>
  BY DEF Begin, fileVars, ckptVars
<1>3. TypeOK /\ CallInv /\ Distinct /\ AckInv /\ CkptInv /\ ParentInv /\ ChainInv
  BY DEF LInv
<1>4. created \in Nat /\ created' \in Frame /\ created' \in 1 .. created'
  BY <1>2, <1>3, LedgerAssumption DEF TypeOK, Frame
<1>5. /\ LinesInv' /\ OnlyTailBad' /\ Lines' = Lines
      /\ \A m, k : LineAt(m, k)' <=> LineAt(m, k)
  BY <1>2, FileStays
<1>6. p = 0 \/ \E j \in DOMAIN file : file[j].frame = p /\ file[j].part = 1
  <2>1. CASE p \in Readable
    <3>1. PICK i \in Lines : Good(i) /\ file[i].frame = p
      <4>1. PICK i \in {j \in Lines : \A k \in Lines : k <= j => Good(k)} : file[i].frame = p
        BY <2>1 DEF Readable
      <4>2. i \in Lines /\ i <= i
        BY <1>3, <4>1, FileTypes DEF Lines
      <4> QED BY <4>1, <4>2
    <3> QED BY <3>1 DEF Good, Lines
  <2>2. CASE p \in acked
    BY <1>3, <2>2 DEF AckInv, First
  <2> QED BY <2>1, <2>2
<1>7. p \in 0 .. MaxFrames
  <2>1. \A k \in DOMAIN file : file[k].frame \in Frame
    BY <1>3, FileTypes
  <2> QED BY <1>6, <2>1, LedgerAssumption DEF Frame
<1>8. TypeOK'
  <2>1. cur' \in [Thread -> 0 .. MaxFrames] /\ created' \in 0 .. MaxFrames
    BY <1>2, <1>3, <1>4 DEF TypeOK, Frame
  <2>2. parent' \in [Frame -> 0 .. MaxFrames]
    BY <1>1, <1>3, <1>4, <1>7 DEF TypeOK
  <2>3. /\ pc' \in [Thread -> {"idle", "replace", "dir_fsync", "append", "write"}]
        /\ \A s \in Thread : pc'[s] = "write" <=> lock' = s
    BY <1>2, <1>3 DEF TypeOK
  <2> QED BY <1>2, <1>3, <2>1, <2>2, <2>3 DEF TypeOK
<1>9. ChainInv'
  <2> SUFFICES ASSUME NEW i \in Lines' PROVE Follows(file[i].frame, i)'
    BY DEF ChainInv
  <2>1. Follows(file[i].frame, i)
    BY <1>3, <1>5 DEF ChainInv
  <2> QED BY <1>2, <1>5, <2>1 DEF Follows
<1>10. \A k \in DOMAIN file : file[k].frame # created' /\ file[k].frame \in Frame
  <2>1. \A k \in DOMAIN file : file[k].frame <= created /\ file[k].frame \in Frame
    BY <1>3, FileTypes DEF Distinct
  <2> QED BY <1>2, <1>4, <2>1 DEF Frame
<1>11. ParentInv'
  <2>1. \A k \in DOMAIN file : parent'[file[k].frame] = parent[file[k].frame]
    BY <1>1, <1>3, <1>10 DEF TypeOK
  <2> QED BY <1>2, <1>3, <2>1 DEF ParentInv, First
<1>12. ASSUME NEW s \in Thread, s # t, pc[s] # "idle"
       PROVE  /\ cur'[s] = cur[s] /\ cur[s] \in 1 .. created
              /\ parent'[cur[s]] = parent[cur[s]] /\ pc'[s] = pc[s]
  <2>1. cur'[s] = cur[s] /\ pc'[s] = pc[s] /\ cur[s] \in 1 .. created
    BY <1>2, <1>3, <1>12 DEF TypeOK, CallInv
  <2>2. created' \in 1 .. MaxFrames /\ MaxFrames \in Nat
    BY <1>4, LedgerAssumption DEF Frame
  <2>3. cur[s] # created' /\ cur[s] \in 1 .. MaxFrames
    <3> DEFINE c == cur[s]
    <3>1. c \in 1 .. created
      BY <2>1
    <3> HIDE DEF c
    <3>2. c # created' /\ c \in 1 .. MaxFrames
      BY <1>2, <1>4, <2>2, <3>1
    <3> QED BY <3>2 DEF c
  <2> QED BY <1>1, <1>3, <2>1, <2>3 DEF TypeOK, Frame
<1>13. CallInv'
  <2> SUFFICES ASSUME NEW s \in Thread, pc'[s] # "idle"
               PROVE  /\ cur'[s] \in 1 .. created'
                      /\ \/ parent'[cur'[s]] = 0
                         \/ \E j \in DOMAIN file' : /\ file'[j].frame = parent'[cur'[s]]
                                                   /\ file'[j].part = 1
                      /\ next_part'[s] = 1 => Fresh(s)'
                      /\ next_part'[s] > 1 => pc'[s] = "write" /\ Written(s)'
    BY DEF CallInv, First
  <2>1. CASE s = t
    <3>1. cur'[t] = created' /\ pc'[t] = "replace" /\ next_part'[t] = 1
      BY <1>2, <1>3 DEF TypeOK, Distinct
    <3>2. parent'[created'] = p
      BY <1>1, <1>3, <1>4 DEF TypeOK
    <3>3. Fresh(t)'
      BY <1>2, <1>10, <3>1 DEF Fresh, InFile
    <3> QED BY <1>2, <1>4, <1>6, <2>1, <3>1, <3>2, <3>3
  <2>2. CASE s # t
    <3>1. pc[s] # "idle"
      BY <1>2, <1>3, <2>2 DEF TypeOK
    <3>2. /\ cur'[s] = cur[s] /\ cur[s] \in 1 .. created
          /\ parent'[cur[s]] = parent[cur[s]] /\ pc'[s] = pc[s]
      BY <1>12, <2>2, <3>1
    <3>3. /\ parent[cur[s]] = 0 \/ \E j \in DOMAIN file : First(parent[cur[s]], j)
          /\ next_part[s] = 1 => Fresh(s)
          /\ next_part[s] > 1 => pc[s] = "write" /\ Written(s)
      BY <1>3, <3>1 DEF CallInv
    <3>4. next_part'[s] = 1 => Fresh(s)'
      <4>1. TailGood => TailGood'
        BY <1>2, FileStays
      <4> QED BY <1>2, <1>5, <3>2, <3>3, <4>1 DEF Fresh, InFile, Follows
    <3>5. next_part'[s] > 1 => pc'[s] = "write" /\ Written(s)'
      BY <1>2, <3>2, <3>3 DEF Written
    <3>6. cur[s] \in 1 .. created'
      BY <1>2, <1>4, <3>2
    <3> QED BY <1>2, <3>2, <3>3, <3>4, <3>5, <3>6 DEF First
  <2> QED BY <2>1, <2>2
<1>14. Distinct'
  <2>1. ASSUME NEW s \in Thread, NEW u \in Thread, s # u, pc'[s] # "idle", pc'[u] # "idle"
        PROVE  cur'[s] # cur'[u]
    <3>1. \A q \in Thread : q # t => pc'[q] = pc[q]
      BY <1>2, <1>3 DEF TypeOK
    <3>2. cur'[t] = created'
      BY <1>2, <1>3 DEF TypeOK
    <3>3. \A q \in Thread : q # t /\ pc[q] # "idle" => cur'[q] = cur[q] /\ cur[q] # created'
      BY <1>2, <1>4, <1>12
    <3> QED BY <1>3, <2>1, <3>1, <3>2, <3>3 DEF Distinct
  <2>2. \A k \in DOMAIN file' : file'[k].frame <= created'
    BY <1>2, <1>3, <1>4, <1>10 DEF Distinct, Frame
  <2>3. \A s \in Thread : pc'[s] = "idle" => next_part'[s] = 1
    BY <1>2, <1>3 DEF TypeOK, Distinct
  <2> QED BY <2>1, <2>2, <2>3 DEF Distinct
<1>15. AckInv' /\ CkptInv'
  <2>1. AckInv'
    BY <1>2, <1>3 DEF AckInv, First
  <2>2. \A s \in Thread : pc'[s] \in {"dir_fsync", "append", "write"} =>
                               pc[s] = pc'[s] /\ cur'[s] = cur[s]
    BY <1>2, <1>3 DEF TypeOK
  <2> QED BY <1>2, <1>3, <2>1, <2>2 DEF CkptInv
<1> QED BY <1>5, <1>8, <1>9, <1>11, <1>13, <1>14, <1>15 DEF LInv

LEMMA CheckpointSteps ==
  ASSUME LInv, NEW t \in Thread, Replace(t) \/ SaveFails(t) \/ SyncDir(t) \/ Refuse(t)
  PROVE  LInv'
<1>1. /\ UNCHANGED <<file, synced, cur, next_part, lock, created, prev, parent, acked, crashes>>
      /\ pc[t] \in {"replace", "dir_fsync", "append"}
      /\ \E next \in {"idle", "dir_fsync", "append"} : pc' = [pc EXCEPT ![t] = next]
  BY DEF Replace, SaveFails, SyncDir, Refuse, fileVars, ckptVars, frameVars
<1>2. TypeOK /\ CallInv /\ Distinct /\ AckInv /\ CkptInv
  BY DEF LInv
<1>3. next_part[t] = 1
  <2>1. ~(next_part[t] > 1)
    BY <1>1, <1>2 DEF CallInv
  <2>2. next_part[t] \in 1 .. 4
    BY <1>2, NextPart
  <2> QED BY <2>1, <2>2
<1>4. \A s \in Thread : pc'[s] = pc[s] \/ (s = t /\ pc'[s] \in {"idle", "dir_fsync", "append"})
  BY <1>1, <1>2 DEF TypeOK
<1>5. LinesInv' /\ OnlyTailBad' /\ ChainInv' /\ CallInv' /\ Distinct' /\ ParentInv'
  <2>1. \A s \in Thread :
          \/ pc'[s] = "idle" /\ next_part'[s] = 1
          \/ /\ pc[s] # "idle" /\ cur'[s] = cur[s] /\ next_part'[s] = next_part[s]
             /\ pc'[s] = pc[s] \/ (pc[s] # "write" /\ pc'[s] # "write" /\ pc'[s] # "idle")
    BY <1>1, <1>2, <1>3, <1>4 DEF Distinct
  <2> QED BY <1>1, <2>1, CallsGoOn
<1>6. kept \cup ignored \subseteq kept' \cup ignored' /\ visible \subseteq visible'
  BY <1>2 DEF Replace, SaveFails, SyncDir, Refuse, ckptVars, frameVars, TypeOK
<1>7. kept' \subseteq visible' /\ visible' \subseteq Frame /\ ignored' \subseteq Frame
  <2>1. cur[t] \in Frame
    BY <1>1, <1>2, CurIsFrame
  <2> QED BY <1>2, <2>1 DEF Replace, SaveFails, SyncDir, Refuse, ckptVars, frameVars, TypeOK
<1>8. TypeOK'
  <2>1. /\ pc' \in [Thread -> {"idle", "replace", "dir_fsync", "append", "write"}]
        /\ \A s \in Thread : pc'[s] = "write" <=> lock' = s
    BY <1>1, <1>2, <1>4 DEF TypeOK
  <2> QED BY <1>1, <1>2, <1>7, <2>1 DEF TypeOK
<1>9. AckInv'
  BY <1>1, <1>2 DEF AckInv, First
<1>10. CkptInv'
  <2>1. pc'[t] = "dir_fsync" => cur[t] \in visible'
    BY <1>1, <1>2 DEF Replace, SaveFails, SyncDir, Refuse, ckptVars, frameVars, TypeOK
  <2>2. pc'[t] = "append" => cur[t] \in kept' \cup ignored'
    BY <1>2 DEF Replace, SaveFails, SyncDir, Refuse, ckptVars, frameVars, TypeOK, CkptInv
  <2> QED BY <1>1, <1>2, <1>4, <1>6, <2>1, <2>2 DEF CkptInv
<1> QED BY <1>5, <1>8, <1>9, <1>10 DEF LInv

(* The hash read from the tail is that of the last line.                    *)
LEMMA ReadTailStep ==
  ASSUME LInv, NEW t \in Thread, ReadTail(t)
  PROVE  LInv'
<1>1. /\ UNCHANGED <<file, synced, visible, kept, cur, next_part, created, parent, acked,
                     ignored, crashes>>
      /\ pc[t] = "append" /\ lock = Nobody /\ TailGood
      /\ lock' = t /\ prev' = [prev EXCEPT ![cur[t]] = TailHash]
      /\ pc' = [pc EXCEPT ![t] = "write"]
  BY DEF ReadTail, fileVars, ckptVars
<1>2. /\ TypeOK /\ LinesInv /\ ChainInv /\ CallInv /\ Distinct /\ ParentInv /\ AckInv /\ CkptInv
  BY DEF LInv
<1>3. /\ LinesInv' /\ OnlyTailBad' /\ Lines' = Lines /\ TailGood'
      /\ \A m, k : LineAt(m, k)' <=> LineAt(m, k)
  BY <1>1, FileStays
<1>4. cur[t] \in Frame
  BY <1>1, <1>2, CurIsFrame
<1>5. next_part[t] = 1 /\ ~InFile(cur[t])
  <2>1. ~(next_part[t] > 1) /\ (next_part[t] = 1 => Fresh(t))
    BY <1>1, <1>2 DEF CallInv
  <2>2. next_part[t] \in 1 .. 4
    BY <1>2, NextPart
  <2>3. next_part[t] = 1
    BY <2>1, <2>2
  <2> QED BY <2>1, <2>3 DEF Fresh
<1>6. /\ TailHash \in 0 .. MaxFrames
      /\ \/ Len(file) + 1 = 1 /\ TailHash = 0
         \/ /\ Len(file) + 1 > 1
            /\ \E m \in Lines : LineAt(m, (Len(file) + 1) - 1) /\ TailHash = file[m].frame
  <2>1. CASE file = <<>>
    BY <2>1, LedgerAssumption DEF TailHash
  <2>2. CASE file # <<>>
    <3> DEFINE n == Len(file)
    <3>1. /\ n \in Nat /\ n # 0 /\ DOMAIN file = 1 .. n /\ Lines \subseteq 1 .. n
          /\ \A k \in DOMAIN file : file[k].frame \in Frame
      BY <1>2, <2>2, FileTypes, EmptySeq DEF Lines
    <3> HIDE DEF n
    <3>2. n \in DOMAIN file /\ (n + 1) - 1 = n /\ n + 1 > 1
      BY <3>1
    <3>3. PICK m \in Lines : LineAt(m, n)
      BY <1>2, <3>2 DEF LinesInv
    <3>4. \A j \in Lines : j <= m
      BY <3>1, <3>3 DEF LineAt
    <3>5. LastLine = m
      <4>1. \A i \in Lines : (\A j \in Lines : j <= i) => i = m
        BY <3>1, <3>4
      <4>2. \A i : (i \in Lines /\ \A j \in Lines : j <= i) <=> i = m
        BY <3>4, <4>1
      <4> QED BY <4>2 DEF LastLine
    <3>6. TailHash = file[m].frame /\ file[m].frame \in Frame
      BY <2>2, <3>1, <3>5 DEF TailHash
    <3>7. TailHash \in 0 .. MaxFrames
      BY <3>6, LedgerAssumption DEF Frame
    <3>8. LineAt(m, (n + 1) - 1)
      BY <3>2, <3>3
    <3> QED BY <3>2, <3>6, <3>7, <3>8 DEF n
  <2> QED BY <2>1, <2>2
<1>7. Follows(cur[t], Len(file) + 1)'
  <2>1. prev'[cur'[t]] = TailHash
    BY <1>1, <1>2, <1>4 DEF TypeOK
  <2> QED BY <1>1, <1>3, <1>6, <2>1 DEF Follows
<1>8. TypeOK'
  <2>1. prev' \in [Frame -> 0 .. MaxFrames]
    BY <1>1, <1>2, <1>4, <1>6 DEF TypeOK
  <2>2. /\ pc' \in [Thread -> {"idle", "replace", "dir_fsync", "append", "write"}]
        /\ \A s \in Thread : pc'[s] = "write" <=> lock' = s
    <3>1. \A s \in Thread : pc[s] # "write"
      BY <1>1, <1>2, LedgerAssumption DEF TypeOK
    <3> QED BY <1>1, <1>2, <3>1 DEF TypeOK
  <2> QED BY <1>1, <1>2, <2>1, <2>2 DEF TypeOK
<1>9. ChainInv'
  <2> SUFFICES ASSUME NEW i \in Lines' PROVE Follows(file[i].frame, i)'
    BY DEF ChainInv
  <2>1. Follows(file[i].frame, i) /\ i \in DOMAIN file
    BY <1>2, <1>3 DEF ChainInv, Lines
  <2>2. prev'[file[i].frame] = prev[file[i].frame]
    <3>1. file[i].frame \in Frame /\ file[i].frame # cur[t]
      BY <1>2, <1>5, <2>1, FileTypes DEF InFile
    <3> QED BY <1>1, <1>2, <3>1 DEF TypeOK
  <2> QED BY <1>1, <1>3, <2>1, <2>2 DEF Follows
<1>10. CallInv'
  <2> SUFFICES ASSUME NEW s \in Thread, pc'[s] # "idle"
               PROVE  /\ cur'[s] \in 1 .. created'
                      /\ \/ parent'[cur'[s]] = 0
                         \/ \E j \in DOMAIN file' : /\ file'[j].frame = parent'[cur'[s]]
                                                   /\ file'[j].part = 1
                      /\ next_part'[s] = 1 => Fresh(s)'
                      /\ next_part'[s] > 1 => pc'[s] = "write" /\ Written(s)'
    BY DEF CallInv, First
  <2>1. pc[s] # "idle" /\ (s # t => pc'[s] = pc[s])
    BY <1>1, <1>2 DEF TypeOK
  <2>2. /\ cur[s] \in 1 .. created
        /\ parent[cur[s]] = 0 \/ \E j \in DOMAIN file : First(parent[cur[s]], j)
        /\ next_part[s] = 1 => Fresh(s)
        /\ next_part[s] > 1 => pc[s] = "write" /\ Written(s)
    BY <1>2, <2>1 DEF CallInv
  <2>3. CASE s = t
    <3>1. Fresh(t)'
      BY <1>1, <1>3, <1>5, <1>7 DEF Fresh, InFile
    <3> QED BY <1>1, <1>5, <2>2, <2>3, <3>1 DEF First
  <2>4. CASE s # t
    <3>1. pc[s] # "write"
      BY <1>1, <1>2, LedgerAssumption DEF TypeOK
    <3> QED BY <1>1, <2>1, <2>2, <2>4, <3>1 DEF First, Fresh, InFile
  <2> QED BY <2>3, <2>4
<1>11. Distinct' /\ ParentInv' /\ AckInv' /\ CkptInv'
  <2>1. \A s \in Thread : IF s = t THEN pc[s] = "append" /\ pc'[s] = "write" ELSE pc'[s] = pc[s]
    BY <1>1, <1>2 DEF TypeOK
  <2>2. Distinct'
    BY <1>1, <1>2, <2>1 DEF Distinct
  <2>3. ParentInv' /\ AckInv'
    BY <1>1, <1>2 DEF ParentInv, AckInv, First
  <2>4. CkptInv'
    BY <1>1, <1>2, <2>1 DEF CkptInv
  <2> QED BY <2>2, <2>3, <2>4
<1> QED BY <1>3, <1>8, <1>9, <1>10, <1>11 DEF LInv

LEMMA EndSteps ==
  ASSUME LInv, NEW t \in Thread, WriteFails(t) \/ Sync(t)
  PROVE  LInv'
<1>1. /\ UNCHANGED <<file, visible, kept, cur, created, prev, parent, ignored, crashes>>
      /\ pc[t] = "write" /\ pc' = [pc EXCEPT ![t] = "idle"]
      /\ next_part' = [next_part EXCEPT ![t] = 1] /\ lock' = Nobody
      /\ \/ UNCHANGED <<synced, acked>>
         \/ next_part[t] > NewLine /\ synced' = Len(file) /\ acked' = acked \cup {cur[t]}
  BY DEF WriteFails, Sync, fileVars, ckptVars, frameVars
<1>2. TypeOK /\ CallInv /\ Distinct /\ AckInv /\ CkptInv
  BY DEF LInv
<1>3. \A s \in Thread : IF s = t THEN pc'[s] = "idle" /\ next_part'[s] = 1
                       ELSE pc'[s] = pc[s] /\ next_part'[s] = next_part[s]
  BY <1>1, <1>2 DEF TypeOK
<1>4. LinesInv' /\ OnlyTailBad' /\ ChainInv' /\ CallInv' /\ Distinct' /\ ParentInv'
  <2>1. \A s \in Thread :
          \/ pc'[s] = "idle" /\ next_part'[s] = 1
          \/ /\ pc[s] # "idle" /\ cur'[s] = cur[s] /\ next_part'[s] = next_part[s]
             /\ pc'[s] = pc[s]
    BY <1>1, <1>2, <1>3 DEF Distinct
  <2> QED BY <1>1, <2>1, CallsGoOn
<1>5. Len(file) \in Nat /\ DOMAIN file = 1 .. Len(file) /\ synced \in Nat /\ synced <= Len(file)
  BY <1>2, FileTypes DEF TypeOK
<1>6. TypeOK'
  <2>1. cur[t] \in Frame
    BY <1>1, <1>2, CurIsFrame
  <2>2. /\ pc' \in [Thread -> {"idle", "replace", "dir_fsync", "append", "write"}]
        /\ next_part' \in [Thread -> 1 .. NewLine + 1]
    BY <1>1, <1>2 DEF TypeOK, NewLine
  <2>3. \A s \in Thread : pc'[s] = "write" <=> lock' = s
    BY <1>1, <1>2, <1>3, LedgerAssumption DEF TypeOK
  <2>4. synced' \in 0 .. Len(file') /\ acked' \cup ignored' \subseteq Frame
    BY <1>1, <1>2, <1>5, <2>1 DEF TypeOK
  <2> QED BY <1>1, <1>2, <2>2, <2>3, <2>4 DEF TypeOK
<1>7. ASSUME NEW f \in acked'
      PROVE  \E k \in DOMAIN file : /\ k + 2 <= synced' /\ First(f, k)
                                   /\ file[k + 1].frame = f /\ file[k + 1].part = 2
                                   /\ file[k + 2].frame = f /\ file[k + 2].part = NewLine
  <2>1. CASE f \in acked
    <3>1. PICK k \in DOMAIN file : /\ k + 2 <= synced /\ First(f, k)
                                  /\ file[k + 1].frame = f /\ file[k + 1].part = 2
                                  /\ file[k + 2].frame = f /\ file[k + 2].part = NewLine
      BY <1>2, <2>1 DEF AckInv
    <3>2. k + 2 <= synced'
      BY <1>1, <1>5, <3>1
    <3> QED BY <3>1, <3>2
  <2>2. CASE f \notin acked
    <3>1. f = cur[t] /\ synced' = Len(file) /\ next_part[t] > 3
      BY <1>1, <2>2 DEF NewLine
    <3>2. next_part[t] = 4
      <4>1. next_part[t] \in 1 .. 3 + 1
        BY <1>2 DEF TypeOK, NewLine
      <4> QED BY <3>1, <4>1
    <3>3. Written(t)
      BY <1>1, <1>2, <3>2 DEF CallInv
    <3>4. /\ 4 <= Len(file) + 1
          /\ \A p \in 1 .. 3 : /\ file[Len(file) + 1 - 4 + p].frame = f
                               /\ file[Len(file) + 1 - 4 + p].part = p
      BY <3>1, <3>2, <3>3 DEF Written
    <3> DEFINE k == Len(file) - 2
    <3>5. /\ k \in DOMAIN file /\ k + 2 <= synced'
          /\ Len(file) + 1 - 4 + 1 = k /\ Len(file) + 1 - 4 + 2 = k + 1
          /\ Len(file) + 1 - 4 + 3 = k + 2
      BY <1>5, <3>1, <3>4
    <3> HIDE DEF k
    <3>6. /\ file[k].frame = f /\ file[k].part = 1
          /\ file[k + 1].frame = f /\ file[k + 1].part = 2
          /\ file[k + 2].frame = f /\ file[k + 2].part = 3
      BY <3>4, <3>5
    <3> QED BY <3>5, <3>6 DEF First, NewLine
  <2> QED BY <2>1, <2>2
<1>8. AckInv'
  BY <1>1, <1>7 DEF AckInv, First
<1>9. CkptInv'
  BY <1>1, <1>2, <1>3 DEF CkptInv
<1> QED BY <1>4, <1>6, <1>8, <1>9 DEF LInv
-----------------------------------------------------------------------------
LEMMA Start ==
  ASSUME Init
  PROVE  LInv
<1>1. /\ file = <<>> /\ synced = 0 /\ visible = {} /\ kept = {} /\ created = 0
      /\ acked = {} /\ ignored = {} /\ crashes = 0 /\ lock = Nobody
      /\ pc = [t \in Thread |-> "idle"] /\ cur = [t \in Thread |-> 0]
      /\ next_part = [t \in Thread |-> 1]
      /\ prev = [f \in Frame |-> 0] /\ parent = [f \in Frame |-> 0]
  BY DEF Init
<1>2. TypeOK
  <2>1. file \in Seq([frame : Frame, part : Part]) /\ synced \in 0 .. Len(file)
    BY <1>1
  <2>2. /\ created \in 0 .. MaxFrames /\ crashes \in 0 .. MaxCrashes
        /\ prev \in [Frame -> 0 .. MaxFrames] /\ parent \in [Frame -> 0 .. MaxFrames]
        /\ cur \in [Thread -> 0 .. MaxFrames] /\ next_part \in [Thread -> 1 .. NewLine + 1]
    BY <1>1, LedgerAssumption DEF NewLine
  <2>3. \A t \in Thread : pc[t] = "write" <=> lock = t
    BY <1>1, LedgerAssumption
  <2> QED BY <1>1, <2>1, <2>2, <2>3 DEF TypeOK
<1>3. DOMAIN file = {}
  BY <1>1
<1>4. LinesInv /\ OnlyTailBad /\ ChainInv
  BY <1>3 DEF LinesInv, OnlyTailBad, ChainInv, Lines
<1>5. CallInv /\ Distinct
  BY <1>1, <1>3 DEF CallInv, Distinct
<1>6. ParentInv /\ AckInv /\ CkptInv
  BY <1>1, <1>3 DEF ParentInv, AckInv, CkptInv
<1> QED BY <1>2, <1>4, <1>5, <1>6 DEF LInv

LEMMA Stutter ==
  ASSUME LInv, UNCHANGED vars
  PROVE  LInv'
<1>1. UNCHANGED <<file, synced, visible, kept, pc, cur, next_part, lock, created, prev, parent,
                  acked, ignored, crashes>>
  BY DEF vars, fileVars, ckptVars, threadVars, frameVars
<1>2. LinesInv' /\ OnlyTailBad' /\ ChainInv' /\ CallInv' /\ Distinct' /\ ParentInv'
  <2>1. \A s \in Thread :
          \/ pc'[s] = "idle" /\ next_part'[s] = 1
          \/ /\ pc[s] # "idle" /\ cur'[s] = cur[s] /\ next_part'[s] = next_part[s]
             /\ pc'[s] = pc[s]
    BY <1>1 DEF LInv, Distinct
  <2> QED BY <1>1, <2>1, CallsGoOn
<1>3. TypeOK' /\ AckInv' /\ CkptInv'
  BY <1>1 DEF LInv, TypeOK, AckInv, First, CkptInv
<1> QED BY <1>2, <1>3 DEF LInv

(* The ledger's invariant: where the records of the threads, the            *)
(* acknowledged frames and their parents are, however threads, failures and *)
(* crashes interleave.                                                      *)
THEOREM LedgerInvariant == Spec => []LInv
<1>1. Init => LInv
  BY Start
<1>2. LInv /\ [Next]_vars => LInv'
  <2> SUFFICES ASSUME LInv, [Next]_vars PROVE LInv'
    OBVIOUS
  <2>1. CASE UNCHANGED vars
    BY <2>1, Stutter
  <2>2. CASE Kill
    BY <2>2, KillStep
  <2>3. CASE PowerLoss
    BY <2>3, CutStep
  <2>4. ASSUME NEW t \in Thread, Step(t) PROVE LInv'
    <3>1. CASE Begin(t)
      BY <3>1, BeginStep
    <3>2. CASE Replace(t) \/ SaveFails(t) \/ SyncDir(t) \/ Refuse(t)
      BY <3>2, CheckpointSteps
    <3>3. CASE ReadTail(t)
      BY <3>3, ReadTailStep
    <3>4. CASE Write(t)
      BY <3>4, WriteStep
    <3>5. CASE WriteFails(t) \/ Sync(t)
      BY <3>5, EndSteps
    <3> QED BY <2>4, <3>1, <3>2, <3>3, <3>4, <3>5 DEF Step
  <2> QED BY <2>1, <2>2, <2>3, <2>4 DEF Next
<1> QED BY <1>1, <1>2, PTL DEF Spec

(* Types, and one thread at a time between the tail and its append.         *)
THEOREM LedgerTypes == Spec => []TypeOK
<1>1. LInv => TypeOK
  BY DEF LInv
<1> QED BY <1>1, LedgerInvariant, PTL

(* Short writes, failed writes, kills and power losses damage the last line *)
(* only.                                                                    *)
THEOREM DamageIsAtTail == Spec => []OnlyTailBad
<1>1. LInv => OnlyTailBad
  BY DEF LInv
<1> QED BY <1>1, LedgerInvariant, PTL

(* No readable frame names a checkpoint that a crash took away.             *)
THEOREM CheckpointBeforeFrame == Spec => []CheckpointFirst
<1>1. LInv => CheckpointFirst
  <2> SUFFICES ASSUME LInv, NEW f \in Readable, f \notin ignored PROVE f \in visible
    BY DEF CheckpointFirst
  <2>1. PICK i \in DOMAIN file : file[i].frame = f
    BY DEF Readable, Lines
  <2>2. f \in kept
    BY <2>1 DEF LInv, CkptInv
  <2> QED BY <2>2 DEF LInv, TypeOK
<1> QED BY <1>1, LedgerInvariant, PTL

(* Whatever the threads and crashes, verify accepts a ledger whose tail is  *)
(* intact: the chain is unbroken and no parent is missing.                  *)
THEOREM ChainUnbroken == Spec => []VerifyFailsOnTailOnly
<1>1. LInv => VerifyFailsOnTailOnly
  <2> SUFFICES ASSUME LInv, TailGood, NEW i \in Lines
               PROVE  /\ Good(i) /\ prev[file[i].frame] = Previous(i)
                      /\ parent[file[i].frame] \in {0} \cup Readable
    BY DEF VerifyFailsOnTailOnly, VerifyOk
  <2>1. TypeOK /\ LinesInv /\ OnlyTailBad /\ ChainInv /\ ParentInv
    BY DEF LInv
  <2>2. \A j \in Lines : Good(j)
    BY <2>1, AllGood
  <2>3. /\ Lines \subseteq DOMAIN file /\ \A j \in Lines : j \in Nat
    BY <2>1, FileTypes DEF Lines
  <2>4. prev[file[i].frame] = Previous(i)
    <3>1. Follows(file[i].frame, i)
      BY <2>1 DEF ChainInv
    <3>2. CASE i = 1
      BY <2>3, <3>1, <3>2 DEF Follows, Previous
    <3>3. CASE i > 1
      <4>1. PICK m \in Lines : LineAt(m, i - 1) /\ prev[file[i].frame] = file[m].frame
        BY <3>1, <3>3 DEF Follows
      <4>2. \A j : (j \in Lines /\ j < i /\ \A k \in Lines : k < i => k <= j) <=> j = m
        BY <2>3, <4>1 DEF LineAt
      <4>3. file[CHOOSE j \in Lines : j < i /\ \A k \in Lines : k < i => k <= j].frame
              = file[m].frame
        BY <4>2
      <4> QED BY <3>3, <4>1, <4>3 DEF Previous
    <3> QED BY <2>3, <3>2, <3>3, <3>1 DEF Follows
  <2>5. parent[file[i].frame] \in {0} \cup Readable
    <3>1. i \in DOMAIN file /\ file[i].part = 1
      BY <2>2, <2>3 DEF Good
    <3>2. CASE parent[file[i].frame] # 0
      <4>1. PICK j \in DOMAIN file : First(parent[file[i].frame], j)
        BY <2>1, <3>1, <3>2 DEF ParentInv
      <4>2. j \in Lines
        <5>1. PICK m \in Lines : j \in m .. m + 2 /\ file[j].part = j + 1 - m
          BY <2>1, <2>2, PartsInOrder
        <5>2. file[j].part = 1 /\ m \in Nat
          BY <2>3, <4>1 DEF First
        <5>3. j = m
          BY <5>1, <5>2
        <5> QED BY <5>3
      <4>3. file[j].frame \in Readable
        BY <2>2, <4>2 DEF Readable
      <4> QED BY <4>1, <4>3 DEF First
    <3> QED BY <3>2
  <2> QED BY <2>2, <2>4, <2>5
<1> QED BY <1>1, LedgerInvariant, PTL

(* A frame whose append returned stays readable, or was joined to a record  *)
(* that lost its newline.                                                   *)
THEOREM AckedStays == Spec => []AckedReadable
<1>1. LInv => AckedReadable
  <2> SUFFICES ASSUME LInv, NEW f \in acked, ~Joined(f) PROVE f \in Readable
    BY DEF AckedReadable
  <2>1. TypeOK /\ LinesInv /\ OnlyTailBad /\ ParentInv
    BY DEF LInv
  <2>2. /\ DOMAIN file = 1 .. Len(file) /\ Len(file) \in Nat /\ synced \in Nat
        /\ synced <= Len(file) /\ Lines \subseteq DOMAIN file
        /\ \A k \in DOMAIN file : file[k] \in Record
    <3>1. synced \in Nat /\ synced <= Len(file)
      BY <2>1 DEF TypeOK
    <3>2. Lines \subseteq DOMAIN file
      BY DEF Lines
    <3> QED BY <2>1, <3>1, <3>2, FileTypes
  <2>3. PICK k \in DOMAIN file : /\ k + 2 <= synced /\ First(f, k)
                                /\ file[k + 1].frame = f /\ file[k + 1].part = 2
                                /\ file[k + 2].frame = f /\ file[k + 2].part = NewLine
    BY DEF LInv, AckInv
  <2>4. k + 1 \in DOMAIN file /\ k + 2 \in DOMAIN file
    BY <2>2, <2>3
  <2>5. file[k] = [frame |-> f, part |-> 1]
    BY <2>2, <2>3 DEF First, Record
  <2>6. k \in Lines
    <3>1. CASE k = 1
      BY <3>1 DEF Lines
    <3>2. CASE k > 1
      <4>1. file[k - 1].part \in {2, NewLine}
        BY <2>1, <2>3, <3>2 DEF ParentInv, First
      <4>2. file[k - 1].part # 2
        BY <2>5, <3>2 DEF Joined
      <4> QED BY <4>1, <4>2 DEF Lines
    <3> QED BY <2>2, <3>1, <3>2
  <2>7. Good(k)
    <3>1. file[k + 1] = [file[k] EXCEPT !.part = 2]
      BY <2>2, <2>3, <2>4, <2>5 DEF Record
    <3> QED BY <2>3, <2>4, <3>1 DEF Good, First
  <2>8. \A j \in Lines : j <= k => Good(j)
    BY <2>1, <2>2, <2>6, <2>7 DEF OnlyTailBad
  <2>9. file[k].frame = f
    BY <2>3 DEF First
  <2> QED BY <2>6, <2>8, <2>9 DEF Readable
<1> QED BY <1>1, LedgerInvariant, PTL
-----------------------------------------------------------------------------
(* The ledger as an append-only log.  A frame in the making is not          *)
(* confirmed, and what its thread has written is all there is of it.        *)
OwnInv ==
  \A t \in Thread : pc[t] # "idle" =>
    /\ cur[t] \notin acked
    /\ next_part[t] > 1 =>
         \A k \in DOMAIN file : k + next_part[t] <= Len(file) + 1 => file[k].frame # cur[t]

AInv == LInv /\ OwnInv

IsPlace(f, i) == /\ i \in DOMAIN file /\ file[i].frame = f
                 /\ \A j \in DOMAIN file : file[j].frame = f => i <= j

Entry(f) == [frame |-> f, place |-> Place(f), previous |-> prev[f], parent |-> parent[f]]

LEMMA LeastPosition ==
  ASSUME NEW S \in SUBSET Nat, S # {}
  PROVE  \E x \in S : \A y \in S : x <= y
<1> DEFINE R == OpToRel(<, Nat)
<1>1. IsWellFoundedOn(R, Nat)
  BY NatLessThanWellFounded
<1>2. \A x, y \in Nat : <<y, x>> \in R <=> y < x
  BY DEF OpToRel
<1> HIDE DEF R
<1>3. PICK x \in S : \A y \in S : ~ (<<y, x>> \in R)
  BY <1>1, WFMin
<1>4. \A y \in S : ~(y < x) /\ x \in Nat /\ y \in Nat
  BY <1>2, <1>3
<1> QED BY <1>4

(* A frame in the file has one place, and a position that fits is it.       *)
LEMMA PlaceIs ==
  ASSUME TypeOK, NEW f, NEW i, IsPlace(f, i)
  PROVE  Place(f) = i
<1>1. \A j, k \in DOMAIN file : j <= k /\ k <= j => j = k
  BY FileTypes
<1>2. \A j : (/\ j \in DOMAIN file
              /\ file[j].frame = f /\ \A k \in DOMAIN file : file[k].frame = f => j <= k)
             <=> j = i
  BY <1>1 DEF IsPlace
<1> QED BY <1>2 DEF Place

LEMMA PlaceExists ==
  ASSUME TypeOK, NEW f, NEW k \in DOMAIN file, file[k].frame = f
  PROVE  IsPlace(f, Place(f)) /\ Place(f) <= k
<1> DEFINE S == {j \in DOMAIN file : file[j].frame = f}
<1>1. S \in SUBSET Nat /\ k \in S
  BY FileTypes
<1>2. PICK i \in S : \A j \in S : i <= j
  BY <1>1, LeastPosition
<1>3. IsPlace(f, i) /\ i <= k
  BY <1>1, <1>2 DEF IsPlace
<1> QED BY <1>3, PlaceIs

(* A confirmed frame keeps its place as long as the durable part of the     *)
(* file stays.                                                              *)
LEMMA PlaceStays ==
  ASSUME TypeOK, TypeOK', AckInv, NEW f \in acked,
         \A k \in 1 .. synced : k \in DOMAIN file' /\ file'[k] = file[k]
  PROVE  Place(f)' = Place(f)
<1>1. PICK k \in DOMAIN file : k + 2 <= synced /\ First(f, k)
  BY DEF AckInv
<1>2. PICK i : i = Place(f)
  OBVIOUS
<1>3. IsPlace(f, i) /\ i <= k
  BY <1>1, <1>2, PlaceExists DEF First
<1>4. /\ DOMAIN file = 1 .. Len(file) /\ synced \in Nat /\ i \in 1 .. synced
      /\ DOMAIN file' = 1 .. Len(file') /\ Len(file) \in Nat /\ Len(file') \in Nat
      /\ synced <= Len(file)
  <2>1. DOMAIN file = 1 .. Len(file) /\ Len(file) \in Nat /\ synced \in Nat /\ synced <= Len(file)
    BY FileTypes DEF TypeOK
  <2>2. DOMAIN file' = 1 .. Len(file') /\ Len(file') \in Nat
    <3>1. file' \in Seq(Record)
      BY DEF TypeOK, Record
    <3> QED BY <3>1, LenProperties
  <2> QED BY <1>1, <1>3, <2>1, <2>2 DEF IsPlace
<1>5. i \in DOMAIN file' /\ file'[i].frame = f
  BY <1>3, <1>4 DEF IsPlace
<1>6. ASSUME NEW j \in DOMAIN file', file'[j].frame = f PROVE i <= j
  <2>1. CASE j <= synced
    BY <1>3, <1>4, <1>6, <2>1 DEF IsPlace
  <2>2. CASE j > synced
    BY <1>4, <2>2
  <2> QED BY <1>4, <2>1, <2>2
<1>7. \A j \in DOMAIN file' : j = i \/ ~(file'[j].frame = f /\ \A m \in DOMAIN file' : file'[m].frame = f => j <= m)
  BY <1>4, <1>5, <1>6
<1>8. \A j : (/\ j \in DOMAIN file'
              /\ file'[j].frame = f /\ \A m \in DOMAIN file' : file'[m].frame = f => j <= m)
             <=> j = i
  BY <1>5, <1>6, <1>7
<1>9. Place(f)' = i
  BY <1>8 DEF Place
<1> QED BY <1>2, <1>9

(* What a step of the ledger does not touch.                                *)
LEMMA DurableStays ==
  ASSUME LInv, [Next]_vars
  PROVE  \A k \in 1 .. synced : k \in DOMAIN file' /\ file'[k] = file[k]
<1>1. /\ DOMAIN file = 1 .. Len(file) /\ Len(file) \in Nat
      /\ synced \in Nat /\ synced <= Len(file)
  BY FileTypes DEF LInv, TypeOK
<1>2. CASE UNCHANGED file
  BY <1>1, <1>2
<1>3. CASE PowerLoss
  <2>1. PICK n \in synced .. Len(file) :
          DOMAIN file' = 1 .. n /\ n \in Nat /\ \A k \in DOMAIN file' : file'[k] = file[k]
    BY <1>3, CutFacts DEF LInv
  <2> QED BY <1>1, <2>1
<1>4. ASSUME NEW t \in Thread, Write(t)
      PROVE  \A k \in 1 .. synced : k \in DOMAIN file' /\ file'[k] = file[k]
  <2>1. PICK new \in 1 .. NewLine :
          DOMAIN file' = 1 .. Len(file) + new /\ \A k \in DOMAIN file : file'[k] = file[k]
    BY <1>4, Grow
  <2> QED BY <1>1, <2>1 DEF NewLine
<1>5. CASE UNCHANGED vars
  BY <1>2, <1>5 DEF vars, fileVars
<1>6. CASE Kill
  BY <1>2, <1>6 DEF Kill, fileVars
<1>7. ASSUME NEW t \in Thread, Step(t), ~Write(t) PROVE UNCHANGED file
  BY <1>7 DEF Step, Begin, Replace, SaveFails, SyncDir, ReadTail, Refuse, WriteFails, Sync,
              fileVars
<1> QED BY <1>2, <1>3, <1>4, <1>5, <1>6, <1>7 DEF Next

(* OwnInv is inductive.                                                     *)
LEMMA AckedInFile ==
  ASSUME LInv, NEW f \in acked
  PROVE  InFile(f) /\ f <= created
<1>1. PICK k \in DOMAIN file : file[k].frame = f
  BY DEF LInv, AckInv, First
<1> QED BY <1>1 DEF InFile, LInv, Distinct

(* A call that has written nothing but goes on is of a frame not in the file. *)
LEMMA NotBegun ==
  ASSUME LInv, NEW t \in Thread, pc[t] # "idle", next_part[t] = 1
  PROVE  \A k \in DOMAIN file : file[k].frame # cur[t]
BY DEF LInv, CallInv, Fresh, InFile

LEMMA OwnStart ==
  ASSUME Init
  PROVE  OwnInv
BY DEF Init, OwnInv

LEMMA OwnWrite ==
  ASSUME AInv, NEW t \in Thread, Write(t)
  PROVE  OwnInv'
<1>1. LInv /\ OwnInv /\ TypeOK
  BY DEF AInv, LInv
<1>2. PICK new \in 1 .. NewLine :
        /\ next_part[t] \in 1 .. NewLine /\ next_part[t] + new <= NewLine + 1
        /\ next_part' = [next_part EXCEPT ![t] = next_part[t] + new]
        /\ Len(file) \in Nat /\ Len(file') = Len(file) + new
        /\ DOMAIN file = 1 .. Len(file) /\ DOMAIN file' = 1 .. Len(file) + new
        /\ \A k \in DOMAIN file : file'[k] = file[k]
        /\ pc[t] = "write"
  BY <1>1, Grow
<1>3. UNCHANGED <<pc, cur, lock, acked>>
  BY DEF Write, frameVars
<1>4. \A s \in Thread : s # t => next_part'[s] = next_part[s]
  BY <1>1, <1>2 DEF TypeOK
<1>5. next_part'[t] = next_part[t] + new
  BY <1>1, <1>2 DEF TypeOK
<1> SUFFICES ASSUME NEW s \in Thread, pc[s] # "idle"
             PROVE  /\ cur[s] \notin acked
                    /\ next_part'[s] > 1 =>
                         \A k \in DOMAIN file' :
                           k + next_part'[s] <= Len(file') + 1 => file'[k].frame # cur[s]
  BY <1>3 DEF OwnInv
<1>6. cur[s] \notin acked
  BY <1>1 DEF OwnInv
<1>7. ASSUME s = t, NEW k \in DOMAIN file', k + next_part'[s] <= Len(file') + 1
      PROVE  file'[k].frame # cur[s]
  <2>1. k + next_part[t] <= Len(file) + 1 /\ k \in DOMAIN file
    BY <1>2, <1>5, <1>7 DEF NewLine
  <2>2. file[k].frame # cur[t]
    <3>1. CASE next_part[t] = 1
      BY <1>1, <1>2, <2>1, <3>1, NotBegun
    <3>2. CASE next_part[t] > 1
      BY <1>1, <1>2, <2>1, <3>2 DEF OwnInv
    <3> QED BY <1>2, <3>1, <3>2 DEF NewLine
  <2> QED BY <1>2, <1>7, <2>1, <2>2
<1>8. ASSUME s # t PROVE next_part'[s] = 1
  <2>1. next_part[s] \in 1 .. 4
    BY <1>1, NextPart
  <2>2. pc[s] # "write"
    BY <1>1, <1>2, <1>8 DEF TypeOK
  <2>3. ~(next_part[s] > 1)
    BY <1>1, <2>2 DEF LInv, CallInv
  <2> QED BY <1>4, <1>8, <2>1, <2>3
<1> QED BY <1>6, <1>7, <1>8

(* A step of thread t that leaves the file, and ends the call or has not    *)
(* begun to write.                                                          *)
LEMMA OwnCalls ==
  ASSUME AInv, UNCHANGED file,
         \A s \in Thread : pc'[s] # "idle" =>
            /\ cur'[s] \notin acked'
            /\ next_part'[s] = 1 \/ (pc[s] # "idle" /\ cur'[s] = cur[s] /\ next_part'[s] = next_part[s])
  PROVE  OwnInv'
<1> SUFFICES ASSUME NEW s \in Thread, pc'[s] # "idle", next_part'[s] > 1,
                    NEW k \in DOMAIN file, k + next_part'[s] <= Len(file) + 1
             PROVE  file[k].frame # cur'[s]
  BY DEF OwnInv
<1>1. pc[s] # "idle" /\ cur'[s] = cur[s] /\ next_part'[s] = next_part[s]
  OBVIOUS
<1> QED BY <1>1 DEF AInv, OwnInv

LEMMA OwnStep ==
  ASSUME AInv, NEW t \in Thread, Step(t)
  PROVE  OwnInv'
<1>1. LInv /\ OwnInv /\ TypeOK /\ Distinct
  BY DEF AInv, LInv
<1>2. \A s \in Thread : pc[s] # "idle" => cur[s] \notin acked
  BY <1>1 DEF OwnInv
<1>3. CASE Write(t)
  BY <1>3, OwnWrite
<1>4. CASE Begin(t)
  <2>1. /\ UNCHANGED <<file, acked, next_part>> /\ pc[t] = "idle"
        /\ created' = created + 1 /\ cur' = [cur EXCEPT ![t] = created']
        /\ pc' = [pc EXCEPT ![t] = "replace"]
    BY <1>4 DEF Begin, fileVars
  <2>2. created' \notin acked
    <3>1. created \in Nat
      BY <1>1, LedgerAssumption DEF TypeOK
    <3>2. \A f \in acked : f <= created
      BY <1>1, AckedInFile
    <3> QED BY <2>1, <3>1, <3>2
  <2>3. /\ cur'[t] = created' /\ next_part'[t] = 1
        /\ \A s \in Thread : s # t => pc'[s] = pc[s] /\ cur'[s] = cur[s]
    BY <1>1, <2>1 DEF TypeOK, Distinct
  <2> QED BY <1>2, <2>1, <2>2, <2>3, OwnCalls
<1>5. CASE Replace(t) \/ SaveFails(t) \/ SyncDir(t) \/ ReadTail(t) \/ Refuse(t)
  <2>1. UNCHANGED <<file, acked, next_part, cur>> /\ pc[t] # "idle"
    BY <1>5 DEF Replace, SaveFails, SyncDir, ReadTail, Refuse, fileVars, frameVars
  <2>2. \A s \in Thread : s # t => pc'[s] = pc[s]
    BY <1>1, <1>5 DEF Replace, SaveFails, SyncDir, ReadTail, Refuse, TypeOK
  <2>3. \A s \in Thread : pc'[s] # "idle" => pc[s] # "idle"
    BY <2>1, <2>2
  <2> QED BY <1>2, <2>1, <2>3, OwnCalls
<1>6. CASE WriteFails(t) \/ Sync(t)
  <2>1. /\ UNCHANGED <<file, cur>> /\ pc[t] = "write" /\ pc' = [pc EXCEPT ![t] = "idle"]
        /\ next_part' = [next_part EXCEPT ![t] = 1]
        /\ acked' \subseteq acked \cup {cur[t]}
    BY <1>6 DEF WriteFails, Sync, fileVars, frameVars
  <2>2. /\ pc'[t] = "idle"
        /\ \A s \in Thread : s # t => pc'[s] = pc[s] /\ next_part'[s] = next_part[s]
    BY <1>1, <2>1 DEF TypeOK
  <2>3. \A s \in Thread : s # t /\ pc[s] # "idle" => cur[s] # cur[t]
    BY <1>1, <2>1 DEF Distinct
  <2> QED BY <1>2, <2>1, <2>2, <2>3, OwnCalls
<1> QED BY <1>3, <1>4, <1>5, <1>6 DEF Step

THEOREM OwnInvariant == Spec => []AInv
<1>1. Init => OwnInv
  BY OwnStart
<1>2. LInv /\ OwnInv /\ [Next]_vars => OwnInv'
  <2> SUFFICES ASSUME LInv, OwnInv, [Next]_vars PROVE OwnInv'
    OBVIOUS
  <2>1. CASE UNCHANGED vars
    BY <2>1 DEF OwnInv, vars, fileVars, threadVars, frameVars
  <2>2. CASE Kill \/ PowerLoss
    BY <2>2 DEF Kill, PowerLoss, Restart, OwnInv
  <2>3. ASSUME NEW t \in Thread, Step(t) PROVE OwnInv'
    BY <2>3, OwnStep DEF AInv
  <2> QED BY <2>1, <2>2, <2>3 DEF Next
<1> QED BY <1>1, <1>2, LedgerInvariant, PTL DEF Spec, AInv

(* What was confirmed stays as it is, whatever step is taken.               *)
LEMMA EntriesStay ==
  ASSUME AInv, AInv', [Next]_vars, NEW f \in acked
  PROVE  /\ f \in acked' /\ Place(f)' = Place(f)
         /\ prev'[f] = prev[f] /\ parent'[f] = parent[f]
<1>1. TypeOK /\ TypeOK' /\ AckInv /\ LInv
  BY DEF AInv, LInv
<1>2. Place(f)' = Place(f)
  BY <1>1, DurableStays, PlaceStays
<1>3. \A t \in Thread : pc[t] # "idle" => cur[t] # f
  BY DEF AInv, OwnInv
<1>4. f <= created /\ created \in Nat
  BY <1>1, AckedInFile, LedgerAssumption DEF TypeOK
<1>5. ASSUME NEW t \in Thread, Step(t)
      PROVE  f \in acked' /\ prev'[f] = prev[f] /\ parent'[f] = parent[f]
  <2>1. CASE Begin(t)
    <3>1. UNCHANGED <<acked, prev>> /\ \E p : parent' = [parent EXCEPT ![created + 1] = p]
      BY <2>1 DEF Begin
    <3>2. created + 1 # f
      BY <1>1, <1>4 DEF TypeOK
    <3> QED BY <1>1, <3>1, <3>2 DEF TypeOK
  <2>2. CASE ReadTail(t)
    <3>1. UNCHANGED <<acked, parent>> /\ pc[t] # "idle" /\ \E p : prev' = [prev EXCEPT ![cur[t]] = p]
      BY <2>2 DEF ReadTail
    <3> QED BY <1>1, <1>3, <3>1 DEF TypeOK
  <2>3. CASE Replace(t) \/ SaveFails(t) \/ SyncDir(t) \/ Refuse(t) \/ Write(t) \/ WriteFails(t)
    BY <2>3 DEF Replace, SaveFails, SyncDir, Refuse, Write, WriteFails, frameVars
  <2>4. CASE Sync(t)
    BY <2>4 DEF Sync
  <2> QED BY <1>5, <2>1, <2>2, <2>3, <2>4 DEF Step
<1>6. CASE Kill \/ PowerLoss \/ UNCHANGED vars
  <2>1. UNCHANGED frameVars
    BY <1>6 DEF Kill, PowerLoss, Restart, vars
  <2> QED BY <1>2, <2>1 DEF frameVars
<1> QED BY <1>2, <1>5, <1>6 DEF Next

(* When append_frame returns, the frame's place is behind all others.       *)
LEMMA SyncAppends ==
  ASSUME AInv, AInv', NEW t \in Thread, Sync(t)
  PROVE  /\ acked' = acked \cup {cur[t]}
         /\ \A d \in acked : d # cur[t] /\ Place(d) < Place(cur[t])'
<1>1. /\ LInv /\ OwnInv /\ TypeOK /\ AckInv /\ pc[t] = "write" /\ next_part[t] > 3
      /\ UNCHANGED <<file, cur>> /\ acked' = acked \cup {cur[t]}
  BY DEF AInv, LInv, Sync, NewLine
<1>2. next_part[t] = 4
  BY <1>1, NextPart
<1>3. /\ DOMAIN file = 1 .. Len(file) /\ Len(file) \in Nat /\ synced \in Nat
      /\ synced <= Len(file)
  BY <1>1, FileTypes DEF TypeOK
<1>4. Written(t)
  BY <1>1, <1>2 DEF LInv, CallInv
<1> DEFINE p == Len(file) - 2
<1>5. p \in DOMAIN file /\ file[p].frame = cur[t]
  <2>1. 4 <= Len(file) + 1 /\ file[Len(file) + 1 - 4 + 1].frame = cur[t]
    BY <1>2, <1>4 DEF Written
  <2> QED BY <1>3, <2>1
<1>6. \A k \in DOMAIN file : k < p => file[k].frame # cur[t]
  <2>1. \A k \in DOMAIN file : k + 4 <= Len(file) + 1 => file[k].frame # cur[t]
    BY <1>1, <1>2 DEF OwnInv
  <2> QED BY <1>3, <2>1
<1>7. Place(cur[t]) = p
  <2>1. IsPlace(cur[t], p)
    BY <1>3, <1>5, <1>6 DEF IsPlace
  <2> HIDE DEF p
  <2> QED BY <1>1, <2>1, PlaceIs
<1>8. Place(cur[t])' = Place(cur[t])
  BY <1>1 DEF Place
<1>9. ASSUME NEW d \in acked PROVE d # cur[t] /\ Place(d) < p
  <2>1. d # cur[t]
    BY <1>1 DEF OwnInv
  <2>2. PICK k \in DOMAIN file : k + 2 <= synced /\ First(d, k)
    BY <1>1 DEF AckInv
  <2>3. IsPlace(d, Place(d)) /\ Place(d) <= k
    BY <1>1, <2>2, PlaceExists DEF First
  <2>4. Place(d) \in DOMAIN file /\ Place(d) # p
    BY <1>5, <2>1, <2>3 DEF IsPlace
  <2>5. k <= p
    BY <1>3, <2>2
  <2> QED BY <1>3, <1>5, <2>1, <2>3, <2>4, <2>5
<1> QED BY <1>1, <1>7, <1>8, <1>9

(* "Append-only": whatever threads, failing writes, kills and power losses  *)
(* do, the frames whose append returned are a log to which entries are      *)
(* added at the end, one at a time, and of which nothing is changed.        *)
THEOREM LedgerIsLog == Spec => ImplementsLog
<1>1. Init => Ledger!Init
  BY DEF Init, Ledger!Init, Confirmed
<1>2. AInv /\ AInv' /\ [Next]_vars => [Ledger!Next]_Confirmed
  <2> SUFFICES ASSUME AInv, AInv', [Next]_vars PROVE [Ledger!Next]_Confirmed
    OBVIOUS
  <2>1. \A f \in acked : f \in acked' /\ Entry(f)' = Entry(f)
    BY EntriesStay DEF Entry
  <2>2. Confirmed = {Entry(f) : f \in acked} /\ Confirmed' = {Entry(f)' : f \in acked'}
    BY DEF Confirmed, Entry
  <2>3. CASE acked' = acked
    BY <2>1, <2>2, <2>3
  <2>4. ASSUME NEW t \in Thread, Sync(t) PROVE Ledger!Next
    <3>1. /\ acked' = acked \cup {cur[t]}
          /\ \A d \in acked : d # cur[t] /\ Place(d) < Place(cur[t])'
      BY <2>4, SyncAppends
    <3>2. cur' = cur
      BY <2>4 DEF Sync
    <3>3. PICK f : f = cur[t]
      OBVIOUS
    <3>4. PICK e : e = Entry(f)'
      OBVIOUS
    <3>5. Confirmed' = Confirmed \cup {e}
      BY <2>1, <2>2, <3>1, <3>3, <3>4
    <3>6. e.frame = f /\ e.place = Place(f)'
      BY <3>4 DEF Entry
    <3>7. Place(cur[t])' = Place(f)'
      BY <3>2, <3>3
    <3>8. \A d \in Confirmed : d.frame # e.frame /\ d.place < e.place
      <4> SUFFICES ASSUME NEW g \in acked
                   PROVE  Entry(g).frame # e.frame /\ Entry(g).place < e.place
        BY <2>2
      <4>1. Entry(g).frame = g /\ Entry(g).place = Place(g)
        BY DEF Entry
      <4> QED BY <3>1, <3>3, <3>6, <3>7, <4>1
    <3> QED BY <3>5, <3>8 DEF Ledger!Next, Ledger!Append
  <2>5. ASSUME NEW t \in Thread, Step(t), ~Sync(t) PROVE acked' = acked
    BY <2>5 DEF Step, Begin, Replace, SaveFails, SyncDir, ReadTail, Refuse, Write, WriteFails,
                frameVars
  <2>6. CASE Kill \/ PowerLoss \/ UNCHANGED vars
    <3>1. UNCHANGED frameVars
      BY <2>6 DEF Kill, PowerLoss, Restart, vars
    <3> QED BY <2>3, <3>1 DEF frameVars
  <2> QED BY <2>3, <2>4, <2>5, <2>6 DEF Next
<1> QED BY <1>1, <1>2, OwnInvariant, PTL DEF Spec, ImplementsLog, Ledger!Spec
=============================================================================
