---------------------------- MODULE SessionProofs ----------------------------
(***************************************************************************)
(* Proofs about Session, for any number of peers, calls, disconnect()s and *)
(* power failures, and tables of every size: the safety invariants and the *)
(* torn write; and about BtLink, the engine the session drives: that it    *)
(* never parts from the air, keeps the promise LinkOps states, and keeps   *)
(* the keys that still work.                                               *)
(***************************************************************************)
EXTENDS Session, BtLink, SequenceTheorems, WellFoundedInduction, TLAPS

-----------------------------------------------------------------------------
(* Bonds: what becomes of a table, and of its image.                        *)

LEMMA TableIs ==
  ASSUME NEW t \in Tables
  PROVE  /\ Len(t) \in 0..MaxBonds /\ t \in [1..Len(t) -> Peers] /\ t \in Seq(Peers)
         /\ \A i, j \in 1..Len(t) : t[i] = t[j] => i = j
  <1>1. PICK m \in 0..MaxBonds : t \in [1..m -> Peers]
    BY DEF Tables, SeqOf
  <1>2. m \in Nat
    BY BoundsAssumption
  <1>3. Len(t) = m /\ t \in Seq(Peers) /\ DOMAIN t = 1..m
    BY <1>1, <1>2
  <1> QED BY <1>1, <1>3 DEF Tables, IsInjective

LEMMA IsTable ==
  ASSUME NEW t \in Seq(Peers), Len(t) <= MaxBonds,
         \A i, j \in 1..Len(t) : t[i] = t[j] => i = j
  PROVE  t \in Tables
  <1>1. Len(t) \in 0..MaxBonds /\ t \in [1..Len(t) -> Peers]
    BY BoundsAssumption
  <1> QED BY <1>1 DEF Tables, SeqOf, IsInjective

LEMMA NoTable == <<>> \in Tables
  <1>1. <<>> \in Seq(Peers) /\ Len(<<>>) <= MaxBonds /\ 1..Len(<<>>) = {}
    BY BoundsAssumption
  <1> QED BY <1>1, IsTable

\* A table without one of its bonds.
LEMMA RemovedIs ==
  ASSUME NEW t \in Tables, NEW k \in 1..Len(t)
  PROVE  LET r == RemoveAt(t, k)
         IN /\ r \in Seq(Peers) /\ Len(r) = Len(t) - 1
            /\ \A i \in 1..Len(r) : r[i] = IF i < k THEN t[i] ELSE t[i + 1]
  <1> DEFINE n == Len(t)
             a == SubSeq(t, 1, k - 1)
             b == SubSeq(t, k + 1, n)
  <1>1. t \in Seq(Peers) /\ n \in Nat /\ k \in 1..n
    BY TableIs
  <1>2. a \in Seq(Peers) /\ Len(a) = k - 1 /\ \A i \in 1..(k - 1) : a[i] = t[i]
    BY <1>1, SubSeqProperties
  <1>3. b \in Seq(Peers) /\ Len(b) = n - k /\ \A i \in 1..(n - k) : b[i] = t[k + i]
    BY <1>1, SubSeqProperties
  <1>4. RemoveAt(t, k) = a \o b
    BY DEF RemoveAt
  <1> HIDE DEF a, b
  <1>5. /\ a \o b \in Seq(Peers) /\ Len(a \o b) = n - 1
        /\ \A i \in 1..(n - 1) : (a \o b)[i] = IF i < k THEN a[i] ELSE b[i - (k - 1)]
    <2>1. /\ a \o b \in Seq(Peers) /\ Len(a \o b) = Len(a) + Len(b)
          /\ \A i \in 1..(Len(a) + Len(b)) : (a \o b)[i] = IF i <= Len(a) THEN a[i] ELSE b[i - Len(a)]
      BY <1>2, <1>3, ConcatProperties
    <2>2. Len(a) + Len(b) = n - 1 /\ Len(a) = k - 1 /\ n \in Nat /\ k \in 1..n
      BY <1>1, <1>2, <1>3
    <2> DEFINE q == a \o b
    <2> HIDE DEF q, n
    <2>3. \A i \in 1..(n - 1) : q[i] = IF i <= k - 1 THEN a[i] ELSE b[i - (k - 1)]
      BY <2>1, <2>2 DEF q
    <2>4. \A i \in 1..(n - 1) : i <= k - 1 <=> i < k
      BY <2>2
    <2> QED BY <2>1, <2>2, <2>3, <2>4 DEF q
  <1> DEFINE r == a \o b
  <1>6. ASSUME NEW i \in 1..(n - 1) PROVE r[i] = IF i < k THEN t[i] ELSE t[i + 1]
    <2>1. r[i] = IF i < k THEN a[i] ELSE b[i - (k - 1)]
      BY <1>5
    <2> HIDE DEF r
    <2>2. CASE i < k
      BY <1>1, <1>2, <2>1, <2>2
    <2>3. CASE ~(i < k)
      <3>1. i - (k - 1) \in 1..(n - k) /\ k + (i - (k - 1)) = i + 1
        BY <1>1, <2>3
      <3> QED BY <1>3, <2>1, <2>3, <3>1
    <2> QED BY <2>2, <2>3
  <1> HIDE DEF r
  <1> QED BY <1>4, <1>5, <1>6 DEF r

LEMMA ErasedFrom ==
  ASSUME NEW t \in Tables, NEW k \in 1..Len(t)
  PROVE  RemoveAt(t, k) \in Tables
  <1> DEFINE r == RemoveAt(t, k)
  <1>1. /\ r \in Seq(Peers) /\ Len(r) = Len(t) - 1
        /\ \A i \in 1..Len(r) : r[i] = IF i < k THEN t[i] ELSE t[i + 1]
    BY RemovedIs
  <1>2. Len(t) \in 0..MaxBonds /\ MaxBonds \in Nat /\ \A i, j \in 1..Len(t) : t[i] = t[j] => i = j
    BY TableIs, BoundsAssumption
  <1> HIDE DEF r
  <1>3. ASSUME NEW i \in 1..Len(r), NEW j \in 1..Len(r), r[i] = r[j] PROVE i = j
    <2> DEFINE u == IF i < k THEN i ELSE i + 1
               v == IF j < k THEN j ELSE j + 1
    <2>1. u \in 1..Len(t) /\ v \in 1..Len(t) /\ (u = v => i = j)
      BY <1>1, <1>2
    <2>2. r[i] = t[u] /\ r[j] = t[v]
      BY <1>1
    <2> HIDE DEF u, v
    <2> QED BY <1>2, <1>3, <2>1, <2>2
  <1>4. Len(r) <= MaxBonds
    BY <1>1, <1>2
  <1>5. r \in Tables
    BY <1>1, <1>3, <1>4, IsTable
  <1> QED BY <1>5 DEF r

\* A bond that is put before others, none of which is its own.
LEMMA PutFirst ==
  ASSUME NEW p \in Peers, NEW r \in Seq(Peers), Len(r) < MaxBonds,
         \A i, j \in 1..Len(r) : r[i] = r[j] => i = j, \A i \in 1..Len(r) : r[i] # p
  PROVE  <<p>> \o r \in Tables
  <1> DEFINE q == <<p>> \o r
  <1>1. <<p>> \in Seq(Peers) /\ Len(<<p>>) = 1 /\ <<p>>[1] = p /\ Len(r) \in Nat
    OBVIOUS
  <1>2. /\ q \in Seq(Peers) /\ Len(q) = Len(r) + 1
        /\ \A i \in 1..Len(q) : q[i] = IF i <= 1 THEN <<p>>[i] ELSE r[i - 1]
    <2> DEFINE s == <<p>>
    <2> HIDE DEF s
    <2>1. /\ s \o r \in Seq(Peers) /\ Len(s \o r) = Len(s) + Len(r)
          /\ \A i \in 1..(Len(s) + Len(r)) : (s \o r)[i] = IF i <= Len(s) THEN s[i] ELSE r[i - Len(s)]
      BY <1>1, ConcatProperties DEF s
    <2> QED BY <1>1, <2>1 DEF s
  <1>3. q[1] = p /\ \A i \in 2..Len(q) : q[i] = r[i - 1] /\ i - 1 \in 1..Len(r)
    BY <1>1, <1>2
  <1> HIDE DEF q
  <1>4. ASSUME NEW i \in 1..Len(q), NEW j \in 1..Len(q), q[i] = q[j] PROVE i = j
    <2>1. CASE i = 1 /\ j = 1
      BY <2>1
    <2>2. CASE i = 1 /\ j # 1
      BY <1>1, <1>2, <1>3, <1>4, <2>2
    <2>3. CASE i # 1 /\ j = 1
      BY <1>1, <1>2, <1>3, <1>4, <2>3
    <2>4. CASE i # 1 /\ j # 1
      <3>1. r[i - 1] = r[j - 1] /\ i - 1 \in 1..Len(r) /\ j - 1 \in 1..Len(r)
        BY <1>1, <1>2, <1>3, <1>4, <2>4
      <3>2. i - 1 = j - 1
        BY <3>1
      <3> QED BY <1>1, <1>2, <3>2
    <2> QED BY <2>1, <2>2, <2>3, <2>4
  <1>5. Len(q) <= MaxBonds
    BY <1>1, <1>2, BoundsAssumption
  <1>6. q \in Tables
    BY <1>2, <1>4, <1>5, IsTable
  <1> QED BY <1>6 DEF q

LEMMA MovedIs ==
  ASSUME NEW t \in Tables, NEW k \in 1..Len(t)
  PROVE  MovedToFront(t, k) \in Tables
  <1> DEFINE r == RemoveAt(t, k)
  <1>1. /\ r \in Seq(Peers) /\ Len(r) = Len(t) - 1
        /\ \A i \in 1..Len(r) : r[i] = IF i < k THEN t[i] ELSE t[i + 1]
    BY RemovedIs
  <1>2. /\ Len(t) \in 0..MaxBonds /\ MaxBonds \in Nat /\ t[k] \in Peers
        /\ \A i, j \in 1..Len(t) : t[i] = t[j] => i = j
    BY TableIs, BoundsAssumption
  <1>3. r \in Tables
    BY ErasedFrom
  <1> HIDE DEF r
  <1>4. ASSUME NEW i \in 1..Len(r) PROVE r[i] # t[k]
    <2> DEFINE u == IF i < k THEN i ELSE i + 1
    <2>1. u \in 1..Len(t) /\ u # k
      BY <1>1, <1>2
    <2>2. r[i] = t[u]
      BY <1>1
    <2> HIDE DEF u
    <2> QED BY <1>2, <2>1, <2>2
  <1>5. \A i, j \in 1..Len(r) : r[i] = r[j] => i = j
    BY <1>3, TableIs
  <1>6. Len(r) < MaxBonds
    BY <1>1, <1>2
  <1>7. <<t[k]>> \o r \in Tables
    BY <1>1, <1>2, <1>4, <1>5, <1>6, PutFirst
  <1> QED BY <1>7 DEF MovedToFront, r

LEMMA AtIs ==
  ASSUME NEW t, NEW p, Contains(t, p)
  PROVE  At(t, p) \in 1..Len(t)
  BY DEF Contains, At

\* touch(), erase() and upsert() leave a table: no more than fit, and none twice.
LEMMA BondsStayATable ==
  ASSUME NEW t \in Tables, NEW p
  PROVE  /\ Touch(t, p) \in Tables /\ Erase(t, p) \in Tables
         /\ p \in Peers => Upsert(t, p) \in Tables
  <1>1. CASE Contains(t, p)
    <2>1. At(t, p) \in 1..Len(t)
      BY <1>1, AtIs
    <2>2. MovedToFront(t, At(t, p)) \in Tables /\ RemoveAt(t, At(t, p)) \in Tables
      BY <2>1, MovedIs, ErasedFrom
    <2> QED BY <1>1, <2>2 DEF Touch, Erase, Upsert
  <1>2. CASE ~Contains(t, p)
    <2> DEFINE m == IF Len(t) < MaxBonds THEN Len(t) ELSE MaxBonds - 1
               r == SubSeq(t, 1, m)
    <2>1. /\ Len(t) \in 0..MaxBonds /\ MaxBonds \in Nat \ {0} /\ t \in Seq(Peers)
          /\ \A i, j \in 1..Len(t) : t[i] = t[j] => i = j
      BY TableIs, BoundsAssumption
    <2>2. m \in 0..Len(t) /\ m < MaxBonds /\ 1..m \subseteq 1..Len(t)
      BY <2>1
    <2> HIDE DEF m
    <2>3. r \in Seq(Peers) /\ Len(r) = m /\ \A i \in 1..m : r[i] = t[i]
      BY <2>1, <2>2, SubSeqProperties
    <2>4. \A i \in 1..Len(t) : t[i] # p
      BY <1>2 DEF Contains
    <2> HIDE DEF r
    <2>5. p \in Peers => <<p>> \o r \in Tables
      <3>1. \A i, j \in 1..Len(r) : r[i] = r[j] => i = j
        BY <2>1, <2>2, <2>3
      <3>2. \A i \in 1..Len(r) : r[i] # p
        BY <2>2, <2>3, <2>4
      <3>3. Len(r) < MaxBonds
        BY <2>2, <2>3
      <3> QED BY <2>3, <3>1, <3>2, <3>3, PutFirst
    <2> QED BY <1>2, <2>5 DEF Touch, Erase, Upsert, r, m
  <1> QED BY <1>1, <1>2

-----------------------------------------------------------------------------
(* The image in EEPROM.                                                     *)

\* What a cell can hold.
Cell == 0..MaxBonds \cup Peers \cup {Blank} \cup {Seal(t) : t \in Tables}

\* An image whose last cell is blank, or was written with one of the tables S.
Remains(S) ==
  {img \in Seq(Cell) :
     /\ Len(img) = MaxBonds + 3
     /\ img[1] \in 0..MaxBonds \cup {Blank}
     /\ \A i \in 2..(MaxBonds + 1) : img[i] \in Peers \cup {Blank}
     /\ img[MaxBonds + 3] \in {Blank} \cup {Seal(t) : t \in S}}

\* save(): the cells of a whole image.
LEMMA ImageCells ==
  ASSUME NEW t \in Tables
  PROVE  /\ Image(t) \in Seq(Cell) /\ Len(Image(t)) = MaxBonds + 3
         /\ Image(t)[1] = Len(t)
         /\ \A i \in 1..MaxBonds : Image(t)[i + 1] = Filled(t)[i]
         /\ Image(t)[MaxBonds + 2] = Seal(t) /\ Image(t)[MaxBonds + 3] = Seal(t)
  <1> DEFINE C == Cell
             head == <<Len(t)>>
             tail == <<Seal(t), Seal(t)>>
  <1>1. t \in Seq(Peers) /\ t \in [1..Len(t) -> Peers] /\ Len(t) \in 0..MaxBonds /\ MaxBonds \in Nat
    BY TableIs, BoundsAssumption
  <1>2. Filled(t) \in Seq(C) /\ Len(Filled(t)) = MaxBonds
    <2>1. \A i \in 1..MaxBonds : (IF i <= Len(t) THEN t[i] ELSE Blank) \in C
      BY <1>1 DEF Cell
    <2> QED BY <1>1, <2>1 DEF Filled
  <1>3. /\ head \in Seq(C) /\ Len(head) = 1 /\ head[1] = Len(t)
        /\ tail \in Seq(C) /\ Len(tail) = 2 /\ tail[1] = Seal(t) /\ tail[2] = Seal(t)
    <2>1. Len(t) \in C /\ Seal(t) \in C
      BY <1>1 DEF Cell
    <2> HIDE DEF C
    <2> QED BY <2>1
  <1>4. Image(t) = (head \o Filled(t)) \o tail
    BY DEF Image
  <1> DEFINE front == head \o Filled(t)
  <1>5. /\ front \in Seq(C) /\ Len(front) = MaxBonds + 1
        /\ front[1] = Len(t) /\ \A i \in 1..MaxBonds : front[i + 1] = Filled(t)[i]
    <2> HIDE DEF C, head
    <2>1. /\ front \in Seq(C) /\ Len(front) = Len(head) + Len(Filled(t))
          /\ \A i \in 1..(Len(head) + Len(Filled(t))) :
               front[i] = IF i <= Len(head) THEN head[i] ELSE Filled(t)[i - Len(head)]
      <3> DEFINE f == Filled(t)
      <3>1. f \in Seq(C) /\ head \in Seq(C)
        BY <1>2, <1>3
      <3> HIDE DEF f
      <3>2. /\ head \o f \in Seq(C) /\ Len(head \o f) = Len(head) + Len(f)
            /\ \A i \in 1..(Len(head) + Len(f)) :
                 (head \o f)[i] = IF i <= Len(head) THEN head[i] ELSE f[i - Len(head)]
        BY <3>1, ConcatProperties
      <3> QED BY <3>2 DEF f
    <2> HIDE DEF front
    <2>2. \A i \in 1..(1 + MaxBonds) : front[i] = IF i <= 1 THEN head[i] ELSE Filled(t)[i - 1]
      BY <1>2, <1>3, <2>1
    <2>3. ASSUME NEW i \in 1..MaxBonds PROVE front[i + 1] = Filled(t)[i]
      <3>1. i + 1 \in 1..(1 + MaxBonds) /\ ~(i + 1 <= 1) /\ (i + 1) - 1 = i
        BY <1>1
      <3> QED BY <2>2, <3>1
    <2>4. front[1] = head[1]
      <3>1. 1 \in 1..(1 + MaxBonds)
        BY <1>1
      <3> QED BY <2>2, <3>1
    <2> QED BY <1>1, <1>2, <1>3, <2>1, <2>3, <2>4
  <1> HIDE DEF C, head, tail, front
  <1> DEFINE img == front \o tail
  <1>6. /\ img \in Seq(C) /\ Len(img) = MaxBonds + 3
        /\ \A i \in 1..(MaxBonds + 3) :
             img[i] = IF i <= MaxBonds + 1 THEN front[i] ELSE tail[i - (MaxBonds + 1)]
    <2>1. /\ front \o tail \in Seq(C) /\ Len(front \o tail) = Len(front) + Len(tail)
          /\ \A i \in 1..(Len(front) + Len(tail)) :
               (front \o tail)[i] = IF i <= Len(front) THEN front[i] ELSE tail[i - Len(front)]
      <3>1. front \in Seq(C) /\ tail \in Seq(C)
        BY <1>3, <1>5
      <3> QED BY <3>1, ConcatProperties
    <2>2. Len(front) + Len(tail) = MaxBonds + 3 /\ Len(front) = MaxBonds + 1
      BY <1>1, <1>3, <1>5
    <2> QED BY <2>1, <2>2
  <1> HIDE DEF img
  <1>7. img[1] = Len(t) /\ \A i \in 1..MaxBonds : img[i + 1] = Filled(t)[i]
    <2>1. /\ 1 \in 1..(MaxBonds + 3) /\ 1 <= MaxBonds + 1
          /\ \A i \in 1..MaxBonds : i + 1 \in 1..(MaxBonds + 3) /\ i + 1 <= MaxBonds + 1
      BY <1>1
    <2> QED BY <1>5, <1>6, <2>1
  <1>8. img[MaxBonds + 2] = Seal(t) /\ img[MaxBonds + 3] = Seal(t)
    <2> DEFINE j == MaxBonds + 2
               k == MaxBonds + 3
               m == MaxBonds + 1
    <2>2. /\ j \in 1..k /\ ~(j <= m) /\ j - m = 1 /\ k \in 1..k /\ ~(k <= m) /\ k - m = 2
      BY <1>1
    <2>3. \A i \in 1..k : ~(i <= m) => img[i] = tail[i - m]
      BY <1>6
    <2> HIDE DEF j, k, m
    <2>4. img[j] = tail[1] /\ img[k] = tail[2]
      BY <2>2, <2>3
    <2> QED BY <1>3, <2>4 DEF j, k
  <1> QED BY <1>4, <1>6, <1>7, <1>8 DEF C, front, img

LEMMA WholeImage ==
  ASSUME NEW S \in SUBSET Tables, NEW t \in S
  PROVE  Image(t) \in Remains(S)
  <1>1. /\ Image(t) \in Seq(Cell) /\ Len(Image(t)) = MaxBonds + 3
        /\ Image(t)[1] = Len(t)
        /\ \A i \in 1..MaxBonds : Image(t)[i + 1] = Filled(t)[i]
        /\ Image(t)[MaxBonds + 3] = Seal(t)
    BY ImageCells
  <1>2. Len(t) \in 0..MaxBonds /\ t \in [1..Len(t) -> Peers] /\ MaxBonds \in Nat
    BY TableIs, BoundsAssumption
  <1>3. ASSUME NEW i \in 2..(MaxBonds + 1) PROVE Image(t)[i] \in Peers \cup {Blank}
    <2>1. i - 1 \in 1..MaxBonds /\ (i - 1) + 1 = i
      BY <1>2
    <2>2. Image(t)[i] = Filled(t)[i - 1]
      BY <1>1, <2>1
    <2>3. Filled(t)[i - 1] \in Peers \cup {Blank}
      BY <1>2, <2>1 DEF Filled
    <2> QED BY <2>2, <2>3
  <1> QED BY <1>1, <1>2, <1>3 DEF Remains

LEMMA ErasedImage == Erased \in Remains({})
  <1>1. MaxBonds + 3 \in Nat /\ MaxBonds \in Nat /\ Blank \in Cell
    BY BoundsAssumption DEF Cell
  <1>2. Erased \in Seq(Cell) /\ Len(Erased) = MaxBonds + 3
    BY <1>1 DEF Erased
  <1>3. \A i \in 1..(MaxBonds + 3) : Erased[i] = Blank
    BY DEF Erased
  <1>4. 1 \in 1..(MaxBonds + 3) /\ MaxBonds + 3 \in 1..(MaxBonds + 3)
        /\ 2..(MaxBonds + 1) \subseteq 1..(MaxBonds + 3)
    BY <1>1
  <1> QED BY <1>2, <1>3, <1>4 DEF Remains

\* Each cell of a torn image is that of the one or of the other.
LEMMA TornCells ==
  ASSUME NEW old \in Seq(Cell), Len(old) = MaxBonds + 3,
         NEW new \in Seq(Cell), Len(new) = MaxBonds + 3, NEW n \in 0..(MaxBonds + 3)
  PROVE  /\ Torn(old, new, n) \in Seq(Cell) /\ Len(Torn(old, new, n)) = MaxBonds + 3
         /\ \A i \in 1..(MaxBonds + 3) : Torn(old, new, n)[i] \in {old[i], new[i]}
  <1> DEFINE a == SubSeq(new, 1, n)
             b == SubSeq(old, n + 1, MaxBonds + 3)
  <1>0. MaxBonds \in Nat
    BY BoundsAssumption
  <1>1. a \in Seq(Cell) /\ Len(a) = n /\ \A i \in 1..n : a[i] = new[i]
    BY <1>0, SubSeqProperties
  <1>2. /\ b \in Seq(Cell) /\ Len(b) = MaxBonds + 3 - n
        /\ \A i \in 1..(MaxBonds + 3 - n) : b[i] = old[n + i]
    BY <1>0, SubSeqProperties
  <1> HIDE DEF a, b
  <1> DEFINE img == a \o b
  <1>3. /\ img \in Seq(Cell) /\ Len(img) = MaxBonds + 3
        /\ \A i \in 1..(MaxBonds + 3) : img[i] = IF i <= n THEN a[i] ELSE b[i - n]
    <2>1. /\ a \o b \in Seq(Cell) /\ Len(a \o b) = Len(a) + Len(b)
          /\ \A i \in 1..(Len(a) + Len(b)) :
               (a \o b)[i] = IF i <= Len(a) THEN a[i] ELSE b[i - Len(a)]
      <3>1. a \in Seq(Cell) /\ b \in Seq(Cell)
        BY <1>1, <1>2
      <3> QED BY <3>1, ConcatProperties
    <2>2. Len(a) = n /\ Len(a) + Len(b) = MaxBonds + 3
      BY <1>0, <1>1, <1>2
    <2>3. \A i \in 1..(MaxBonds + 3) : img[i] = IF i <= n THEN a[i] ELSE b[i - n]
      BY <2>1, <2>2, Zenon
    <2>4. img \in Seq(Cell) /\ Len(img) = MaxBonds + 3
      BY <2>1, <2>2, Zenon
    <2> QED BY <2>3, <2>4
  <1> HIDE DEF img
  <1>4. ASSUME NEW i \in 1..(MaxBonds + 3) PROVE img[i] \in {old[i], new[i]}
    <2>1. CASE i <= n
      <3>1. i \in 1..n
        BY <2>1
      <3> QED BY <1>1, <1>3, <2>1, <3>1
    <2>2. CASE ~(i <= n)
      <3>1. i - n \in 1..(MaxBonds + 3 - n) /\ n + (i - n) = i
        BY <1>0, <2>2
      <3> QED BY <1>2, <1>3, <2>2, <3>1
    <2> QED BY <2>1, <2>2
  <1> QED BY <1>3, <1>4 DEF Torn, a, b, img

\* load(): an image with the seal of a table is that table.
LEMMA SealedTable ==
  ASSUME NEW t \in Tables, NEW img \in Seq(Cell), Len(img) = MaxBonds + 3,
         img[1] = Len(t), SubSeq(img, 2, MaxBonds + 1) = Filled(t)
  PROVE  SubSeq(img, 2, img[1] + 1) = t
  <1>1. t \in Seq(Peers) /\ Len(t) \in 0..MaxBonds /\ MaxBonds \in Nat
    BY TableIs, BoundsAssumption
  <1> DEFINE whole == SubSeq(img, 2, MaxBonds + 1)
             part == SubSeq(img, 2, Len(t) + 1)
  <1>2. \A i \in 1..MaxBonds : whole[i] = img[i + 1]
    BY <1>1, SubSeqProperties
  <1>3. part \in Seq(Cell) /\ Len(part) = Len(t) /\ \A i \in 1..Len(t) : part[i] = img[i + 1]
    BY <1>1, SubSeqProperties
  <1>4. \A i \in 1..Len(t) : whole[i] = t[i]
    BY <1>1 DEF Filled
  <1> HIDE DEF whole, part
  <1>5. \A i \in 1..Len(t) : part[i] = t[i]
    BY <1>1, <1>2, <1>3, <1>4
  <1>6. part = t
    BY <1>1, <1>3, <1>5, SeqEqual
  <1> QED BY <1>6 DEF part

\* load() of what was left of writes of the tables S.
LEMMA LoadedIs ==
  ASSUME NEW S \in SUBSET Tables, NEW img \in Remains(S)
  PROVE  Load(img) \in S \cup {<<>>}
  <1>1. /\ img \in Seq(Cell) /\ Len(img) = MaxBonds + 3
        /\ img[1] \in 0..MaxBonds \cup {Blank}
        /\ \A i \in 2..(MaxBonds + 1) : img[i] \in Peers \cup {Blank}
        /\ img[MaxBonds + 3] \in {Blank} \cup {Seal(t) : t \in S}
    BY DEF Remains
  <1>2. CASE ~Intact(img)
    BY <1>2 DEF Load
  <1>3. CASE Intact(img)
    <2> DEFINE entries == SubSeq(img, 2, MaxBonds + 1)
    <2>1. img[MaxBonds + 3] = Crc(img[1], entries) /\ img[1] \in 0..MaxBonds
      BY <1>1, <1>3 DEF Intact
    <2>2. entries \in [1..MaxBonds -> Peers \cup {Blank}]
      <3>0. MaxBonds \in Nat
        BY BoundsAssumption
      <3>1. entries \in Seq(Cell) /\ Len(entries) = MaxBonds
            /\ \A i \in 1..MaxBonds : entries[i] = img[i + 1]
        BY <1>1, <3>0, SubSeqProperties
      <3>2. \A i \in 1..MaxBonds : i + 1 \in 2..(MaxBonds + 1)
        BY <3>0
      <3>3. \A i \in 1..MaxBonds : entries[i] \in Peers \cup {Blank}
        BY <1>1, <3>1, <3>2
      <3> HIDE DEF entries
      <3> QED BY <3>1, <3>3
    <2> HIDE DEF entries
    <2>3. img[MaxBonds + 3] # Blank
      BY <2>1, <2>2, BlankAssumption
    <2>4. PICK t \in S : img[MaxBonds + 3] = Seal(t)
      BY <1>1, <2>3
    <2>5. img[1] = Len(t) /\ entries = Filled(t)
      BY <2>1, <2>4 DEF Seal, Crc
    <2>6. SubSeq(img, 2, img[1] + 1) = t
      <3>1. t \in Tables
        OBVIOUS
      <3> QED BY <1>1, <2>5, <3>1, SealedTable DEF entries
    <2> QED BY <2>6 DEF Load
  <1> QED BY <1>2, <1>3

\* load() of a table that was saved.
LEMMA LoadSaved ==
  ASSUME NEW t \in Tables
  PROVE  Load(Image(t)) = t
  <1> DEFINE img == Image(t)
             entries == SubSeq(img, 2, MaxBonds + 1)
  <1>1. /\ img \in Seq(Cell) /\ Len(img) = MaxBonds + 3 /\ img[1] = Len(t)
        /\ \A i \in 1..MaxBonds : img[i + 1] = Filled(t)[i]
        /\ img[MaxBonds + 2] = Seal(t) /\ img[MaxBonds + 3] = Seal(t)
    BY ImageCells
  <1>2. Len(t) \in 0..MaxBonds /\ MaxBonds \in Nat /\ \A i, j \in 1..Len(t) : t[i] = t[j] => i = j
    BY TableIs, BoundsAssumption
  <1> HIDE DEF img
  <1>3. entries \in Seq(Cell) /\ Len(entries) = MaxBonds
        /\ \A i \in 1..MaxBonds : entries[i] = img[i + 1]
    BY <1>1, <1>2, SubSeqProperties
  <1>4. entries = Filled(t)
    <2>1. entries \in [1..MaxBonds -> Cell]
      <3> HIDE DEF entries
      <3> QED BY <1>3
    <2>2. \A i \in 1..MaxBonds : entries[i] = Filled(t)[i]
      BY <1>1, <1>3
    <2> HIDE DEF entries
    <2> QED BY <2>1, <2>2 DEF Filled
  <1>5. img[1] # Blank
    BY <1>1, <1>2, BlankAssumption
  <1>6. Intact(img)
    BY <1>1, <1>4, <1>5 DEF Intact, Seal
  <1>7. SubSeq(img, 2, img[1] + 1) = t
    BY <1>1, <1>4, SealedTable
  <1>8. IsInjective(t)
    BY DEF Tables
  <1> QED BY <1>6, <1>7, <1>8 DEF Load, img

LEMMA LoadErased == Load(Erased) = <<>>
  <1>1. Erased[1] = Blank
    <2>1. 1 \in 1..(MaxBonds + 3)
      BY BoundsAssumption
    <2> QED BY <2>1 DEF Erased
  <1> QED BY <1>1 DEF Load, Intact

\* However many writes of the tables S were cut off, each after any number of cells, what load()
\* accepts is one of those tables as a whole; else it starts empty (BondStoreEeprom::save,
\* BondTable::load).  The remains of one write are such that this holds of the next.
THEOREM TornWriteIsNeverAMix ==
  ASSUME NEW S \in SUBSET Tables, NEW new \in S,
         NEW old \in Remains(S), NEW n \in 0..(MaxBonds + 3)
  PROVE  /\ Load(Torn(old, Image(new), n)) \in S \cup {<<>>}
         /\ Torn(old, Image(new), n) \in Remains(S)
  <1> DEFINE img == Torn(old, Image(new), n)
             img2 == Image(new)
  <1>1. img2 \in Remains(S)
    BY WholeImage
  <1>2. img \in Remains(S)
    <2>1. /\ old \in Seq(Cell) /\ Len(old) = MaxBonds + 3
          /\ img2 \in Seq(Cell) /\ Len(img2) = MaxBonds + 3
      BY <1>1 DEF Remains
    <2> HIDE DEF img2
    <2>2. /\ Torn(old, img2, n) \in Seq(Cell) /\ Len(Torn(old, img2, n)) = MaxBonds + 3
          /\ \A i \in 1..(MaxBonds + 3) : Torn(old, img2, n)[i] \in {old[i], img2[i]}
      BY <2>1, TornCells
    <2>3. /\ 1 \in 1..(MaxBonds + 3) /\ MaxBonds + 3 \in 1..(MaxBonds + 3)
          /\ 2..(MaxBonds + 1) \subseteq 1..(MaxBonds + 3)
      BY BoundsAssumption
    <2> DEFINE w == Torn(old, img2, n)
    <2> HIDE DEF w
    <2>4. w \in Remains(S)
      BY <1>1, <2>2, <2>3 DEF w, Remains
    <2> QED BY <2>4 DEF w, img2
  <1> QED BY <1>2, LoadedIs
-----------------------------------------------------------------------------
(* What a tick maps, typed.                                                 *)

SessionStates == {"LISTENING", "CONNECTING", "WAITING", "STREAMING", "DISCONNECTING", "MANUAL"}
Down == {"DISCONNECTING", "MANUAL"}
StatesOf(r) ==
  IF r = "source" THEN SessionStates \ {"LISTENING"} ELSE SessionStates \ {"WAITING"}

AnyLink == [op : Ops, result : {"OK", "FAILED"}, st : {"NONE", "UP", "SECURE", "LOST"},
            bd : Peers \cup {None}, handle : Peers \cup {None}, inboundUp : BOOLEAN]
AnyAttempt == [st : SourceStates, result : Results, kind : {"PAGE", "INQUIRY", "INBOUND"},
               page : Peers \cup {None}, issued : BOOLEAN]
AnySession == [state : SessionStates, boot : BOOLEAN, idx : 0..MaxBonds, inq : BOOLEAN,
               lost : Peers \cup {None}, win : BOOLEAN,
               end : {"NONE", "TIMEOUT", "PAIRED", "CANCELLED"}]
AnyApp == [stopped : BOOLEAN, up : BOOLEAN, peer : Peers \cup {None}, tried : SUBSET Peers,
           moved : BOOLEAN, paired : BOOLEAN]
AnyBonds == [table : Tables, dirty : BOOLEAN]
Record == [link : AnyLink, att : AnyAttempt, ses : AnySession, app : AnyApp, bonds : AnyBonds,
           rom : Remains(Tables)]

\* Every matching bond up to the walk's place has been paged; when it asks around, every one.
Walked(z) ==
  z.ses.boot /\ ~z.app.moved =>
    \A i \in 1..Len(z.bonds.table) :
      z.bonds.table[i] \in Matching /\ (z.ses.inq \/ i <= z.ses.idx)
        => z.bonds.table[i] \in z.app.tried

Stopping(z) == z.app.stopped <=> z.ses.state \in Down
Reported(z) == z.app.up <=> z.ses.state = "STREAMING"
Window(r, z) ==
  /\ z.ses.win => z.ses.state \in {"LISTENING", "CONNECTING"} /\ r = "sink" /\ ~z.app.paired
  /\ ~z.ses.win => (z.ses.end = "PAIRED" <=> z.app.paired)
Missed(r, z) ==
  /\ z.ses.lost # None => z.ses.lost = z.app.peer
  /\ r = "sink" => z.ses.lost = None

\* All that is said of the session and the application, but whether the last report is due.
Sound(r, z) ==
  /\ z \in Record /\ z.ses.state \in StatesOf(r)
  /\ Stopping(z) /\ Window(r, z) /\ Missed(r, z) /\ Walked(z)

\* disconnect() leaves everything in order.
LEMMA DisconnectedIs ==
  ASSUME NEW r \in {"source", "sink"}, NEW z, Sound(r, z)
  PROVE  /\ Sound(r, Disconnected(z)) /\ Reported(Disconnected(z))
         /\ Disconnected(z).ses.state = "DISCONNECTING" /\ Disconnected(z).att = Stopped
         /\ Disconnected(z).link = z.link /\ Disconnected(z).rom = z.rom
         /\ Disconnected(z).bonds = z.bonds
  <1> DEFINE w == WindowClosed(z, "CANCELLED")
             y == Disconnected(z)
  <1>1. z \in Record
    BY DEF Sound
  <1>2. /\ w = [z EXCEPT !.ses = w.ses] /\ w.ses \in AnySession
        /\ w.ses = IF z.ses.win THEN [z.ses EXCEPT !.win = FALSE, !.end = "CANCELLED"] ELSE z.ses
    BY <1>1 DEF WindowClosed, Record, AnySession
  <1>3. y = [z EXCEPT !.ses = [w.ses EXCEPT !.state = "DISCONNECTING"], !.att = Stopped,
                      !.app = [z.app EXCEPT !.stopped = TRUE, !.up = FALSE]]
    <2> HIDE DEF w
    <2>1. w \in [link : AnyLink, att : AnyAttempt, ses : AnySession, app : AnyApp,
                 bonds : AnyBonds, rom : Remains(Tables)]
      BY <1>1, <1>2 DEF Record
    <2> QED BY <1>1, <1>2, <2>1 DEF Disconnected, w, Record, AnySession, AnyApp
  <1>4. Stopped \in AnyAttempt
    BY DEF Stopped, Ending, NoAttempt, AnyAttempt, SourceStates, Results
  <1> DEFINE v == [w.ses EXCEPT !.state = "DISCONNECTING"]
             a == [z.app EXCEPT !.stopped = TRUE, !.up = FALSE]
  <1>5. /\ v \in AnySession /\ v.state = "DISCONNECTING" /\ ~v.win
        /\ v.boot = z.ses.boot /\ v.idx = z.ses.idx /\ v.inq = z.ses.inq /\ v.lost = z.ses.lost
        /\ v.end = IF z.ses.win THEN "CANCELLED" ELSE z.ses.end
    <2>1. z.ses \in AnySession
      BY <1>1 DEF Record
    <2>2. /\ w.ses.boot = z.ses.boot /\ w.ses.idx = z.ses.idx /\ w.ses.inq = z.ses.inq
          /\ w.ses.lost = z.ses.lost /\ ~w.ses.win
          /\ w.ses.end = IF z.ses.win THEN "CANCELLED" ELSE z.ses.end
      BY <2>1, <1>2 DEF AnySession
    <2> HIDE DEF w
    <2> QED BY <2>2, <1>2 DEF AnySession, SessionStates
  <1>6. /\ a \in AnyApp /\ a.stopped /\ ~a.up /\ a.peer = z.app.peer /\ a.tried = z.app.tried
        /\ a.moved = z.app.moved /\ a.paired = z.app.paired
    BY <1>1 DEF Record, AnyApp
  <1> HIDE DEF w, v, a
  <1>7. /\ y.link = z.link /\ y.att = Stopped /\ y.ses = v /\ y.app = a /\ y.bonds = z.bonds
        /\ y.rom = z.rom /\ y \in Record
    BY <1>1, <1>3, <1>4, <1>5, <1>6 DEF v, a, Record
  <1> HIDE DEF y
  <1>8. Window(r, y)
    BY <1>5, <1>6, <1>7 DEF Sound, Window
  <1>9. Missed(r, y) /\ Walked(y) /\ Stopping(y) /\ y.ses.state \in StatesOf(r) /\ Reported(y)
    BY <1>5, <1>6, <1>7
       DEF Sound, Missed, Walked, Stopping, Down, StatesOf, SessionStates, Reported
  <1> QED BY <1>5, <1>7, <1>8, <1>9 DEF Sound, y

\* save() changes nothing that the session looks at.
LEMMA SavedIs ==
  ASSUME NEW r \in {"source", "sink"}, NEW z, Sound(r, z)
  PROVE  /\ Sound(r, Saved(z))
         /\ Saved(z).link = z.link /\ Saved(z).att = z.att /\ Saved(z).ses = z.ses
         /\ Saved(z).app = z.app /\ Saved(z).bonds.table = z.bonds.table
         /\ Saved(z).rom \in {z.rom, Image(z.bonds.table)}
  <1> DEFINE y == Saved(z)
  <1>1. z \in Record
    BY DEF Sound
  <1>2. CASE ~z.bonds.dirty
    BY <1>2 DEF Saved
  <1>3. CASE z.bonds.dirty
    <2>1. /\ y.link = z.link /\ y.att = z.att /\ y.ses = z.ses /\ y.app = z.app
          /\ y.rom = Image(z.bonds.table) /\ y.bonds = [z.bonds EXCEPT !.dirty = FALSE]
          /\ y = [link |-> z.link, att |-> z.att, ses |-> z.ses, app |-> z.app,
                  bonds |-> [z.bonds EXCEPT !.dirty = FALSE], rom |-> Image(z.bonds.table)]
      BY <1>1, <1>3 DEF Saved, Record
    <2>2. /\ [z.bonds EXCEPT !.dirty = FALSE] \in AnyBonds
          /\ [z.bonds EXCEPT !.dirty = FALSE].table = z.bonds.table
      BY <1>1 DEF Record, AnyBonds
    <2>3. Image(z.bonds.table) \in Remains(Tables)
      BY <1>1, WholeImage DEF Record, AnyBonds
    <2> HIDE DEF y
    <2>4. y \in Record
      BY <1>1, <2>1, <2>2, <2>3 DEF Record
    <2> QED BY <2>1, <2>2, <2>4 DEF Sound, Stopping, Window, Missed, Walked, y
  <1> QED BY <1>2, <1>3

\* The callback that ends an attempt: the session is as it was, or it was told to stop.
LEMMA OnAttemptIs ==
  ASSUME NEW r \in {"source", "sink"}, NEW z, Sound(r, z), NEW when
  PROVE  LET y == OnAttempt(z, when)
         IN /\ Sound(r, y) /\ y.link = z.link /\ y.bonds.table = z.bonds.table
            /\ y.rom \in {z.rom, Image(z.bonds.table)}
            /\ \/ y.ses = z.ses /\ y.app = z.app /\ y.att = z.att
               \/ y.ses.state = "DISCONNECTING" /\ y.att = Stopped /\ Reported(y)
  <1>1. /\ Sound(r, Saved(z)) /\ Saved(z).link = z.link /\ Saved(z).bonds.table = z.bonds.table
        /\ Saved(z).ses = z.ses /\ Saved(z).app = z.app /\ Saved(z).att = z.att
        /\ Saved(z).rom \in {z.rom, Image(z.bonds.table)}
    BY SavedIs
  <1>2. CASE when = "attempt"
    <2> DEFINE x == Saved(z)
    <2> HIDE DEF x
    <2>1. Sound(r, x)
      BY <1>1 DEF x
    <2>2. /\ Sound(r, Disconnected(x)) /\ Reported(Disconnected(x))
          /\ Disconnected(x).ses.state = "DISCONNECTING" /\ Disconnected(x).att = Stopped
          /\ Disconnected(x).link = x.link /\ Disconnected(x).rom = x.rom
          /\ Disconnected(x).bonds = x.bonds
      BY <2>1, DisconnectedIs
    <2> QED BY <1>1, <1>2, <2>2 DEF OnAttempt, x
  <1>3. CASE when # "attempt"
    BY <1>1, <1>3 DEF OnAttempt
  <1> QED BY <1>2, <1>3

\* The callback of a stream: with it the report is made, and it may tell the session to stop.
LEMMA OnStreamIs ==
  ASSUME NEW r \in {"source", "sink"}, NEW z, Sound(r, z), NEW up \in BOOLEAN, NEW when,
         up <=> z.ses.state = "STREAMING", up => z.ses.lost = None
  PROVE  LET y == OnStream(z, up, when)
         IN /\ Sound(r, y) /\ Reported(y) /\ y.link = z.link /\ y.bonds = z.bonds
            /\ y.rom = z.rom
            /\ \/ y.ses = z.ses /\ y.att = z.att /\ (up => y.app.peer = z.link.handle)
               \/ y.ses.state = "DISCONNECTING" /\ y.att = Stopped
  <1> DEFINE x == [z EXCEPT !.app.up = up, !.app.peer = IF up THEN z.link.handle ELSE @]
  <1>1. z \in Record
    BY DEF Sound
  <1>2. x = [z EXCEPT !.app = [z.app EXCEPT !.up = up,
                                            !.peer = IF up THEN z.link.handle ELSE z.app.peer]]
    BY <1>1 DEF Record, AnyApp
  <1> DEFINE a == [z.app EXCEPT !.up = up, !.peer = IF up THEN z.link.handle ELSE z.app.peer]
  <1>3. /\ a \in AnyApp /\ a.stopped = z.app.stopped /\ a.up = up
        /\ a.peer = (IF up THEN z.link.handle ELSE z.app.peer)
        /\ a.tried = z.app.tried /\ a.moved = z.app.moved /\ a.paired = z.app.paired
    BY <1>1 DEF Record, AnyApp, AnyLink
  <1> HIDE DEF x, a
  <1>4. /\ x.link = z.link /\ x.att = z.att /\ x.ses = z.ses /\ x.app = a
        /\ x.bonds = z.bonds /\ x.rom = z.rom /\ x \in Record
    BY <1>1, <1>2, <1>3 DEF Record, a
  <1>5. Sound(r, x) /\ Reported(x)
    <2>1. Window(r, x) /\ Stopping(x) /\ Walked(x) /\ Reported(x)
      BY <1>3, <1>4 DEF Sound, Window, Stopping, Walked, Reported
    <2>2. Missed(r, x)
      BY <1>3, <1>4 DEF Sound, Missed
    <2> QED BY <1>4, <2>1, <2>2 DEF Sound
  <1>6. CASE when = "stream"
    <2>1. /\ Sound(r, Disconnected(x)) /\ Reported(Disconnected(x))
          /\ Disconnected(x).ses.state = "DISCONNECTING" /\ Disconnected(x).att = Stopped
          /\ Disconnected(x).link = x.link /\ Disconnected(x).rom = x.rom
          /\ Disconnected(x).bonds = x.bonds
      BY <1>5, DisconnectedIs
    <2>2. OnStream(z, up, when) = Disconnected(x)
      BY <1>6 DEF OnStream, x
    <2> QED BY <1>4, <2>1, <2>2
  <1>7. CASE when # "stream"
    <2>1. OnStream(z, up, when) = x
      BY <1>7 DEF OnStream, x
    <2> QED BY <1>3, <1>4, <1>5, <2>1
  <1> QED BY <1>6, <1>7

-----------------------------------------------------------------------------
(* The attempt and the link.                                                *)

Stages == {"L2", "SDP", "AVDTP_WAIT", "AVDTP"}
Kinds == {"PAGE", "INQUIRY", "INBOUND"}

\* A handle is that of the peer, and of a link that is up.
Held(l) == l.handle # None => l.handle = l.bd /\ IsUp(l)

\* A pairing that was begun still runs, or has ended; well only if there was a link.
PairBegun(l, a) ==
  a.st = "PAIRING" /\ a.issued =>
    l.op = "PAIR" \/ (l.op = "NONE" /\ (l.result = "OK" => l.st # "NONE"))

\* Past the pairing there is a link, or one that was lost and has not been noticed.
LinkBehind(l, a) == a.st \in Stages \cup {"STREAMING"} => l.st # "NONE"

Chained(l, a) == Held(l) /\ PairBegun(l, a) /\ LinkBehind(l, a)

\* What the start of an operation makes of a link.
LEMMA OperatedIs ==
  ASSUME NEW l \in AnyLink, Held(l), NEW kind \in Kinds, NEW p \in Peers \cup {None}
  PROVE  /\ Operated(l, kind, p) \in AnyLink /\ Held(Operated(l, kind, p))
         /\ Operated(l, kind, p).st = l.st
         /\ kind = "INBOUND" /\ l.op = "NONE" => Operated(l, kind, p).op = "PAIR"
  <1> DEFINE y == Operated(l, kind, p)
  <1>1. CASE kind = "PAGE"
    <2>1. y = IF l.op = "NONE" THEN [l EXCEPT !.op = "PAGE", !.bd = p, !.handle = None] ELSE l
      BY <1>1 DEF Operated, Paged
    <2> QED BY <1>1, <2>1 DEF AnyLink, Ops, Held, IsUp
  <1>2. CASE kind = "INQUIRY"
    <2>1. y = IF l.op = "NONE" THEN [l EXCEPT !.op = "INQUIRY"] ELSE l
      BY <1>2 DEF Operated, Started
    <2> QED BY <1>2, <2>1 DEF AnyLink, Ops, Held, IsUp
  <1>3. CASE kind = "INBOUND"
    <2> DEFINE i == [l EXCEPT !.inboundUp = FALSE]
    <2>1. /\ i \in AnyLink /\ i.op = l.op /\ i.st = l.st /\ i.bd = l.bd /\ i.handle = l.handle
      BY DEF AnyLink
    <2>2. y = IF i.op = "NONE" THEN [i EXCEPT !.op = "PAIR"] ELSE i
      BY <1>3 DEF Operated, Started, InboundAcked
    <2> HIDE DEF i
    <2> QED BY <1>3, <2>1, <2>2 DEF AnyLink, Ops, Held, IsUp
  <1> QED BY <1>1, <1>2, <1>3 DEF Kinds

LEMMA LostAckedIs ==
  ASSUME NEW l \in AnyLink, Held(l)
  PROVE  /\ LostAcked(l) \in AnyLink /\ Held(LostAcked(l))
         /\ LostAcked(l).op = l.op /\ LostAcked(l).bd = l.bd
         /\ LostAcked(l).handle = l.handle /\ LostAcked(l).result = l.result
  BY DEF LostAcked, AnyLink, Held, IsUp

\* start(): a new attempt has no link to rely on yet.
LEMMA SourceStartedIs ==
  ASSUME NEW z \in Record, Held(z.link), NEW kind \in Kinds, NEW p \in Peers \cup {None}
  PROVE  LET y == SourceStarted(z, kind, p)
         IN /\ y \in Record /\ Held(y.link)
            /\ y.ses = z.ses /\ y.app = z.app /\ y.bonds = z.bonds /\ y.rom = z.rom
            /\ \/ Busy(z.att) /\ y = z
               \/ ~Busy(z.att) /\ y.att.st \in {"LINKING", "PAIRING"} /\ PairBegun(y.link, y.att)
  <1>1. CASE Busy(z.att)
    BY <1>1 DEF SourceStarted
  <1>2. CASE ~Busy(z.att)
    <2> DEFINE a == Attempt(kind, p, z.link.op = "NONE")
               k == LostAcked(z.link)
               l == Operated(k, kind, p)
               y == SourceStarted(z, kind, p)
    <2>1. z.link \in AnyLink
      BY DEF Record
    <2>2. k \in AnyLink /\ Held(k) /\ k.op = z.link.op
      BY <2>1, LostAckedIs
    <2>3. /\ l \in AnyLink /\ Held(l)
          /\ kind = "INBOUND" /\ k.op = "NONE" => l.op = "PAIR"
      <3> HIDE DEF k
      <3> QED BY <2>2, OperatedIs
    <2>4. /\ a \in AnyAttempt /\ a.st \in {"LINKING", "PAIRING"}
          /\ a.st = "PAIRING" /\ a.issued => kind = "INBOUND" /\ z.link.op = "NONE"
      BY DEF Attempt, AnyAttempt, SourceStates, Results, Kinds
    <2>5. y = [z EXCEPT !.att = a, !.link = l]
      BY <1>2 DEF SourceStarted
    <2> HIDE DEF a, k, l, y
    <2>6. /\ y.link = l /\ y.att = a /\ y.ses = z.ses /\ y.app = z.app /\ y.bonds = z.bonds
          /\ y.rom = z.rom /\ y \in Record
      BY <2>3, <2>4, <2>5 DEF Record
    <2>7. PairBegun(l, a)
      BY <2>2, <2>3, <2>4 DEF PairBegun
    <2> QED BY <1>2, <2>3, <2>4, <2>6, <2>7 DEF y
  <1> QED BY <1>1, <1>2

\* The attempt a session begins, as the walk and a reconnect begin it.
Begun(z, y) ==
  /\ y.ses.state = "CONNECTING" /\ y.app.up = z.app.up
  /\ Held(y.link) /\ y.bonds = z.bonds /\ y.rom = z.rom
  /\ \/ Busy(z.att) /\ y.att = z.att /\ y.link = z.link
     \/ ~Busy(z.att) /\ y.att.st \in {"LINKING", "PAIRING"} /\ PairBegun(y.link, y.att)

LEMMA BeginAttemptIs ==
  ASSUME NEW z \in Record, Held(z.link), ~z.app.stopped,
         Window("source", z), Missed("source", z), Walked(z),
         NEW kind \in Kinds, NEW p \in Peers \cup {None}
  PROVE  LET y == BeginAttempt(z, kind, p)
         IN /\ Sound("source", y) /\ Begun(z, y)
            /\ y.ses = [z.ses EXCEPT !.state = "CONNECTING"] /\ y.app = z.app
  <1> DEFINE x == SourceStarted(z, kind, p)
             y == BeginAttempt(z, kind, p)
  <1>1. /\ x \in Record /\ Held(x.link)
        /\ x.ses = z.ses /\ x.app = z.app /\ x.bonds = z.bonds /\ x.rom = z.rom
        /\ \/ Busy(z.att) /\ x = z
           \/ ~Busy(z.att) /\ x.att.st \in {"LINKING", "PAIRING"} /\ PairBegun(x.link, x.att)
    BY SourceStartedIs
  <1> DEFINE v == [z.ses EXCEPT !.state = "CONNECTING"]
  <1>2. /\ v \in AnySession /\ v.state = "CONNECTING"
        /\ v.boot = z.ses.boot /\ v.idx = z.ses.idx /\ v.inq = z.ses.inq /\ v.lost = z.ses.lost
        /\ v.win = z.ses.win /\ v.end = z.ses.end
    BY DEF Record, AnySession, SessionStates
  <1>3. y = [x EXCEPT !.ses = v]
    <2>0. y = [x EXCEPT !.ses.state = "CONNECTING"]
      BY DEF BeginAttempt
    <2> HIDE DEF x, y
    <2> QED BY <1>1, <2>0 DEF Record, AnySession
  <1> HIDE DEF x, y, v
  <1>4. /\ y.link = x.link /\ y.att = x.att /\ y.ses = v /\ y.app = x.app /\ y.bonds = x.bonds
        /\ y.rom = x.rom /\ y \in Record
    BY <1>1, <1>2, <1>3 DEF Record
  <1>5. Stopping(y) /\ Window("source", y) /\ Missed("source", y) /\ y.ses.state \in StatesOf("source")
    BY <1>1, <1>2, <1>4 DEF Stopping, Window, Missed, Down, StatesOf, SessionStates
  <1>6. Walked(y)
    BY <1>1, <1>2, <1>4 DEF Walked
  <1>7. Begun(z, y)
    BY <1>1, <1>2, <1>4 DEF Begun
  <1> QED BY <1>1, <1>4, <1>5, <1>6, <1>7 DEF Sound, y, v

-----------------------------------------------------------------------------
(* The walk.                                                                *)

LEMMA LessThan == \A x, y \in Nat : y < x => <<y, x>> \in OpToRel(<, Nat)
  BY DEF OpToRel

LEMMA LeastOf ==
  ASSUME NEW S, S \subseteq Nat, S # {}
  PROVE  Min(S) \in S /\ \A y \in S : Min(S) <= y
  <1>1. \E x \in S : \A y \in S : ~(<<y, x>> \in OpToRel(<, Nat))
    BY NatLessThanWellFounded, WFMin
  <1>2. PICK x \in S : \A y \in S : ~(<<y, x>> \in OpToRel(<, Nat))
    BY <1>1
  <1>3. ASSUME NEW y \in S PROVE x <= y
    <2>1. ~(y < x)
      BY <1>2, LessThan
    <2> QED BY <2>1
  <1> QED BY <1>3 DEF Min

LEMMA GreaterOf ==
  ASSUME NEW a \in Nat, NEW b \in Nat
  PROVE  Max({a, b}) = IF a >= b THEN a ELSE b
  BY DEF Max

\* The next attempt of a walk, or none when all has been tried.
LEMMA AdvanceIs ==
  ASSUME NEW z \in Record, Held(z.link), ~z.app.stopped,
         Window("source", z), Missed("source", z), Walked(z),
         z.ses.inq => Sound("source", z)
  PROVE  LET y == AdvanceBootWalk(z)
         IN /\ Sound("source", y)
            /\ \/ Begun(z, y) /\ y.app.peer = z.app.peer
               \/ /\ y.ses.state = z.ses.state /\ y.att = z.att /\ y.link = z.link
                  /\ y.app = z.app /\ y.bonds = z.bonds /\ y.rom = z.rom /\ z.ses.inq
  <1> DEFINE t == z.bonds.table
             n == Len(t)
             next == {i \in (z.ses.idx + 1)..n : t[i] \in Matching}
             i == Min(next)
             y == AdvanceBootWalk(z)
             m == Max({z.ses.idx, n})
  <1>1. t \in Tables /\ n \in 0..MaxBonds /\ t \in [1..n -> Peers] /\ z.ses.idx \in 0..MaxBonds
    <2>1. t \in Tables /\ z.ses.idx \in 0..MaxBonds
      BY DEF Record, AnyBonds, AnySession
    <2> HIDE DEF t
    <2> QED BY <2>1, TableIs
  <1>0. MaxBonds \in Nat
    BY BoundsAssumption
  <1> HIDE DEF t
  <1>2. CASE next # {}
    <2>1. /\ i \in (z.ses.idx + 1)..n /\ t[i] \in Matching
          /\ \A j \in (z.ses.idx + 1)..n : t[j] \in Matching => i <= j
      <3>1. next \subseteq Nat
        BY <1>0, <1>1
      <3>2. Min(next) \in next /\ \A j \in next : Min(next) <= j
        <4> HIDE DEF next
        <4> QED BY <1>2, <3>1, LeastOf
      <3> QED BY <3>2
    <2> DEFINE x == [z EXCEPT !.ses.idx = i, !.app.tried = @ \cup {t[i]}]
    <2>2. y = BeginAttempt(x, "PAGE", t[i])
      BY <1>2 DEF AdvanceBootWalk, t
    <2> HIDE DEF next, i
    <2>3. i \in 0..MaxBonds /\ t[i] \in Peers
      BY <1>0, <1>1, <2>1
    <2> DEFINE v == [z.ses EXCEPT !.idx = i]
               a == [z.app EXCEPT !.tried = @ \cup {t[i]}]
    <2>4. x = [z EXCEPT !.ses = v, !.app = a]
      BY DEF Record, AnySession, AnyApp
    <2>5. /\ v \in AnySession /\ v.state = z.ses.state /\ v.boot = z.ses.boot /\ v.idx = i
          /\ v.inq = z.ses.inq /\ v.lost = z.ses.lost /\ v.win = z.ses.win /\ v.end = z.ses.end
      BY <2>3 DEF Record, AnySession
    <2>6. /\ a \in AnyApp /\ a.stopped = z.app.stopped /\ a.up = z.app.up /\ a.peer = z.app.peer
          /\ a.tried = z.app.tried \cup {t[i]} /\ a.moved = z.app.moved
          /\ a.paired = z.app.paired
      BY <2>3 DEF Record, AnyApp
    <2> HIDE DEF x, v, a
    <2>7. /\ x.link = z.link /\ x.att = z.att /\ x.ses = v /\ x.app = a /\ x.bonds = z.bonds
          /\ x.rom = z.rom /\ x \in Record
      BY <2>4, <2>5, <2>6 DEF Record
    <2>8. Window("source", x) /\ Missed("source", x) /\ ~x.app.stopped /\ Held(x.link)
      BY <2>5, <2>6, <2>7 DEF Window, Missed
    <2>9. Walked(x)
      <3> SUFFICES ASSUME z.ses.boot, ~z.app.moved, NEW j \in 1..n, t[j] \in Matching,
                          z.ses.inq \/ j <= i
                   PROVE  t[j] \in a.tried
        BY <2>5, <2>6, <2>7 DEF Walked, t
      <3>1. CASE z.ses.inq \/ j <= z.ses.idx
        BY <2>6, <3>1 DEF Walked, t
      <3>2. CASE j > z.ses.idx /\ j <= i
        <4>1. j \in (z.ses.idx + 1)..n
          BY <1>1, <3>2
        <4>2. i <= j
          BY <2>1, <4>1
        <4>3. j = i
          BY <1>1, <2>3, <3>2, <4>2
        <4> QED BY <2>6, <4>3
      <3> QED BY <1>1, <2>3, <3>1, <3>2
    <2>10. /\ Sound("source", y) /\ Begun(x, y) /\ y.app = x.app
      <3> DEFINE p == t[i]
      <3>1. "PAGE" \in Kinds /\ p \in Peers \cup {None}
        BY <2>3 DEF Kinds
      <3> HIDE DEF p, y
      <3>2. LET w == BeginAttempt(x, "PAGE", p)
            IN Sound("source", w) /\ Begun(x, w) /\ w.app = x.app
        BY <2>7, <2>8, <2>9, <3>1, BeginAttemptIs
      <3> QED BY <2>2, <3>2 DEF p
    <2>11. Begun(z, y)
      BY <2>6, <2>7, <2>10 DEF Begun
    <2> QED BY <2>6, <2>7, <2>10, <2>11 DEF y
  <1>3. CASE next = {}
    <2>1. m = IF z.ses.idx >= n THEN z.ses.idx ELSE n
      BY <1>0, <1>1, GreaterOf
    <2>2. m \in 0..MaxBonds /\ m >= n
      BY <1>0, <1>1, <2>1
    <2>3. \A j \in 1..n : t[j] \in Matching => j <= z.ses.idx
      BY <1>1, <1>3
    <2> HIDE DEF next, i
    <2>4. CASE ~z.ses.inq
      <3> DEFINE v == [z.ses EXCEPT !.idx = m, !.inq = TRUE]
                 x == [z EXCEPT !.ses.idx = Max({@, n}), !.ses.inq = TRUE]
      <3>1. y = BeginAttempt(x, "INQUIRY", None)
        BY <1>3, <2>4 DEF AdvanceBootWalk, t, next
      <3>2. x = [z EXCEPT !.ses = v]
        BY DEF Record, AnySession
      <3> HIDE DEF m
      <3>3. /\ v \in AnySession /\ v.state = z.ses.state /\ v.boot = z.ses.boot /\ v.inq
            /\ v.lost = z.ses.lost /\ v.win = z.ses.win /\ v.end = z.ses.end
        BY <2>2 DEF Record, AnySession
      <3> HIDE DEF x, v
      <3>4. /\ x.link = z.link /\ x.att = z.att /\ x.ses = v /\ x.app = z.app
            /\ x.bonds = z.bonds /\ x.rom = z.rom /\ x \in Record
        BY <3>2, <3>3 DEF Record
      <3>5. Window("source", x) /\ Missed("source", x) /\ ~x.app.stopped /\ Held(x.link)
        BY <3>3, <3>4 DEF Window, Missed
      <3>6. Walked(x)
        BY <2>3, <3>3, <3>4 DEF Walked, t
      <3>7. Sound("source", y) /\ Begun(x, y) /\ y.app = x.app
        <4>1. "INQUIRY" \in Kinds /\ None \in Peers \cup {None}
          BY DEF Kinds
        <4> HIDE DEF y
        <4>2. LET w == BeginAttempt(x, "INQUIRY", None)
              IN Sound("source", w) /\ Begun(x, w) /\ w.app = x.app
          BY <3>4, <3>5, <3>6, <4>1, BeginAttemptIs
        <4> QED BY <3>1, <4>2
      <3>8. Begun(z, y)
        BY <3>4, <3>7 DEF Begun
      <3> QED BY <3>4, <3>7, <3>8 DEF y
    <2>5. CASE z.ses.inq
      <3> DEFINE v == [z.ses EXCEPT !.idx = m]
      <3>1. y = [z EXCEPT !.ses.idx = Max({@, n})]
        BY <1>3, <2>5 DEF AdvanceBootWalk, t, next
      <3>2. y = [z EXCEPT !.ses = v]
        BY <3>1 DEF Record, AnySession
      <3> HIDE DEF m
      <3>3. /\ v \in AnySession /\ v.state = z.ses.state /\ v.boot = z.ses.boot
            /\ v.inq = z.ses.inq
            /\ v.lost = z.ses.lost /\ v.win = z.ses.win /\ v.end = z.ses.end
        BY <2>2 DEF Record, AnySession
      <3> HIDE DEF y, v
      <3>4. /\ y.link = z.link /\ y.att = z.att /\ y.ses = v /\ y.app = z.app
            /\ y.bonds = z.bonds /\ y.rom = z.rom /\ y \in Record
        BY <3>2, <3>3 DEF Record
      <3>5. Window("source", y) /\ Missed("source", y) /\ Stopping(y)
        BY <2>5, <3>3, <3>4 DEF Window, Missed, Sound, Stopping
      <3>6. Walked(y)
        BY <2>5, <3>3, <3>4 DEF Walked, t
      <3> QED BY <2>5, <3>3, <3>4, <3>5, <3>6 DEF Sound, y
    <2> QED BY <2>4, <2>5
  <1> QED BY <1>2, <1>3

\* A walk begins with an attempt, whatever there was.
LEMMA StartWalkIs ==
  ASSUME NEW z \in Record, Held(z.link), ~z.app.stopped, Window("source", z)
  PROVE  LET y == StartBootWalk(z) IN Sound("source", y) /\ Begun(z, y) /\ y.app.peer = None
  <1> DEFINE v == [z.ses EXCEPT !.boot = TRUE, !.idx = 0, !.inq = FALSE, !.lost = None]
             a == [z.app EXCEPT !.tried = {}, !.moved = FALSE, !.peer = None]
             x == [z EXCEPT !.ses.boot = TRUE, !.ses.idx = 0, !.ses.inq = FALSE, !.ses.lost = None,
                            !.app.tried = {}, !.app.moved = FALSE, !.app.peer = None]
  <1>1. x = [z EXCEPT !.ses = v, !.app = a]
    BY DEF Record, AnySession, AnyApp
  <1>2. /\ v \in AnySession /\ v.state = z.ses.state /\ v.idx = 0 /\ ~v.inq /\ v.lost = None
        /\ v.win = z.ses.win /\ v.end = z.ses.end
    <2>1. z.ses \in AnySession /\ 0 \in 0..MaxBonds
      BY BoundsAssumption DEF Record
    <2> QED BY <2>1 DEF AnySession
  <1>3. /\ a \in AnyApp /\ a.stopped = z.app.stopped /\ a.up = z.app.up /\ a.peer = None
        /\ a.paired = z.app.paired
    BY DEF Record, AnyApp
  <1>4. StartBootWalk(z) = AdvanceBootWalk(x)
    BY DEF StartBootWalk
  <1> HIDE DEF x, v, a
  <1>5. /\ x.link = z.link /\ x.att = z.att /\ x.ses = v /\ x.app = a /\ x.bonds = z.bonds
        /\ x.rom = z.rom /\ x \in Record
    BY <1>1, <1>2, <1>3 DEF Record
  <1>6. Window("source", x) /\ Missed("source", x) /\ ~x.app.stopped /\ ~x.ses.inq /\ Held(x.link)
    BY <1>2, <1>3, <1>5 DEF Window, Missed
  <1>7. Walked(x)
    <2>1. \A i \in 1..Len(x.bonds.table) : ~(i <= 0)
      <3>1. Len(x.bonds.table) \in 0..MaxBonds /\ MaxBonds \in Nat
        BY <1>5, TableIs, BoundsAssumption DEF Record, AnyBonds
      <3> QED BY <3>1
    <2> QED BY <1>2, <1>5, <2>1 DEF Walked
  <1> DEFINE y == AdvanceBootWalk(x)
  <1>8. Sound("source", y) /\ Begun(x, y) /\ y.app.peer = x.app.peer
    BY <1>5, <1>6, <1>7, AdvanceIs
  <1>9. Begun(z, y)
    BY <1>3, <1>5, <1>8 DEF Begun
  <1> HIDE DEF y
  <1> QED BY <1>3, <1>4, <1>5, <1>8, <1>9 DEF y

-----------------------------------------------------------------------------
(* A source's tick.                                                         *)

\* Nothing but the attempt and the link.
SameButLink(z, y) ==
  /\ y \in Record /\ y.ses = z.ses /\ y.app = z.app /\ y.bonds = z.bonds /\ y.rom = z.rom

\* What a tick may make of the attempt.
Advanced(z, y) ==
  /\ Held(y.link) /\ PairBegun(y.link, y.att)
  /\ y.att.st \in Stages \cup {"STREAMING"} => IsUp(y.link)
  /\ y.att.st \in Stages \cup {"LINKING", "PAIRING"}
       => z.att.st \in Stages \cup {"LINKING", "PAIRING"}
  /\ y.att.st = "STREAMING" =>
       \/ z.att.st = "STREAMING"
       \/ z.att.st = "AVDTP" /\ y.link.handle # None /\ y.att.result = "OK"
  /\ z.att.st = "STREAMING" =>
       \/ y.att = z.att /\ y.link = z.link
       \/ y.att.st = "DONE" /\ y.att.result = "LOST" /\ y.link.bd = z.link.bd

LEMMA EndingIs ==
  ASSUME NEW s \in SourceStates, NEW end \in Results
  PROVE  Ending(s, end) \in AnyAttempt /\ Ending(s, end).st = s
         /\ Ending(s, end).result = end
  BY DEF Ending, NoAttempt, AnyAttempt, Results

\* The link was lost, and the attempt is over.
LEMMA BereftIs ==
  ASSUME NEW z \in Record, Chained(z.link, z.att), LosesLink(z)
  PROVE  SameButLink(z, Bereft(z)) /\ Advanced(z, Bereft(z))
  <1> DEFINE l == LostAcked(z.link)
             a == Ending("DONE", "LOST")
  <1>1. l \in AnyLink /\ Held(l) /\ l.bd = z.link.bd
    BY LostAckedIs DEF Record, Chained
  <1>2. a \in AnyAttempt /\ a.st = "DONE" /\ a.result = "LOST"
    BY EndingIs DEF SourceStates, Results
  <1>3. Bereft(z) = [z EXCEPT !.att = a, !.link = l]
    BY DEF Bereft
  <1> HIDE DEF l, a
  <1>4. SameButLink(z, Bereft(z)) /\ Bereft(z).att = a /\ Bereft(z).link = l
    BY <1>1, <1>2, <1>3 DEF Record, SameButLink
  <1> QED BY <1>1, <1>2, <1>4 DEF Advanced, PairBegun, Stages

\* An attempt that ends badly leaves the link.
LEMMA EndedIs ==
  ASSUME NEW z \in Record, Chained(z.link, z.att), z.att.st # "STREAMING", NEW end \in Results
  PROVE  SameButLink(z, Ended(z, end)) /\ Advanced(z, Ended(z, end))
  <1> DEFINE a == Ending("DISCONNECTING", end)
             y == Ended(z, end)
  <1>1. a \in AnyAttempt /\ a.st = "DISCONNECTING"
    BY EndingIs DEF SourceStates
  <1>2. y = [z EXCEPT !.att = a]
    BY DEF Ended
  <1> HIDE DEF a, y
  <1>3. SameButLink(z, y) /\ y.att = a /\ y.link = z.link
    BY <1>1, <1>2 DEF Record, SameButLink
  <1> QED BY <1>1, <1>3 DEF Advanced, PairBegun, Stages, Chained, y

\* An attempt that comes to the next stage, with a link that is up.
LEMMA ReachedIs ==
  ASSUME NEW z \in Record, Chained(z.link, z.att), IsUp(z.link), NEW s,
         \/ z.att.st = "PAIRING" /\ s \in Stages
         \/ z.att.st \in Stages /\ s \in Stages
         \/ z.att.st = "AVDTP" /\ s = "STREAMING" /\ z.link.handle # None
  PROVE  SameButLink(z, Reached(z, s)) /\ Advanced(z, Reached(z, s))
  <1> DEFINE y == Reached(z, s)
             a == [z.att EXCEPT !.st = s, !.result = IF s = "STREAMING" THEN "OK" ELSE @]
  <1>1. y = [z EXCEPT !.att = a]
    BY DEF Reached, Record, AnyAttempt
  <1>2. a \in AnyAttempt /\ a.st = s /\ (s = "STREAMING" => a.result = "OK")
    <2>1. z.att \in AnyAttempt /\ s \in SourceStates /\ "OK" \in Results
      BY DEF Record, SourceStates, Stages, Results
    <2> QED BY <2>1 DEF AnyAttempt
  <1> HIDE DEF a, y
  <1>3. SameButLink(z, y) /\ y.att = a /\ y.link = z.link
    BY <1>1, <1>2 DEF Record, SameButLink
  <1>4. z.att.st # "STREAMING"
    BY DEF Stages
  <1> QED BY <1>2, <1>3, <1>4 DEF Advanced, PairBegun, Stages, Chained, y

\* Nothing happens to an attempt whose link, if it has come that far, is up.
LEMMA StaysIs ==
  ASSUME NEW z \in Record, Chained(z.link, z.att),
         z.att.st \in Stages \cup {"STREAMING"} => IsUp(z.link)
  PROVE  SameButLink(z, z) /\ Advanced(z, z)
  BY DEF SameButLink, Advanced, Chained

\* A link that is to be there and is not lost is up.
LEMMA StillUp ==
  ASSUME NEW z \in Record, ~LosesLink(z), Chained(z.link, z.att),
         z.att.st \in Stages \cup {"STREAMING"}
  PROVE  IsUp(z.link)
  <1>1. Busy(z.att) /\ z.att.st # "DISCONNECTING"
    BY DEF Busy, Stages
  <1>2. z.link.st \in {"NONE", "UP", "SECURE", "LOST"} /\ z.link.st # "NONE"
    BY DEF Record, AnyLink, Chained, LinkBehind
  <1> QED BY <1>1, <1>2 DEF LosesLink, IsUp

LEMMA AwaitIs ==
  ASSUME NEW z \in Record, ~LosesLink(z), Chained(z.link, z.att), z.att.st \in Stages,
         NEW next, next \subseteq Stages \/ (z.att.st = "AVDTP" /\ next = {"STREAMING"}),
         NEW late \in BOOLEAN, NEW y \in Await(z, next, late)
  PROVE  SameButLink(z, y) /\ Advanced(z, y)
  <1>1. IsUp(z.link)
    BY StillUp
  <1>2. CASE y = z
    BY <1>1, <1>2, StaysIs
  <1>3. CASE y = Ended(z, "FAILED")
    <2>1. "FAILED" \in Results /\ z.att.st # "STREAMING"
      BY DEF Results, Stages
    <2> QED BY <1>3, <2>1, EndedIs
  <1>4. CASE \E s \in next : y = Reached(z, s) /\ (s = "STREAMING" => z.link.handle # None)
    <2>1. PICK s \in next : y = Reached(z, s) /\ (s = "STREAMING" => z.link.handle # None)
      BY <1>4
    <2>2. \/ z.att.st \in Stages /\ s \in Stages
          \/ z.att.st = "AVDTP" /\ s = "STREAMING" /\ z.link.handle # None
      BY <2>1
    <2> QED BY <1>1, <2>1, <2>2, ReachedIs
  <1> QED BY <1>2, <1>3, <1>4 DEF Await

\* An operation is started on the link.
LEMMA StartedIs ==
  ASSUME NEW l \in AnyLink, Held(l), NEW op \in Ops
  PROVE  Started(l, op) \in AnyLink /\ Held(Started(l, op)) /\ Started(l, op).st = l.st
         /\ Started(l, op).bd = l.bd /\ (l.op = "NONE" => Started(l, op).op = op)
  BY DEF Started, AnyLink, Held, IsUp

LEMMA PagedIs ==
  ASSUME NEW l \in AnyLink, Held(l), NEW p \in Peers \cup {None}
  PROVE  Paged(l, p) \in AnyLink /\ Held(Paged(l, p)) /\ Paged(l, p).st = l.st
  BY DEF Paged, AnyLink, Held, IsUp, Ops

LEMMA DisconnectingIs ==
  ASSUME NEW z \in Record, Chained(z.link, z.att), z.att.st = "DISCONNECTING",
         NEW y \in Disconnecting(z)
  PROVE  SameButLink(z, y) /\ Advanced(z, y)
  <1>1. CASE y = [z EXCEPT !.att.st = "DONE"]
    <2> DEFINE a == [z.att EXCEPT !.st = "DONE"]
    <2>1. y = [z EXCEPT !.att = a]
      BY <1>1 DEF Record, AnyAttempt
    <2>2. a \in AnyAttempt /\ a.st = "DONE"
      BY DEF Record, AnyAttempt, SourceStates
    <2> HIDE DEF a
    <2>3. SameButLink(z, y) /\ y.att = a /\ y.link = z.link
      BY <2>1, <2>2 DEF Record, SameButLink
    <2> QED BY <2>2, <2>3 DEF Advanced, PairBegun, Stages, Chained
  <1>2. CASE y = [z EXCEPT !.link = Started(@, "DISCONNECT")]
    <2> DEFINE l == Started(z.link, "DISCONNECT")
    <2>1. l \in AnyLink /\ Held(l)
      BY StartedIs DEF Record, Chained, Ops
    <2>2. y = [z EXCEPT !.link = l]
      BY <1>2
    <2> HIDE DEF l
    <2>3. SameButLink(z, y) /\ y.link = l /\ y.att = z.att
      BY <2>1, <2>2 DEF Record, SameButLink
    <2> QED BY <2>1, <2>3 DEF Advanced, PairBegun, Stages
  <1> QED BY <1>1, <1>2 DEF Disconnecting

\* A new operation, for an attempt that has come no further than the pairing.
LEMMA GoesOn ==
  ASSUME NEW z \in Record, z.att.st \in {"LINKING", "PAIRING"},
         NEW a \in AnyAttempt, NEW l \in AnyLink, Held(l), PairBegun(l, a),
         a.st \in {"LINKING", "PAIRING"},
         NEW y, y = [z EXCEPT !.att = a, !.link = l]
  PROVE  SameButLink(z, y) /\ Advanced(z, y)
  <1>1. SameButLink(z, y) /\ y.att = a /\ y.link = l
    BY DEF Record, SameButLink
  <1> QED BY <1>1 DEF Advanced, Stages

LEMMA LinkingIs ==
  ASSUME NEW z \in Record, Chained(z.link, z.att), z.att.st = "LINKING", NEW y \in Linking(z)
  PROVE  SameButLink(z, y) /\ Advanced(z, y)
  <1>0. z.link \in AnyLink /\ z.att \in AnyAttempt /\ Held(z.link)
    BY DEF Record, Chained
  <1>1. CASE z.link.op # "NONE"
    <2>1. y = z
      BY <1>1 DEF Linking
    <2> QED BY <2>1, StaysIs DEF Stages
  <1>2. CASE z.link.op = "NONE" /\ ~z.att.issued
    <2> DEFINE a == [z.att EXCEPT !.issued = TRUE, !.page = None]
               l == Operated(z.link, z.att.kind, z.att.page)
    <2>1. y = [z EXCEPT !.att = a, !.link = l]
      <3>1. y = [z EXCEPT !.att.issued = TRUE, !.att.page = None,
                          !.link = Operated(@, z.att.kind, z.att.page)]
        BY <1>2 DEF Linking
      <3> QED BY <3>1 DEF Record, AnyAttempt
    <2>2. a \in AnyAttempt /\ a.st = "LINKING"
      BY <1>0 DEF AnyAttempt
    <2>3. l \in AnyLink /\ Held(l)
      <3>1. z.att.kind \in Kinds /\ z.att.page \in Peers \cup {None}
        BY <1>0 DEF AnyAttempt, Kinds
      <3> QED BY <1>0, <3>1, OperatedIs
    <2> HIDE DEF a, l
    <2>4. PairBegun(l, a)
      BY <2>2 DEF PairBegun
    <2> QED BY <2>1, <2>2, <2>3, <2>4, GoesOn
  <1>3. CASE z.link.op = "NONE" /\ z.att.issued /\ z.link.result # "OK"
    <2>1. y = Ended(z, "CONNECT_FAILED")
      BY <1>3 DEF Linking
    <2>2. "CONNECT_FAILED" \in Results /\ z.att.st # "STREAMING"
      BY DEF Results
    <2> QED BY <2>1, <2>2, EndedIs
  <1>4. CASE z.link.op = "NONE" /\ z.att.issued /\ z.link.result = "OK" /\ z.att.kind = "INQUIRY"
    <2>1. PICK p \in Peers : y = [z EXCEPT !.att.kind = "PAGE", !.link = Paged(@, p)]
      BY <1>4 DEF Linking
    <2> DEFINE a == [z.att EXCEPT !.kind = "PAGE"]
               l == Paged(z.link, p)
    <2>2. y = [z EXCEPT !.att = a, !.link = l]
      BY <2>1 DEF Record, AnyAttempt
    <2>3. a \in AnyAttempt /\ a.st = "LINKING"
      BY <1>0 DEF AnyAttempt
    <2>4. l \in AnyLink /\ Held(l)
      BY <1>0, PagedIs
    <2> HIDE DEF a, l
    <2>5. PairBegun(l, a)
      BY <2>3 DEF PairBegun
    <2> QED BY <2>2, <2>3, <2>4, <2>5, GoesOn
  <1>5. CASE z.link.op = "NONE" /\ z.att.issued /\ z.link.result = "OK" /\ z.att.kind # "INQUIRY"
    <2> DEFINE a == [z.att EXCEPT !.st = "PAIRING"]
               l == Started(z.link, "PAIR")
    <2>1. y = [z EXCEPT !.att = a, !.link = l]
      <3>1. y = [z EXCEPT !.att.st = "PAIRING", !.link = Started(@, "PAIR")]
        BY <1>5 DEF Linking
      <3> QED BY <3>1 DEF Record, AnyAttempt
    <2>2. a \in AnyAttempt /\ a.st = "PAIRING"
      BY <1>0 DEF AnyAttempt, SourceStates
    <2>3. l \in AnyLink /\ Held(l) /\ l.op = "PAIR"
      <3>1. "PAIR" \in Ops
        BY DEF Ops
      <3> QED BY <1>0, <1>5, <3>1, StartedIs
    <2> HIDE DEF a, l
    <2>4. PairBegun(l, a)
      BY <2>3 DEF PairBegun
    <2> QED BY <2>1, <2>2, <2>3, <2>4, GoesOn
  <1> QED BY <1>1, <1>2, <1>3, <1>4, <1>5

LEMMA PairingIs ==
  ASSUME NEW z \in Record, ~LosesLink(z), Chained(z.link, z.att), z.att.st = "PAIRING",
         NEW next \in Stages, NEW y \in Pairing(z, next)
  PROVE  SameButLink(z, y) /\ Advanced(z, y)
  <1>0. z.link \in AnyLink /\ z.att \in AnyAttempt /\ Held(z.link)
    BY DEF Record, Chained
  <1>1. CASE z.link.op # "NONE"
    <2>1. y = z
      BY <1>1 DEF Pairing
    <2> QED BY <2>1, StaysIs DEF Stages
  <1>2. CASE z.link.op = "NONE" /\ ~z.att.issued
    <2> DEFINE a == [z.att EXCEPT !.issued = TRUE]
               l == Started(z.link, "PAIR")
    <2>1. y = [z EXCEPT !.att = a, !.link = l]
      <3>1. y = [z EXCEPT !.att.issued = TRUE, !.link = Started(@, "PAIR")]
        BY <1>2 DEF Pairing
      <3> QED BY <3>1 DEF Record, AnyAttempt
    <2>2. a \in AnyAttempt /\ a.st = "PAIRING"
      BY <1>0 DEF AnyAttempt
    <2>3. l \in AnyLink /\ Held(l) /\ l.op = "PAIR"
      <3>1. "PAIR" \in Ops
        BY DEF Ops
      <3> QED BY <1>0, <1>2, <3>1, StartedIs
    <2> HIDE DEF a, l
    <2>4. PairBegun(l, a)
      BY <2>3 DEF PairBegun
    <2> QED BY <2>1, <2>2, <2>3, <2>4, GoesOn
  <1>3. CASE z.link.op = "NONE" /\ z.att.issued /\ z.link.result # "OK"
    <2>1. y = Ended(z, "FAILED")
      BY <1>3 DEF Pairing
    <2>2. "FAILED" \in Results /\ z.att.st # "STREAMING"
      BY DEF Results
    <2> QED BY <2>1, <2>2, EndedIs
  <1>4. CASE z.link.op = "NONE" /\ z.att.issued /\ z.link.result = "OK"
    <2>1. y = Reached(z, next)
      BY <1>4 DEF Pairing
    <2>2. z.link.st # "NONE" /\ z.link.st # "LOST"
      BY <1>4 DEF Chained, PairBegun, LosesLink, Busy
    <2>3. IsUp(z.link)
      BY <1>0, <2>2 DEF AnyLink, IsUp
    <2> QED BY <2>1, <2>3, ReachedIs
  <1> QED BY <1>1, <1>2, <1>3, <1>4

\* A2dpSource::tick()
LEMMA SourceAdvancedIs ==
  ASSUME NEW z \in Record, Chained(z.link, z.att), NEW late \in BOOLEAN,
         NEW y \in SourceAdvanced(z, late)
  PROVE  SameButLink(z, y) /\ Advanced(z, y)
  <1>1. CASE LosesLink(z)
    <2>0. z.att.st # "DISCONNECTING"
      BY <1>1 DEF LosesLink
    <2>1. y = Bereft(z)
      BY <1>1, <2>0 DEF SourceAdvanced
    <2> QED BY <1>1, <2>1, BereftIs
  <1>2. CASE ~LosesLink(z) /\ z.att.st = "LINKING"
    <2>1. y \in Linking(z)
      BY <1>2 DEF SourceAdvanced
    <2> QED BY <1>2, <2>1, LinkingIs
  <1>3. CASE ~LosesLink(z) /\ z.att.st = "PAIRING"
    <2>1. y \in Pairing(z, "L2")
      BY <1>3 DEF SourceAdvanced
    <2>2. "L2" \in Stages
      BY DEF Stages
    <2> QED BY <1>3, <2>1, <2>2, PairingIs
  <1>4. CASE ~LosesLink(z) /\ z.att.st \in Stages
    <2>1. CASE z.att.st = "L2" /\ z.att.kind = "INBOUND"
      <3>1. y = Reached(z, "AVDTP_WAIT")
        BY <1>4, <2>1 DEF SourceAdvanced
      <3>2. IsUp(z.link) /\ "AVDTP_WAIT" \in Stages
        BY <1>4, StillUp DEF Stages
      <3> QED BY <1>4, <3>1, <3>2, ReachedIs
    <2>2. CASE z.att.st = "L2" /\ z.att.kind # "INBOUND"
      <3>1. y \in Await(z, {"SDP", "AVDTP_WAIT"}, late)
        BY <1>4, <2>2 DEF SourceAdvanced
      <3>2. {"SDP", "AVDTP_WAIT"} \subseteq Stages
        BY DEF Stages
      <3> QED BY <1>4, <3>1, <3>2, AwaitIs
    <2>3. CASE z.att.st = "SDP"
      <3>1. y \in Await(z, {"AVDTP_WAIT"}, late)
        BY <1>4, <2>3 DEF SourceAdvanced
      <3>2. {"AVDTP_WAIT"} \subseteq Stages
        BY DEF Stages
      <3> QED BY <1>4, <3>1, <3>2, AwaitIs
    <2>4. CASE z.att.st = "AVDTP_WAIT"
      <3>1. y \in Await(z, {"AVDTP"}, late)
        BY <1>4, <2>4 DEF SourceAdvanced
      <3>2. {"AVDTP"} \subseteq Stages
        BY DEF Stages
      <3> QED BY <1>4, <3>1, <3>2, AwaitIs
    <2>5. CASE z.att.st = "AVDTP"
      <3>1. y \in Await(z, {"STREAMING"}, late)
        BY <1>4, <2>5 DEF SourceAdvanced
      <3> QED BY <1>4, <2>5, <3>1, AwaitIs
    <2> QED BY <1>4, <2>1, <2>2, <2>3, <2>4, <2>5 DEF Stages
  <1>5. CASE ~LosesLink(z) /\ z.att.st = "DISCONNECTING"
    <2>1. y \in Disconnecting(z)
      BY <1>5 DEF SourceAdvanced
    <2> QED BY <1>5, <2>1, DisconnectingIs
  <1>6. CASE ~LosesLink(z) /\ z.att.st \notin Stages \cup {"LINKING", "PAIRING", "DISCONNECTING"}
    <2>1. y = z
      BY <1>6 DEF SourceAdvanced, Stages
    <2>2. z.att.st \in Stages \cup {"STREAMING"} => IsUp(z.link)
      BY <1>6, StillUp
    <2> QED BY <2>1, <2>2, StaysIs
  <1> QED BY <1>1, <1>2, <1>3, <1>4, <1>5, <1>6

\* A2dpSink::tick(): a stream may end in two ways more.
LEMMA SinkAdvancedIs ==
  ASSUME NEW z \in Record, Chained(z.link, z.att), NEW late \in BOOLEAN,
         NEW y \in SinkAdvanced(z, late)
  PROVE  /\ SameButLink(z, y)
         /\ \/ Advanced(z, y)
            \/ z.att.st = "STREAMING" /\ y.att.st = "DISCONNECTING" /\ y.link = z.link
  <1>1. CASE LosesLink(z)
    <2>0. z.att.st # "DISCONNECTING"
      BY <1>1 DEF LosesLink
    <2>1. y = Bereft(z)
      BY <1>1, <2>0 DEF SinkAdvanced
    <2> QED BY <1>1, <2>1, BereftIs
  <1>2. CASE ~LosesLink(z) /\ z.att.st = "PAIRING"
    <2>1. y \in Pairing(z, "AVDTP_WAIT")
      BY <1>2 DEF SinkAdvanced
    <2>2. "AVDTP_WAIT" \in Stages
      BY DEF Stages
    <2> QED BY <1>2, <2>1, <2>2, PairingIs
  <1>3. CASE ~LosesLink(z) /\ z.att.st = "AVDTP_WAIT"
    <2>1. y \in Await(z, {"AVDTP"}, late)
      BY <1>3 DEF SinkAdvanced
    <2>2. {"AVDTP"} \subseteq Stages /\ "AVDTP_WAIT" \in Stages
      BY DEF Stages
    <2> QED BY <1>3, <2>1, <2>2, AwaitIs
  <1>4. CASE ~LosesLink(z) /\ z.att.st = "AVDTP"
    <2>1. y \in Await(z, {"STREAMING"}, late)
      BY <1>4 DEF SinkAdvanced
    <2>2. "AVDTP" \in Stages
      BY DEF Stages
    <2> QED BY <1>4, <2>1, <2>2, AwaitIs
  <1>5. CASE ~LosesLink(z) /\ z.att.st = "STREAMING"
    <2>1. CASE y = z
      <3>1. IsUp(z.link)
        BY <1>5, StillUp
      <3> QED BY <2>1, <3>1, StaysIs
    <2>2. CASE \E s \in {"OK", "FAILED"} : y = Ended(z, s)
      <3>1. PICK s \in {"OK", "FAILED"} : y = Ended(z, s)
        BY <2>2
      <3> DEFINE a == Ending("DISCONNECTING", s)
      <3>2. a \in AnyAttempt /\ a.st = "DISCONNECTING"
        BY EndingIs DEF SourceStates, Results
      <3>3. y = [z EXCEPT !.att = a]
        BY <3>1 DEF Ended
      <3> HIDE DEF a
      <3>4. SameButLink(z, y) /\ y.att = a /\ y.link = z.link
        BY <3>2, <3>3 DEF Record, SameButLink
      <3> QED BY <1>5, <3>2, <3>4
    <2> QED BY <1>5, <2>1, <2>2 DEF SinkAdvanced
  <1>6. CASE ~LosesLink(z) /\ z.att.st = "DISCONNECTING"
    <2>1. y \in Disconnecting(z)
      BY <1>6 DEF SinkAdvanced
    <2> QED BY <1>6, <2>1, DisconnectingIs
  <1>7. CASE /\ ~LosesLink(z)
             /\ z.att.st \notin {"PAIRING", "AVDTP_WAIT", "AVDTP", "STREAMING", "DISCONNECTING"}
    <2>1. y = z
      BY <1>7 DEF SinkAdvanced
    <2>2. z.att.st \in Stages \cup {"STREAMING"} => IsUp(z.link)
      BY <1>7, StillUp
    <2> QED BY <2>1, <2>2, StaysIs
  <1> QED BY <1>1, <1>2, <1>3, <1>4, <1>5, <1>6, <1>7

-----------------------------------------------------------------------------
(* What the session makes of it.                                            *)

\* How the session goes with its attempt.
Tied(r, z) ==
  /\ z.att.st \in Stages \cup {"LINKING", "PAIRING"} => z.ses.state = "CONNECTING"
  /\ z.att.st = "STREAMING" =>
       z.ses.state = "STREAMING" /\ z.att.result = "OK" /\ z.app.peer = z.link.bd
  /\ r = "source" /\ z.ses.state = "STREAMING" => z.att.st = "STREAMING"

\* What holds between two ticks, of whatever a tick maps.
Whole(r, z) == Sound(r, z) /\ Reported(z) /\ Tied(r, z) /\ Chained(z.link, z.att)

\* What a tick makes of x.
Ticked(r, x, w) ==
  /\ Whole(r, w)
  /\ w.att.st \in Stages \cup {"STREAMING"} => IsUp(w.link)
  /\ w.att.st = "STREAMING" => x.att.st \in {"AVDTP", "STREAMING"}
  /\ w.bonds.table = x.bonds.table
  /\ w.rom \in {x.rom, Image(x.bonds.table)}

\* An attempt that has no link yet, or none any more, asks nothing of it.
Aside == SourceStates \ (Stages \cup {"STREAMING"})

LEMMA AsideTicks ==
  ASSUME NEW r \in {"source", "sink"}, NEW x, NEW w, Sound(r, w), Reported(w), Held(w.link),
         PairBegun(w.link, w.att), w.att.st \in Aside,
         w.att.st \in {"LINKING", "PAIRING"} => w.ses.state = "CONNECTING",
         r = "source" => w.ses.state # "STREAMING",
         w.bonds.table = x.bonds.table, w.rom \in {x.rom, Image(x.bonds.table)}
  PROVE  Ticked(r, x, w)
  <1>1. w.att.st \notin Stages \cup {"STREAMING"}
    BY DEF Aside
  <1> QED BY <1>1 DEF Ticked, Whole, Tied, Chained, LinkBehind

LEMMA IdleAside ==
  ASSUME NEW a \in AnyAttempt, ~Busy(a)
  PROVE  a.st \in Aside /\ a.st \notin {"LINKING", "PAIRING"}
  BY DEF Busy, AnyAttempt, Aside, SourceStates, Stages

LEMMA StoppedAside ==
  Stopped.st \in Aside /\ Stopped.st \notin {"LINKING", "PAIRING"} /\ Busy(Stopped)
  BY DEF Stopped, Ending, NoAttempt, Aside, SourceStates, Stages, Busy

\* The session's state is set.
LEMMA Restated ==
  ASSUME NEW r \in {"source", "sink"}, NEW z, Sound(r, z), z.ses.state \notin Down,
         NEW s \in StatesOf(r) \ Down, z.ses.win => s \in {"LISTENING", "CONNECTING"}
  PROVE  LET y == [z EXCEPT !.ses.state = s]
         IN /\ Sound(r, y) /\ y.link = z.link /\ y.att = z.att /\ y.app = z.app
            /\ y.bonds = z.bonds /\ y.rom = z.rom
            /\ y.ses = [z.ses EXCEPT !.state = s] /\ y.ses.state = s
            /\ y.ses.boot = z.ses.boot /\ y.ses.idx = z.ses.idx /\ y.ses.inq = z.ses.inq
            /\ y.ses.lost = z.ses.lost /\ y.ses.win = z.ses.win /\ y.ses.end = z.ses.end
  <1> DEFINE v == [z.ses EXCEPT !.state = s]
             y == [z EXCEPT !.ses.state = s]
  <1>0. z \in Record /\ s \in SessionStates \ Down
    BY DEF Sound, StatesOf
  <1>1. y = [z EXCEPT !.ses = v]
    BY <1>0 DEF Record, AnySession
  <1>2. /\ v \in AnySession /\ v.state = s
        /\ v.boot = z.ses.boot /\ v.idx = z.ses.idx /\ v.inq = z.ses.inq /\ v.lost = z.ses.lost
        /\ v.win = z.ses.win /\ v.end = z.ses.end
    BY <1>0 DEF Record, AnySession
  <1> HIDE DEF v, y
  <1>3. /\ y.link = z.link /\ y.att = z.att /\ y.ses = v /\ y.app = z.app /\ y.bonds = z.bonds
        /\ y.rom = z.rom /\ y \in Record
    BY <1>0, <1>1, <1>2 DEF Record
  <1>4. Stopping(y) /\ Window(r, y) /\ Missed(r, y) /\ Walked(y)
    BY <1>0, <1>2, <1>3 DEF Sound, Stopping, Window, Missed, Walked
  <1> QED BY <1>2, <1>3, <1>4 DEF Sound, y, v

\* What does not touch session, application and bonds.
LEMMA SoundStays ==
  ASSUME NEW r, NEW x, NEW y, SameButLink(x, y), Sound(r, x)
  PROVE  Sound(r, y)
  BY DEF SameButLink, Sound, Stopping, Window, Missed, Walked

\* handleAttemptEnd(), of a stream that came up.
LEMMA SucceededTicks ==
  ASSUME NEW x, Whole("source", x), NEW y, SameButLink(x, y), Advanced(x, y), NEW when,
         y.ses.state = "CONNECTING", y.att.st = "STREAMING"
  PROVE  Ticked("source", x, AttemptSucceeded(y, when))
  <1> DEFINE r == "source"
             z == [y EXCEPT !.ses.state = "STREAMING"]
             v == OnAttempt(z, when)
             w == [v EXCEPT !.ses.lost = None]
             u == OnStream(w, TRUE, when)
  <1>0. Sound(r, y) /\ y \in Record
    BY SoundStays DEF Whole, Sound
  <1>1. /\ Sound(r, z) /\ z.link = y.link /\ z.att = y.att /\ z.app = y.app
        /\ z.bonds = y.bonds /\ z.rom = y.rom /\ z.ses.state = "STREAMING"
    <2>1. ~y.ses.win /\ "STREAMING" \in StatesOf(r) \ Down /\ y.ses.state \notin Down
      BY <1>0 DEF Sound, Window, StatesOf, SessionStates, Down
    <2> QED BY <1>0, <2>1, Restated
  <1> HIDE DEF z
  <1>2. /\ Sound(r, v) /\ v.link = z.link /\ v.bonds.table = z.bonds.table
        /\ v.rom \in {z.rom, Image(z.bonds.table)}
        /\ \/ v.ses = z.ses /\ v.app = z.app /\ v.att = z.att
           \/ v.ses.state = "DISCONNECTING" /\ v.att = Stopped /\ Reported(v)
    BY <1>1, OnAttemptIs
  <1> HIDE DEF v
  <1> DEFINE q == [v.ses EXCEPT !.lost = None]
  <1>3. /\ q \in AnySession /\ q.state = v.ses.state /\ q.boot = v.ses.boot /\ q.idx = v.ses.idx
        /\ q.inq = v.ses.inq /\ q.lost = None /\ q.win = v.ses.win /\ q.end = v.ses.end
    BY <1>2 DEF Sound, Record, AnySession
  <1>4. w = [v EXCEPT !.ses = q]
    BY <1>2 DEF Sound, Record, AnySession
  <1> HIDE DEF w, q
  <1>5. /\ w.link = v.link /\ w.att = v.att /\ w.ses = q /\ w.app = v.app /\ w.bonds = v.bonds
        /\ w.rom = v.rom /\ w \in Record
    BY <1>2, <1>3, <1>4 DEF Sound, Record
  <1>6. Sound(r, w)
    <2>1. Stopping(w) /\ Window(r, w) /\ Missed(r, w) /\ Walked(w)
      BY <1>2, <1>3, <1>5 DEF Sound, Stopping, Window, Missed, Walked
    <2> QED BY <1>2, <1>3, <1>5, <2>1 DEF Sound
  <1>7. w.bonds.table = x.bonds.table /\ w.rom \in {x.rom, Image(x.bonds.table)} /\ Held(w.link)
    BY <1>1, <1>2, <1>5 DEF SameButLink, Advanced
  <1>8. CASE w.ses.state = "STREAMING"
    <2>1. w.link = y.link /\ w.att = y.att
      BY <1>1, <1>2, <1>3, <1>5, <1>8
    <2>2. x.att.st = "AVDTP" /\ y.link.handle # None /\ y.att.result = "OK"
      <3>1. x.att.st # "STREAMING"
        BY DEF Whole, Tied, SameButLink
      <3> QED BY <3>1 DEF Advanced
    <2>3. IsUp(w.link) /\ w.link.handle = w.link.bd
      BY <2>1, <2>2 DEF Advanced, Held
    <2>4. /\ Sound(r, u) /\ Reported(u) /\ u.link = w.link /\ u.bonds = w.bonds
          /\ u.rom = w.rom
          /\ \/ u.ses = w.ses /\ u.att = w.att /\ u.app.peer = w.link.handle
             \/ u.ses.state = "DISCONNECTING" /\ u.att = Stopped
      <3> DEFINE up == TRUE
      <3>1. up \in BOOLEAN /\ (up <=> w.ses.state = "STREAMING") /\ (up => w.ses.lost = None)
        BY <1>3, <1>5, <1>8
      <3> HIDE DEF up
      <3>2. LET o == OnStream(w, up, when)
            IN /\ Sound(r, o) /\ Reported(o) /\ o.link = w.link /\ o.bonds = w.bonds
               /\ o.rom = w.rom
               /\ \/ o.ses = w.ses /\ o.att = w.att /\ (up => o.app.peer = w.link.handle)
                  \/ o.ses.state = "DISCONNECTING" /\ o.att = Stopped
        BY <1>6, <3>1, OnStreamIs
      <3> QED BY <3>2 DEF up
    <2> HIDE DEF u
    <2>5. AttemptSucceeded(y, when) = u
      BY <1>8 DEF AttemptSucceeded, u, w, v, z
    <2>6. CASE u.ses = w.ses /\ u.att = w.att /\ u.app.peer = w.link.handle
      <3>1. Tied(r, u)
        BY <1>8, <2>1, <2>2, <2>3, <2>4, <2>6 DEF Tied, Stages
      <3>2. Chained(u.link, u.att)
        BY <1>7, <2>1, <2>3, <2>4, <2>6 DEF Chained, PairBegun, LinkBehind, IsUp
      <3> QED BY <1>7, <2>2, <2>3, <2>4, <2>5, <3>1, <3>2 DEF Ticked, Whole
    <2>7. CASE u.ses.state = "DISCONNECTING" /\ u.att = Stopped
      <3>1. PairBegun(u.link, u.att)
        BY <2>7, StoppedAside DEF PairBegun
      <3>2. u.bonds.table = x.bonds.table /\ u.rom \in {x.rom, Image(x.bonds.table)} /\ Held(u.link)
        BY <1>7, <2>4
      <3> QED BY <2>4, <2>5, <2>7, <3>1, <3>2, StoppedAside, AsideTicks
    <2> QED BY <2>4, <2>6, <2>7
  <1>9. CASE w.ses.state # "STREAMING"
    <2>1. w.ses.state = "DISCONNECTING" /\ w.att = Stopped /\ Reported(w)
      BY <1>1, <1>2, <1>3, <1>5, <1>9 DEF Reported
    <2>2. AttemptSucceeded(y, when) = w
      BY <1>9 DEF AttemptSucceeded, w, v, z
    <2>3. PairBegun(w.link, w.att)
      BY <2>1, StoppedAside DEF PairBegun
    <2> QED BY <1>6, <1>7, <2>1, <2>2, <2>3, StoppedAside, AsideTicks
  <1> QED BY <1>8, <1>9

\* An attempt that a source's session begins when none is running.
LEMMA BegunTicks ==
  ASSUME NEW x, NEW z, NEW w, Sound("source", w), Begun(z, w), ~z.app.up, ~Busy(z.att),
         z.bonds.table = x.bonds.table, z.rom \in {x.rom, Image(x.bonds.table)}
  PROVE  Ticked("source", x, w)
  <1>1. w.att.st \in {"LINKING", "PAIRING"} /\ PairBegun(w.link, w.att)
        /\ w.ses.state = "CONNECTING" /\ Held(w.link) /\ ~w.app.up
        /\ w.bonds = z.bonds /\ w.rom = z.rom
    BY DEF Begun
  <1>2. w.att.st \in Aside
    BY <1>1 DEF Aside, SourceStates, Stages
  <1>3. Reported(w)
    BY <1>1 DEF Reported
  <1> QED BY <1>1, <1>2, <1>3, AsideTicks

\* handleAttemptEnd(), of an attempt that failed.
LEMMA FailedTicks ==
  ASSUME NEW x, Whole("source", x), NEW y, SameButLink(x, y), Advanced(x, y), NEW when,
         y.ses.state = "CONNECTING", ~Busy(y.att)
  PROVE  Ticked("source", x, AttemptFailed(y, when))
  <1> DEFINE r == "source"
             z == [y EXCEPT !.ses.state = "WAITING"]
             v == OnAttempt(z, when)
             w == AdvanceBootWalk(v)
  <1>0. Sound(r, y) /\ y \in Record
    BY SoundStays DEF Whole, Sound
  <1>1. /\ Sound(r, z) /\ z.link = y.link /\ z.att = y.att /\ z.app = y.app
        /\ z.bonds = y.bonds /\ z.rom = y.rom /\ z.ses.state = "WAITING"
    <2>1. ~y.ses.win /\ "WAITING" \in StatesOf(r) \ Down /\ y.ses.state \notin Down
      BY <1>0 DEF Sound, Window, StatesOf, SessionStates, Down
    <2> QED BY <1>0, <2>1, Restated
  <1> HIDE DEF z
  <1>2. /\ Sound(r, v) /\ v.link = z.link /\ v.bonds.table = z.bonds.table
        /\ v.rom \in {z.rom, Image(z.bonds.table)}
        /\ \/ v.ses = z.ses /\ v.app = z.app /\ v.att = z.att
           \/ v.ses.state = "DISCONNECTING" /\ v.att = Stopped /\ Reported(v)
    BY <1>1, OnAttemptIs
  <1>3. v.bonds.table = x.bonds.table /\ v.rom \in {x.rom, Image(x.bonds.table)} /\ Held(v.link)
    BY <1>1, <1>2 DEF SameButLink, Advanced
  <1>4. ~y.app.up /\ y.att.st \in Aside /\ y.att.st \notin {"LINKING", "PAIRING"}
    <2>1. ~y.app.up
      BY DEF SameButLink, Whole, Reported
    <2>2. y.att \in AnyAttempt
      BY <1>0 DEF Record
    <2> QED BY <2>1, <2>2, IdleAside
  <1> HIDE DEF v
  <1>5. CASE v.ses.state = "WAITING" /\ v.ses.boot /\ y.att.result = "CONNECT_FAILED"
    <2>1. v.app = y.app /\ v.att = y.att
      BY <1>1, <1>2, <1>5
    <2>2. /\ v \in Record /\ ~v.app.stopped /\ Window(r, v) /\ Missed(r, v) /\ Walked(v)
      BY <1>2, <1>5 DEF Sound, Stopping, Down
    <2>3. /\ Sound(r, w)
          /\ \/ Begun(v, w) /\ w.app.peer = v.app.peer
             \/ /\ w.ses.state = v.ses.state /\ w.att = v.att /\ w.link = v.link
                /\ w.app = v.app /\ w.bonds = v.bonds /\ w.rom = v.rom /\ v.ses.inq
      BY <1>2, <1>3, <2>2, AdvanceIs
    <2>4. AttemptFailed(y, when) = w
      BY <1>5 DEF AttemptFailed, w, v, z
    <2> HIDE DEF w
    <2>5. CASE Begun(v, w)
      <3>1. ~v.app.up /\ ~Busy(v.att)
        BY <1>4, <2>1
      <3> QED BY <1>3, <2>3, <2>4, <2>5, <3>1, BegunTicks
    <2>6. CASE /\ w.ses.state = v.ses.state /\ w.att = v.att /\ w.link = v.link
               /\ w.app = v.app /\ w.bonds = v.bonds /\ w.rom = v.rom
      <3>1. Reported(w) /\ w.ses.state = "WAITING"
        BY <1>4, <1>5, <2>1, <2>6 DEF Reported
      <3>2. PairBegun(w.link, w.att) /\ Held(w.link)
        BY <1>3, <1>4, <2>1, <2>6 DEF PairBegun
      <3> QED BY <1>3, <1>4, <2>1, <2>3, <2>4, <2>6, <3>1, <3>2, AsideTicks
    <2> QED BY <2>3, <2>5, <2>6
  <1>6. CASE ~(v.ses.state = "WAITING" /\ v.ses.boot /\ y.att.result = "CONNECT_FAILED")
    <2>1. AttemptFailed(y, when) = v
      BY <1>6 DEF AttemptFailed, v, z
    <2>2. CASE v.ses = z.ses /\ v.app = z.app /\ v.att = z.att
      <3>1. Reported(v) /\ v.ses.state = "WAITING" /\ v.att = y.att
        BY <1>1, <1>4, <2>2 DEF Reported
      <3>2. PairBegun(v.link, v.att)
        BY <1>4, <3>1 DEF PairBegun
      <3> QED BY <1>2, <1>3, <1>4, <2>1, <3>1, <3>2, AsideTicks
    <2>3. CASE v.ses.state = "DISCONNECTING" /\ v.att = Stopped /\ Reported(v)
      <3>1. PairBegun(v.link, v.att)
        BY <2>3, StoppedAside DEF PairBegun
      <3> QED BY <1>2, <1>3, <2>1, <2>3, <3>1, StoppedAside, AsideTicks
    <2> QED BY <1>2, <2>2, <2>3
  <1> QED BY <1>5, <1>6

\* A source notices that its stream was lost.
LEMMA LostTicks ==
  ASSUME NEW x, Whole("source", x), NEW y, SameButLink(x, y), Advanced(x, y), NEW when,
         y.ses.state = "STREAMING", y.att.result = "LOST"
  PROVE  Ticked("source", x,
           OnStream([y EXCEPT !.ses.lost = y.link.bd, !.ses.boot = FALSE, !.ses.state = "WAITING",
                              !.ses.idx = 0, !.ses.inq = FALSE,
                              !.app.tried = {}, !.app.moved = FALSE], FALSE, when))
  <1> DEFINE r == "source"
             v == [y.ses EXCEPT !.lost = y.link.bd, !.boot = FALSE, !.state = "WAITING",
                                !.idx = 0, !.inq = FALSE]
             a == [y.app EXCEPT !.tried = {}, !.moved = FALSE]
             z == [y EXCEPT !.ses.lost = y.link.bd, !.ses.boot = FALSE, !.ses.state = "WAITING",
                              !.ses.idx = 0, !.ses.inq = FALSE,
                              !.app.tried = {}, !.app.moved = FALSE]
  <1>0. Sound(r, y) /\ y \in Record
    BY SoundStays DEF Whole, Sound
  <1>1. z = [y EXCEPT !.ses = v, !.app = a]
    BY <1>0 DEF Record, AnySession, AnyApp
  <1>2. /\ v \in AnySession /\ v.state = "WAITING" /\ ~v.boot /\ v.lost = y.link.bd
        /\ v.win = y.ses.win /\ v.end = y.ses.end
    <2>1. /\ y.ses \in AnySession /\ 0 \in 0..MaxBonds /\ y.link.bd \in Peers \cup {None}
          /\ "WAITING" \in SessionStates
      BY <1>0, BoundsAssumption DEF Record, AnyLink, SessionStates
    <2> QED BY <2>1 DEF AnySession
  <1>3. /\ a \in AnyApp /\ a.stopped = y.app.stopped /\ a.up = y.app.up /\ a.peer = y.app.peer
        /\ a.paired = y.app.paired
    BY <1>0 DEF Record, AnyApp
  <1> HIDE DEF z, v, a
  <1>4. /\ z.link = y.link /\ z.att = y.att /\ z.ses = v /\ z.app = a /\ z.bonds = y.bonds
        /\ z.rom = y.rom /\ z \in Record
    BY <1>0, <1>1, <1>2, <1>3 DEF Record
  <1>5. x.att.st = "STREAMING" /\ x.att.result = "OK" /\ x.app.peer = x.link.bd
    BY DEF Whole, Tied, SameButLink
  <1>6. y.att.st = "DONE" /\ y.link.bd = y.app.peer
    <2>1. y.att # x.att
      BY <1>5
    <2> QED BY <1>5, <2>1 DEF Advanced, SameButLink
  <1>7. Sound(r, z)
    <2>1. Stopping(z) /\ Window(r, z) /\ Missed(r, z) /\ Walked(z) /\ z.ses.state \in StatesOf(r)
      BY <1>0, <1>2, <1>3, <1>4, <1>6
         DEF Sound, Stopping, Window, Missed, Walked, StatesOf, SessionStates, Down
    <2> QED BY <1>4, <2>1 DEF Sound
  <1> DEFINE up == FALSE
             u == OnStream(z, up, when)
  <1>8. up \in BOOLEAN /\ (up <=> z.ses.state = "STREAMING") /\ (up => z.ses.lost = None)
    BY <1>2, <1>4
  <1> HIDE DEF up
  <1>9. /\ Sound(r, u) /\ Reported(u) /\ u.link = z.link /\ u.bonds = z.bonds /\ u.rom = z.rom
        /\ \/ u.ses = z.ses /\ u.att = z.att
           \/ u.ses.state = "DISCONNECTING" /\ u.att = Stopped
    BY <1>7, <1>8, OnStreamIs
  <1> HIDE DEF u
  <1>10. /\ u.att.st \in Aside /\ u.att.st \notin {"LINKING", "PAIRING"}
         /\ u.ses.state # "STREAMING"
    BY <1>2, <1>4, <1>6, <1>9, StoppedAside DEF Aside, SourceStates, Stages
  <1>11. /\ u.bonds.table = x.bonds.table /\ u.rom \in {x.rom, Image(x.bonds.table)}
         /\ Held(u.link) /\ PairBegun(u.link, u.att)
    BY <1>4, <1>9, <1>10 DEF SameButLink, Advanced, PairBegun
  <1>12. Ticked(r, x, u)
    BY <1>9, <1>10, <1>11, AsideTicks
  <1> QED BY <1>12 DEF u, up, z

\* What a session leaves as it is.
LEMMA UntouchedTicks ==
  ASSUME NEW r \in {"source", "sink"}, NEW x, Whole(r, x), NEW y, SameButLink(x, y),
         Advanced(x, y),
         ~(y.ses.state = "CONNECTING" /\ y.att.st = "STREAMING"),
         r = "source" => ~(y.ses.state = "STREAMING" /\ y.att.result = "LOST")
  PROVE  Ticked(r, x, y)
  <1>1. Sound(r, y) /\ Reported(y)
    BY SoundStays DEF Whole, Reported, SameButLink
  <1>2. y.ses = x.ses /\ y.app = x.app /\ y.bonds = x.bonds /\ y.rom = x.rom
    BY DEF SameButLink
  <1>3. y.att.st = "STREAMING" => x.att.st = "STREAMING" /\ y.att = x.att /\ y.link = x.link
    <2> SUFFICES ASSUME y.att.st = "STREAMING" PROVE x.att.st = "STREAMING"
      BY DEF Advanced
    <2>1. CASE x.att.st = "AVDTP"
      BY <1>2, <2>1 DEF Whole, Tied, Stages
    <2> QED BY <2>1 DEF Advanced
  <1>4. Tied(r, y)
    <2>1. y.att.st \in Stages \cup {"LINKING", "PAIRING"} => y.ses.state = "CONNECTING"
      BY <1>2 DEF Whole, Tied, Advanced
    <2>2. y.att.st = "STREAMING" =>
            y.ses.state = "STREAMING" /\ y.att.result = "OK" /\ y.app.peer = y.link.bd
      BY <1>2, <1>3 DEF Whole, Tied
    <2>3. r = "source" /\ y.ses.state = "STREAMING" => y.att.st = "STREAMING"
      BY <1>2 DEF Whole, Tied, Advanced
    <2> QED BY <2>1, <2>2, <2>3 DEF Tied
  <1>5. Chained(y.link, y.att)
    BY DEF Advanced, Chained, LinkBehind, IsUp
  <1>6. y.att.st \in Stages \cup {"STREAMING"} => IsUp(y.link)
    BY DEF Advanced
  <1> QED BY <1>1, <1>2, <1>3, <1>4, <1>5, <1>6 DEF Ticked, Whole

\* disconnect() has run its course.
LEMMA EndsTicks ==
  ASSUME NEW r \in {"source", "sink"}, NEW x, Whole(r, x), NEW y, SameButLink(x, y),
         Held(y.link), PairBegun(y.link, y.att), y.ses.state = "DISCONNECTING", y.att.st \in Aside,
         y.att.st \notin {"LINKING", "PAIRING"}
  PROVE  Ticked(r, x, DisconnectEnds(y))
  <1> DEFINE w == DisconnectEnds(y)
             v == [y.ses EXCEPT !.state = "MANUAL"]
  <1>0. Sound(r, y) /\ y \in Record /\ Reported(y)
    BY SoundStays DEF Whole, Sound, SameButLink, Reported
  <1>1. CASE Over(y)
    <2>1. w = [y EXCEPT !.ses = v]
      BY <1>0, <1>1 DEF DisconnectEnds, Record, AnySession
    <2>2. /\ v \in AnySession /\ v.state = "MANUAL" /\ v.boot = y.ses.boot /\ v.idx = y.ses.idx
          /\ v.inq = y.ses.inq /\ v.lost = y.ses.lost /\ v.win = y.ses.win /\ v.end = y.ses.end
      BY <1>0 DEF Record, AnySession, SessionStates
    <2> HIDE DEF w, v
    <2>3. /\ w.link = y.link /\ w.att = y.att /\ w.ses = v /\ w.app = y.app /\ w.bonds = y.bonds
          /\ w.rom = y.rom /\ w \in Record
      BY <1>0, <2>1, <2>2 DEF Record
    <2>4. Sound(r, w) /\ Reported(w)
      <3>1. Stopping(w) /\ Window(r, w) /\ Missed(r, w) /\ Walked(w) /\ Reported(w)
            /\ w.ses.state \in StatesOf(r)
        BY <1>0, <2>2, <2>3
           DEF Sound, Stopping, Window, Missed, Walked, Reported, Down, StatesOf, SessionStates
      <3> QED BY <2>3, <3>1 DEF Sound
    <2>5. w.bonds.table = x.bonds.table /\ w.rom \in {x.rom, Image(x.bonds.table)}
      BY <2>3 DEF SameButLink
    <2> QED BY <2>2, <2>3, <2>4, <2>5, AsideTicks DEF w
  <1>2. CASE ~Over(y)
    <2>1. w = y
      BY <1>2 DEF DisconnectEnds
    <2>2. y.bonds.table = x.bonds.table /\ y.rom \in {x.rom, Image(x.bonds.table)}
      BY DEF SameButLink
    <2> HIDE DEF w
    <2>3. Ticked(r, x, y)
      BY <1>0, <2>2, AsideTicks
    <2> QED BY <2>1, <2>3 DEF w
  <1> QED BY <1>1, <1>2

\* While a session winds down, so does its attempt.
LEMMA WindsDown ==
  ASSUME NEW r \in {"source", "sink"}, NEW x, Whole(r, x), NEW y, SameButLink(x, y),
         Advanced(x, y), y.ses.state = "DISCONNECTING"
  PROVE  y.att.st \in Aside /\ y.att.st \notin {"LINKING", "PAIRING"}
  <1>1. x.att.st \notin Stages \cup {"LINKING", "PAIRING", "STREAMING"}
    BY DEF Whole, Tied, SameButLink
  <1>2. y.att.st \notin Stages \cup {"LINKING", "PAIRING", "STREAMING"}
    BY <1>1 DEF Advanced, Stages
  <1>3. y.att.st \in SourceStates
    BY DEF SameButLink, Record, AnyAttempt
  <1> QED BY <1>2, <1>3 DEF Aside

\* BtSession::tick()
LEMMA SourceSessionIs ==
  ASSUME NEW x, Whole("source", x), NEW y, SameButLink(x, y), Advanced(x, y),
         NEW late \in BOOLEAN, NEW when
  PROVE  Ticked("source", x, SourceSession(y, late, when))
  <1> DEFINE r == "source"
             w == SourceSession(y, late, when)
  <1>0. Sound(r, y) /\ y \in Record /\ Reported(y) /\ Held(y.link)
    BY SoundStays DEF Whole, Sound, SameButLink, Reported, Advanced
  <1>1. y.bonds.table = x.bonds.table /\ y.rom \in {x.rom, Image(x.bonds.table)}
    BY DEF SameButLink
  <1>2. CASE y.link.inboundUp /\ ~Busy(y.att) /\ y.ses.state = "WAITING"
    <2>1. w = BeginAttempt(y, "INBOUND", y.link.bd)
      BY <1>2 DEF SourceSession
    <2>2. /\ ~y.app.stopped /\ Window(r, y) /\ Missed(r, y) /\ Walked(y) /\ ~y.app.up
          /\ "INBOUND" \in Kinds /\ y.link.bd \in Peers \cup {None}
      BY <1>0, <1>2 DEF Sound, Stopping, Down, Kinds, Record, AnyLink, Reported
    <2> HIDE DEF w
    <2>3. Sound(r, w) /\ Begun(y, w)
      BY <1>0, <2>1, <2>2, BeginAttemptIs
    <2> QED BY <1>1, <1>2, <2>2, <2>3, BegunTicks DEF w
  <1>3. CASE y.ses.state = "CONNECTING" /\ y.att.st = "STREAMING"
    <2>1. w = AttemptSucceeded(y, when)
      BY <1>3 DEF SourceSession, Over, Busy
    <2> QED BY <1>3, <2>1, SucceededTicks
  <1>4. CASE y.ses.state = "CONNECTING" /\ Over(y)
    <2>1. w = AttemptFailed(y, when)
      BY <1>4 DEF SourceSession, Over, Busy
    <2>2. ~Busy(y.att)
      BY <1>4 DEF Over
    <2> QED BY <1>4, <2>1, <2>2, FailedTicks
  <1>5. CASE y.ses.state = "STREAMING" /\ y.att.result = "LOST"
    <2> DEFINE e == OnStream([y EXCEPT !.ses.lost = y.link.bd, !.ses.boot = FALSE,
                                       !.ses.state = "WAITING", !.ses.idx = 0, !.ses.inq = FALSE,
                                       !.app.tried = {}, !.app.moved = FALSE], FALSE, when)
    <2>1. w = e
      BY <1>5 DEF SourceSession
    <2>2. Ticked(r, x, e)
      BY <1>5, LostTicks
    <2> HIDE DEF e, w
    <2>3. Ticked(r, x, w)
      BY <2>1, <2>2
    <2> QED BY <2>3 DEF w
  <1>6. CASE y.ses.state = "WAITING" /\ ~y.link.inboundUp /\ late /\ Over(y)
    <2>1. /\ ~y.app.stopped /\ Window(r, y) /\ Missed(r, y) /\ Walked(y) /\ ~y.app.up
          /\ "PAGE" \in Kinds /\ y.ses.lost \in Peers \cup {None} /\ ~Busy(y.att)
      BY <1>0, <1>6 DEF Sound, Stopping, Down, Kinds, Record, AnySession, Reported, Over
    <2>2. CASE y.ses.lost # None
      <3>1. w = BeginAttempt(y, "PAGE", y.ses.lost)
        BY <1>6, <2>2 DEF SourceSession
      <3> HIDE DEF w
      <3>2. Sound(r, w) /\ Begun(y, w)
        BY <1>0, <2>1, <3>1, BeginAttemptIs
      <3> QED BY <1>1, <2>1, <3>2, BegunTicks DEF w
    <2>3. CASE y.ses.lost = None
      <3>1. w = StartBootWalk(y)
        BY <1>6, <2>3 DEF SourceSession
      <3> HIDE DEF w
      <3>2. Sound(r, w) /\ Begun(y, w)
        BY <1>0, <2>1, <3>1, StartWalkIs
      <3> QED BY <1>1, <2>1, <3>2, BegunTicks DEF w
    <2> QED BY <2>2, <2>3
  <1>7. CASE y.ses.state = "DISCONNECTING"
    <2>1. w = DisconnectEnds(y)
      BY <1>7 DEF SourceSession
    <2>2. y.att.st \in Aside /\ y.att.st \notin {"LINKING", "PAIRING"}
      BY <1>7, WindsDown
    <2>3. Held(y.link) /\ PairBegun(y.link, y.att)
      BY DEF Advanced
    <2> QED BY <1>7, <2>1, <2>2, <2>3, EndsTicks
  <1>8. CASE /\ ~(y.link.inboundUp /\ ~Busy(y.att) /\ y.ses.state = "WAITING")
             /\ ~(y.ses.state = "CONNECTING" /\ y.att.st = "STREAMING")
             /\ ~(y.ses.state = "CONNECTING" /\ Over(y))
             /\ ~(y.ses.state = "STREAMING" /\ y.att.result = "LOST")
             /\ ~(y.ses.state = "WAITING" /\ ~y.link.inboundUp /\ late /\ Over(y))
             /\ y.ses.state # "DISCONNECTING"
    <2>1. w = y
      BY <1>8 DEF SourceSession
    <2> QED BY <1>8, <2>1, UntouchedTicks
  <1> QED BY <1>2, <1>3, <1>4, <1>5, <1>6, <1>7, <1>8

-----------------------------------------------------------------------------
(* A sink's tick.                                                           *)

\* openWindow()
LEMMA OpenWindowIs ==
  ASSUME NEW z, Sound("sink", z), Held(z.link)
  PROVE  LET y == OpenWindow(z)
         IN /\ Sound("sink", y) /\ Held(y.link) /\ y.att = z.att /\ y.bonds = z.bonds
            /\ y.rom = z.rom /\ y.ses.state = z.ses.state /\ y.app.up = z.app.up
            /\ y.app.peer = z.app.peer /\ y.link.st = z.link.st /\ y.link.bd = z.link.bd
            /\ z.ses.state # "LISTENING" => y = z
  <1> DEFINE y == OpenWindow(z)
  <1>0. z \in Record
    BY DEF Sound
  <1>1. CASE z.ses.state = "LISTENING" /\ ~IsUp(z.link)
    <2> DEFINE v == [z.ses EXCEPT !.win = TRUE, !.end = "NONE"]
               a == [z.app EXCEPT !.paired = FALSE]
               l == Started(z.link, "PREPARE")
    <2>1. y = [z EXCEPT !.ses = v, !.app = a, !.link = l]
      <3>1. y = [z EXCEPT !.ses.win = TRUE, !.ses.end = "NONE", !.app.paired = FALSE,
                          !.link = Started(@, "PREPARE")]
        BY <1>1 DEF OpenWindow
      <3> QED BY <1>0, <3>1 DEF Record, AnySession, AnyApp
    <2>2. /\ v \in AnySession /\ v.state = "LISTENING" /\ v.boot = z.ses.boot /\ v.idx = z.ses.idx
          /\ v.inq = z.ses.inq /\ v.lost = z.ses.lost /\ v.win /\ v.end = "NONE"
      BY <1>0, <1>1 DEF Record, AnySession
    <2>3. /\ a \in AnyApp /\ a.stopped = z.app.stopped /\ a.up = z.app.up /\ a.peer = z.app.peer
          /\ a.tried = z.app.tried /\ a.moved = z.app.moved /\ ~a.paired
      BY <1>0 DEF Record, AnyApp
    <2>4. l \in AnyLink /\ Held(l) /\ l.st = z.link.st /\ l.bd = z.link.bd
      <3>1. z.link \in AnyLink /\ "PREPARE" \in Ops
        BY <1>0 DEF Record, Ops
      <3> QED BY <3>1, StartedIs
    <2> HIDE DEF y, v, a, l
    <2>5. /\ y.link = l /\ y.att = z.att /\ y.ses = v /\ y.app = a /\ y.bonds = z.bonds
          /\ y.rom = z.rom /\ y \in Record
      BY <1>0, <2>1, <2>2, <2>3, <2>4 DEF Record
    <2>6. Stopping(y) /\ Window("sink", y) /\ Missed("sink", y) /\ Walked(y)
      BY <1>1, <2>2, <2>3, <2>5 DEF Sound, Stopping, Window, Missed, Walked
    <2> QED BY <1>1, <2>2, <2>3, <2>4, <2>5, <2>6 DEF Sound, y
  <1>2. CASE ~(z.ses.state = "LISTENING" /\ ~IsUp(z.link))
    BY <1>2 DEF OpenWindow
  <1> QED BY <1>1, <1>2

\* closeWindow(), when no stream came up in it.
LEMMA WindowClosedIs ==
  ASSUME NEW r \in {"source", "sink"}, NEW z, Sound(r, z), NEW end \in {"TIMEOUT", "CANCELLED"}
  PROVE  LET y == WindowClosed(z, end)
         IN /\ Sound(r, y) /\ y.link = z.link /\ y.att = z.att /\ y.app = z.app
            /\ y.bonds = z.bonds /\ y.rom = z.rom /\ y.ses.state = z.ses.state
  <1> DEFINE y == WindowClosed(z, end)
             v == [z.ses EXCEPT !.win = FALSE, !.end = end]
  <1>0. z \in Record
    BY DEF Sound
  <1>1. CASE z.ses.win
    <2>1. y = [z EXCEPT !.ses = v]
      BY <1>0, <1>1 DEF WindowClosed, Record, AnySession
    <2>2. /\ v \in AnySession /\ v.state = z.ses.state /\ v.boot = z.ses.boot /\ v.idx = z.ses.idx
          /\ v.inq = z.ses.inq /\ v.lost = z.ses.lost /\ ~v.win /\ v.end = end
      BY <1>0 DEF Record, AnySession
    <2> HIDE DEF y, v
    <2>3. /\ y.link = z.link /\ y.att = z.att /\ y.ses = v /\ y.app = z.app /\ y.bonds = z.bonds
          /\ y.rom = z.rom /\ y \in Record
      BY <1>0, <2>1, <2>2 DEF Record
    <2>4. Stopping(y) /\ Window(r, y) /\ Missed(r, y) /\ Walked(y)
      BY <1>1, <2>2, <2>3 DEF Sound, Stopping, Window, Missed, Walked
    <2> QED BY <2>2, <2>3, <2>4 DEF Sound, y
  <1>2. CASE ~z.ses.win
    BY <1>2 DEF WindowClosed
  <1> QED BY <1>1, <1>2

\* A stream that came up in a window has paired.
LEMMA PairedIs ==
  ASSUME NEW y, Sound("sink", y), y.ses.state = "CONNECTING"
  PROVE  LET x == [y EXCEPT !.ses.state = "STREAMING", !.app.paired = @ \/ y.ses.win]
             c == WindowClosed(x, "PAIRED")
         IN /\ Sound("sink", c) /\ c.link = y.link /\ c.att = y.att /\ c.bonds = y.bonds
            /\ c.rom = y.rom /\ c.ses.state = "STREAMING" /\ c.app.up = y.app.up
  <1> DEFINE x == [y EXCEPT !.ses.state = "STREAMING", !.app.paired = @ \/ y.ses.win]
             c == WindowClosed(x, "PAIRED")
             v == [y.ses EXCEPT !.state = "STREAMING"]
             a == [y.app EXCEPT !.paired = @ \/ y.ses.win]
             q == IF v.win THEN [v EXCEPT !.win = FALSE, !.end = "PAIRED"] ELSE v
  <1>0. y \in Record
    BY DEF Sound
  <1>1. x = [y EXCEPT !.ses = v, !.app = a]
    BY <1>0 DEF Record, AnySession, AnyApp
  <1>2. /\ v \in AnySession /\ v.state = "STREAMING" /\ v.boot = y.ses.boot /\ v.idx = y.ses.idx
        /\ v.inq = y.ses.inq /\ v.lost = y.ses.lost /\ v.win = y.ses.win /\ v.end = y.ses.end
    BY <1>0 DEF Record, AnySession, SessionStates
  <1>3. /\ a \in AnyApp /\ a.stopped = y.app.stopped /\ a.up = y.app.up /\ a.peer = y.app.peer
        /\ a.tried = y.app.tried /\ a.moved = y.app.moved
        /\ a.paired <=> y.app.paired \/ y.ses.win
    BY <1>0 DEF Record, AnyApp, AnySession
  <1> HIDE DEF x, v, a
  <1>4. /\ x.link = y.link /\ x.att = y.att /\ x.ses = v /\ x.app = a /\ x.bonds = y.bonds
        /\ x.rom = y.rom /\ x \in Record
    BY <1>0, <1>1, <1>2, <1>3 DEF Record
  <1>5. /\ q \in AnySession /\ q.state = "STREAMING" /\ q.boot = v.boot /\ q.idx = v.idx
        /\ q.inq = v.inq /\ q.lost = v.lost /\ ~q.win
        /\ q.end = IF v.win THEN "PAIRED" ELSE v.end
    BY <1>2 DEF AnySession
  <1>6. c = [x EXCEPT !.ses = q]
    BY <1>2, <1>4 DEF WindowClosed, Record, AnySession
  <1> HIDE DEF c, q
  <1>7. /\ c.link = x.link /\ c.att = x.att /\ c.ses = q /\ c.app = x.app /\ c.bonds = x.bonds
        /\ c.rom = x.rom /\ c \in Record
    BY <1>4, <1>5, <1>6 DEF Record
  <1>8. Window("sink", c)
    BY <1>2, <1>3, <1>4, <1>5, <1>7 DEF Sound, Window
  <1>9. Stopping(c) /\ Missed("sink", c) /\ Walked(c) /\ c.ses.state \in StatesOf("sink")
    BY <1>2, <1>3, <1>4, <1>5, <1>7
       DEF Sound, Stopping, Missed, Walked, StatesOf, SessionStates, Down
  <1> QED BY <1>2, <1>3, <1>4, <1>5, <1>7, <1>8, <1>9 DEF Sound, c, x

\* What a sink's attempt makes of a tick.
SinkAdvancing(x, y) ==
  /\ SameButLink(x, y)
  /\ \/ Advanced(x, y)
     \/ x.att.st = "STREAMING" /\ y.att.st = "DISCONNECTING" /\ y.link = x.link

LEMMA SinkSucceededTicks ==
  ASSUME NEW x, Whole("sink", x), NEW y, SameButLink(x, y), Advanced(x, y), NEW when,
         y.ses.state = "CONNECTING", y.att.st = "STREAMING"
  PROVE  Ticked("sink", x, SinkSucceeded(y, when))
  <1> DEFINE r == "sink"
             z == [y EXCEPT !.ses.state = "STREAMING", !.app.paired = @ \/ y.ses.win]
             c == WindowClosed(z, "PAIRED")
             w == OnAttempt(c, when)
             u == OnStream(w, TRUE, when)
  <1>0. Sound(r, y)
    BY SoundStays DEF Whole
  <1>1. /\ Sound(r, c) /\ c.link = y.link /\ c.att = y.att /\ c.bonds = y.bonds
        /\ c.rom = y.rom /\ c.ses.state = "STREAMING"
    BY <1>0, PairedIs
  <1>2. SinkSucceeded(y, when) = IF w.ses.state = "STREAMING" THEN u ELSE w
    BY DEF SinkSucceeded
  <1> HIDE DEF c
  <1>3. /\ Sound(r, w) /\ w.link = c.link /\ w.bonds.table = c.bonds.table
        /\ w.rom \in {c.rom, Image(c.bonds.table)}
        /\ \/ w.ses = c.ses /\ w.app = c.app /\ w.att = c.att
           \/ w.ses.state = "DISCONNECTING" /\ w.att = Stopped /\ Reported(w)
    BY <1>1, OnAttemptIs
  <1> HIDE DEF w
  <1>4. w.bonds.table = x.bonds.table /\ w.rom \in {x.rom, Image(x.bonds.table)} /\ Held(w.link)
    BY <1>1, <1>3 DEF SameButLink, Advanced
  <1>5. CASE w.ses.state = "STREAMING"
    <2>1. w.link = y.link /\ w.att = y.att
      BY <1>1, <1>3, <1>5
    <2>2. x.att.st = "AVDTP" /\ y.link.handle # None /\ y.att.result = "OK"
      <3>1. x.att.st # "STREAMING"
        BY DEF Whole, Tied, SameButLink
      <3> QED BY <3>1 DEF Advanced
    <2>3. IsUp(w.link) /\ w.link.handle = w.link.bd
      BY <2>1, <2>2 DEF Advanced, Held
    <2>4. /\ Sound(r, u) /\ Reported(u) /\ u.link = w.link /\ u.bonds = w.bonds
          /\ u.rom = w.rom
          /\ \/ u.ses = w.ses /\ u.att = w.att /\ u.app.peer = w.link.handle
             \/ u.ses.state = "DISCONNECTING" /\ u.att = Stopped
      <3> DEFINE up == TRUE
      <3>1. up \in BOOLEAN /\ (up <=> w.ses.state = "STREAMING") /\ (up => w.ses.lost = None)
        BY <1>3, <1>5 DEF Sound, Missed
      <3> HIDE DEF up
      <3>2. LET o == OnStream(w, up, when)
            IN /\ Sound(r, o) /\ Reported(o) /\ o.link = w.link /\ o.bonds = w.bonds
               /\ o.rom = w.rom
               /\ \/ o.ses = w.ses /\ o.att = w.att /\ (up => o.app.peer = w.link.handle)
                  \/ o.ses.state = "DISCONNECTING" /\ o.att = Stopped
        BY <1>3, <3>1, OnStreamIs
      <3> QED BY <3>2 DEF up
    <2> HIDE DEF u
    <2>5. CASE u.ses = w.ses /\ u.att = w.att /\ u.app.peer = w.link.handle
      <3>1. Tied(r, u)
        BY <1>5, <2>1, <2>2, <2>3, <2>4, <2>5 DEF Tied, Stages
      <3>2. Chained(u.link, u.att)
        BY <1>4, <2>1, <2>3, <2>4, <2>5 DEF Chained, PairBegun, LinkBehind, IsUp
      <3>3. Ticked(r, x, u)
        BY <1>4, <2>2, <2>3, <2>4, <3>1, <3>2 DEF Ticked, Whole
      <3> QED BY <1>2, <1>5, <3>3
    <2>6. CASE u.ses.state = "DISCONNECTING" /\ u.att = Stopped
      <3>1. PairBegun(u.link, u.att)
        BY <2>6, StoppedAside DEF PairBegun
      <3>2. u.bonds.table = x.bonds.table /\ u.rom \in {x.rom, Image(x.bonds.table)} /\ Held(u.link)
        BY <1>4, <2>4
      <3>3. Ticked(r, x, u)
        BY <2>4, <2>6, <3>1, <3>2, StoppedAside, AsideTicks
      <3> QED BY <1>2, <1>5, <3>3
    <2> QED BY <2>4, <2>5, <2>6
  <1>6. CASE w.ses.state # "STREAMING"
    <2>1. w.ses.state = "DISCONNECTING" /\ w.att = Stopped /\ Reported(w)
      BY <1>1, <1>3, <1>6
    <2>2. PairBegun(w.link, w.att)
      BY <2>1, StoppedAside DEF PairBegun
    <2>3. Ticked(r, x, w)
      BY <1>3, <1>4, <2>1, <2>2, StoppedAside, AsideTicks
    <2> QED BY <1>2, <1>6, <2>3
  <1> QED BY <1>5, <1>6

\* The attempt is over: the sink listens again, for a while to anyone.
LEMMA ListensAgain ==
  ASSUME NEW x, Whole("sink", x), NEW y, SameButLink(x, y), Held(y.link),
         y.ses.state \in {"CONNECTING", "STREAMING"}
  PROVE  LET c == OpenWindow([y EXCEPT !.ses.state = "LISTENING"])
         IN /\ Sound("sink", c) /\ Held(c.link) /\ c.att = y.att /\ c.ses.state = "LISTENING"
            /\ c.app.up = y.app.up /\ c.bonds = y.bonds /\ c.rom = y.rom
  <1> DEFINE r == "sink"
             z == [y EXCEPT !.ses.state = "LISTENING"]
  <1>0. Sound(r, y)
    BY SoundStays DEF Whole
  <1>1. /\ Sound(r, z) /\ z.link = y.link /\ z.att = y.att /\ z.app = y.app
        /\ z.bonds = y.bonds /\ z.rom = y.rom /\ z.ses.state = "LISTENING"
    <2>1. "LISTENING" \in StatesOf(r) \ Down /\ y.ses.state \notin Down
      BY DEF StatesOf, SessionStates, Down
    <2> QED BY <1>0, <2>1, Restated
  <1> HIDE DEF z
  <1>2. LET c == OpenWindow(z)
        IN /\ Sound(r, c) /\ Held(c.link) /\ c.att = z.att /\ c.bonds = z.bonds
           /\ c.rom = z.rom /\ c.ses.state = z.ses.state /\ c.app.up = z.app.up
    BY <1>1, OpenWindowIs
  <1> QED BY <1>1, <1>2 DEF z

LEMMA SinkFailedTicks ==
  ASSUME NEW x, Whole("sink", x), NEW y, SameButLink(x, y), Held(y.link), NEW when,
         y.ses.state = "CONNECTING", y.att.st \in Aside, y.att.st \notin {"LINKING", "PAIRING"}
  PROVE  Ticked("sink", x, OnAttempt(OpenWindow([y EXCEPT !.ses.state = "LISTENING"]), when))
  <1> DEFINE r == "sink"
             c == OpenWindow([y EXCEPT !.ses.state = "LISTENING"])
             w == OnAttempt(c, when)
  <1>1. /\ Sound(r, c) /\ Held(c.link) /\ c.att = y.att /\ c.ses.state = "LISTENING"
        /\ c.app.up = y.app.up /\ c.bonds = y.bonds /\ c.rom = y.rom
    BY ListensAgain
  <1> HIDE DEF c
  <1>2. /\ Sound(r, w) /\ w.link = c.link /\ w.bonds.table = c.bonds.table
        /\ w.rom \in {c.rom, Image(c.bonds.table)}
        /\ \/ w.ses = c.ses /\ w.app = c.app /\ w.att = c.att
           \/ w.ses.state = "DISCONNECTING" /\ w.att = Stopped /\ Reported(w)
    BY <1>1, OnAttemptIs
  <1> HIDE DEF w
  <1>3. w.bonds.table = x.bonds.table /\ w.rom \in {x.rom, Image(x.bonds.table)} /\ Held(w.link)
    BY <1>1, <1>2 DEF SameButLink
  <1>4. Reported(w) /\ w.att.st \in Aside /\ w.att.st \notin {"LINKING", "PAIRING"}
    <2>1. ~y.app.up
      BY DEF SameButLink, Whole, Reported
    <2> QED BY <1>1, <1>2, <2>1, StoppedAside DEF Reported
  <1>5. PairBegun(w.link, w.att)
    BY <1>4 DEF PairBegun
  <1>6. Ticked(r, x, w)
    BY <1>2, <1>3, <1>4, <1>5, AsideTicks
  <1> QED BY <1>6 DEF w, c

LEMMA SinkLostTicks ==
  ASSUME NEW x, Whole("sink", x), NEW y, SameButLink(x, y), Held(y.link), NEW when,
         y.ses.state = "STREAMING", y.att.st \in Aside, y.att.st \notin {"LINKING", "PAIRING"}
  PROVE  Ticked("sink", x,
                OnStream(OpenWindow([y EXCEPT !.ses.state = "LISTENING"]), FALSE, when))
  <1> DEFINE r == "sink"
             c == OpenWindow([y EXCEPT !.ses.state = "LISTENING"])
             up == FALSE
             u == OnStream(c, up, when)
  <1>1. /\ Sound(r, c) /\ Held(c.link) /\ c.att = y.att /\ c.ses.state = "LISTENING"
        /\ c.app.up = y.app.up /\ c.bonds = y.bonds /\ c.rom = y.rom
    BY ListensAgain
  <1> HIDE DEF c
  <1>2. up \in BOOLEAN /\ (up <=> c.ses.state = "STREAMING") /\ (up => c.ses.lost = None)
    BY <1>1
  <1> HIDE DEF up
  <1>3. /\ Sound(r, u) /\ Reported(u) /\ u.link = c.link /\ u.bonds = c.bonds /\ u.rom = c.rom
        /\ \/ u.ses = c.ses /\ u.att = c.att
           \/ u.ses.state = "DISCONNECTING" /\ u.att = Stopped
    BY <1>1, <1>2, OnStreamIs
  <1> HIDE DEF u
  <1>4. /\ u.bonds.table = x.bonds.table /\ u.rom \in {x.rom, Image(x.bonds.table)}
        /\ Held(u.link) /\ u.att.st \in Aside /\ u.att.st \notin {"LINKING", "PAIRING"}
    BY <1>1, <1>3, StoppedAside DEF SameButLink
  <1>5. PairBegun(u.link, u.att)
    BY <1>4 DEF PairBegun
  <1>6. Ticked(r, x, u)
    BY <1>3, <1>4, <1>5, AsideTicks
  <1> QED BY <1>6 DEF u, up, c

\* BtSinkSession::tick(), before the deadline of the window is looked at.
LEMMA SinkSessionIs ==
  ASSUME NEW x, Whole("sink", x), NEW y, SinkAdvancing(x, y), NEW when
  PROVE  Ticked("sink", x, SinkSession(y, when))
  <1> DEFINE r == "sink"
             w == SinkSession(y, when)
  <1>0. /\ Sound(r, y) /\ y \in Record /\ Reported(y) /\ Held(y.link) /\ SameButLink(x, y)
        /\ y.ses = x.ses /\ y.app = x.app
    BY SoundStays DEF Whole, Sound, SinkAdvancing, SameButLink, Reported, Advanced, Chained
  <1>1. y.bonds.table = x.bonds.table /\ y.rom \in {x.rom, Image(x.bonds.table)}
    BY DEF SinkAdvancing, SameButLink
  <1>2. Advanced(x, y) \/ (y.att.st = "DISCONNECTING" /\ x.att.st = "STREAMING")
    BY DEF SinkAdvancing
  <1>3. CASE y.ses.state = "LISTENING" /\ y.link.inboundUp /\ ~Busy(y.att)
    <2> DEFINE z == SourceStarted(y, "INBOUND", y.link.bd)
    <2>1. w = [z EXCEPT !.ses.state = "CONNECTING"]
      BY <1>3 DEF SinkSession, SinkStarted
    <2>2. "INBOUND" \in Kinds /\ y.link.bd \in Peers \cup {None}
      BY <1>0 DEF Kinds, Record, AnyLink
    <2>3. /\ z \in Record /\ Held(z.link)
          /\ z.ses = y.ses /\ z.app = y.app /\ z.bonds = y.bonds /\ z.rom = y.rom
          /\ z.att.st \in {"LINKING", "PAIRING"} /\ PairBegun(z.link, z.att)
      BY <1>0, <1>3, <2>2, SourceStartedIs
    <2> HIDE DEF z, w
    <2>4. SameButLink(y, z) /\ Sound(r, z)
      BY <1>0, <2>3, SoundStays DEF SameButLink
    <2>5. /\ "CONNECTING" \in StatesOf(r) \ Down /\ z.ses.state \notin Down
      BY <1>3, <2>3 DEF StatesOf, SessionStates, Down
    <2>6. /\ Sound(r, w) /\ w.link = z.link /\ w.att = z.att /\ w.app = z.app
          /\ w.bonds = z.bonds /\ w.rom = z.rom /\ w.ses.state = "CONNECTING"
      BY <2>1, <2>4, <2>5, Restated
    <2>7. Reported(w)
      BY <1>0, <1>3, <2>3, <2>6 DEF Reported
    <2>8. w.att.st \in Aside
      BY <2>3, <2>6 DEF Aside, SourceStates, Stages
    <2> QED BY <1>1, <2>3, <2>6, <2>7, <2>8, AsideTicks DEF w
  <1>4. CASE y.ses.state = "CONNECTING" /\ y.att.st = "STREAMING"
    <2>1. w = SinkSucceeded(y, when)
      BY <1>4 DEF SinkSession, Over, Busy
    <2>2. Advanced(x, y)
      BY <1>2, <1>4
    <2> QED BY <1>0, <1>4, <2>1, <2>2, SinkSucceededTicks
  <1>5. CASE y.ses.state = "CONNECTING" /\ Over(y)
    <2> DEFINE e == OnAttempt(OpenWindow([y EXCEPT !.ses.state = "LISTENING"]), when)
    <2>1. w = e
      BY <1>5 DEF SinkSession, Over, Busy
    <2>2. y.att.st \in Aside /\ y.att.st \notin {"LINKING", "PAIRING"}
      BY <1>0, <1>5, IdleAside DEF Over, Record
    <2>3. Ticked(r, x, e)
      BY <1>0, <1>5, <2>2, SinkFailedTicks
    <2> HIDE DEF e, w
    <2>4. Ticked(r, x, w)
      BY <2>1, <2>3
    <2> QED BY <2>4 DEF w
  <1>6. CASE /\ y.ses.state = "STREAMING"
             /\ y.att.result = "LOST" \/ (~Busy(y.att) /\ y.att.result = "OK")
    <2> DEFINE e == OnStream(OpenWindow([y EXCEPT !.ses.state = "LISTENING"]), FALSE, when)
    <2>1. w = e
      BY <1>6 DEF SinkSession
    <2>2. y.att.st \in Aside /\ y.att.st \notin {"LINKING", "PAIRING"}
      <3>1. x.att.st \notin Stages \cup {"LINKING", "PAIRING"}
        BY <1>0, <1>6 DEF Whole, Tied
      <3>2. y.att.st \notin Stages \cup {"LINKING", "PAIRING"}
        BY <1>2, <3>1 DEF Advanced, Stages
      <3>3. y.att.st # "STREAMING"
        <4> SUFFICES ASSUME y.att.st = "STREAMING" PROVE FALSE
          OBVIOUS
        <4>1. Advanced(x, y) /\ x.att.st = "STREAMING"
          BY <1>2, <3>1 DEF Advanced, Stages
        <4>2. y.att = x.att
          BY <4>1 DEF Advanced
        <4> QED BY <1>6, <4>1, <4>2 DEF Whole, Tied, Busy
      <3>4. y.att.st \in SourceStates
        BY <1>0 DEF Record, AnyAttempt
      <3> QED BY <3>2, <3>3, <3>4 DEF Aside
    <2>3. Ticked(r, x, e)
      BY <1>0, <1>6, <2>2, SinkLostTicks
    <2> HIDE DEF e, w
    <2>4. Ticked(r, x, w)
      BY <2>1, <2>3
    <2> QED BY <2>4 DEF w
  <1>7. CASE y.ses.state = "DISCONNECTING"
    <2>1. w = DisconnectEnds(y)
      BY <1>7 DEF SinkSession
    <2>2. Advanced(x, y)
      BY <1>0, <1>2, <1>7 DEF Whole, Tied
    <2>3. y.att.st \in Aside /\ y.att.st \notin {"LINKING", "PAIRING"}
      BY <1>0, <1>7, <2>2, WindsDown
    <2>4. PairBegun(y.link, y.att)
      BY <2>2 DEF Advanced
    <2> QED BY <1>0, <1>7, <2>1, <2>3, <2>4, EndsTicks
  <1>8. CASE /\ ~(y.ses.state = "LISTENING" /\ y.link.inboundUp /\ ~Busy(y.att))
             /\ ~(y.ses.state = "CONNECTING" /\ y.att.st = "STREAMING")
             /\ ~(y.ses.state = "CONNECTING" /\ Over(y))
             /\ ~(/\ y.ses.state = "STREAMING"
                  /\ y.att.result = "LOST" \/ (~Busy(y.att) /\ y.att.result = "OK"))
             /\ y.ses.state # "DISCONNECTING"
    <2>1. w = y
      BY <1>8 DEF SinkSession
    <2>2. CASE Advanced(x, y)
      BY <1>0, <1>8, <2>1, <2>2, UntouchedTicks
    <2>3. CASE y.att.st = "DISCONNECTING" /\ x.att.st = "STREAMING"
      <3>1. y.att.st \in Aside /\ PairBegun(y.link, y.att)
        BY <2>3 DEF Aside, SourceStates, Stages, PairBegun
      <3>2. Ticked(r, x, y)
        BY <1>0, <1>1, <2>3, <3>1, AsideTicks
      <3> QED BY <2>1, <3>2
    <2> QED BY <1>2, <2>2, <2>3
  <1> QED BY <1>3, <1>4, <1>5, <1>6, <1>7, <1>8

\* ... and after.
LEMMA ExpiredIs ==
  ASSUME NEW x, NEW z, Ticked("sink", x, z)
  PROVE  Ticked("sink", x, Expired(z))
  <1> DEFINE y == WindowClosed(z, "TIMEOUT")
  <1>1. "TIMEOUT" \in {"TIMEOUT", "CANCELLED"} /\ Sound("sink", z)
    BY DEF Ticked, Whole
  <1>2. /\ Sound("sink", y) /\ y.link = z.link /\ y.att = z.att /\ y.app = z.app
        /\ y.bonds = z.bonds /\ y.rom = z.rom /\ y.ses.state = z.ses.state
    BY <1>1, WindowClosedIs
  <1> HIDE DEF y
  <1>3. Ticked("sink", x, y)
    BY <1>2 DEF Ticked, Whole, Reported, Tied
  <1> QED BY <1>3 DEF Expired, y

-----------------------------------------------------------------------------
(* The inductive invariant.                                                 *)

\* While a link is there for an attempt that relies on it, nobody is let in.
Unscanned(a) ==
  /\ a.st \in Stages \cup {"STREAMING"} => ~scan.want
  /\ a.st = "STREAMING" => ~scan.have

\* Until the power has failed, the image is one that was written as a whole, or none was.
RomWhole == left.fails = MaxFails => rom \in {Erased} \cup {Image(t) : t \in Tables}

RestTypeOK ==
  /\ role \in {"source", "sink"}
  /\ scan \in [want : BOOLEAN, have : BOOLEAN]
  /\ due \in Peers \cup {None}
  /\ left \in [calls : 0..MaxCalls, stops : 0..MaxStops, fails : 0..MaxFails]

IInv == RestTypeOK /\ Whole(role, Now) /\ Unscanned(att) /\ RomWhole

LEMMA NowIs ==
  /\ Now.link = link /\ Now.att = att /\ Now.ses = ses /\ Now.app = app /\ Now.bonds = bonds
  /\ Now.rom = rom
  BY DEF Now

LEMMA BecomeIs ==
  ASSUME NEW z \in Record, Become(z)
  PROVE  Now' = z
  BY DEF Become, Now, Record

\* A device that was just switched on.
LEMMA BootedIs ==
  ASSUME NEW r \in {"source", "sink"}, NEW image \in Remains(Tables)
  PROVE  /\ Whole(r, Booted(r, image)) /\ Booted(r, image).att.st \in Aside
         /\ Booted(r, image).rom = image /\ Booted(r, image).bonds.table = Load(image)
  <1> DEFINE l == Started(NoLink, "PREPARE")
             b == [table |-> Load(image), dirty |-> FALSE]
             z == [link |-> l, att |-> NoAttempt, ses |-> Fresh, app |-> Unaware, bonds |-> b,
                   rom |-> image]
             w == Booted(r, image)
  <1>1. l \in AnyLink /\ Held(l)
    <2>1. NoLink \in AnyLink /\ Held(NoLink) /\ "PREPARE" \in Ops
      BY DEF NoLink, AnyLink, Held, Ops
    <2> QED BY <2>1, StartedIs
  <1>2. NoAttempt \in AnyAttempt /\ NoAttempt.st = "IDLE"
    BY DEF NoAttempt, AnyAttempt, SourceStates, Results
  <1>3. /\ Fresh \in AnySession /\ Fresh.state = "LISTENING" /\ Fresh.idx = 0 /\ ~Fresh.inq
        /\ Fresh.lost = None /\ ~Fresh.win /\ Fresh.end = "NONE"
    BY BoundsAssumption DEF Fresh, AnySession, SessionStates
  <1>4. /\ Unaware \in AnyApp /\ ~Unaware.stopped /\ ~Unaware.up /\ ~Unaware.paired
    BY DEF Unaware, AnyApp
  <1>5. b \in AnyBonds /\ b.table = Load(image)
    <2>1. Load(image) \in Tables
      BY LoadedIs, NoTable
    <2> QED BY <2>1 DEF AnyBonds
  <1> HIDE DEF l, b
  <1>6. /\ z.link = l /\ z.att = NoAttempt /\ z.ses = Fresh /\ z.app = Unaware /\ z.bonds = b
        /\ z.rom = image /\ z \in Record
    BY <1>1, <1>2, <1>3, <1>4, <1>5 DEF Record
  <1>7. ~Busy(z.att)
    BY <1>2, <1>6 DEF Busy
  <1>8. w = IF r = "source" THEN StartBootWalk(z) ELSE OpenWindow(z)
    BY DEF Booted, l, b
  <1> HIDE DEF z, w
  <1>9. CASE r = "source"
    <2>1. w = StartBootWalk(z)
      BY <1>8, <1>9
    <2>2. ~z.app.stopped /\ ~z.app.up /\ Held(z.link) /\ Window("source", z)
      BY <1>1, <1>3, <1>4, <1>6 DEF Window
    <2>3. Sound("source", w) /\ Begun(z, w)
      BY <1>6, <2>1, <2>2, StartWalkIs
    <2>4. Ticked("source", z, w)
      BY <1>7, <2>2, <2>3, BegunTicks
    <2>5. w.att.st \in Aside
      BY <1>7, <2>3 DEF Begun, Aside, SourceStates, Stages
    <2> QED BY <1>5, <1>6, <1>9, <2>3, <2>4, <2>5 DEF Ticked, Begun, w
  <1>10. CASE r = "sink"
    <2>1. w = OpenWindow(z)
      BY <1>8, <1>10
    <2>2. Sound("sink", z)
      <3>1. Stopping(z) /\ Window("sink", z) /\ Missed("sink", z) /\ z.ses.state \in StatesOf("sink")
        BY <1>3, <1>4, <1>6 DEF Stopping, Window, Missed, StatesOf, SessionStates, Down
      <3>2. Walked(z)
        <4>1. Len(z.bonds.table) \in 0..MaxBonds /\ MaxBonds \in Nat
          BY <1>6, TableIs, BoundsAssumption DEF Record, AnyBonds
        <4>2. \A i \in 1..Len(z.bonds.table) : ~(i <= 0)
          BY <4>1
        <4> QED BY <1>3, <1>6, <4>2 DEF Walked
      <3> QED BY <1>6, <3>1, <3>2 DEF Sound
    <2>3. /\ Sound("sink", w) /\ Held(w.link) /\ w.att = z.att /\ w.bonds = z.bonds
          /\ w.rom = z.rom /\ w.ses.state = z.ses.state /\ w.app.up = z.app.up
      BY <1>1, <1>6, <2>1, <2>2, OpenWindowIs
    <2>4. w.att.st \in Aside /\ w.att.st \notin {"LINKING", "PAIRING"} /\ PairBegun(w.link, w.att)
          /\ Reported(w)
      BY <1>2, <1>3, <1>4, <1>6, <2>3 DEF Aside, SourceStates, Stages, PairBegun, Reported
    <2>5. Ticked("sink", w, w)
      BY <2>3, <2>4, AsideTicks
    <2> QED BY <1>5, <1>6, <1>10, <2>3, <2>4, <2>5 DEF Ticked, w
  <1> QED BY <1>9, <1>10

LEMMA RemainsGrow ==
  ASSUME NEW S, NEW T, S \subseteq T
  PROVE  Remains(S) \subseteq Remains(T)
  BY DEF Remains

LEMMA InitInv == Init => IInv
  <1> SUFFICES ASSUME Init PROVE IInv
    OBVIOUS
  <1>1. PICK image \in {Erased} \cup {Image(t) : t \in Tables} :
          LET z == Booted(role, image)
          IN /\ link = z.link /\ att = z.att /\ ses = z.ses
             /\ app = z.app /\ bonds = z.bonds /\ rom = z.rom
    BY DEF Init
  <1> DEFINE z == Booted(role, image)
  <1>2. image \in Remains(Tables)
    BY WholeImage, ErasedImage, RemainsGrow
  <1>3. role \in {"source", "sink"}
    BY DEF Init
  <1>4. Whole(role, z) /\ z.att.st \in Aside /\ z.rom = image
    BY <1>2, <1>3, BootedIs
  <1>5. Now = z
    <2>1. z \in Record
      BY <1>4 DEF Whole, Sound
    <2> HIDE DEF z
    <2>2. link = z.link /\ att = z.att /\ ses = z.ses /\ app = z.app /\ bonds = z.bonds /\ rom = z.rom
      BY <1>1 DEF z
    <2> QED BY <2>1, <2>2 DEF Now, Record
  <1>6. RestTypeOK
    BY BoundsAssumption DEF Init, RestTypeOK
  <1>7. Unscanned(att)
    BY <1>1, <1>4 DEF Unscanned, Aside
  <1>8. RomWhole
    BY <1>1, <1>4 DEF RomWhole
  <1> QED BY <1>4, <1>5, <1>6, <1>7, <1>8 DEF IInv

\* What a tick comes to.
LEMMA OutcomesTicked ==
  ASSUME IInv, NEW late \in BOOLEAN, NEW when, NEW z \in Outcomes(late, when)
  PROVE  Ticked(role, Now, z)
  <1>1. /\ Whole(role, Now) /\ Now \in Record /\ Chained(Now.link, Now.att)
        /\ role \in {"source", "sink"}
    BY DEF IInv, Whole, Sound, RestTypeOK
  <1>2. CASE role = "source"
    <2>1. PICK y \in SourceAdvanced(Now, late) : z = SourceSession(y, late, when)
      BY <1>2 DEF Outcomes
    <2>2. SameButLink(Now, y) /\ Advanced(Now, y)
      BY <1>1, SourceAdvancedIs
    <2>3. Ticked("source", Now, SourceSession(y, late, when))
      BY <1>1, <1>2, <2>2, SourceSessionIs
    <2> QED BY <1>2, <2>1, <2>3
  <1>3. CASE role = "sink"
    <2>1. PICK y \in SinkAdvanced(Now, late) :
            z = SinkSession(y, when) \/ z = Expired(SinkSession(y, when))
      BY <1>3 DEF Outcomes
    <2>2. SinkAdvancing(Now, y)
      BY <1>1, SinkAdvancedIs DEF SinkAdvancing
    <2>3. Ticked("sink", Now, SinkSession(y, when))
      BY <1>1, <1>3, <2>2, SinkSessionIs
    <2>4. Ticked("sink", Now, Expired(SinkSession(y, when)))
      BY <2>3, ExpiredIs
    <2> QED BY <1>3, <2>1, <2>3, <2>4
  <1> QED BY <1>1, <1>2, <1>3

LEMMA WholeImages ==
  ASSUME IInv, NEW img \in {rom, Image(bonds.table)}
  PROVE  /\ img \in Remains(Tables)
         /\ RomWhole => (left.fails = MaxFails => img \in {Erased} \cup {Image(t) : t \in Tables})
  <1>1. rom \in Remains(Tables) /\ bonds.table \in Tables
    BY NowIs DEF IInv, Whole, Sound, Record, AnyBonds
  <1> QED BY <1>1, WholeImage DEF RomWhole

LEMMA TickInv ==
  ASSUME IInv, NEW late \in BOOLEAN, Tick(late)
  PROVE  IInv'
  <1>0. PICK when \in Moments : \E z \in Outcomes(late, when) :
          /\ when # "never" => left.stops > 0
          /\ left' = IF when = "never" THEN left ELSE [left EXCEPT !.stops = @ - 1]
          /\ Become(z) /\ PageDue(z)
          /\ scan' = [have |-> scan.want, want |-> Wanted(z)]
          /\ UNCHANGED role
    BY DEF Tick
  <1>1. PICK z \in Outcomes(late, when) :
          /\ when # "never" => left.stops > 0
          /\ left' = IF when = "never" THEN left ELSE [left EXCEPT !.stops = @ - 1]
          /\ Become(z) /\ PageDue(z)
          /\ scan' = [have |-> scan.want, want |-> Wanted(z)]
          /\ UNCHANGED role
    BY <1>0
  <1>2. Ticked(role, Now, z)
    BY OutcomesTicked
  <1>3. z \in Record /\ Now' = z
    BY <1>1, <1>2, BecomeIs DEF Ticked, Whole, Sound
  <1>4. Whole(role, Now)'
    BY <1>1, <1>2, <1>3 DEF Ticked
  <1>5. att' = z.att /\ rom' = z.rom
    BY <1>1 DEF Become
  <1>6. RestTypeOK' /\ left'.fails = left.fails
    <2>1. left' \in [calls : 0..MaxCalls, stops : 0..MaxStops, fails : 0..MaxFails]
          /\ left'.fails = left.fails
      <3>1. left \in [calls : 0..MaxCalls, stops : 0..MaxStops, fails : 0..MaxFails]
            /\ MaxStops \in Nat
        BY BoundsAssumption DEF IInv, RestTypeOK
      <3>2. CASE when = "never"
        BY <1>1, <3>1, <3>2
      <3>3. CASE when # "never"
        <4>1. left.stops - 1 \in 0..MaxStops
          BY <1>1, <3>1, <3>3
        <4> QED BY <1>1, <3>1, <3>3, <4>1
      <3> QED BY <3>2, <3>3
    <2>2. due' \in Peers \cup {None}
      BY <1>1, <1>3 DEF PageDue, IInv, RestTypeOK, Record, AnyLink
    <2>3. scan' \in [want : BOOLEAN, have : BOOLEAN]
      BY <1>1 DEF IInv, RestTypeOK, Wanted
    <2>4. role' \in {"source", "sink"}
      BY <1>1 DEF IInv, RestTypeOK
    <2> QED BY <2>1, <2>2, <2>3, <2>4 DEF RestTypeOK
  <1>7. Unscanned(att)'
    <2>1. z.att.st \in Stages \cup {"STREAMING"} => ~Wanted(z)
      BY <1>2 DEF Ticked, Wanted
    <2>2. z.att.st = "STREAMING" => ~scan.want
      BY <1>2, NowIs DEF Ticked, IInv, Unscanned, Stages
    <2> QED BY <1>1, <1>5, <2>1, <2>2 DEF Unscanned
  <1>8. RomWhole'
    <2>1. z.rom \in {rom, Image(bonds.table)}
      BY <1>2, NowIs DEF Ticked
    <2>2. left.fails = MaxFails => z.rom \in {Erased} \cup {Image(t) : t \in Tables}
      BY <2>1, WholeImages DEF IInv
    <2> QED BY <1>5, <1>6, <2>2 DEF RomWhole
  <1> QED BY <1>4, <1>6, <1>7, <1>8 DEF IInv

\* What the link does by itself disturbs neither the session nor what it relies on.
LEMMA LinkMoves ==
  ASSUME IInv, UNCHANGED Above, UNCHANGED scan,
         link' \in AnyLink, Held(link'), PairBegun(link', att), LinkBehind(link', att),
         att.st = "STREAMING" => link'.bd = link.bd,
         due' \in Peers \cup {None},
         left' \in [calls : 0..MaxCalls, stops : 0..MaxStops, fails : 0..MaxFails],
         left'.fails = left.fails
  PROVE  IInv'
  <1> DEFINE x == Now
  <1>1. /\ Whole(role, x) /\ x.link = link /\ x.att = att /\ x.ses = ses /\ x.app = app
        /\ x.bonds = bonds /\ x.rom = rom
    BY NowIs DEF IInv
  <1> DEFINE y == [link |-> link', att |-> att, ses |-> ses, app |-> app, bonds |-> bonds,
                   rom |-> rom]
  <1>2. Now' = y /\ role' = role /\ rom' = rom /\ att' = att
    BY DEF Now, Above
  <1>3. /\ y.link = link' /\ y.att = att /\ y.ses = ses /\ y.app = app /\ y.bonds = bonds
        /\ y.rom = rom
    OBVIOUS
  <1>4. y \in Record
    <2>1. att \in AnyAttempt /\ ses \in AnySession /\ app \in AnyApp /\ bonds \in AnyBonds
          /\ rom \in Remains(Tables)
      BY <1>1 DEF Whole, Sound, Record
    <2> QED BY <2>1 DEF Record
  <1> HIDE DEF x, y
  <1>5. Sound(role, y)
    <2>1. SameButLink(x, y)
      BY <1>1, <1>3, <1>4 DEF SameButLink
    <2> QED BY <1>1, <2>1, SoundStays DEF Whole
  <1>6. Reported(y) /\ Tied(role, y)
    BY <1>1, <1>3 DEF Whole, Reported, Tied
  <1>7. Chained(y.link, y.att)
    BY <1>3 DEF Chained
  <1>8. Whole(role, Now)'
    <2>1. Whole(role, y)
      BY <1>5, <1>6, <1>7 DEF Whole
    <2> QED BY <1>2, <2>1
  <1>9. RestTypeOK'
    BY <1>2 DEF IInv, RestTypeOK
  <1>10. Unscanned(att)' /\ RomWhole'
    BY <1>2 DEF IInv, Unscanned, RomWhole
  <1> QED BY <1>8, <1>9, <1>10 DEF IInv

LEMMA LinksInv ==
  ASSUME IInv, Links
  PROVE  IInv'
  <1>1. /\ link \in AnyLink /\ Held(link) /\ PairBegun(link, att) /\ LinkBehind(link, att)
        /\ due \in Peers \cup {None}
        /\ left \in [calls : 0..MaxCalls, stops : 0..MaxStops, fails : 0..MaxFails]
    BY NowIs DEF IInv, Whole, Sound, Record, Chained, RestTypeOK
  <1>2. CASE Ends
    <2>1. PICK r \in {"OK", "FAILED"} :
            /\ link.op # "NONE" /\ (link.op = "PAIR" /\ r = "OK" => IsUp(link))
            /\ link' = [link EXCEPT !.op = "NONE", !.result = r,
                                    !.handle = IF link.op = "DISCONNECT" THEN None ELSE @]
      BY <1>2 DEF Ends, OpEnds
    <2>2. link' \in AnyLink /\ Held(link') /\ link'.bd = link.bd /\ LinkBehind(link', att)
      BY <1>1, <2>1 DEF AnyLink, Ops, Held, IsUp, LinkBehind
    <2>3. PairBegun(link', att)
      BY <1>1, <2>1 DEF AnyLink, PairBegun, IsUp
    <2>4. UNCHANGED Above /\ UNCHANGED <<scan, left>> /\ due' \in Peers \cup {None}
      BY <1>1, <1>2 DEF Ends
    <2> QED BY <1>1, <2>2, <2>3, <2>4, LinkMoves
  <1>3. ASSUME NEW p \in Peers, Call(p) PROVE IInv'
    <2>1. /\ ~IsUp(link) /\ link' = [link EXCEPT !.bd = p] /\ scan.have /\ due' = p
          /\ left.calls > 0 /\ left' = [left EXCEPT !.calls = @ - 1]
          /\ UNCHANGED Above /\ UNCHANGED scan
      BY <1>3 DEF Call, CallAccepted
    <2>2. att.st # "STREAMING"
      BY <2>1 DEF IInv, Unscanned
    <2>3. link' \in AnyLink /\ Held(link') /\ LinkBehind(link', att)
      BY <1>1, <2>1 DEF AnyLink, Held, IsUp, LinkBehind
    <2>4. PairBegun(link', att)
      BY <1>1, <2>1 DEF AnyLink, PairBegun
    <2>5. left' \in [calls : 0..MaxCalls, stops : 0..MaxStops, fails : 0..MaxFails]
          /\ left'.fails = left.fails
      <3>1. left.calls - 1 \in 0..MaxCalls
        BY <1>1, <2>1, BoundsAssumption
      <3> QED BY <1>1, <2>1, <3>1
    <2> QED BY <2>1, <2>2, <2>3, <2>4, <2>5, LinkMoves
  <1>4. CASE Completes
    <2>1. /\ link.bd # None
          /\ link' = [link EXCEPT !.st = "UP", !.handle = link.bd,
                                  !.inboundUp = @ \/ link.op # "PAGE"]
          /\ UNCHANGED Above /\ UNCHANGED <<scan, left>> /\ due' = None
      BY <1>4 DEF Completes, ComesUp
    <2> DEFINE came == link.inboundUp \/ link.op # "PAGE"
    <2>2. came \in BOOLEAN /\ link' = [link EXCEPT !.st = "UP", !.handle = link.bd, !.inboundUp = came]
      BY <1>1, <2>1 DEF AnyLink
    <2> HIDE DEF came
    <2>3. /\ link' \in AnyLink /\ link'.bd = link.bd /\ link'.handle = link.bd /\ link'.st = "UP"
          /\ link'.op = link.op /\ link'.result = link.result
      BY <1>1, <2>2 DEF AnyLink
    <2>4. Held(link') /\ LinkBehind(link', att) /\ PairBegun(link', att)
      BY <1>1, <2>3 DEF Held, IsUp, LinkBehind, PairBegun
    <2> QED BY <1>1, <2>1, <2>3, <2>4, LinkMoves
  <1>5. CASE Fades
    <2>1. /\ link' = [link EXCEPT !.st = "LOST", !.handle = None]
          /\ UNCHANGED Above /\ UNCHANGED <<scan, due, left>>
      BY <1>5 DEF Fades, Drops
    <2>2. /\ link' \in AnyLink /\ link'.bd = link.bd /\ link'.handle = None /\ link'.st = "LOST"
          /\ link'.op = link.op /\ link'.result = link.result
      BY <1>1, <2>1 DEF AnyLink
    <2>3. Held(link') /\ LinkBehind(link', att) /\ PairBegun(link', att)
      BY <1>1, <2>2 DEF Held, IsUp, LinkBehind, PairBegun
    <2> QED BY <1>1, <2>1, <2>2, <2>3, LinkMoves
  <1> QED BY <1>2, <1>3, <1>4, <1>5 DEF Links

\* A call of the application that leaves no attempt relying on a link.
LEMMA TurnedInv ==
  ASSUME IInv, NEW w, Become(w), Ticked(role, Now, w), w.att.st \in Aside,
         UNCHANGED <<role, scan>>, due' \in Peers \cup {None},
         left' \in [calls : 0..MaxCalls, stops : 0..MaxStops, fails : 0..MaxFails],
         left'.fails = left.fails
  PROVE  IInv'
  <1>1. w \in Record /\ Now' = w /\ att' = w.att /\ rom' = w.rom
    BY BecomeIs DEF Become, Ticked, Whole, Sound
  <1>2. Whole(role, Now)'
    BY <1>1 DEF Ticked
  <1>3. RestTypeOK'
    BY DEF IInv, RestTypeOK
  <1>4. Unscanned(att)'
    BY <1>1 DEF Unscanned, Aside
  <1>5. RomWhole'
    <2>1. w.rom \in {rom, Image(bonds.table)}
      BY NowIs DEF Ticked
    <2>2. left.fails = MaxFails => w.rom \in {Erased} \cup {Image(t) : t \in Tables}
      BY <2>1, WholeImages DEF IInv
    <2> QED BY <1>1, <2>2 DEF RomWhole
  <1> QED BY <1>2, <1>3, <1>4, <1>5 DEF IInv

LEMMA RestIs ==
  ASSUME IInv
  PROVE  /\ Whole(role, Now) /\ Now \in Record /\ Sound(role, Now) /\ Held(Now.link)
         /\ PairBegun(Now.link, Now.att) /\ Tied(role, Now) /\ Reported(Now)
         /\ role \in {"source", "sink"} /\ due \in Peers \cup {None}
         /\ left \in [calls : 0..MaxCalls, stops : 0..MaxStops, fails : 0..MaxFails]
  BY DEF IInv, Whole, Sound, Chained, RestTypeOK

LEMMA DisconnectInv ==
  ASSUME IInv, Disconnect
  PROVE  IInv'
  <1> DEFINE x == Now
             w == Disconnected(Now)
  <1>1. /\ Sound(role, x) /\ Held(x.link) /\ role \in {"source", "sink"}
        /\ due \in Peers \cup {None}
        /\ left \in [calls : 0..MaxCalls, stops : 0..MaxStops, fails : 0..MaxFails]
    BY RestIs
  <1>2. /\ left.stops > 0 /\ left' = [left EXCEPT !.stops = @ - 1] /\ Become(w)
        /\ UNCHANGED <<role, scan, due>>
    BY DEF Disconnect
  <1>3. /\ Sound(role, w) /\ Reported(w) /\ w.ses.state = "DISCONNECTING" /\ w.att = Stopped
        /\ w.link = x.link /\ w.rom = x.rom /\ w.bonds = x.bonds
    BY <1>1, DisconnectedIs
  <1> HIDE DEF w, x
  <1>4. w.att.st \in Aside /\ w.att.st \notin {"LINKING", "PAIRING"} /\ PairBegun(w.link, w.att)
    BY <1>3, StoppedAside DEF PairBegun
  <1>5. Ticked(role, x, w)
    BY <1>1, <1>3, <1>4, AsideTicks
  <1>6. left' \in [calls : 0..MaxCalls, stops : 0..MaxStops, fails : 0..MaxFails]
        /\ left'.fails = left.fails
    <2>1. left.stops - 1 \in 0..MaxStops
      BY <1>1, <1>2, BoundsAssumption
    <2> QED BY <1>1, <1>2, <2>1
  <1> QED BY <1>1, <1>2, <1>4, <1>5, <1>6, TurnedInv DEF x

\* While the session rests in a state, no attempt is under way.
LEMMA NoneUnderWay ==
  ASSUME IInv, ses.state \in {"LISTENING", "MANUAL"}
  PROVE  Now.att.st \in Aside /\ Now.att.st \notin {"LINKING", "PAIRING"}
  <1>1. Tied(role, Now) /\ Now.ses = ses /\ Now.att \in AnyAttempt
    BY RestIs, NowIs DEF Record
  <1> QED BY <1>1 DEF Tied, Aside, AnyAttempt

LEMMA EnterPairingInv ==
  ASSUME IInv, EnterPairing
  PROVE  IInv'
  <1> DEFINE x == Now
             w == OpenWindow(Now)
  <1>1. /\ role = "sink" /\ Become(w) /\ UNCHANGED <<role, scan, due, left>>
    BY DEF EnterPairing
  <1>2. /\ Sound("sink", x) /\ Held(x.link) /\ Reported(x) /\ PairBegun(x.link, x.att)
        /\ due \in Peers \cup {None} /\ x \in Record
        /\ left \in [calls : 0..MaxCalls, stops : 0..MaxStops, fails : 0..MaxFails]
    BY <1>1, RestIs
  <1>3. /\ Sound("sink", w) /\ Held(w.link) /\ w.att = x.att /\ w.bonds = x.bonds
        /\ w.rom = x.rom /\ w.ses.state = x.ses.state /\ w.app.up = x.app.up
        /\ x.ses.state # "LISTENING" => w = x
    BY <1>2, OpenWindowIs
  <1>4. CASE ses.state = "LISTENING"
    <2>1. x.att.st \in Aside /\ x.att.st \notin {"LINKING", "PAIRING"}
      BY <1>4, NoneUnderWay
    <2> HIDE DEF w, x
    <2>2. PairBegun(w.link, w.att) /\ Reported(w)
      BY <1>2, <1>3, <2>1 DEF PairBegun, Reported
    <2>3. Ticked("sink", x, w)
      BY <1>2, <1>3, <2>1, <2>2, AsideTicks
    <2> QED BY <1>1, <1>2, <1>3, <2>1, <2>3, TurnedInv DEF x
  <1>5. CASE ses.state # "LISTENING"
    <2>1. w = x
      BY <1>3, <1>5, NowIs
    <2> HIDE DEF w
    <2>2. UNCHANGED Above /\ link' = link
      BY <1>1, <2>1, NowIs DEF Become, Above
    <2>3. /\ link \in AnyLink /\ Held(link) /\ PairBegun(link, att) /\ LinkBehind(link, att)
      BY RestIs, NowIs DEF Whole, Chained, Record
    <2> QED BY <1>1, <1>2, <2>2, <2>3, LinkMoves
  <1> QED BY <1>4, <1>5

LEMMA ResumeInv ==
  ASSUME IInv, Resume
  PROVE  IInv'
  <1> DEFINE x == Now
             y == [Now EXCEPT !.app.stopped = FALSE]
             a == [x.app EXCEPT !.stopped = FALSE]
             s == [y EXCEPT !.ses.state = "LISTENING"]
             w == IF role = "source" THEN StartBootWalk(y) ELSE s
  <1>1. /\ ses.state = "MANUAL" /\ Become(w) /\ PageDue(w) /\ UNCHANGED <<role, scan, left>>
    BY DEF Resume
  <1>2. /\ Sound(role, x) /\ Held(x.link) /\ Reported(x) /\ PairBegun(x.link, x.att)
        /\ due \in Peers \cup {None} /\ x \in Record /\ role \in {"source", "sink"}
        /\ left \in [calls : 0..MaxCalls, stops : 0..MaxStops, fails : 0..MaxFails]
    BY RestIs
  <1>3. x.ses.state = "MANUAL" /\ x.att.st \in Aside /\ x.att.st \notin {"LINKING", "PAIRING"}
    BY <1>1, NoneUnderWay, NowIs
  <1>4. y = [x EXCEPT !.app = a]
    BY <1>2 DEF Record, AnyApp
  <1> HIDE DEF x
  <1>5. /\ a \in AnyApp /\ ~a.stopped /\ a.up = x.app.up /\ a.peer = x.app.peer
        /\ a.tried = x.app.tried /\ a.moved = x.app.moved /\ a.paired = x.app.paired
    BY <1>2 DEF Record, AnyApp
  <1> HIDE DEF y, a
  <1>6. /\ y.link = x.link /\ y.att = x.att /\ y.ses = x.ses /\ y.app = a
        /\ y.bonds = x.bonds /\ y.rom = x.rom /\ y \in Record
    BY <1>2, <1>4, <1>5 DEF Record
  <1>7. ~x.app.up
    BY <1>2, <1>3 DEF Reported
  <1>8. Ticked(role, x, w) /\ w.att.st \in Aside
    <2>1. CASE role = "source"
      <3>1. w = StartBootWalk(y) /\ ~y.app.stopped /\ Held(y.link)
        BY <1>2, <1>5, <1>6, <2>1
      <3>2. Window("source", y)
        BY <1>2, <1>5, <1>6, <2>1 DEF Sound, Window
      <3> HIDE DEF w
      <3>3. Sound("source", w) /\ Begun(y, w)
        BY <1>6, <3>1, <3>2, StartWalkIs
      <3>4. /\ w.ses.state = "CONNECTING" /\ ~w.app.up /\ Held(w.link) /\ w.bonds = x.bonds
            /\ w.rom = x.rom
            /\ \/ w.att = x.att /\ w.link = x.link
               \/ w.att.st \in {"LINKING", "PAIRING"} /\ PairBegun(w.link, w.att)
        BY <1>5, <1>6, <1>7, <3>3 DEF Begun
      <3>5. w.att.st \in Aside /\ PairBegun(w.link, w.att) /\ Reported(w)
        BY <1>2, <1>3, <3>4 DEF Aside, SourceStates, Stages, Reported
      <3>6. Ticked("source", x, w)
        BY <3>3, <3>4, <3>5, AsideTicks
      <3> QED BY <2>1, <3>5, <3>6
    <2>2. CASE role = "sink"
      <3> DEFINE v == [x.ses EXCEPT !.state = "LISTENING"]
      <3>1. w = [y EXCEPT !.ses = v]
        BY <1>6, <2>2 DEF Record, AnySession
      <3>2. /\ v \in AnySession /\ v.state = "LISTENING" /\ v.boot = x.ses.boot
            /\ v.idx = x.ses.idx /\ v.inq = x.ses.inq /\ v.lost = x.ses.lost
            /\ v.win = x.ses.win /\ v.end = x.ses.end
        BY <1>2 DEF Record, AnySession, SessionStates
      <3> HIDE DEF w, v
      <3>3. /\ w.link = x.link /\ w.att = x.att /\ w.ses = v /\ w.app = a
            /\ w.bonds = x.bonds /\ w.rom = x.rom /\ w \in Record
        BY <1>6, <3>1, <3>2 DEF Record
      <3>4. Window("sink", w) /\ Missed("sink", w)
        BY <1>2, <1>3, <1>5, <2>2, <3>2, <3>3 DEF Sound, Window, Missed
      <3>5. Stopping(w) /\ w.ses.state \in StatesOf("sink") /\ Reported(w)
        BY <1>5, <1>7, <3>2, <3>3 DEF Stopping, Down, StatesOf, SessionStates, Reported
      <3>6. Walked(w)
        BY <1>2, <1>5, <3>2, <3>3 DEF Sound, Walked
      <3>7. Sound("sink", w)
        BY <3>3, <3>4, <3>5, <3>6 DEF Sound
      <3>8. w.att.st \in Aside /\ w.att.st \notin {"LINKING", "PAIRING"} /\ Held(w.link)
            /\ PairBegun(w.link, w.att)
        BY <1>2, <1>3, <3>3
      <3>9. Ticked("sink", x, w)
        BY <3>3, <3>5, <3>7, <3>8, AsideTicks
      <3> QED BY <2>2, <3>8, <3>9
    <2> QED BY <1>2, <2>1, <2>2
  <1>9. due' \in Peers \cup {None}
    <2>1. w \in Record
      BY <1>8 DEF Ticked, Whole, Sound
    <2> HIDE DEF w
    <2> QED BY <1>1, <1>2, <2>1 DEF PageDue, Record, AnyLink
  <1> HIDE DEF w
  <1> QED BY <1>1, <1>2, <1>8, <1>9, TurnedInv DEF x

\* What the bond table is told.
LEMMA BondsInv ==
  ASSUME IInv, NEW t \in Tables, NEW d \in BOOLEAN, bonds' = [table |-> t, dirty |-> d],
         app' = [app EXCEPT !.moved = @ \/ (ses.boot /\ t # bonds.table)],
         UNCHANGED <<link, role, att, ses, rom, scan, due, left>>
  PROVE  IInv'
  <1> DEFINE x == Now
             b == [table |-> t, dirty |-> d]
             m == app.moved \/ (ses.boot /\ t # bonds.table)
             a == [app EXCEPT !.moved = m]
             y == [link |-> link, att |-> att, ses |-> ses, app |-> a, bonds |-> b, rom |-> rom]
  <1>1. /\ Whole(role, x) /\ x \in Record /\ x.link = link /\ x.att = att /\ x.ses = ses
        /\ x.app = app /\ x.bonds = bonds /\ x.rom = rom
    BY RestIs, NowIs
  <1> HIDE DEF x
  <1>2. /\ link \in AnyLink /\ att \in AnyAttempt /\ ses \in AnySession /\ app \in AnyApp
        /\ bonds \in AnyBonds /\ rom \in Remains(Tables)
    BY <1>1 DEF Record
  <1>3. b \in AnyBonds /\ b.table = t
    BY DEF AnyBonds
  <1>4. m \in BOOLEAN
    BY <1>2 DEF AnyApp, AnySession
  <1>5. m <=> (app.moved \/ (ses.boot /\ t # bonds.table))
    OBVIOUS
  <1> HIDE DEF b, m
  <1>6. /\ a \in AnyApp /\ a.stopped = app.stopped /\ a.up = app.up /\ a.peer = app.peer
        /\ a.tried = app.tried /\ a.moved = m /\ a.paired = app.paired
    BY <1>2, <1>4 DEF AnyApp
  <1>7. Now' = y /\ role' = role
    <2>1. app' = a /\ bonds' = b
      BY DEF m, b
    <2> HIDE DEF a
    <2> QED BY <2>1 DEF Now
  <1> HIDE DEF a
  <1>8. /\ y.link = link /\ y.att = att /\ y.ses = ses /\ y.app = a /\ y.bonds = b /\ y.rom = rom
        /\ y \in Record
    BY <1>2, <1>3, <1>6 DEF Record
  <1> HIDE DEF y
  <1>9. Walked(y)
    <2> SUFFICES ASSUME ses.boot, ~m
                 PROVE  \A i \in 1..Len(t) :
                          t[i] \in Matching /\ (ses.inq \/ i <= ses.idx) => t[i] \in app.tried
      BY <1>3, <1>6, <1>8 DEF Walked
    <2>1. ~app.moved /\ t = bonds.table
      BY <1>5
    <2>2. Walked(x)
      BY <1>1 DEF Whole, Sound
    <2> QED BY <1>1, <2>1, <2>2 DEF Walked
  <1>10. Sound(role, y)
    BY <1>1, <1>6, <1>8, <1>9 DEF Whole, Sound, Stopping, Window, Missed
  <1>11. Reported(y) /\ Tied(role, y) /\ Chained(y.link, y.att)
    BY <1>1, <1>6, <1>8 DEF Whole, Reported, Tied
  <1>12. Whole(role, Now)'
    BY <1>7, <1>10, <1>11 DEF Whole
  <1>13. RestTypeOK' /\ Unscanned(att)' /\ RomWhole'
    BY DEF IInv, RestTypeOK, Unscanned, RomWhole
  <1> QED BY <1>12, <1>13 DEF IInv

LEMMA BoundIs ==
  ASSUME IInv
  PROVE  /\ bonds.table \in Tables /\ bonds.dirty \in BOOLEAN
         /\ link.handle \in Peers \cup {None} /\ link.bd \in Peers \cup {None}
  <1>1. bonds \in AnyBonds /\ link \in AnyLink
    BY RestIs, NowIs DEF Record
  <1> QED BY <1>1 DEF AnyBonds, AnyLink

LEMMA KeysInv ==
  ASSUME IInv, NewKey \/ KeyAnswered
  PROVE  IInv'
  <1>1. CASE NewKey
    <2> DEFINE t == Upsert(bonds.table, link.handle)
    <2>1. link.handle \in Peers
      BY <1>1, BoundIs DEF NewKey
    <2>2. t \in Tables
      BY <2>1, BoundIs, BondsStayATable
    <2>3. /\ bonds' = [table |-> t, dirty |-> TRUE]
          /\ app' = [app EXCEPT !.moved = @ \/ (ses.boot /\ bonds'.table # bonds.table)]
          /\ UNCHANGED <<link, role, att, ses, rom, scan, due, left>>
      BY <1>1 DEF NewKey
    <2>4. bonds'.table = t
      BY <2>3
    <2> HIDE DEF t
    <2> QED BY <2>2, <2>3, <2>4, BondsInv
  <1>2. ASSUME NEW t \in Tables, Bond(t) PROVE IInv'
    <2> DEFINE d == bonds.dirty \/ t # bonds.table
    <2>1. d \in BOOLEAN
      BY BoundIs
    <2>2. /\ bonds' = [table |-> t, dirty |-> d]
          /\ app' = [app EXCEPT !.moved = @ \/ (ses.boot /\ t # bonds.table)]
          /\ UNCHANGED <<link, role, att, ses, rom, scan, due, left>>
      BY <1>2 DEF Bond
    <2> HIDE DEF d
    <2> QED BY <2>1, <2>2, BondsInv
  <1>3. CASE KeyAnswered
    <2>1. Touch(bonds.table, link.bd) \in Tables /\ Erase(bonds.table, link.bd) \in Tables
      BY BoundIs, BondsStayATable
    <2>2. Bond(Touch(bonds.table, link.bd)) \/ Bond(Erase(bonds.table, link.bd))
      BY <1>3 DEF KeyAnswered
    <2> QED BY <1>2, <2>1, <2>2
  <1> QED BY <1>1, <1>3

\* An image over which the same is written stays as it is.
LEMMA TornSame ==
  ASSUME NEW img \in Remains(Tables), NEW n \in 0..(MaxBonds + 3)
  PROVE  Torn(img, img, n) = img
  <1>1. img \in Seq(Cell) /\ Len(img) = MaxBonds + 3
    BY DEF Remains
  <1> DEFINE w == Torn(img, img, n)
  <1>2. /\ w \in Seq(Cell) /\ Len(w) = MaxBonds + 3
        /\ \A i \in 1..(MaxBonds + 3) : w[i] \in {img[i], img[i]}
    BY <1>1, TornCells
  <1> HIDE DEF w
  <1>3. \A i \in 1..(MaxBonds + 3) : w[i] = img[i]
    BY <1>2
  <1>4. w = img
    BY <1>1, <1>2, <1>3, SeqEqual
  <1> QED BY <1>4 DEF w

\* What a power failure may leave: the image there was, or the table cut off somewhere.
LEMMA LeftBehind ==
  ASSUME IInv, NEW n \in 0..(MaxBonds + 3), NEW image \in Images(n)
  PROVE  image = rom \/ image = Torn(rom, Image(bonds.table), n)
  <1>1. rom \in Remains(Tables)
    BY RestIs, NowIs DEF Record
  <1>2. CASE image = rom
    BY <1>2
  <1>3. ASSUME NEW z \in Outcomes(FALSE, "never"), image = Torn(rom, z.rom, n)
        PROVE  image = rom \/ image = Torn(rom, Image(bonds.table), n)
    <2>1. z.rom \in {rom, Image(bonds.table)}
      <3> DEFINE late == FALSE
                 when == "never"
      <3>1. late \in BOOLEAN
        OBVIOUS
      <3>2. z \in Outcomes(late, when)
        OBVIOUS
      <3> HIDE DEF late, when
      <3>3. Ticked(role, Now, z)
        BY <3>1, <3>2, OutcomesTicked
      <3> QED BY <3>3, NowIs DEF Ticked
    <2>2. Torn(rom, rom, n) = rom
      BY <1>1, TornSame
    <2> QED BY <1>3, <2>1, <2>2
  <1> QED BY <1>2, <1>3 DEF Images

LEMMA PowerFailsInv ==
  ASSUME IInv, PowerFails
  PROVE  IInv'
  <1>1. /\ left.fails > 0 /\ due' = None /\ scan' = [want |-> FALSE, have |-> FALSE]
        /\ left' = [calls |-> 0, stops |-> 0, fails |-> left.fails - 1] /\ UNCHANGED role
    BY DEF PowerFails
  <1>2. PICK n \in 0..(MaxBonds + 3) : \E image \in Images(n) : Become(Booted(role, image))
    BY DEF PowerFails
  <1>3. PICK image \in Images(n) : Become(Booted(role, image))
    BY <1>2
  <1>4. image \in Remains(Tables)
    <2>1. rom \in Remains(Tables) /\ bonds.table \in Tables
      BY RestIs, BoundIs, NowIs DEF Record
    <2>2. Torn(rom, Image(bonds.table), n) \in Remains(Tables)
      BY <2>1, TornWriteIsNeverAMix
    <2> QED BY <2>1, <2>2, LeftBehind
  <1> DEFINE w == Booted(role, image)
  <1>5. Whole(role, w) /\ w.att.st \in Aside /\ role \in {"source", "sink"}
    BY <1>4, RestIs, BootedIs
  <1> HIDE DEF w
  <1>6. Now' = w /\ att' = w.att
    <2>1. w \in Record /\ Become(w)
      BY <1>3, <1>5 DEF Whole, Sound, w
    <2> QED BY <2>1, BecomeIs DEF Become
  <1>7. Whole(role, Now)' /\ Unscanned(att)'
    BY <1>1, <1>5, <1>6 DEF Unscanned, Aside
  <1>8. /\ left.fails \in 1..MaxFails /\ MaxFails \in Nat /\ MaxCalls \in Nat /\ MaxStops \in Nat
    BY <1>1, RestIs, BoundsAssumption
  <1>9. left'.fails = left.fails - 1 /\ left'.calls = 0 /\ left'.stops = 0
    BY <1>1
  <1>10. RestTypeOK'
    <2>1. 0 \in 0..MaxCalls /\ 0 \in 0..MaxStops /\ left.fails - 1 \in 0..MaxFails
      BY <1>8
    <2> QED BY <1>1, <1>5, <2>1 DEF RestTypeOK
  <1>11. RomWhole'
    BY <1>8, <1>9 DEF RomWhole
  <1> QED BY <1>7, <1>10, <1>11 DEF IInv

LEMMA StutterInv ==
  ASSUME IInv, UNCHANGED vars
  PROVE  IInv'
  <1>1. Now' = Now /\ role' = role
    BY DEF Now, vars
  <1>2. Whole(role, Now)'
    BY <1>1 DEF IInv
  <1>3. RestTypeOK' /\ Unscanned(att)' /\ RomWhole'
    BY DEF vars, IInv, RestTypeOK, Unscanned, RomWhole
  <1> QED BY <1>2, <1>3 DEF IInv

LEMMA StepInv == IInv /\ [Next]_vars => IInv'
  <1> SUFFICES ASSUME IInv, [Next]_vars PROVE IInv'
    OBVIOUS
  <1>1. ASSUME NEW late \in BOOLEAN, Tick(late) PROVE IInv'
    BY <1>1, TickInv
  <1>2. CASE Disconnect
    BY <1>2, DisconnectInv
  <1>3. CASE Resume
    BY <1>3, ResumeInv
  <1>4. CASE EnterPairing
    BY <1>4, EnterPairingInv
  <1>5. CASE Links
    BY <1>5, LinksInv
  <1>6. CASE NewKey \/ KeyAnswered
    BY <1>6, KeysInv
  <1>7. CASE PowerFails
    BY <1>7, PowerFailsInv
  <1>8. CASE UNCHANGED vars
    BY <1>8, StutterInv
  <1> QED BY <1>1, <1>2, <1>3, <1>4, <1>5, <1>6, <1>7, <1>8 DEF Next

LEMMA AlwaysInv == Spec => []IInv
  BY InitInv, StepInv, PTL DEF Spec

-----------------------------------------------------------------------------
(* What follows.                                                            *)

\* Every variable keeps its type, and once the application has called disconnect(), from its loop
\* or from within a callback, the session stays down until resume(): what runs after the callback
\* in the same tick (handleAttemptEnd, advanceBootWalk, openWindow) does not bring it back.
THEOREM StopsHold == Spec => []StopHolds
  <1>1. IInv => StopHolds
    <2> SUFFICES ASSUME IInv PROVE StopHolds
      OBVIOUS
    <2>1. /\ Stopping(Now) /\ Now \in Record /\ ses.state \in StatesOf(role)
          /\ role \in {"source", "sink"}
      BY RestIs, NowIs DEF Sound
    <2>2. /\ link \in AnyLink /\ att \in AnyAttempt /\ ses \in AnySession /\ app \in AnyApp
          /\ bonds \in AnyBonds
      BY <2>1, NowIs DEF Record
    <2>3. LinkTypeOK /\ AttemptTypeOK(att)
      BY <2>2 DEF LinkTypeOK, AnyLink, AttemptTypeOK, AnyAttempt
    <2> DEFINE S == IF role = "source"
                    THEN {"CONNECTING", "WAITING", "STREAMING", "DISCONNECTING", "MANUAL"}
                    ELSE {"LISTENING", "CONNECTING", "STREAMING", "DISCONNECTING", "MANUAL"}
    <2>4. ses.state \in S
      BY <2>1 DEF StatesOf, SessionStates
    <2> HIDE DEF S
    <2>5. ses \in [state : S, boot : BOOLEAN, idx : 0..MaxBonds, inq : BOOLEAN,
                   lost : Peers \cup {None}, win : BOOLEAN,
                   end : {"NONE", "TIMEOUT", "PAIRED", "CANCELLED"}]
      BY <2>2, <2>4 DEF AnySession
    <2>6. TypeOK
      BY <2>2, <2>3, <2>5 DEF TypeOK, S, AnyApp, AnyBonds, IInv, RestTypeOK
    <2> QED BY <2>1, <2>6, NowIs DEF StopHolds, Stopping, Down
  <1> QED BY <1>1, AlwaysInv, PTL

\* The callbacks tell the application the truth: between two ticks it believes in a stream
\* exactly while the session streams (setStreamCallback), and a pairing window that has ended was
\* told PAIRED exactly if a stream came up in it (BtSinkSession::closeWindow).
THEOREM CallbacksTellTheTruth == Spec => []ToldTheTruth
  <1>1. IInv => ToldTheTruth
    <2> SUFFICES ASSUME IInv PROVE ToldTheTruth
      OBVIOUS
    <2>1. Reported(Now) /\ Window(role, Now)
      BY RestIs DEF Sound
    <2> QED BY <2>1, NowIs DEF ToldTheTruth, StreamReported, WindowTold, Reported, Window
  <1> QED BY <1>1, AlwaysInv, PTL

\* However long the table and whatever bonds match: when a walk of BtSession asks around, every
\* matching bond has been paged, unless the table was reordered under it (advanceBootWalk).
THEOREM WalkSkipsNone == Spec => []NoBondSkipped
  <1>1. IInv => NoBondSkipped
    <2> SUFFICES ASSUME IInv PROVE NoBondSkipped
      OBVIOUS
    <2>1. Walked(Now)
      BY RestIs DEF Sound
    <2> QED BY <2>1, NowIs DEF NoBondSkipped, Walked
  <1> QED BY <1>1, AlwaysInv, PTL

\* A source calls back the peer that it was streaming to, whoever has called since
\* (BtSession::tick, the loss of a stream).
THEOREM LostIsCalledBack == Spec => []ReconnectIsForTheLost
  <1>1. IInv => ReconnectIsForTheLost
    <2> SUFFICES ASSUME IInv PROVE ReconnectIsForTheLost
      OBVIOUS
    <2>1. Missed(role, Now)
      BY RestIs DEF Sound
    <2> QED BY <2>1, NowIs DEF ReconnectIsForTheLost, Missed
  <1> QED BY <1>1, AlwaysInv, PTL

\* The first power failure, at any moment of any save: load() finds the table that was saved
\* last, the one that was being saved, or none.  (After a second failure the remains of an older
\* table may come back as well: see TornWriteIsNeverAMix.)
LEMMA FirstFailure ==
  ASSUME IInv, PowerFails, left.fails = MaxFails
  PROVE  bonds'.table \in {Load(rom), bonds.table, <<>>}
  <1>1. PICK n \in 0..(MaxBonds + 3) : \E image \in Images(n) : Become(Booted(role, image))
    BY DEF PowerFails
  <1>2. PICK image \in Images(n) : Become(Booted(role, image))
    BY <1>1
  <1>3. image = rom \/ image = Torn(rom, Image(bonds.table), n)
    BY LeftBehind
  <1>4. rom \in Remains(Tables) /\ bonds.table \in Tables
    BY RestIs, BoundIs, NowIs DEF Record
  <1>5. PICK t \in Tables : rom = Image(t) \/ (rom = Erased /\ t = bonds.table)
    BY <1>4 DEF IInv, RomWhole
  <1> DEFINE S == {t, bonds.table}
             new == bonds.table
  <1>6. S \in SUBSET Tables /\ t \in S /\ new \in S
    BY <1>4
  <1>7. rom \in Remains(S)
    BY <1>5, <1>6, WholeImage, ErasedImage, RemainsGrow
  <1>8. Load(image) \in {Load(rom), bonds.table, <<>>}
    <2>1. CASE image = rom
      BY <2>1
    <2>2. CASE image = Torn(rom, Image(new), n)
      <3>1. Load(image) \in S \cup {<<>>}
        <4> HIDE DEF S, new
        <4> QED BY <1>6, <1>7, <2>2, TornWriteIsNeverAMix
      <3>2. t = Load(rom) \/ t = bonds.table
        BY <1>5, LoadSaved
      <3> QED BY <3>1, <3>2
    <2> QED BY <1>3, <2>1, <2>2
  <1>9. bonds'.table = Load(image)
    <2>1. image \in Remains(Tables)
      <3>1. Torn(rom, Image(bonds.table), n) \in Remains(Tables)
        BY <1>4, TornWriteIsNeverAMix
      <3> QED BY <1>3, <1>4, <3>1
    <2>2. Booted(role, image).bonds.table = Load(image)
      BY <2>1, RestIs, BootedIs
    <2>3. bonds' = Booted(role, image).bonds
      BY <1>2 DEF Become
    <2> QED BY <2>2, <2>3
  <1> QED BY <1>8, <1>9

\* A power failure in the middle of BondStoreEeprom::save() never yields a mix of two tables, for
\* tables of every size and an image cut off after any of its cells.
THEOREM SavedOrNone ==
  ASSUME MaxFails <= 1
  PROVE  Spec => SavedTableOrNone
  <1>1. IInv /\ [Next]_vars
          => [left'.fails < left.fails => bonds'.table \in {Load(rom), bonds.table, <<>>}]_vars
    <2> SUFFICES ASSUME IInv, Next, left'.fails < left.fails
                 PROVE  bonds'.table \in {Load(rom), bonds.table, <<>>}
      OBVIOUS
    <2>1. left \in [calls : 0..MaxCalls, stops : 0..MaxStops, fails : 0..MaxFails]
      BY RestIs
    <2>2. CASE PowerFails
      <3>1. left.fails = MaxFails
        BY <2>1, <2>2, BoundsAssumption DEF PowerFails
      <3> QED BY <2>2, <3>1, FirstFailure
    <2>3. ASSUME left'.fails = left.fails PROVE FALSE
      BY <2>1, <2>3
    <2>4. CASE (\E late \in BOOLEAN : Tick(late)) \/ Disconnect
      BY <2>1, <2>3, <2>4 DEF Tick, Disconnect
    <2>5. CASE Resume \/ EnterPairing \/ Links \/ NewKey \/ KeyAnswered
      BY <2>1, <2>3, <2>5
         DEF Resume, EnterPairing, Links, Ends, Call, Completes, Fades, NewKey, KeyAnswered, Bond
    <2> QED BY <2>2, <2>4, <2>5 DEF Next
  <1> QED BY <1>1, AlwaysInv, PTL DEF Spec, SavedTableOrNone
-----------------------------------------------------------------------------
(***************************************************************************)
(* The engine under the session: BtLink, for any number of peers, any      *)
(* depth of its command queue, and any number of events.  Session's lemmas *)
(* above know it by LinkOps only, the promise it is shown to keep here.    *)
(***************************************************************************)
\* What the engine has queued, and what the controller has sent and the host has not read.
EngineCommands ==
  {c \in [c : Commands, p : Who, own : BOOLEAN] : c.c = "CREATE" => c.p \in Peers}
Values == {"", "ok", "err", "timeout", "other", "reject", "on", "off", "master", "slave"}
Unread ==
  {x \in [e : {"CONN", "AUTH", "DISC", "KEYREQ", "ENC", "NEWKEY"}, p : Peers, v : Values] :
     /\ x.e = "CONN" => x.v = "other"
     /\ x.e = "AUTH" => x.v \in {"ok", "other"}
     /\ x.e = "ENC" => x.v \in {"on", "off"}}
AirStates ==
  [up : SUBSET Peers, page : SUBSET Peers, asked : SUBSET Peers, accepted : SUBSET Peers,
   slave : SUBSET Peers, quiet : SUBSET Peers, enc : SUBSET Peers, auth : Who, scan : BOOLEAN]

LinkStates ==
  [bd : Who, handle : Who, st : {"NONE", "UP", "SECURE", "LOST"}, incoming : BOOLEAN,
   role : {"master", "slave"}, inboundUp : BOOLEAN, supDone : BOOLEAN,
   conn : {"none", "ok", "timeout", "other"}, discDone : BOOLEAN]
Securities ==
  [auth : {"none", "ok", "reject", "other"}, offered : BOOLEAN, enc : {"none", "on", "off"}]

\* The types, of the host, of the operation and of the air.
HostTypes ==
  /\ slot \in [busy : BOOLEAN, of : Commands \cup {""}, err : BOOLEAN]
  /\ lk \in LinkStates /\ au \in Securities /\ pageScan \in [want : BOOLEAN, have : BOOLEAN]
  /\ bonded \subseteq Peers /\ forgot \subseteq Peers /\ astray \subseteq Peers
  /\ cmds \in Seq(EngineCommands) /\ Len(cmds) <= Depth
OperationOK(g, l) ==
  /\ g \in [op : {"NONE", "PREPARE", "INQUIRY", "PAGE", "PAIR", "DISCONNECT"}, sub : Subs,
            n : 0..(SetupSteps + MaxHits + PageAttempts), inbound : BOOLEAN]
  /\ g.op = "PREPARE" => g.n <= SetupSteps
  /\ g.op = "INQUIRY" => g.n <= MaxHits
  /\ g.op = "INQUIRY" /\ g.sub \in {"name_status", "name_wait"} => g.n < MaxHits
  /\ g.op = "PAGE" => g.n \in 1..PageAttempts /\ l.bd \in Peers
OperationTypes ==
  /\ OperationOK(eng, lk) /\ result \in {"OK", "FAILED"}
  /\ attempt \in {"NONE", "INQUIRY", "PAGE", "PAIR", "DISCONNECT"}
  /\ fuel \in [starts : 0..MaxStarts, moves : 0..MaxMoves]
AirTypes == air \in AirStates /\ evq \in Seq(Unread)
EngineTypes == HostTypes /\ OperationTypes /\ AirTypes

LEMMA EngineConstants ==
  /\ None \notin Peers /\ Stored \subseteq Peers /\ Depth \in Nat \ {0} /\ SetupSteps \in Nat \ {0}
  /\ MaxHits \in Nat /\ PageAttempts \in Nat \ {0} /\ MaxStarts \in Nat /\ MaxMoves \in Nat
  /\ AcceptUnknown \in BOOLEAN /\ Supervision \in BOOLEAN
  BY BtLinkAssumption

\* These are more than the types BtLink states.
LEMMA EngineTypesGive == EngineTypes => EngineTypeOK
  <1> SUFFICES ASSUME EngineTypes PROVE EngineTypeOK
    OBVIOUS
  <1>1. \A i \in DOMAIN evq : evq[i].p \in Who
    <2>1. evq \in Seq(Unread)
      BY DEF EngineTypes, AirTypes
    <2>2. \A i \in DOMAIN evq : evq[i] \in Unread
      BY <2>1
    <2> QED BY <2>2 DEF Unread, Who
  <1> QED BY <1>1 DEF EngineTypes, HostTypes, OperationTypes, OperationOK, EngineTypeOK, LinkStates, Securities

\* The queue of commands.
LEMMA IssueTypes ==
  ASSUME HostTypes, NEW c \in Commands, NEW p \in Who, c = "CREATE" => p \in Peers,
         NEW own \in BOOLEAN, Room
  PROVE  LET q == Append(cmds, [c |-> c, p |-> p, own |-> own])
         IN q \in Seq(EngineCommands) /\ Len(q) <= Depth
  <1> DEFINE m == [c |-> c, p |-> p, own |-> own]
  <1>1. m \in EngineCommands
    BY DEF EngineCommands
  <1> HIDE DEF m
  <1>2. cmds \in Seq(EngineCommands) /\ Len(cmds) <= Depth /\ Len(cmds) < Depth
    BY DEF HostTypes, Room
  <1>3. Len(cmds) \in Nat /\ Depth \in Nat
    BY <1>2, EngineConstants, LenProperties
  <1>4. Append(cmds, m) \in Seq(EngineCommands) /\ Len(Append(cmds, m)) = Len(cmds) + 1
    BY <1>1, <1>2, AppendProperties
  <1> QED BY <1>2, <1>3, <1>4 DEF m

LEMMA SubmitTypes ==
  ASSUME HostTypes, NEW c \in Commands, NEW p \in Who, c # "CREATE", Submit(c, p)
  PROVE  cmds' \in Seq(EngineCommands) /\ Len(cmds') <= Depth
  <1>1. CASE Room
    BY <1>1, IssueTypes DEF Submit
  <1>2. CASE ~Room
    BY <1>2 DEF Submit, HostTypes
  <1> QED BY <1>1, <1>2

LEMMA SlotTypes ==
  ASSUME HostTypes, NEW c \in Commands, NEW p \in Who, c = "CREATE" => p \in Peers,
         Issue(c, p)
  PROVE  /\ slot' \in [busy : BOOLEAN, of : Commands \cup {""}, err : BOOLEAN] /\ slot'.busy
         /\ cmds' \in Seq(EngineCommands) /\ Len(cmds') <= Depth
  <1>1. slot' \in [busy : BOOLEAN, of : Commands \cup {""}, err : BOOLEAN] /\ slot'.busy
    BY DEF Issue, HostTypes
  <1>2. Room /\ cmds' = Append(cmds, [c |-> c, p |-> p, own |-> TRUE])
    BY DEF Issue
  <1> QED BY <1>1, <1>2, IssueTypes

-----------------------------------------------------------------------------
(* The events, as the controller sends them and the host handles them.     *)

Events ==
  {x \in [e : {"REPLY", "CONN", "REQ", "ROLE", "AUTH", "DISC", "KEYREQ", "ENC", "NEWKEY"},
          p : Who, v : Values] :
     /\ x.e # "REPLY" => x.p \in Peers
     /\ x.e = "CONN" => x.v \in {"ok", "timeout", "other"}
     /\ x.e = "ROLE" => x.v \in {"master", "slave"}
     /\ x.e = "AUTH" => x.v \in {"ok", "reject", "other"}
     /\ x.e = "ENC" => x.v \in {"on", "off"}}

LEMMA UnreadAreEvents == Unread \subseteq Events
  BY DEF Unread, Events, Who

\* The first event of a step, and the others.
LEMMA FirstAndOthers ==
  ASSUME NEW x \in Events, NEW s \in Seq(Unread)
  PROVE  Head(<<x>> \o s) = x /\ Tail(<<x>> \o s) = s
  <1> DEFINE y == <<x>> \o s
  <1>1. s \in Seq(Events) /\ <<x>> \in Seq(Events) /\ Len(<<x>>) = 1 /\ <<x>>[1] = x
    BY UnreadAreEvents
  <1>2. /\ y \in Seq(Events) /\ Len(y) = 1 + Len(s) /\ y[1] = x
        /\ \A i \in 1..Len(s) : y[i + 1] = s[i]
    BY <1>1, ConcatProperties
  <1>3. Len(s) \in Nat /\ y # <<>>
    BY <1>1, <1>2, LenProperties
  <1> HIDE DEF y
  <1>4. Head(y) = x
    BY <1>2, <1>3
  <1>5. Tail(y) \in Seq(Events) /\ Len(Tail(y)) = Len(s) /\ \A i \in 1..Len(s) : Tail(y)[i] = s[i]
    BY <1>2, <1>3, HeadTailProperties
  <1>6. Tail(y) = s
    BY <1>1, <1>5, SeqEqual
  <1> QED BY <1>4, <1>6 DEF y

LEMMA OneEvent ==
  ASSUME NEW x
  PROVE  Head(<<x>>) = x /\ Tail(<<x>>) = <<>>
  OBVIOUS

LEMMA Oldest ==
  ASSUME NEW s \in Seq(Unread), s # <<>>
  PROVE  /\ Head(s) \in Unread /\ Tail(s) \in Seq(Unread)
         /\ \A i \in DOMAIN Tail(s) : \E j \in DOMAIN s : s[j] = Tail(s)[i]
         /\ \A j \in DOMAIN s : s[j] = Head(s) \/ \E i \in DOMAIN Tail(s) : Tail(s)[i] = s[j]
  <1>1. Len(s) \in Nat /\ Len(s) > 0 /\ DOMAIN s = 1..Len(s)
    BY LenProperties, EmptySeq
  <1>2. Head(s) = s[1] /\ Head(s) \in Unread
    BY <1>1
  <1>3. /\ Tail(s) \in Seq(Unread) /\ Len(Tail(s)) = Len(s) - 1
        /\ \A i \in 1..Len(Tail(s)) : Tail(s)[i] = s[i + 1]
    BY HeadTailProperties
  <1>4. DOMAIN Tail(s) = 1..(Len(s) - 1)
    BY <1>3
  <1>5. ASSUME NEW i \in DOMAIN Tail(s) PROVE \E j \in DOMAIN s : s[j] = Tail(s)[i]
    <2>1. i + 1 \in DOMAIN s /\ s[i + 1] = Tail(s)[i]
      BY <1>1, <1>3, <1>4
    <2> QED BY <2>1
  <1>6. ASSUME NEW j \in DOMAIN s, j # 1 PROVE \E i \in DOMAIN Tail(s) : Tail(s)[i] = s[j]
    <2>1. j - 1 \in DOMAIN Tail(s) /\ Tail(s)[j - 1] = s[j]
      BY <1>1, <1>3, <1>4, <1>6
    <2> QED BY <2>1
  <1> QED BY <1>2, <1>3, <1>5, <1>6

\* What the host handles keeps its types.
LEMMA ReplyTypes ==
  ASSUME HostTypes, NEW v, CommandDone(v), cmds # <<>>
  PROVE  /\ slot' \in [busy : BOOLEAN, of : Commands \cup {""}, err : BOOLEAN]
         /\ cmds' \in Seq(EngineCommands) /\ Len(cmds') <= Depth
  <1>1. cmds \in Seq(EngineCommands) /\ Len(cmds) <= Depth /\ cmds' = Tail(cmds)
    BY DEF HostTypes, CommandDone
  <1>2. /\ Tail(cmds) \in Seq(EngineCommands) /\ Len(Tail(cmds)) = Len(cmds) - 1
        /\ Head(cmds) \in EngineCommands
    BY <1>1, HeadTailProperties
  <1>3. Len(cmds') <= Depth
    <2>1. Len(cmds) \in Nat /\ Depth \in Nat
      BY <1>1, LenProperties, EngineConstants
    <2> QED BY <1>1, <1>2, <2>1
  <1>4. Head(cmds).c \in Commands
    BY <1>2 DEF EngineCommands
  <1>5. slot \in [busy : BOOLEAN, of : Commands \cup {""}, err : BOOLEAN]
    BY DEF HostTypes
  <1> DEFINE w == IF Awaited THEN Head(cmds).c ELSE ""
             b == Awaited /\ v = "err"
  <1>5a. w \in Commands \cup {""}
    BY <1>4
  <1>6. w \in Commands \cup {""} /\ b \in BOOLEAN
    BY <1>5a
  <1>7. CASE Head(cmds).own
    <2>1. slot' = [busy |-> FALSE, of |-> w, err |-> b]
      BY <1>7 DEF CommandDone
    <2> HIDE DEF w, b
    <2>2. slot' \in [busy : BOOLEAN, of : Commands \cup {""}, err : BOOLEAN]
      BY <1>6, <2>1
    <2> QED BY <1>1, <1>2, <1>3, <2>2
  <1>8. CASE ~Head(cmds).own
    BY <1>1, <1>2, <1>3, <1>5, <1>8 DEF CommandDone
  <1> QED BY <1>7, <1>8

LEMMA ConnectionTypes ==
  ASSUME lk \in LinkStates, astray \subseteq Peers, NEW p \in Peers, NEW v \in {"ok", "timeout", "other"},
         ConnectionComplete(p, v)
  PROVE  lk' \in LinkStates /\ astray' \subseteq Peers /\ lk'.bd = lk.bd
  <1> DEFINE seen == [lk EXCEPT !.conn = IF Paging THEN v ELSE @]
             last == IF lk.incoming THEN "slave" ELSE "master"
             held == seen.inboundUp \/ ~Paging
  <1>1. seen \in LinkStates /\ seen.bd = lk.bd
    BY DEF LinkStates
  <1>2. astray' \subseteq Peers
    BY DEF ConnectionComplete
  <1>3. \/ lk' = lk
        \/ lk' = seen
        \/ lk' = [seen EXCEPT !.handle = p, !.st = "UP", !.supDone = FALSE, !.role = last,
                             !.inboundUp = held]
    BY DEF ConnectionComplete
  <1>4. last \in {"master", "slave"} /\ held \in BOOLEAN /\ p \in Who
    BY <1>1 DEF LinkStates, Who
  <1> HIDE DEF seen, last, held
  <1>5. CASE lk' = [seen EXCEPT !.handle = p, !.st = "UP", !.supDone = FALSE, !.role = last,
                              !.inboundUp = held]
    <2>1. lk' \in LinkStates
      BY <1>1, <1>4, <1>5 DEF LinkStates
    <2>2. lk'.bd = seen.bd
      BY <1>1, <1>5 DEF LinkStates
    <2> QED BY <1>1, <1>2, <2>1, <2>2
  <1> QED BY <1>1, <1>2, <1>3, <1>5

LEMMA RequestTypes ==
  ASSUME lk \in LinkStates, au \in Securities, NEW p \in Peers, ConnectionRequest(p)
  PROVE  lk' \in LinkStates /\ au' \in Securities /\ (lk'.bd = lk.bd \/ lk'.bd = p)
  <1>1. p \in Who
    BY DEF Who
  <1>2. CASE lk' = lk /\ au' = au
    BY <1>2
  <1>3. CASE lk' = [lk EXCEPT !.bd = p, !.incoming = TRUE] /\ au' = [au EXCEPT !.offered = FALSE]
    <2>1. lk' \in LinkStates /\ lk'.bd = p
      BY <1>1, <1>3 DEF LinkStates
    <2>2. au' \in Securities
      BY <1>3 DEF Securities
    <2> QED BY <2>1, <2>2
  <1> QED BY <1>2, <1>3 DEF ConnectionRequest

LEMMA DisconnectionTypes ==
  ASSUME lk \in LinkStates, au \in Securities, NEW p \in Peers, Disconnection(p)
  PROVE  lk' \in LinkStates /\ au' \in Securities /\ lk'.bd = lk.bd
  <1> DEFINE d == eng.op = "DISCONNECT"
             e == IF au.enc = "on" THEN "off" ELSE au.enc
  <1>1. None \in Who /\ d \in BOOLEAN /\ e \in {"none", "on", "off"}
    BY DEF Who, Securities
  <1>2. \/ lk' = lk /\ au' = au
        \/ /\ lk' = [lk EXCEPT !.handle = None, !.st = "LOST", !.discDone = d]
           /\ au' = [au EXCEPT !.enc = e]
    BY DEF Disconnection, LinkOver, NotEncrypted
  <1> HIDE DEF d, e
  <1>3. CASE lk' = lk /\ au' = au
    BY <1>3
  <1>4. CASE /\ lk' = [lk EXCEPT !.handle = None, !.st = "LOST", !.discDone = d]
             /\ au' = [au EXCEPT !.enc = e]
    <2>1. lk' \in LinkStates /\ lk'.bd = lk.bd
      BY <1>1, <1>4 DEF LinkStates
    <2>2. au' \in Securities
      BY <1>1, <1>4 DEF Securities
    <2> QED BY <2>1, <2>2
  <1> QED BY <1>2, <1>3, <1>4

LEMMA KeyTypes ==
  ASSUME au \in Securities, NEW p \in Peers, KeyRequest(p)
  PROVE  au' \in Securities
  BY DEF KeyRequest, Securities

LEMMA AuthTypes ==
  ASSUME au \in Securities, NEW v \in {"ok", "reject", "other"}, AuthenticationComplete(v)
  PROVE  au' \in Securities
  BY DEF AuthenticationComplete, Securities

LEMMA EncTypes ==
  ASSUME au \in Securities, lk \in LinkStates, NEW v \in {"on", "off"}, EncryptionChange(v)
  PROVE  au' \in Securities /\ lk' \in LinkStates /\ lk'.bd = lk.bd
  BY DEF EncryptionChange, Securities, LinkStates

LEMMA RoleTypes ==
  ASSUME lk \in LinkStates, NEW p \in Peers, NEW v \in {"master", "slave"}, RoleChange(p, v)
  PROVE  lk' \in LinkStates /\ lk'.bd = lk.bd
  BY DEF RoleChange, LinkStates

LEMMA HandleTypes ==
  ASSUME HostTypes, NEW x \in Events, Handle(x), x.e = "REPLY" => cmds # <<>>
  PROVE  /\ HostTypes' /\ UNCHANGED <<eng, result, pageScan, attempt>>
         /\ lk.bd \in Peers => lk'.bd \in Peers
  <1>1. /\ slot \in [busy : BOOLEAN, of : Commands \cup {""}, err : BOOLEAN]
        /\ lk \in LinkStates /\ au \in Securities /\ pageScan \in [want : BOOLEAN, have : BOOLEAN]
        /\ bonded \subseteq Peers /\ forgot \subseteq Peers /\ astray \subseteq Peers
        /\ cmds \in Seq(EngineCommands) /\ Len(cmds) <= Depth
    BY DEF HostTypes
  <1>2. UNCHANGED <<eng, result, pageScan, attempt>>
    BY DEF Handle
  <1>3. /\ x.e # "REPLY" => x.p \in Peers
        /\ x.e = "CONN" => x.v \in {"ok", "timeout", "other"}
        /\ x.e = "ROLE" => x.v \in {"master", "slave"}
        /\ x.e = "AUTH" => x.v \in {"ok", "reject", "other"}
        /\ x.e = "ENC" => x.v \in {"on", "off"}
    BY DEF Events
  <1>4. CASE x.e = "NEWKEY" /\ LinkKeyNotification(x.p)
    BY <1>1, <1>2, <1>3, <1>4 DEF LinkKeyNotification, HostTypes
  <1>5. CASE Other(x)
    <2>1. UNCHANGED forgot
      BY <1>5 DEF Other
    <2>2. CASE x.e = "REPLY" /\ CommandDone(x.v)
      <3>1. /\ slot' \in [busy : BOOLEAN, of : Commands \cup {""}, err : BOOLEAN]
            /\ cmds' \in Seq(EngineCommands) /\ Len(cmds') <= Depth
        BY <2>2, ReplyTypes
      <3>2. UNCHANGED <<lk, au, bonded, astray>>
        BY <2>2 DEF CommandDone
      <3> QED BY <1>1, <1>2, <2>1, <3>1, <3>2 DEF HostTypes
    <2>3. CASE x.e = "CONN" /\ ConnectionComplete(x.p, x.v)
      <3>1. lk' \in LinkStates /\ astray' \subseteq Peers /\ lk'.bd = lk.bd
        BY <1>1, <1>3, <2>3, ConnectionTypes
      <3>2. UNCHANGED <<slot, au, bonded, cmds>>
        BY <2>3 DEF ConnectionComplete
      <3> QED BY <1>1, <1>2, <2>1, <3>1, <3>2 DEF HostTypes
    <2>4. CASE x.e = "REQ" /\ ConnectionRequest(x.p)
      <3>1. lk' \in LinkStates /\ au' \in Securities /\ (lk'.bd = lk.bd \/ lk'.bd = x.p)
        BY <1>1, <1>3, <2>4, RequestTypes
      <3>2. Submit(IF Refused(x.p) THEN "REJECT" ELSE "ACCEPT", x.p) /\ UNCHANGED <<slot, bonded, astray>>
        BY <2>4 DEF ConnectionRequest
      <3>3. cmds' \in Seq(EngineCommands) /\ Len(cmds') <= Depth
        <4>1. x.p \in Who
          BY <1>3, <2>4 DEF Who
        <4>2. CASE Refused(x.p)
          <5>1. Submit("REJECT", x.p)
            BY <3>2, <4>2
          <5>2. "REJECT" \in Commands /\ "REJECT" # "CREATE"
            BY DEF Commands
          <5> QED BY <4>1, <5>1, <5>2, SubmitTypes
        <4>3. CASE ~Refused(x.p)
          <5>1. Submit("ACCEPT", x.p)
            BY <3>2, <4>3
          <5>2. "ACCEPT" \in Commands /\ "ACCEPT" # "CREATE"
            BY DEF Commands
          <5> QED BY <4>1, <5>1, <5>2, SubmitTypes
        <4> QED BY <4>2, <4>3
      <3> QED BY <1>1, <1>2, <1>3, <2>1, <2>4, <3>1, <3>2, <3>3 DEF HostTypes
    <2>5. CASE x.e = "ROLE" /\ RoleChange(x.p, x.v)
      <3>1. lk' \in LinkStates /\ lk'.bd = lk.bd
        BY <1>1, <1>3, <2>5, RoleTypes
      <3>2. UNCHANGED <<slot, au, bonded, cmds, astray>>
        BY <2>5 DEF RoleChange
      <3> QED BY <1>1, <1>2, <2>1, <3>1, <3>2 DEF HostTypes
    <2>6. CASE x.e = "DISC" /\ Disconnection(x.p)
      <3>1. lk' \in LinkStates /\ au' \in Securities /\ lk'.bd = lk.bd
        BY <1>1, <1>3, <2>6, DisconnectionTypes
      <3>2. UNCHANGED <<slot, bonded, cmds, astray>>
        BY <2>6 DEF Disconnection
      <3> QED BY <1>1, <1>2, <2>1, <3>1, <3>2 DEF HostTypes
    <2>7. CASE x.e = "KEYREQ" /\ KeyRequest(x.p)
      <3>1. au' \in Securities
        BY <1>1, <1>3, <2>7, KeyTypes
      <3>2. Submit("ANSWER", x.p) /\ UNCHANGED <<slot, lk, bonded, astray>>
        BY <2>7 DEF KeyRequest
      <3>3. x.p \in Who
        BY <1>3, <2>7 DEF Who
      <3>4. cmds' \in Seq(EngineCommands) /\ Len(cmds') <= Depth
        <4>1. "ANSWER" \in Commands /\ "ANSWER" # "CREATE"
          BY DEF Commands
        <4> QED BY <3>2, <3>3, <4>1, SubmitTypes
      <3> QED BY <1>1, <1>2, <2>1, <3>1, <3>2, <3>4 DEF HostTypes
    <2>8. CASE x.e = "AUTH" /\ AuthenticationComplete(x.v)
      <3>1. au' \in Securities
        BY <1>1, <1>3, <2>8, AuthTypes
      <3>2. UNCHANGED <<slot, lk, bonded, cmds, astray>>
        BY <2>8 DEF AuthenticationComplete
      <3> QED BY <1>1, <1>2, <2>1, <3>1, <3>2 DEF HostTypes
    <2>9. CASE x.e = "ENC" /\ EncryptionChange(x.v)
      <3>1. au' \in Securities /\ lk' \in LinkStates /\ lk'.bd = lk.bd
        BY <1>1, <1>3, <2>9, EncTypes
      <3>2. UNCHANGED <<slot, bonded, cmds, astray>>
        BY <2>9 DEF EncryptionChange
      <3> QED BY <1>1, <1>2, <2>1, <3>1, <3>2 DEF HostTypes
    <2> QED BY <1>5, <2>2, <2>3, <2>4, <2>5, <2>6, <2>7, <2>8, <2>9 DEF Other
  <1> QED BY <1>4, <1>5 DEF Handle

-----------------------------------------------------------------------------
(* The controller: what a step that makes no link may do to the links it   *)
(* has, and what it tells the host: x, which the host reads with the step, *)
(* and s, which it has not read afterwards.                                *)

IsTold(x, s, e, q) == (x.e = e /\ x.p = q) \/ \E i \in DOMAIN s : s[i].e = e /\ s[i].p = q
EncryptionReported(x, s, q) ==
  \/ x.e = "ENC" /\ x.p = q /\ x.v = "on"
  \/ \E i \in DOMAIN s : s[i].e = "ENC" /\ s[i].p = q /\ s[i].v = "on"

\* Only a link is encrypted or new, a call or a page is no link yet, and what is told of a
\* link and not read is still so.
AirSound(a, s) ==
  /\ a.enc \subseteq a.up /\ a.quiet \subseteq a.up
  /\ a.up \cap (a.page \cup a.asked \cup a.accepted) = {}
  /\ \A i \in DOMAIN s : /\ s[i].e = "DISC" => s[i].p \notin a.up
                         /\ s[i].e = "ENC" /\ s[i].v = "on" => s[i].p \in a.enc

\* From a to b, with t not read before.
Moves(a, b, t, x, s) ==
  /\ b.up \subseteq a.up /\ a.enc \cap b.up \subseteq b.enc
  /\ \A q \in Peers : \/ q \in a.up \ b.up
                      \/ \E i \in DOMAIN t : t[i].e = "DISC" /\ t[i].p = q
                      => IsTold(x, s, "DISC", q)
  /\ x.e = "DISC" => x.p \notin b.up
  /\ x.e = "ENC" /\ x.v = "on" => x.p \in b.enc
  /\ AirSound(b, s)

\* The host handles x, and s is left for later.
Reads(x, s) ==
  /\ Handle(x) /\ (x.e = "REPLY" => cmds # <<>>) /\ evq' = s
  /\ fuel' \in [starts : 0..MaxStarts, moves : 0..MaxMoves]

LEMMA TellsOne ==
  ASSUME NEW x, Tell(<<x>>)
  PROVE  evq = <<>> /\ Handle(x) /\ evq' = <<>>
  <1>1. Head(<<x>>) = x /\ Tail(<<x>>) = <<>>
    BY OneEvent
  <1> DEFINE h == Head(<<x>>)
             t == Tail(<<x>>)
  <1>2. evq = <<>> /\ Handle(h) /\ evq' = t
    BY DEF Tell
  <1>3. h = x /\ t = <<>>
    BY <1>1
  <1> HIDE DEF h, t
  <1> QED BY <1>2, <1>3

LEMMA TellsMore ==
  ASSUME NEW x \in Events, NEW s \in Seq(Unread), Tell(<<x>> \o s)
  PROVE  evq = <<>> /\ Handle(x) /\ evq' = s
  <1> DEFINE h == Head(<<x>> \o s)
             t == Tail(<<x>> \o s)
  <1>2. evq = <<>> /\ Handle(h) /\ evq' = t
    BY DEF Tell
  <1>3. h = x /\ t = s
    BY FirstAndOthers
  <1> HIDE DEF h, t
  <1> QED BY <1>2, <1>3

LEMMA BurnTypes ==
  ASSUME OperationTypes, NEW k \in {"starts", "moves"}, Burn(k)
  PROVE  fuel' \in [starts : 0..MaxStarts, moves : 0..MaxMoves]
  <1>1. fuel \in [starts : 0..MaxStarts, moves : 0..MaxMoves]
    BY DEF OperationTypes
  <1>2. fuel[k] \in Nat /\ fuel[k] > 0 /\ fuel' = [fuel EXCEPT ![k] = fuel[k] - 1]
    BY <1>1, EngineConstants DEF Burn
  <1>3. CASE k = "starts"
    <2>1. fuel.starts - 1 \in 0..MaxStarts
      BY <1>1, <1>2, <1>3, EngineConstants
    <2>2. fuel' = [fuel EXCEPT !.starts = fuel.starts - 1]
      BY <1>2, <1>3
    <2> QED BY <1>1, <2>1, <2>2
  <1>4. CASE k = "moves"
    <2>1. fuel.moves - 1 \in 0..MaxMoves
      BY <1>1, <1>2, <1>4, EngineConstants
    <2>2. fuel' = [fuel EXCEPT !.moves = fuel.moves - 1]
      BY <1>2, <1>4
    <2> QED BY <1>1, <2>1, <2>2
  <1> QED BY <1>3, <1>4

\* A controller that keeps its links.
Keeps(a, b) ==
  /\ b.up = a.up /\ b.enc \subseteq b.up /\ a.enc \subseteq b.enc /\ b.quiet \subseteq a.quiet
  /\ b.up \cap (b.page \cup b.asked \cup b.accepted) = {}
Harmless(s, b) ==
  \A i \in DOMAIN s : s[i].e # "DISC" /\ (s[i].e = "ENC" /\ s[i].v = "on" => s[i].p \in b.enc)

LEMMA MovesKeepingLinks ==
  ASSUME NEW a, NEW b, AirSound(a, <<>>), Keeps(a, b),
         NEW x, x.e \notin {"DISC", "ENC"}, NEW s, Harmless(s, b)
  PROVE  Moves(a, b, <<>>, x, s)
  <1>1. AirSound(b, s)
    BY DEF AirSound, Keeps, Harmless
  <1>2. \A i \in DOMAIN <<>> : FALSE
    OBVIOUS
  <1> QED BY <1>1, <1>2 DEF Moves, Keeps

LEMMA HarmlessEvents ==
  ASSUME NEW b
  PROVE  /\ Harmless(<<>>, b)
         /\ \A y \in Unread : y.e # "DISC" /\ (y.e = "ENC" /\ y.v = "on" => y.p \in b.enc) =>
              <<y>> \in Seq(Unread) /\ Harmless(<<y>>, b)
  BY DEF Harmless

LEMMA TwoEvents ==
  ASSUME NEW u \in Unread, NEW d \in Unread
  PROVE  <<u>> \o <<d>> = <<u, d>> /\ <<>> \o <<d>> = <<d>>
  <1> DEFINE y == <<u>> \o <<d>>
             z == <<u, d>>
  <1>1. /\ <<u>> \in Seq(Unread) /\ <<d>> \in Seq(Unread) /\ Len(<<u>>) = 1 /\ Len(<<d>>) = 1
        /\ <<u>>[1] = u /\ <<d>>[1] = d
    OBVIOUS
  <1>2. y \in Seq(Unread) /\ Len(y) = 2 /\ y[1] = u /\ y[2] = d
    BY <1>1, ConcatProperties
  <1>3. z \in Seq(Unread) /\ Len(z) = 2 /\ z[1] = u /\ z[2] = d
    OBVIOUS
  <1> HIDE DEF y, z
  <1>4. \A i \in 1..Len(y) : y[i] = z[i]
    BY <1>2, <1>3
  <1>5. y = z
    BY <1>2, <1>3, <1>4, SeqEqual
  <1>6. <<>> \o <<d>> = <<d>>
    BY <1>1, ConcatEmptySeq
  <1> QED BY <1>5, <1>6 DEF y, z

\* A link ends, and an authentication with it.
LEMMA DroppedMoves ==
  ASSUME air \in AirStates, AirSound(air, <<>>), NEW p \in air.up
  PROVE  /\ Dropped(p) \in AirStates
         /\ DropEvents(p) \in Seq(Unread)
         /\ \A x \in Events : x.e = "REPLY" => Moves(air, Dropped(p), <<>>, x, DropEvents(p))
         /\ \E x \in Events : \E s \in Seq(Unread) :
              /\ x.e \in {"AUTH", "DISC"} /\ DropEvents(p) = <<x>> \o s
              /\ Moves(air, Dropped(p), <<>>, x, s)
  <1> DEFINE b == Dropped(p)
             d == Ev("DISC", p, "other")
             u == Ev("AUTH", p, "other")
  <1>1. p \in Peers
    BY DEF AirStates
  <1>2. b \in AirStates /\ b.up = air.up \ {p} /\ b.enc = air.enc \ {p} /\ b.quiet = air.quiet \ {p}
        /\ b.page = air.page /\ b.asked = air.asked /\ b.accepted = air.accepted
    BY DEF Dropped, AirStates, Who
  <1>3. d \in Unread /\ u \in Unread /\ d.e = "DISC" /\ d.p = p /\ u.e = "AUTH"
    BY <1>1 DEF Ev, Unread, Values
  <1>4. d \in Events /\ u \in Events
    BY <1>3, UnreadAreEvents
  <1>5. /\ air.enc \subseteq air.up /\ air.quiet \subseteq air.up
        /\ air.up \cap (air.page \cup air.asked \cup air.accepted) = {}
    BY DEF AirSound
  <1>6. DropEvents(p) = <<u, d>> \/ DropEvents(p) = <<d>>
    <2>1. DropEvents(p) = (IF air.auth = p THEN <<u>> ELSE <<>>) \o <<d>>
      BY DEF DropEvents
    <2>2. d \in Unread /\ u \in Unread
      BY <1>3
    <2> HIDE DEF d, u
    <2>3. <<u>> \o <<d>> = <<u, d>> /\ <<>> \o <<d>> = <<d>>
      BY <2>2, TwoEvents
    <2> QED BY <2>1, <2>3
  <1> HIDE DEF b, d, u
  <1>7. /\ b.up \subseteq air.up /\ air.enc \cap b.up \subseteq b.enc
        /\ b.enc \subseteq b.up /\ b.quiet \subseteq b.up /\ p \notin b.up
        /\ b.up \cap (b.page \cup b.asked \cup b.accepted) = {}
        /\ \A q \in Peers : q \in air.up \ b.up => q = p
    BY <1>2, <1>5
  <1>8. \A i \in DOMAIN <<u, d>> : <<u, d>>[i].e = "AUTH" \/ <<u, d>>[i] = d
    BY <1>3
  <1>9. \A i \in DOMAIN <<d>> : <<d>>[i] = d
    OBVIOUS
  <1>10. AirSound(b, <<>>) /\ AirSound(b, <<d>>) /\ AirSound(b, <<u, d>>)
    BY <1>3, <1>7, <1>8, <1>9 DEF AirSound
  <1>11. DropEvents(p) \in Seq(Unread)
    <2>1. <<d>> \in Seq(Unread) /\ <<u, d>> \in Seq(Unread)
      BY <1>3
    <2> QED BY <1>6, <2>1
  <1>12. ASSUME NEW x \in Events, x.e = "REPLY" PROVE Moves(air, b, <<>>, x, DropEvents(p))
    <2>1. CASE DropEvents(p) = <<u, d>>
      <3>1. <<u, d>>[2] = d /\ 2 \in DOMAIN <<u, d>>
        OBVIOUS
      <3>2. \A q \in Peers : q \in air.up \ b.up => IsTold(x, <<u, d>>, "DISC", q)
        BY <1>3, <1>7, <3>1 DEF IsTold
      <3> QED BY <1>7, <1>10, <1>12, <2>1, <3>2 DEF Moves
    <2>2. CASE DropEvents(p) = <<d>>
      <3>1. <<d>>[1] = d /\ 1 \in DOMAIN <<d>>
        OBVIOUS
      <3>2. \A q \in Peers : q \in air.up \ b.up => IsTold(x, <<d>>, "DISC", q)
        BY <1>3, <1>7, <3>1 DEF IsTold
      <3> QED BY <1>7, <1>10, <1>12, <2>2, <3>2 DEF Moves
    <2> QED BY <1>6, <2>1, <2>2
  <1>13. CASE DropEvents(p) = <<u, d>>
    <2>1. <<d>>[1] = d /\ 1 \in DOMAIN <<d>>
      OBVIOUS
    <2>2. \A q \in Peers : q \in air.up \ b.up => IsTold(u, <<d>>, "DISC", q)
      BY <1>3, <1>7, <2>1 DEF IsTold
    <2>3. Moves(air, b, <<>>, u, <<d>>)
      BY <1>3, <1>7, <1>10, <2>2 DEF Moves
    <2>4. <<u, d>> = <<u>> \o <<d>> /\ <<d>> \in Seq(Unread)
      BY <1>3
    <2> QED BY <1>2, <1>3, <1>4, <1>11, <1>12, <1>13, <2>3, <2>4 DEF b
  <1>14. CASE DropEvents(p) = <<d>>
    <2>1. \A q \in Peers : q \in air.up \ b.up => IsTold(d, <<>>, "DISC", q)
      BY <1>3, <1>7 DEF IsTold
    <2>2. Moves(air, b, <<>>, d, <<>>)
      BY <1>3, <1>7, <1>10, <2>1 DEF Moves
    <2>3. <<d>> = <<d>> \o <<>> /\ <<>> \in Seq(Unread)
      OBVIOUS
    <2> QED BY <1>2, <1>3, <1>4, <1>11, <1>12, <1>14, <2>2, <2>3 DEF b
  <1> QED BY <1>6, <1>13, <1>14

LEMMA ResultOf ==
  ASSUME NEW P, NEW y, NEW r \in If(P, y)
  PROVE  P /\ r = y
  BY DEF If

LEMMA EffectsMove ==
  ASSUME air \in AirStates, AirSound(air, <<>>), NEW c \in Commands, NEW p \in Who,
         c = "CREATE" => p \in Peers, NEW r \in Effects(c, p), NEW x \in Events, x.e = "REPLY"
  PROVE  r.air \in AirStates /\ r.events \in Seq(Unread) /\ Moves(air, r.air, <<>>, x, r.events)
  <1> DEFINE Good(b, s) == b \in AirStates /\ s \in Seq(Unread) /\ Keeps(air, b) /\ Harmless(s, b)
  <1>1. /\ air.enc \subseteq air.up /\ air.quiet \subseteq air.up
        /\ air.up \cap (air.page \cup air.asked \cup air.accepted) = {}
    BY DEF AirSound
  <1>2. ASSUME NEW b, NEW s, Good(b, s), r = Effect(b, s)
        PROVE  r.air \in AirStates /\ r.events \in Seq(Unread) /\ Moves(air, r.air, <<>>, x, r.events)
    <2>1. r.air = b /\ r.events = s
      BY <1>2 DEF Effect
    <2>2. b \in AirStates /\ s \in Seq(Unread) /\ Keeps(air, b) /\ Harmless(s, b)
      BY <1>2
    <2>3. x.e \notin {"DISC", "ENC"}
      OBVIOUS
    <2>4. Moves(air, b, <<>>, x, s)
      BY <2>2, <2>3, MovesKeepingLinks
    <2> QED BY <2>1, <2>2, <2>4
  <1>3. Keeps(air, air) /\ <<>> \in Seq(Unread)
    BY <1>1 DEF Keeps
  <1>4. ASSUME NEW y \in Unread, NEW b, y.e # "DISC", y.e = "ENC" /\ y.v = "on" => y.p \in b.enc
        PROVE  <<y>> \in Seq(Unread) /\ Harmless(<<y>>, b)
    BY <1>4, HarmlessEvents
  <1>5. \A b : Harmless(<<>>, b)
    BY HarmlessEvents
  <1> HIDE DEF Good
  <1>6. CASE c = "CREATE"
    <2> DEFINE b == [air EXCEPT !.page = {p}]
    <2>1. r \in If(~Known(p) /\ air.page = {}, Effect(b, <<>>))
      BY <1>6 DEF Effects
    <2>2. ~Known(p) /\ r = Effect(b, <<>>)
      BY <2>1, ResultOf
    <2>3. p \notin air.up /\ p \in Peers
      BY <1>6, <2>2 DEF Known
    <2>4. b \in AirStates /\ Keeps(air, b)
      BY <1>1, <2>3 DEF AirStates, Keeps
    <2>5. Good(b, <<>>)
      BY <1>3, <1>5, <2>4 DEF Good
    <2> QED BY <1>2, <2>2, <2>5
  <1>7. CASE c = "CANCEL"
    <2> DEFINE b == [air EXCEPT !.page = {}]
               y == Ev("CONN", p, "other")
    <2>1. r \in If(p \in air.page, Effect(b, <<y>>))
      BY <1>7 DEF Effects
    <2>2. p \in air.page /\ r = Effect(b, <<y>>)
      BY <2>1, ResultOf
    <2>3. b \in AirStates /\ Keeps(air, b) /\ p \in Peers
      BY <1>1, <2>2 DEF AirStates, Keeps
    <2>4. y \in Unread /\ y.e = "CONN"
      BY <2>3 DEF Unread, Ev, Values
    <2> HIDE DEF b, y
    <2>5. Good(b, <<y>>)
      BY <1>4, <2>3, <2>4 DEF Good
    <2> QED BY <1>2, <2>2, <2>5
  <1>8. CASE c = "ACCEPT"
    <2> DEFINE b == [air EXCEPT !.asked = @ \ {p}, !.accepted = @ \cup {p}]
    <2>1. r \in If(p \in air.asked, Effect(b, <<>>))
      BY <1>8 DEF Effects
    <2>2. p \in air.asked /\ r = Effect(b, <<>>)
      BY <2>1, ResultOf
    <2>3. p \in Peers /\ p \notin air.up
      BY <1>1, <2>2 DEF AirStates
    <2>4. b \in AirStates /\ Keeps(air, b)
      BY <1>1, <2>3 DEF AirStates, Keeps
    <2>5. Good(b, <<>>)
      BY <1>3, <1>5, <2>4 DEF Good
    <2> QED BY <1>2, <2>2, <2>5
  <1>9. CASE c = "REJECT"
    <2> DEFINE b == [air EXCEPT !.asked = @ \ {p}]
               y == Ev("CONN", p, "other")
    <2>1. r \in If(p \in air.asked, Effect(b, <<y>>))
      BY <1>9 DEF Effects
    <2>2. p \in air.asked /\ r = Effect(b, <<y>>)
      BY <2>1, ResultOf
    <2>3. b \in AirStates /\ Keeps(air, b) /\ p \in Peers
      BY <1>1, <2>2 DEF AirStates, Keeps
    <2>4. y \in Unread /\ y.e = "CONN"
      BY <2>3 DEF Unread, Ev, Values
    <2> HIDE DEF b, y
    <2>5. Good(b, <<y>>)
      BY <1>4, <2>3, <2>4 DEF Good
    <2> QED BY <1>2, <2>2, <2>5
  <1>10. CASE c = "AUTH"
    <2> DEFINE b == [air EXCEPT !.auth = p, !.quiet = @ \ {p}]
               y == Ev("KEYREQ", p, "")
    <2>1. r \in If(p \in air.up /\ air.auth = None, Effect(b, <<y>>))
      BY <1>10 DEF Effects
    <2>2. p \in air.up /\ r = Effect(b, <<y>>)
      BY <2>1, ResultOf
    <2>3. b \in AirStates /\ Keeps(air, b) /\ p \in Peers
      BY <1>1, <2>2 DEF AirStates, Keeps
    <2>4. y \in Unread /\ y.e = "KEYREQ"
      BY <2>3 DEF Unread, Ev, Values
    <2> HIDE DEF b, y
    <2>5. Good(b, <<y>>)
      BY <1>4, <2>3, <2>4 DEF Good
    <2> QED BY <1>2, <2>2, <2>5
  <1>11. CASE c = "ENC"
    <2> DEFINE b == [air EXCEPT !.enc = @ \cup {p}]
               y == Ev("ENC", p, "on")
               z == Ev("ENC", p, "off")
    <2>1. r \in If(p \in air.up, Effect(b, <<y>>)) \cup If(p \in air.up, Effect(air, <<z>>))
      BY <1>11 DEF Effects
    <2>2. CASE r \in If(p \in air.up, Effect(b, <<y>>))
      <3>1. p \in air.up /\ r = Effect(b, <<y>>)
        BY <2>2, ResultOf
      <3>2. b \in AirStates /\ Keeps(air, b) /\ p \in Peers /\ p \in b.enc
        BY <1>1, <3>1 DEF AirStates, Keeps
      <3>3. y \in Unread /\ y.e = "ENC" /\ y.p = p
        BY <3>2 DEF Unread, Ev, Values
      <3> HIDE DEF b, y
      <3>4. Good(b, <<y>>)
        BY <1>4, <3>2, <3>3 DEF Good
      <3> QED BY <1>2, <3>1, <3>4
    <2>3. CASE r \in If(p \in air.up, Effect(air, <<z>>))
      <3>1. p \in air.up /\ r = Effect(air, <<z>>)
        BY <2>3, ResultOf
      <3>2. p \in Peers
        BY <3>1 DEF AirStates
      <3>3. z \in Unread /\ z.e = "ENC" /\ z.v = "off"
        BY <3>2 DEF Unread, Ev, Values
      <3> HIDE DEF z
      <3>4. Good(air, <<z>>)
        BY <1>3, <1>4, <3>3 DEF Good
      <3> QED BY <1>2, <3>1, <3>4
    <2> QED BY <2>1, <2>2, <2>3
  <1>12. CASE c = "DISC"
    <2>1. r \in If(p \in air.up, Effect(Dropped(p), DropEvents(p)))
      BY <1>12 DEF Effects
    <2>2. p \in air.up /\ r = Effect(Dropped(p), DropEvents(p))
      BY <2>1, ResultOf
    <2>3. r.air = Dropped(p) /\ r.events = DropEvents(p)
      BY <2>2 DEF Effect
    <2> QED BY <2>2, <2>3, DroppedMoves
  <1>13. CASE c \in {"SCAN_ON", "SCAN_OFF"}
    <2> DEFINE o == c = "SCAN_ON"
               b == [air EXCEPT !.scan = o]
    <2>1. r = Effect(b, <<>>)
      BY <1>13 DEF Effects
    <2>2. o \in BOOLEAN
      OBVIOUS
    <2> HIDE DEF o
    <2>3. b \in AirStates /\ Keeps(air, b)
      BY <1>1, <2>2 DEF AirStates, Keeps
    <2>4. Good(b, <<>>)
      BY <1>3, <1>5, <2>3 DEF Good
    <2> QED BY <1>2, <2>1, <2>4
  <1>14. CASE c \notin {"CREATE", "CANCEL", "ACCEPT", "REJECT", "AUTH", "ENC", "DISC", "SCAN_ON",
                        "SCAN_OFF"}
    <2>1. r = Effect(air, <<>>)
      BY <1>14 DEF Effects
    <2>2. Good(air, <<>>)
      BY <1>3, <1>5 DEF Good
    <2> QED BY <1>2, <2>1, <2>2
  <1> QED BY <1>6, <1>7, <1>8, <1>9, <1>10, <1>11, <1>12, <1>13, <1>14

\* A step that makes no link, and one that does.
NoLinkMade ==
  \E x \in Events : \E s \in Seq(Unread) :
    /\ Reads(x, s) /\ (x.e = "CONN" => x.v # "ok")
    /\ air' \in AirStates /\ Moves(air, air', evq, x, s)
LinkMade(q) ==
  /\ evq = <<>> /\ evq' = <<>> /\ Handle(Ev("CONN", q, "ok")) /\ UNCHANGED fuel
  /\ q \notin air.up /\ air' \in AirStates /\ air'.up = air.up \cup {q} /\ air'.enc = air.enc
  /\ AirSound(air', <<>>)

LEMMA ExecuteMoves ==
  ASSUME EngineTypes, AirSound(air, evq), Execute
  PROVE  NoLinkMade
  <1> DEFINE c == Head(cmds).c
             p == Head(cmds).p
             x(v) == Ev("REPLY", None, v)
  <1>1. cmds \in Seq(EngineCommands) /\ air \in AirStates
        /\ fuel \in [starts : 0..MaxStarts, moves : 0..MaxMoves]
    BY DEF EngineTypes, HostTypes, AirTypes, OperationTypes
  <1>2. cmds # <<>>
    BY DEF Execute
  <1>3. Head(cmds) \in EngineCommands
    BY <1>1, <1>2, HeadTailProperties
  <1>4. c \in Commands /\ p \in Who /\ (c = "CREATE" => p \in Peers)
    BY <1>3 DEF EngineCommands
  <1>5. \A v \in {"ok", "err"} : x(v) \in Events /\ x(v).e = "REPLY"
    BY DEF Ev, Events, Values, Who
  <1>6. ASSUME Burn("moves") \/ UNCHANGED fuel
        PROVE  fuel' \in [starts : 0..MaxStarts, moves : 0..MaxMoves]
    BY <1>1, <1>6, BurnTypes DEF EngineTypes
  <1>7. \/ \E v \in {"ok", "err"} : \E r \in Effects(c, p) :
             air' = r.air /\ Tell(<<x(v)>> \o r.events) /\ (Burn("moves") \/ UNCHANGED fuel)
        \/ UNCHANGED air /\ Tell(<<x("err")>>) /\ (Burn("moves") \/ UNCHANGED fuel)
    BY DEF Execute
  <1> HIDE DEF c, p, x
  <1>8. ASSUME NEW v \in {"ok", "err"}, NEW r \in Effects(c, p),
               air' = r.air, Tell(<<x(v)>> \o r.events), Burn("moves") \/ UNCHANGED fuel
        PROVE  NoLinkMade
    <2>1. evq = <<>>
      BY <1>8 DEF Tell
    <2>2. r.air \in AirStates /\ r.events \in Seq(Unread) /\ Moves(air, r.air, <<>>, x(v), r.events)
      BY <1>1, <1>4, <1>5, <1>8, <2>1, EffectsMove
    <2>3. Handle(x(v)) /\ evq' = r.events
      BY <1>5, <1>8, <2>2, TellsMore
    <2>4. Reads(x(v), r.events)
      BY <1>2, <1>6, <1>8, <2>3 DEF Reads
    <2> QED BY <1>5, <1>8, <2>1, <2>2, <2>4 DEF NoLinkMade
  <1>9. ASSUME UNCHANGED air, Tell(<<x("err")>>), Burn("moves") \/ UNCHANGED fuel
        PROVE  NoLinkMade
    <2>1. evq = <<>> /\ Handle(x("err")) /\ evq' = <<>>
      BY <1>9, TellsOne
    <2>2. Keeps(air, air)
      BY DEF Keeps, AirSound
    <2>3. Harmless(<<>>, air)
      BY HarmlessEvents
    <2>4. x("err").e \notin {"DISC", "ENC"} /\ x("err").e # "CONN"
      BY <1>5
    <2>5. Moves(air, air, <<>>, x("err"), <<>>)
      BY <2>1, <2>2, <2>3, <2>4, MovesKeepingLinks
    <2>6. Reads(x("err"), <<>>)
      BY <1>2, <1>6, <1>9, <2>1 DEF Reads
    <2>7. <<>> \in Seq(Unread)
      OBVIOUS
    <2> QED BY <1>1, <1>5, <1>9, <2>1, <2>4, <2>5, <2>6, <2>7 DEF NoLinkMade
  <1> QED BY <1>7, <1>8, <1>9

LEMMA OnEventMoves ==
  ASSUME EngineTypes, AirSound(air, evq), OnEvent
  PROVE  NoLinkMade
  <1> DEFINE x == Head(evq)
             s == Tail(evq)
  <1>1. evq \in Seq(Unread) /\ air \in AirStates
        /\ fuel \in [starts : 0..MaxStarts, moves : 0..MaxMoves]
    BY DEF EngineTypes, AirTypes, OperationTypes
  <1>2. evq # <<>> /\ Handle(x) /\ evq' = s /\ UNCHANGED <<air, fuel>>
    BY DEF OnEvent
  <1>3. /\ x \in Unread /\ s \in Seq(Unread)
        /\ \A i \in DOMAIN s : \E j \in DOMAIN evq : evq[j] = s[i]
        /\ \A j \in DOMAIN evq : evq[j] = x \/ \E i \in DOMAIN s : s[i] = evq[j]
    BY <1>1, <1>2, Oldest
  <1>4. \E j \in DOMAIN evq : evq[j] = x
    BY <1>1, <1>2, HeadTailProperties, EmptySeq, LenProperties
  <1> HIDE DEF x, s
  <1>5. x \in Events /\ x.e # "REPLY" /\ (x.e = "CONN" => x.v # "ok")
    BY <1>3, UnreadAreEvents DEF Unread
  <1>6. AirSound(air, s)
    BY <1>3 DEF AirSound
  <1>7. (x.e = "DISC" => x.p \notin air.up) /\ (x.e = "ENC" /\ x.v = "on" => x.p \in air.enc)
    BY <1>4 DEF AirSound
  <1>8. ASSUME NEW q \in Peers, \E j \in DOMAIN evq : evq[j].e = "DISC" /\ evq[j].p = q
        PROVE  IsTold(x, s, "DISC", q)
    <2>1. PICK j \in DOMAIN evq : evq[j].e = "DISC" /\ evq[j].p = q
      BY <1>8
    <2>2. CASE evq[j] = x
      BY <2>1, <2>2 DEF IsTold
    <2>3. CASE \E i \in DOMAIN s : s[i] = evq[j]
      BY <2>1, <2>3 DEF IsTold
    <2> QED BY <1>3, <2>2, <2>3
  <1>9. Moves(air, air, evq, x, s)
    BY <1>6, <1>7, <1>8 DEF Moves
  <1>10. Reads(x, s)
    BY <1>1, <1>2, <1>5 DEF Reads
  <1> QED BY <1>1, <1>2, <1>3, <1>5, <1>9, <1>10 DEF NoLinkMade

\* One event, at once.
LEMMA OneTold ==
  ASSUME AirTypes, AirSound(air, evq), NEW x \in Events, Tell(<<x>>),
         x.e \notin {"REPLY", "DISC", "ENC"}, x.e = "CONN" => x.v # "ok",
         air' \in AirStates, Keeps(air, air'),
         fuel' \in [starts : 0..MaxStarts, moves : 0..MaxMoves]
  PROVE  NoLinkMade
  <1>1. evq = <<>> /\ Handle(x) /\ evq' = <<>>
    BY TellsOne
  <1>2. Harmless(<<>>, air')
    BY HarmlessEvents
  <1> DEFINE b == air'
  <1>3. Keeps(air, b) /\ Harmless(<<>>, b) /\ AirSound(air, <<>>)
    BY <1>1, <1>2
  <1> HIDE DEF b
  <1>4. Moves(air, b, <<>>, x, <<>>)
    BY <1>3, MovesKeepingLinks
  <1>5. Reads(x, <<>>)
    BY <1>1 DEF Reads
  <1>6. <<>> \in Seq(Unread)
    OBVIOUS
  <1> QED BY <1>1, <1>4, <1>5, <1>6 DEF NoLinkMade, b

LEMMA MoreTold ==
  ASSUME AirTypes, AirSound(air, evq), NEW x \in Events, NEW s \in Seq(Unread), Tell(<<x>> \o s),
         x.e \notin {"REPLY", "DISC", "ENC"}, x.e = "CONN" => x.v # "ok",
         air' \in AirStates, Keeps(air, air'), Harmless(s, air'),
         fuel' \in [starts : 0..MaxStarts, moves : 0..MaxMoves]
  PROVE  NoLinkMade
  <1>1. evq = <<>> /\ Handle(x) /\ evq' = s
    BY TellsMore
  <1> DEFINE b == air'
  <1>3. Keeps(air, b) /\ Harmless(s, b) /\ AirSound(air, <<>>)
    BY <1>1
  <1> HIDE DEF b
  <1>4. Moves(air, b, <<>>, x, s)
    BY <1>3, MovesKeepingLinks
  <1>5. Reads(x, s)
    BY <1>1 DEF Reads
  <1> QED BY <1>1, <1>4, <1>5 DEF NoLinkMade, b

Joined(a, q, g, h) == [Linked(a, q) EXCEPT !.page = g, !.slave = h]

LEMMA LinkedAir ==
  ASSUME air \in AirStates, AirSound(air, <<>>), NEW q \in Peers, NEW g, g = air.page \ {q} \/ g = {},
         NEW h \in SUBSET Peers
  PROVE  LET b == Joined(air, q, g, h) IN
         /\ b \in AirStates /\ b.up = air.up \cup {q} /\ b.enc = air.enc /\ AirSound(b, <<>>)
         /\ b.quiet = air.quiet \cup {q} /\ b.auth = air.auth
  <1> DEFINE b == Joined(air, q, g, h)
  <1>1. /\ b \in AirStates /\ b.up = air.up \cup {q} /\ b.enc = air.enc /\ b.quiet = air.quiet \cup {q}
        /\ b.page = g /\ b.asked = air.asked \ {q} /\ b.accepted = air.accepted \ {q} /\ b.auth = air.auth
    BY DEF Joined, Linked, AirStates
  <1>2. /\ air.enc \subseteq air.up /\ air.quiet \subseteq air.up
        /\ air.up \cap (air.page \cup air.asked \cup air.accepted) = {}
    BY DEF AirSound
  <1>3. \A i \in DOMAIN <<>> : FALSE
    OBVIOUS
  <1>4. AirSound(b, <<>>)
    BY <1>1, <1>2, <1>3 DEF AirSound
  <1> QED BY <1>1, <1>4

LEMMA PageEndsMoves ==
  ASSUME EngineTypes, AirSound(air, evq), NEW p \in Peers,
         NEW v \in {"ok", "timeout", "other"}, PageEnds(p, v)
  PROVE  NoLinkMade \/ LinkMade(p)
  <1> DEFINE x == Ev("CONN", p, v)
  <1>1. air \in AirStates /\ fuel \in [starts : 0..MaxStarts, moves : 0..MaxMoves] /\ AirTypes
    BY DEF EngineTypes, AirTypes, OperationTypes
  <1>2. p \in air.page /\ Tell(<<x>>) /\ UNCHANGED fuel
    BY DEF PageEnds
  <1>3. evq = <<>> /\ Handle(x) /\ evq' = <<>>
    BY <1>2, TellsOne
  <1>4. p \notin air.up /\ AirSound(air, <<>>)
    BY <1>2, <1>3 DEF AirSound
  <1>5. CASE v = "ok"
    <2> DEFINE b == [Linked(air, p) EXCEPT !.page = {}]
    <2>1. air' = b
      BY <1>5 DEF PageEnds
    <2>2. Linked(air, p) \in AirStates /\ Linked(air, p).slave = air.slave
      BY <1>1 DEF Linked, AirStates
    <2> DEFINE g == {}
               h == air.slave
    <2>3. /\ b = Joined(air, p, g, h)
          /\ h \in SUBSET Peers /\ (g = air.page \ {p} \/ g = {})
      BY <1>1, <2>2 DEF AirStates, Joined
    <2> HIDE DEF b, g, h
    <2>4. g = air.page \ {p} \/ g = {}
      BY <2>3
    <2>5. h \in SUBSET Peers
      BY <2>3
    <2> DEFINE j == Joined(air, p, g, h)
    <2>6. j \in AirStates
      BY <1>1, <1>4, <2>4, <2>5, LinkedAir
    <2>7. j.up = air.up \cup {p}
      BY <1>1, <1>4, <2>4, <2>5, LinkedAir
    <2>8. j.enc = air.enc
      BY <1>1 DEF Joined, Linked, AirStates
    <2>9. j \in AirStates /\ j.up = air.up \cup {p} /\ j.enc = air.enc /\ AirSound(j, <<>>)
      BY <1>1, <1>4, <2>4, <2>5, LinkedAir, <2>6, <2>7, <2>8
    <2>10. b \in AirStates /\ b.up = air.up \cup {p} /\ b.enc = air.enc /\ AirSound(b, <<>>)
      BY <2>3, <2>9
    <2> QED BY <1>2, <1>3, <1>4, <1>5, <2>1, <2>10 DEF LinkMade
  <1>6. CASE v # "ok"
    <2>1. air' = [air EXCEPT !.page = {}]
      BY <1>6 DEF PageEnds
    <2>2. air' \in AirStates /\ Keeps(air, air')
      BY <1>1, <1>4, <2>1 DEF AirStates, Keeps, AirSound
    <2>3. x \in Events /\ x.e = "CONN" /\ x.v = v
      BY DEF Events, Ev, Who, Values
    <2> HIDE DEF x
    <2> QED BY <1>1, <1>2, <1>6, <2>2, <2>3, OneTold
  <1> QED BY <1>5, <1>6

LEMMA CallEndsMoves ==
  ASSUME EngineTypes, AirSound(air, evq), NEW p \in Peers,
         NEW v \in {"ok", "other"}, CallEnds(p, v)
  PROVE  NoLinkMade \/ LinkMade(p)
  <1> DEFINE x == Ev("CONN", p, v)
  <1>1. air \in AirStates /\ fuel \in [starts : 0..MaxStarts, moves : 0..MaxMoves] /\ AirTypes
    BY DEF EngineTypes, AirTypes, OperationTypes
  <1>2. p \in air.accepted \cup air.asked /\ Tell(<<x>>) /\ UNCHANGED fuel
    BY DEF CallEnds
  <1>3. evq = <<>> /\ Handle(x) /\ evq' = <<>>
    BY <1>2, TellsOne
  <1>4. p \notin air.up /\ AirSound(air, <<>>)
    BY <1>2, <1>3 DEF AirSound
  <1>5. CASE v = "ok"
    <2> DEFINE b == [Linked(air, p) EXCEPT !.slave = @ \cup {p}]
    <2>1. air' = b
      BY <1>5 DEF CallEnds
    <2>2. Linked(air, p) \in AirStates /\ Linked(air, p).slave = air.slave /\ Linked(air, p).page = air.page \ {p}
      BY <1>1 DEF Linked, AirStates
    <2> DEFINE g == air.page \ {p}
               h == air.slave \cup {p}
    <2>3. /\ b = Joined(air, p, g, h)
          /\ h \in SUBSET Peers /\ (g = air.page \ {p} \/ g = {})
      BY <1>1, <2>2 DEF AirStates, Joined
    <2> HIDE DEF b, g, h
    <2>4. g = air.page \ {p} \/ g = {}
      BY <2>3
    <2>5. h \in SUBSET Peers
      BY <2>3
    <2> DEFINE j == Joined(air, p, g, h)
    <2>6. j \in AirStates
      BY <1>1, <1>4, <2>4, <2>5, LinkedAir
    <2>7. j.up = air.up \cup {p}
      BY <1>1, <1>4, <2>4, <2>5, LinkedAir
    <2>8. j.enc = air.enc
      BY <1>1 DEF Joined, Linked, AirStates
    <2>9. j \in AirStates /\ j.up = air.up \cup {p} /\ j.enc = air.enc /\ AirSound(j, <<>>)
      BY <1>1, <1>4, <2>4, <2>5, LinkedAir, <2>6, <2>7, <2>8
    <2>10. b \in AirStates /\ b.up = air.up \cup {p} /\ b.enc = air.enc /\ AirSound(b, <<>>)
      BY <2>3, <2>9
    <2> QED BY <1>2, <1>3, <1>4, <1>5, <2>1, <2>10 DEF LinkMade
  <1>6. CASE v # "ok"
    <2>1. air' = [air EXCEPT !.asked = @ \ {p}, !.accepted = @ \ {p}]
      BY <1>6 DEF CallEnds
    <2>2. air' \in AirStates /\ Keeps(air, air')
      BY <1>1, <1>4, <2>1 DEF AirStates, Keeps, AirSound
    <2>3. x \in Events /\ x.e = "CONN" /\ x.v = v
      BY DEF Events, Ev, Who, Values
    <2> HIDE DEF x
    <2> QED BY <1>1, <1>2, <1>6, <2>2, <2>3, OneTold
  <1> QED BY <1>5, <1>6

LEMMA PeerCallsMoves ==
  ASSUME EngineTypes, AirSound(air, evq), NEW p \in Peers, PeerCalls(p)
  PROVE  NoLinkMade
  <1> DEFINE x == Ev("REQ", p, "")
  <1>1. air \in AirStates /\ AirTypes /\ OperationTypes
    BY DEF EngineTypes, AirTypes
  <1>2. Tell(<<x>>) /\ Burn("moves") /\ p \notin air.up /\ air' = [air EXCEPT !.asked = @ \cup {p}]
    BY DEF PeerCalls, Known
  <1>3. fuel' \in [starts : 0..MaxStarts, moves : 0..MaxMoves]
    BY <1>1, <1>2, BurnTypes
  <1>4. air' \in AirStates /\ Keeps(air, air')
    BY <1>1, <1>2 DEF AirStates, Keeps, AirSound
  <1>5. x \in Events /\ x.e = "REQ"
    BY DEF Events, Ev, Who, Values
  <1> HIDE DEF x
  <1> QED BY <1>1, <1>2, <1>3, <1>4, <1>5, OneTold

LEMMA SwapRolesMoves ==
  ASSUME EngineTypes, AirSound(air, evq), NEW p \in Peers, SwapRoles(p)
  PROVE  NoLinkMade
  <1> DEFINE x == Ev("ROLE", p, IF p \in air.slave THEN "master" ELSE "slave")
  <1>1. air \in AirStates /\ AirTypes /\ OperationTypes
    BY DEF EngineTypes, AirTypes
  <1>2. Tell(<<x>>) /\ Burn("moves")
    BY DEF SwapRoles
  <1>3. fuel' \in [starts : 0..MaxStarts, moves : 0..MaxMoves]
    BY <1>1, <1>2, BurnTypes
  <1>4. air' = [air EXCEPT !.slave = IF p \in @ THEN @ \ {p} ELSE @ \cup {p}]
    BY DEF SwapRoles
  <1>5. air' \in AirStates /\ Keeps(air, air')
    BY <1>1, <1>4 DEF AirStates, Keeps, AirSound
  <1>6. x \in Events /\ x.e = "ROLE"
    BY DEF Events, Ev, Who, Values
  <1> HIDE DEF x
  <1> QED BY <1>1, <1>2, <1>3, <1>5, <1>6, OneTold

LEMMA LinkDropsMoves ==
  ASSUME EngineTypes, AirSound(air, evq), NEW p \in Peers, LinkDrops(p)
  PROVE  NoLinkMade
  <1>1. air \in AirStates /\ AirTypes /\ OperationTypes
    BY DEF EngineTypes, AirTypes
  <1>2. p \in air.up /\ air' = Dropped(p) /\ Tell(DropEvents(p)) /\ Burn("moves")
    BY DEF LinkDrops
  <1>3. fuel' \in [starts : 0..MaxStarts, moves : 0..MaxMoves]
    BY <1>1, <1>2, BurnTypes
  <1>4. evq = <<>>
    BY <1>2 DEF Tell
  <1>5. AirSound(air, <<>>)
    BY <1>4
  <1>6. /\ Dropped(p) \in AirStates
        /\ \E x \in Events : \E s \in Seq(Unread) :
              /\ x.e \in {"AUTH", "DISC"} /\ DropEvents(p) = <<x>> \o s
              /\ Moves(air, Dropped(p), <<>>, x, s)
    BY <1>1, <1>2, <1>5, DroppedMoves
  <1>7. PICK x \in Events, s \in Seq(Unread) :
              /\ x.e \in {"AUTH", "DISC"} /\ DropEvents(p) = <<x>> \o s
              /\ Moves(air, Dropped(p), <<>>, x, s)
    BY <1>6
  <1>8. Tell(<<x>> \o s)
    BY <1>2, <1>7
  <1>9. Handle(x) /\ evq' = s
    BY <1>8, TellsMore
  <1>10. Reads(x, s)
    BY <1>3, <1>7, <1>9 DEF Reads
  <1> QED BY <1>2, <1>4, <1>6, <1>7, <1>10 DEF NoLinkMade

LEMMA AuthenticationEndsMoves ==
  ASSUME EngineTypes, AirSound(air, evq), NEW p \in Peers,
         NEW v \in {"ok", "reject", "other"}, AuthenticationEnds(p, v)
  PROVE  NoLinkMade
  <1> DEFINE x == Ev("AUTH", p, v)
             y == Ev("NEWKEY", p, "")
  <1>1. air \in AirStates /\ AirTypes /\ fuel \in [starts : 0..MaxStarts, moves : 0..MaxMoves]
    BY DEF EngineTypes, AirTypes, OperationTypes
  <1>2. air' = [air EXCEPT !.auth = None] /\ UNCHANGED fuel
    BY DEF AuthenticationEnds
  <1>3. air' \in AirStates /\ Keeps(air, air')
    BY <1>1, <1>2 DEF AirStates, Keeps, AirSound, Who
  <1>4. x \in Events /\ x.e = "AUTH" /\ y \in Events /\ y.e = "NEWKEY"
    BY DEF Events, Ev, Who, Values
  <1>5. Tell((IF v = "ok" THEN KeyEvents(p) ELSE <<>>) \o <<x>>)
    BY DEF AuthenticationEnds
  <1>6. KeyEvents(p) = <<>> \/ KeyEvents(p) = <<y>>
    BY DEF KeyEvents
  <1>7. v # "reject" => x \in Unread
    BY DEF Unread, Ev, Values
  <1> HIDE DEF x, y
  <1>8. <<>> \o <<x>> = <<x>>
    <2>1. <<x>> \in Seq(Events)
      BY <1>4
    <2> QED BY <2>1, ConcatEmptySeq
  <1>9. CASE v = "ok" /\ KeyEvents(p) = <<y>>
    <2>1. Tell(<<y>> \o <<x>>)
      BY <1>5, <1>9
    <2>2. <<x>> \in Seq(Unread) /\ Harmless(<<x>>, air')
      BY <1>4, <1>7, <1>9, HarmlessEvents
    <2> QED BY <1>1, <1>2, <1>3, <1>4, <2>1, <2>2, MoreTold
  <1>10. CASE ~(v = "ok" /\ KeyEvents(p) = <<y>>)
    <2>1. (IF v = "ok" THEN KeyEvents(p) ELSE <<>>) = <<>>
      BY <1>6, <1>10
    <2>2. Tell(<<x>>)
      BY <1>5, <1>8, <2>1
    <2> QED BY <1>1, <1>2, <1>3, <1>4, <2>2, OneTold
  <1> QED BY <1>9, <1>10

LEMMA PeerSecuresMoves ==
  ASSUME EngineTypes, AirSound(air, evq), NEW p \in Peers, PeerSecures(p)
  PROVE  NoLinkMade
  <1> DEFINE x == Ev("KEYREQ", p, "")
             y == Ev("NEWKEY", p, "")
             z == Ev("ENC", p, "on")
  <1>1. air \in AirStates /\ AirTypes /\ fuel \in [starts : 0..MaxStarts, moves : 0..MaxMoves]
    BY DEF EngineTypes, AirTypes, OperationTypes
  <1>2. /\ air' = [air EXCEPT !.quiet = @ \ {p}, !.enc = @ \cup {p}] /\ UNCHANGED fuel
        /\ p \in air.quiet
    BY DEF PeerSecures
  <1>3. air' \in AirStates /\ Keeps(air, air') /\ p \in air'.enc
    BY <1>1, <1>2 DEF AirStates, Keeps, AirSound, Who
  <1>4. x \in Events /\ x.e = "KEYREQ"
    BY DEF Events, Ev, Who, Values
  <1>5. y \in Unread /\ z \in Unread /\ x \in Unread /\ y.e = "NEWKEY" /\ z.e = "ENC" /\ z.p = p
    BY DEF Unread, Ev, Values
  <1>6. Tell(<<x>> \o KeyEvents(p) \o <<z>>)
    BY DEF PeerSecures
  <1>7. KeyEvents(p) = <<>> \/ KeyEvents(p) = <<y>>
    BY DEF KeyEvents
  <1> HIDE DEF x, y, z
  <1>8. /\ <<x>> \in Seq(Unread) /\ <<y>> \in Seq(Unread) /\ <<z>> \in Seq(Unread)
        /\ <<x>> \o <<>> = <<x>> /\ <<y>> \o <<z>> = <<y, z>>
    <2>1. <<x>> \in Seq(Unread) /\ <<y>> \in Seq(Unread) /\ <<z>> \in Seq(Unread)
      BY <1>5
    <2>2. <<y>> \o <<z>> = <<y, z>>
      BY <1>5, TwoEvents
    <2> QED BY <2>1, <2>2, ConcatEmptySeq
  <1>9. CASE KeyEvents(p) = <<>>
    <2>1. Tell(<<x>> \o <<z>>)
      BY <1>6, <1>8, <1>9
    <2>2. Harmless(<<z>>, air')
      BY <1>3, <1>5, HarmlessEvents
    <2> QED BY <1>1, <1>2, <1>3, <1>4, <1>8, <2>1, <2>2, MoreTold
  <1>10. CASE KeyEvents(p) = <<y>>
    <2>1. (<<x>> \o <<y>>) \o <<z>> = <<x>> \o (<<y>> \o <<z>>)
      BY <1>8, ConcatAssociative
    <2>2. Tell(<<x>> \o <<y, z>>)
      BY <1>6, <1>8, <1>10, <2>1
    <2>3. <<y, z>> \in Seq(Unread)
      BY <1>5
    <2>4. \A i \in DOMAIN <<y, z>> : <<y, z>>[i] = y \/ <<y, z>>[i] = z
      OBVIOUS
    <2>5. Harmless(<<y, z>>, air')
      BY <1>3, <1>5, <2>4 DEF Harmless
    <2> QED BY <1>1, <1>2, <1>3, <1>4, <2>2, <2>3, <2>5, MoreTold
  <1> QED BY <1>7, <1>9, <1>10

LEMMA AirMoves ==
  ASSUME EngineTypes, AirSound(air, evq), Air
  PROVE  NoLinkMade \/ \E q \in Peers : LinkMade(q)
  BY PageEndsMoves, CallEndsMoves, PeerCallsMoves, SwapRolesMoves, LinkDropsMoves,
     AuthenticationEndsMoves, PeerSecuresMoves DEF Air

-----------------------------------------------------------------------------
(* The inductive invariant: what the host knows of its link against what   *)
(* the controller has.                                                     *)

\* The handle held is of the link dealt with, which is up or whose end is on the way; every
\* link that is not astray is held; what counts as encrypted counts as a link.
HostAgrees ==
  /\ lk.handle # None => /\ lk.handle = lk.bd /\ LinkUp
                         /\ \/ lk.handle \in air.up
                            \/ \E i \in DOMAIN evq : evq[i].e = "DISC" /\ evq[i].p = lk.handle
  /\ air.up \ astray \subseteq {lk.handle}
  /\ au.enc = "on" => LinkUp

\* Encryption believed in is that of the link held, as long as none is astray to report its own.
EncryptionAgrees ==
  astray = {} /\ au.enc = "on" => lk.handle # None /\ (lk.handle \in air.enc \/ lk.handle \notin air.up)

Agreement == EngineTypes /\ AirSound(air, evq) /\ HostAgrees /\ EncryptionAgrees

\* What handling one event does to the link and its security.
LinkKept == lk'.handle = lk.handle /\ lk'.bd = lk.bd /\ lk'.st = lk.st /\ lk'.inboundUp = lk.inboundUp

Arrival(x) == x.e = "CONN" /\ x.v = "ok"
NotForUs(x) ==
  /\ LinkKept /\ au'.enc = au.enc /\ x.e # "ENC" /\ (x.e = "DISC" => x.p # lk.handle)
  /\ Arrival(x) => ~Ours(x.p)
  /\ astray' = IF Arrival(x) THEN astray \cup {x.p} ELSE astray
OurLinkComes(x) ==
  /\ Arrival(x) /\ Ours(x.p) /\ lk'.handle = x.p /\ lk'.bd = lk.bd /\ lk'.st = "UP"
  /\ lk'.inboundUp = (lk.inboundUp \/ ~Paging) /\ au'.enc = au.enc
  /\ astray' \in {astray, astray \cup {x.p}}
CallTaken(x) ==
  /\ x.e = "REQ" /\ ~Refused(x.p) /\ ~Paging /\ lk'.bd = x.p /\ lk'.handle = lk.handle
  /\ lk'.st = lk.st /\ lk'.inboundUp = lk.inboundUp /\ au'.enc = au.enc /\ astray' = astray
OurLinkEnds(x) ==
  /\ x.e = "DISC" /\ x.p = lk.handle /\ lk'.handle = None /\ lk'.bd = lk.bd
  /\ lk'.st = "LOST" /\ lk'.inboundUp = lk.inboundUp /\ au'.enc # "on" /\ astray' = astray
EncryptionNoted(x) ==
  /\ x.e = "ENC" /\ au'.enc = x.v /\ lk'.handle = lk.handle /\ lk'.bd = lk.bd
  /\ lk'.st = (IF x.v = "on" THEN "SECURE" ELSE lk.st) /\ lk'.inboundUp = lk.inboundUp
  /\ astray' = astray

LEMMA LinkEffects ==
  ASSUME HostTypes, NEW x \in Events, Handle(x)
  PROVE  NotForUs(x) \/ OurLinkComes(x) \/ CallTaken(x) \/ OurLinkEnds(x) \/ EncryptionNoted(x)
  <1>1. lk \in LinkStates /\ au \in Securities
    BY DEF HostTypes
  <1>2. CASE x.e = "NEWKEY" /\ LinkKeyNotification(x.p)
    BY <1>2 DEF LinkKeyNotification, LinkKept, NotForUs, Arrival
  <1>3. CASE x.e = "REPLY" /\ CommandDone(x.v)
    BY <1>3 DEF CommandDone, LinkKept, NotForUs, Arrival
  <1>4. CASE x.e = "CONN" /\ ConnectionComplete(x.p, x.v)
    <2>1. CASE ~Ours(x.p)
      BY <1>4, <2>1 DEF ConnectionComplete, LinkKept, NotForUs, Arrival
    <2>2. CASE Ours(x.p) /\ x.v # "ok"
      <3>1. lk' = [lk EXCEPT !.conn = IF Paging THEN x.v ELSE @] /\ astray' = astray /\ UNCHANGED au
        BY <1>4, <2>2 DEF ConnectionComplete
      <3> QED BY <1>1, <1>4, <2>2, <3>1 DEF LinkKept, LinkStates, NotForUs, Arrival
    <2>3. CASE Ours(x.p) /\ x.v = "ok"
      <3>1. lk' = [lk EXCEPT !.conn = IF Paging THEN x.v ELSE @, !.handle = x.p, !.st = "UP", !.supDone = FALSE,
                             !.role = IF lk.incoming THEN "slave" ELSE "master",
                             !.inboundUp = @ \/ ~Paging]
        BY <1>1, <1>4, <2>3 DEF ConnectionComplete, LinkStates
      <3>2. astray' \in {astray, astray \cup {x.p}} /\ UNCHANGED au
        BY <1>4, <2>3 DEF ConnectionComplete
      <3>3. lk'.handle = x.p /\ lk'.bd = lk.bd /\ lk'.st = "UP"
        BY <1>1, <3>1 DEF LinkStates
      <3>4. lk'.inboundUp = (lk.inboundUp \/ ~Paging)
        BY <1>1, <3>1 DEF LinkStates
      <3> QED BY <1>4, <2>3, <3>2, <3>3, <3>4 DEF OurLinkComes, Arrival
    <2> QED BY <2>1, <2>2, <2>3
  <1>5. CASE x.e = "REQ" /\ ConnectionRequest(x.p)
    <2>1. CASE Refused(x.p) \/ Paging
      BY <1>5, <2>1 DEF ConnectionRequest, LinkKept, NotForUs, Arrival
    <2>2. CASE ~(Refused(x.p) \/ Paging)
      <3>1. /\ lk' = [lk EXCEPT !.bd = x.p, !.incoming = TRUE] /\ au' = [au EXCEPT !.offered = FALSE]
            /\ astray' = astray
        BY <1>5, <2>2 DEF ConnectionRequest
      <3> QED BY <1>1, <1>5, <2>2, <3>1 DEF LinkStates, Securities, CallTaken
    <2> QED BY <2>1, <2>2
  <1>6. CASE x.e = "ROLE" /\ RoleChange(x.p, x.v)
    BY <1>1, <1>6 DEF RoleChange, LinkKept, LinkStates, NotForUs, Arrival
  <1>7. CASE x.e = "DISC" /\ Disconnection(x.p)
    <2>1. CASE OurHandle(x.p)
      BY <1>1, <1>7, <2>1 DEF Disconnection, OurHandle, LinkOver, NotEncrypted, LinkStates, Securities, OurLinkEnds
    <2>2. CASE ~OurHandle(x.p)
      BY <1>7, <2>2 DEF Disconnection, OurHandle, LinkKept, NotForUs, Arrival
    <2> QED BY <2>1, <2>2
  <1>8. CASE x.e = "KEYREQ" /\ KeyRequest(x.p)
    BY <1>1, <1>8 DEF KeyRequest, LinkKept, Securities, NotForUs, Arrival
  <1>9. CASE x.e = "AUTH" /\ AuthenticationComplete(x.v)
    BY <1>1, <1>9 DEF AuthenticationComplete, LinkKept, Securities, NotForUs, Arrival
  <1>10. CASE x.e = "ENC" /\ EncryptionChange(x.v)
    BY <1>1, <1>10 DEF EncryptionChange, LinkStates, Securities, EncryptionNoted
  <1> QED BY <1>2, <1>3, <1>4, <1>5, <1>6, <1>7, <1>8, <1>9, <1>10 DEF Handle, Other

LEMMA OperationKept ==
  ASSUME OperationTypes, UNCHANGED <<eng, result, attempt>>, lk.bd \in Peers => lk'.bd \in Peers,
         fuel' \in [starts : 0..MaxStarts, moves : 0..MaxMoves]
  PROVE  OperationTypes'
  BY DEF OperationTypes, OperationOK

LEMMA AgreementWithoutLink ==
  ASSUME Agreement, NoLinkMade
  PROVE  Agreement'
  <1>1. /\ EngineTypes /\ HostTypes /\ OperationTypes /\ AirTypes /\ AirSound(air, evq) /\ HostAgrees
        /\ EncryptionAgrees
    BY DEF Agreement, EngineTypes
  <1>2. PICK x \in Events, s \in Seq(Unread) :
          /\ Reads(x, s) /\ (x.e = "CONN" => x.v # "ok")
          /\ air' \in AirStates /\ Moves(air, air', evq, x, s)
    BY DEF NoLinkMade
  <1>3. /\ Handle(x) /\ (x.e = "REPLY" => cmds # <<>>) /\ evq' = s
        /\ fuel' \in [starts : 0..MaxStarts, moves : 0..MaxMoves]
    BY <1>2 DEF Reads
  <1>4. HostTypes' /\ UNCHANGED <<eng, result, pageScan, attempt>> /\ (lk.bd \in Peers => lk'.bd \in Peers)
    BY <1>1, <1>3, HandleTypes
  <1>5. OperationTypes'
    BY <1>1, <1>3, <1>4, OperationKept
  <1>6. EngineTypes'
    BY <1>2, <1>3, <1>4, <1>5 DEF EngineTypes, AirTypes
  <1>7. /\ air'.up \subseteq air.up /\ air.enc \cap air'.up \subseteq air'.enc
        /\ \A q \in Peers : \/ q \in air.up \ air'.up
                            \/ \E i \in DOMAIN evq : evq[i].e = "DISC" /\ evq[i].p = q
                            => IsTold(x, s, "DISC", q)
        /\ (x.e = "DISC" => x.p \notin air'.up) /\ (x.e = "ENC" /\ x.v = "on" => x.p \in air'.enc)
        /\ AirSound(air', s)
    BY <1>2 DEF Moves
  <1>8. /\ lk.handle \in Peers \cup {None} /\ lk.bd \in Peers \cup {None} /\ air.up \subseteq Peers
        /\ air'.up \subseteq Peers /\ air'.enc \subseteq air'.up /\ None \notin Peers
        /\ au.enc \in {"none", "on", "off"}
        /\ (x.e \in {"DISC", "ENC"} => x.p \in Peers)
    <2>1. None \notin Peers
      BY EngineConstants
    <2>2. lk.handle \in Peers \cup {None} /\ lk.bd \in Peers \cup {None} /\ au.enc \in {"none", "on", "off"}
      BY <1>1 DEF HostTypes, LinkStates, Securities, Who
    <2>3. air.up \subseteq Peers /\ air'.up \subseteq Peers
      BY <1>1, <1>2 DEF AirTypes, AirStates
    <2>4. air'.enc \subseteq air'.up
      BY <1>7 DEF AirSound
    <2>5. x.e \in {"DISC", "ENC"} => x.p \in Peers
      BY DEF Events
    <2> QED BY <2>1, <2>2, <2>3, <2>4, <2>5
  <1>9. /\ lk.handle # None => /\ lk.handle = lk.bd /\ LinkUp
                               /\ lk.handle \in air'.up \/ IsTold(x, s, "DISC", lk.handle)
        /\ air.up \ astray \subseteq {lk.handle} /\ (au.enc = "on" => LinkUp)
    BY <1>1, <1>7, <1>8 DEF HostAgrees
  <1>10. ~Arrival(x)
    BY <1>2 DEF Arrival
  <1>11. AirSound(air, evq)'
    BY <1>3, <1>7 DEF AirSound
  <1>12. CASE NotForUs(x)
    <2>1. /\ lk'.handle = lk.handle /\ lk'.bd = lk.bd /\ lk'.st = lk.st /\ au'.enc = au.enc
          /\ astray' = astray /\ (x.e = "DISC" => x.p # lk.handle)
      BY <1>10, <1>12 DEF NotForUs, LinkKept
    <2>2. IsTold(x, s, "DISC", lk.handle) => \E i \in DOMAIN s : s[i].e = "DISC" /\ s[i].p = lk.handle
      BY <2>1 DEF IsTold
    <2>3. LinkUp' = LinkUp
      BY <2>1 DEF LinkUp, IsUp
    <2>4. HostAgrees'
      BY <1>3, <1>7, <1>9, <2>1, <2>2, <2>3 DEF HostAgrees
    <2>5. EncryptionAgrees'
      BY <1>1, <1>7, <1>8, <2>1 DEF EncryptionAgrees
    <2> QED BY <1>6, <1>11, <2>4, <2>5 DEF Agreement
  <1>13. CASE OurLinkComes(x)
    BY <1>10, <1>13 DEF OurLinkComes
  <1>14. CASE CallTaken(x)
    <2>1. /\ lk'.handle = lk.handle /\ lk'.st = lk.st /\ au'.enc = au.enc /\ astray' = astray /\ ~LinkUp
      BY <1>14 DEF CallTaken, Refused
    <2>2. lk.handle = None /\ au.enc # "on"
      BY <1>9, <2>1
    <2>3. HostAgrees'
      BY <1>7, <1>9, <2>1, <2>2 DEF HostAgrees
    <2>4. EncryptionAgrees'
      BY <2>1, <2>2 DEF EncryptionAgrees
    <2> QED BY <1>6, <1>11, <2>3, <2>4 DEF Agreement
  <1>15. CASE OurLinkEnds(x)
    <2>1. x.e = "DISC" /\ x.p = lk.handle /\ lk'.handle = None /\ au'.enc # "on" /\ astray' = astray
      BY <1>15 DEF OurLinkEnds
    <2>2. air'.up \ astray = {}
      BY <1>7, <1>9, <2>1
    <2>3. HostAgrees'
      BY <2>1, <2>2 DEF HostAgrees
    <2>4. EncryptionAgrees'
      BY <2>1 DEF EncryptionAgrees
    <2> QED BY <1>6, <1>11, <2>3, <2>4 DEF Agreement
  <1>16. CASE EncryptionNoted(x)
    <2>1. /\ x.e = "ENC" /\ au'.enc = x.v /\ lk'.handle = lk.handle /\ lk'.bd = lk.bd /\ astray' = astray
          /\ lk'.st = (IF x.v = "on" THEN "SECURE" ELSE lk.st)
      BY <1>16 DEF EncryptionNoted
    <2>2. (LinkUp => LinkUp') /\ (x.v = "on" => LinkUp')
      BY <2>1 DEF LinkUp, IsUp
    <2>3. IsTold(x, s, "DISC", lk.handle) => \E i \in DOMAIN s : s[i].e = "DISC" /\ s[i].p = lk.handle
      BY <2>1 DEF IsTold
    <2>4. HostAgrees'
      BY <1>3, <1>7, <1>9, <2>1, <2>2, <2>3 DEF HostAgrees
    <2>5. EncryptionAgrees'
      BY <1>7, <1>8, <1>9, <2>1 DEF EncryptionAgrees
    <2> QED BY <1>6, <1>11, <2>4, <2>5 DEF Agreement
  <1> QED BY <1>1, <1>3, <1>12, <1>13, <1>14, <1>15, <1>16, LinkEffects

LEMMA AgreementWithLink ==
  ASSUME Agreement, NEW q \in Peers, LinkMade(q)
  PROVE  Agreement'
  <1> DEFINE x == Ev("CONN", q, "ok")
  <1>1. /\ EngineTypes /\ HostTypes /\ OperationTypes /\ AirTypes /\ AirSound(air, evq) /\ HostAgrees
        /\ EncryptionAgrees
    BY DEF Agreement, EngineTypes
  <1>2. /\ evq = <<>> /\ evq' = <<>> /\ Handle(x) /\ UNCHANGED fuel
        /\ q \notin air.up /\ air' \in AirStates /\ air'.up = air.up \cup {q} /\ air'.enc = air.enc
        /\ AirSound(air', <<>>)
    BY DEF LinkMade
  <1>3. x \in Events /\ x.e = "CONN" /\ x.v = "ok" /\ x.p = q
    BY DEF Ev, Events, Who, Values
  <1> HIDE DEF x
  <1>4. HostTypes' /\ UNCHANGED <<eng, result, pageScan, attempt>> /\ (lk.bd \in Peers => lk'.bd \in Peers)
    BY <1>1, <1>2, <1>3, HandleTypes
  <1>5. fuel' \in [starts : 0..MaxStarts, moves : 0..MaxMoves]
    BY <1>1, <1>2 DEF OperationTypes
  <1>6. OperationTypes'
    BY <1>1, <1>4, <1>5, OperationKept
  <1>7. EngineTypes'
    BY <1>2, <1>4, <1>6 DEF EngineTypes, AirTypes
  <1>8. AirSound(air, evq)'
    BY <1>2 DEF AirSound
  <1>9. \A i \in DOMAIN evq : FALSE
    BY <1>2
  <1>10. /\ lk.handle # None => lk.handle = lk.bd /\ LinkUp /\ lk.handle \in air.up
         /\ air.up \ astray \subseteq {lk.handle} /\ (au.enc = "on" => LinkUp)
    BY <1>1, <1>9 DEF HostAgrees
  <1>11. None \notin Peers /\ air.up \subseteq Peers
    BY <1>1, EngineConstants DEF AirTypes, AirStates
  <1>12. Arrival(x)
    BY <1>3 DEF Arrival
  <1>13. CASE NotForUs(x)
    <2>1. /\ lk'.handle = lk.handle /\ lk'.bd = lk.bd /\ lk'.st = lk.st /\ au'.enc = au.enc
          /\ astray' = astray \cup {q}
      BY <1>3, <1>12, <1>13 DEF NotForUs, LinkKept
    <2>2. LinkUp' = LinkUp
      BY <2>1 DEF LinkUp, IsUp
    <2>3. HostAgrees'
      BY <1>2, <1>10, <2>1, <2>2 DEF HostAgrees
    <2>4. EncryptionAgrees'
      BY <2>1 DEF EncryptionAgrees
    <2> QED BY <1>7, <1>8, <2>3, <2>4 DEF Agreement
  <1>14. CASE OurLinkComes(x)
    <2>1. /\ q = lk.bd /\ lk'.handle = q /\ lk'.bd = lk.bd /\ lk'.st = "UP" /\ au'.enc = au.enc
          /\ astray \subseteq astray'
      BY <1>3, <1>14 DEF OurLinkComes, Ours
    <2>2. lk.handle = None
      BY <1>2, <1>10, <2>1
    <2>3. air'.up \ astray' \subseteq {q}
      BY <1>2, <1>10, <1>11, <2>1, <2>2
    <2>4. LinkUp'
      BY <2>1 DEF LinkUp, IsUp
    <2>5. HostAgrees'
      BY <1>2, <2>1, <2>3, <2>4 DEF HostAgrees
    <2>6. EncryptionAgrees'
      BY <1>1, <2>1, <2>2 DEF EncryptionAgrees
    <2> QED BY <1>7, <1>8, <2>5, <2>6 DEF Agreement
  <1> QED BY <1>1, <1>2, <1>3, <1>13, <1>14, LinkEffects DEF CallTaken, OurLinkEnds, EncryptionNoted

\* What a step of the host itself may do: keep its link, or let go of it.
LEMMA AgreementOfHost ==
  ASSUME Agreement, HostTypes', OperationTypes', UNCHANGED <<air, evq>>, LinkUp' = LinkUp,
         au'.enc = au.enc \/ au'.enc # "on",
         \/ lk'.handle = lk.handle /\ lk'.bd = lk.bd /\ astray' = astray
         \/ /\ lk'.handle = None /\ astray \subseteq astray'
            /\ lk.handle \in air.up => lk.handle \in astray'
            /\ au'.enc # "on" \/ (lk.handle # None => lk.handle \in astray')
  PROVE  Agreement'
  <1>1. AirTypes /\ AirSound(air, evq) /\ HostAgrees /\ EncryptionAgrees
    BY DEF Agreement, EngineTypes
  <1>2. EngineTypes'
    BY <1>1 DEF EngineTypes, AirTypes
  <1>3. AirSound(air, evq)'
    BY <1>1 DEF AirSound
  <1>4. CASE lk'.handle = lk.handle /\ lk'.bd = lk.bd /\ astray' = astray
    <2>1. HostAgrees'
      BY <1>1, <1>4 DEF HostAgrees
    <2>2. EncryptionAgrees'
      BY <1>1, <1>4 DEF EncryptionAgrees
    <2> QED BY <1>2, <1>3, <2>1, <2>2 DEF Agreement
  <1>5. CASE /\ lk'.handle = None /\ astray \subseteq astray'
             /\ lk.handle \in air.up => lk.handle \in astray'
             /\ au'.enc # "on" \/ (lk.handle # None => lk.handle \in astray')
    <2>1. HostAgrees'
      BY <1>1, <1>5 DEF HostAgrees
    <2>2. EncryptionAgrees'
      BY <1>1, <1>5 DEF EncryptionAgrees
    <2> QED BY <1>2, <1>3, <2>1, <2>2 DEF Agreement
  <1> QED BY <1>4, <1>5

-----------------------------------------------------------------------------
(* The calls, and the side channel.                                        *)

LEMMA StartTypes ==
  ASSUME NEW op \in {"PREPARE", "INQUIRY", "PAGE", "PAIR", "DISCONNECT"},
         NEW sub \in {"setup", "issue", "enter"}, NEW n \in {0, 1}, NEW b \in BOOLEAN,
         op = "PAGE" => n = 1, op \in {"PREPARE", "INQUIRY"} => n = 0, NEW l, op = "PAGE" => l.bd \in Peers
  PROVE  OperationOK([op |-> op, sub |-> sub, n |-> n, inbound |-> b], l)
  <1>1. SetupSteps \in Nat \ {0} /\ MaxHits \in Nat /\ PageAttempts \in Nat \ {0}
    BY EngineConstants
  <1>2. n \in 0..(SetupSteps + MaxHits + PageAttempts) /\ (n = 1 => n \in 1..PageAttempts) /\ 0 <= SetupSteps /\ 0 <= MaxHits
    BY <1>1
  <1>3. sub \in Subs /\ sub \notin {"name_status", "name_wait"}
    BY DEF Subs
  <1> QED BY <1>2, <1>3 DEF OperationOK

LEMMA SameOperation ==
  ASSUME OperationTypes, UNCHANGED <<eng, result, attempt, fuel>>, lk'.bd = lk.bd
  PROVE  OperationTypes'
  BY DEF OperationTypes, OperationOK

LEMMA StartedTypes ==
  ASSUME EngineTypes, NEW op \in {"PREPARE", "INQUIRY", "PAGE", "PAIR", "DISCONNECT"},
         NEW sub \in {"setup", "issue", "enter"}, NEW n \in {0, 1}, NEW b \in BOOLEAN,
         op = "PAGE" => n = 1, op \in {"PREPARE", "INQUIRY"} => n = 0, op = "PAGE" => lk'.bd \in Peers,
         Start(op, sub, n, b), Burn("starts") \/ UNCHANGED fuel,
         attempt' \in {"NONE", "INQUIRY", "PAGE", "PAIR", "DISCONNECT"},
         lk' \in LinkStates, au' \in Securities, astray' \subseteq Peers
  PROVE  HostTypes' /\ OperationTypes' /\ UNCHANGED <<air, evq>>
  <1>1. /\ eng' = [op |-> op, sub |-> sub, n |-> n, inbound |-> b]
        /\ UNCHANGED <<result, slot, pageScan, bonded, cmds, evq, air, forgot>>
    BY DEF Start
  <1> DEFINE l == lk'
  <1>2. op = "PAGE" => l.bd \in Peers
    OBVIOUS
  <1> HIDE DEF l
  <1>3. OperationOK([op |-> op, sub |-> sub, n |-> n, inbound |-> b], l)
    BY <1>2, StartTypes
  <1>4. fuel' \in [starts : 0..MaxStarts, moves : 0..MaxMoves]
    BY BurnTypes DEF EngineTypes, OperationTypes
  <1>5. OperationOK(eng, lk)'
    BY <1>1, <1>3 DEF OperationOK, l
  <1>6. OperationTypes'
    BY <1>1, <1>4, <1>5 DEF EngineTypes, OperationTypes
  <1>7. HostTypes'
    BY <1>1 DEF EngineTypes, HostTypes
  <1> QED BY <1>1, <1>6, <1>7

LEMMA CallsAgree ==
  ASSUME Agreement, EngineCalls
  PROVE  Agreement'
  <1>1. /\ EngineTypes /\ HostTypes /\ OperationTypes /\ AirTypes /\ HostAgrees
        /\ lk \in LinkStates /\ au \in Securities /\ astray \subseteq Peers /\ pageScan \in [want : BOOLEAN, have : BOOLEAN]
        /\ attempt \in {"NONE", "INQUIRY", "PAGE", "PAIR", "DISCONNECT"}
    BY DEF Agreement, EngineTypes, HostTypes, OperationTypes
  <1>2. CASE StartPrepare
    <2>1. Start("PREPARE", "setup", 0, FALSE) /\ Burn("starts") /\ UNCHANGED <<lk, au, astray, attempt>>
      BY <1>2 DEF StartPrepare
    <2>2. HostTypes' /\ OperationTypes' /\ UNCHANGED <<air, evq>>
      BY <1>1, <2>1, StartedTypes
    <2>3. LinkUp' = LinkUp
      BY <2>1 DEF LinkUp, IsUp
    <2> QED BY <2>1, <2>2, <2>3, AgreementOfHost
  <1>3. CASE StartInquiry
    <2>1. /\ Start("INQUIRY", "issue", 0, FALSE) /\ Burn("starts") /\ UNCHANGED <<lk, au, astray>>
          /\ attempt' = "INQUIRY"
      BY <1>3 DEF StartInquiry
    <2>2. HostTypes' /\ OperationTypes' /\ UNCHANGED <<air, evq>>
      BY <1>1, <2>1, StartedTypes
    <2>3. LinkUp' = LinkUp
      BY <2>1 DEF LinkUp, IsUp
    <2> QED BY <2>1, <2>2, <2>3, AgreementOfHost
  <1>4. CASE StartDisconnect
    <2>1. /\ Start("DISCONNECT", "issue", 0, FALSE) /\ UNCHANGED <<lk, au, astray, fuel>>
          /\ attempt' = "DISCONNECT"
      BY <1>4 DEF StartDisconnect
    <2>2. HostTypes' /\ OperationTypes' /\ UNCHANGED <<air, evq>>
      BY <1>1, <2>1, StartedTypes
    <2>3. LinkUp' = LinkUp
      BY <2>1 DEF LinkUp, IsUp
    <2> QED BY <2>1, <2>2, <2>3, AgreementOfHost
  <1>5. CASE AckLost
    <2>1. /\ lk.st = "LOST" /\ lk' = [lk EXCEPT !.st = "NONE"]
          /\ UNCHANGED <<eng, result, slot, au, pageScan, bonded, cmds, evq, air, forgot, fuel, astray, attempt>>
      BY <1>5 DEF AckLost, airVars
    <2>2. lk' \in LinkStates /\ lk'.handle = lk.handle /\ lk'.bd = lk.bd /\ lk'.st = "NONE"
      BY <1>1, <2>1 DEF LinkStates
    <2>3. HostTypes' /\ OperationTypes'
      BY <1>1, <2>1, <2>2, SameOperation DEF HostTypes
    <2>4. LinkUp' = LinkUp
      BY <2>1, <2>2 DEF LinkUp, IsUp
    <2> QED BY <2>1, <2>2, <2>3, <2>4, AgreementOfHost
  <1>6. CASE AttemptEnds
    <2>1. /\ attempt' = "NONE"
          /\ UNCHANGED <<eng, result, slot, lk, au, pageScan, bonded, cmds, evq, air, forgot, fuel, astray>>
      BY <1>6 DEF AttemptEnds, airVars
    <2>2. HostTypes' /\ OperationTypes'
      BY <1>1, <2>1 DEF HostTypes, OperationTypes, OperationOK
    <2>3. LinkUp' = LinkUp
      BY <2>1 DEF LinkUp, IsUp
    <2> QED BY <2>1, <2>2, <2>3, AgreementOfHost
  <1>7. CASE WantScan
    <2>1. /\ pageScan' = [pageScan EXCEPT !.want = Listening(lk, bonded)]
          /\ UNCHANGED <<eng, result, slot, lk, au, bonded, cmds, evq, air, forgot, fuel, astray, attempt>>
      BY <1>7 DEF WantScan, airVars
    <2>2. Listening(lk, bonded) \in BOOLEAN
      BY EngineConstants DEF Listening
    <2>3. pageScan' \in [want : BOOLEAN, have : BOOLEAN]
      BY <1>1, <2>1, <2>2
    <2>4. HostTypes' /\ OperationTypes'
      BY <1>1, <2>1, <2>3, SameOperation DEF HostTypes
    <2>5. LinkUp' = LinkUp
      BY <2>1 DEF LinkUp, IsUp
    <2> QED BY <2>1, <2>4, <2>5, AgreementOfHost
  <1>8. ASSUME NEW p \in Peers, StartPage(p) PROVE Agreement'
    <2>1. /\ Start("PAGE", "issue", 1, FALSE) /\ (Burn("starts") \/ UNCHANGED fuel) /\ attempt' = "PAGE"
          /\ lk' = [lk EXCEPT !.bd = p, !.handle = None]
          /\ au' = [au EXCEPT !.offered = FALSE]
          /\ astray' = astray \cup ({lk.handle} \ {None})
      BY <1>8 DEF StartPage
    <2>2. /\ lk' \in LinkStates /\ lk'.bd = p /\ lk'.handle = None /\ lk'.st = lk.st
          /\ au' \in Securities /\ au'.enc = au.enc
      BY <1>1, <2>1 DEF LinkStates, Securities, Who
    <2>3. astray' \subseteq Peers /\ None \notin Peers
      BY <1>1, <2>1, EngineConstants DEF LinkStates, Who
    <2>4. HostTypes' /\ OperationTypes' /\ UNCHANGED <<air, evq>>
      BY <1>1, <2>1, <2>2, <2>3, StartedTypes
    <2>5. LinkUp' = LinkUp
      BY <2>2 DEF LinkUp, IsUp
    <2>6. air.up \subseteq Peers
      BY <1>1 DEF AirTypes, AirStates
    <2> QED BY <2>1, <2>2, <2>3, <2>4, <2>5, <2>6, AgreementOfHost
  <1>9. ASSUME NEW b \in BOOLEAN, StartPair(b) PROVE Agreement'
    <2>1. /\ Start("PAIR", "enter", 0, b) /\ UNCHANGED <<au, astray, fuel>> /\ attempt' = "PAIR"
          /\ lk' = lk \/ lk' = [lk EXCEPT !.inboundUp = FALSE]
      BY <1>9 DEF StartPair
    <2>2. lk' \in LinkStates /\ lk'.bd = lk.bd /\ lk'.handle = lk.handle /\ lk'.st = lk.st
      BY <1>1, <2>1 DEF LinkStates
    <2>3. HostTypes' /\ OperationTypes' /\ UNCHANGED <<air, evq>>
      BY <1>1, <2>1, <2>2, StartedTypes
    <2>4. LinkUp' = LinkUp
      BY <2>2 DEF LinkUp, IsUp
    <2> QED BY <2>1, <2>2, <2>3, <2>4, AgreementOfHost
  <1> QED BY <1>2, <1>3, <1>4, <1>5, <1>6, <1>7, <1>8, <1>9 DEF EngineCalls

LEMMA ReconcileScanAgrees ==
  ASSUME Agreement, ReconcileScan
  PROVE  Agreement'
  <1>1. /\ EngineTypes /\ HostTypes /\ OperationTypes /\ AirTypes /\ lk \in LinkStates
        /\ pageScan \in [want : BOOLEAN, have : BOOLEAN]
    BY DEF Agreement, EngineTypes, HostTypes
  <1>2. UNCHANGED <<eng, result, au, bonded, evq, air, forgot, fuel, astray, attempt>>
    BY DEF ReconcileScan, airVars
  <1>3. Listening(lk, bonded) \in BOOLEAN
    BY EngineConstants DEF Listening
  <1>4. None \in Who
    BY DEF Who
  <1>5. /\ \E c \in {"SCAN_ON", "SCAN_OFF", "SUPERVISION"} : Issue(c, None)
        /\ lk' = lk \/ lk' = [lk EXCEPT !.supDone = TRUE]
        /\ \/ pageScan' = [have |-> pageScan.want, want |-> Listening(lk, bonded)]
           \/ pageScan' = [pageScan EXCEPT !.want = Listening(lk, bonded)]
    BY DEF ReconcileScan
  <1>6. PICK c \in {"SCAN_ON", "SCAN_OFF", "SUPERVISION"} : Issue(c, None)
    BY <1>5
  <1>7. c \in Commands /\ c # "CREATE"
    BY DEF Commands
  <1>8. /\ slot' \in [busy : BOOLEAN, of : Commands \cup {""}, err : BOOLEAN]
        /\ cmds' \in Seq(EngineCommands) /\ Len(cmds') <= Depth
    BY <1>1, <1>4, <1>6, <1>7, SlotTypes
  <1>9. lk' \in LinkStates /\ lk'.bd = lk.bd /\ lk'.handle = lk.handle /\ lk'.st = lk.st
    BY <1>1, <1>5 DEF LinkStates
  <1>10. pageScan' \in [want : BOOLEAN, have : BOOLEAN]
    BY <1>1, <1>3, <1>5
  <1>11. HostTypes' /\ OperationTypes'
    BY <1>1, <1>2, <1>8, <1>9, <1>10, SameOperation DEF HostTypes
  <1>12. LinkUp' = LinkUp
    BY <1>9 DEF LinkUp, IsUp
  <1> QED BY <1>2, <1>9, <1>11, <1>12, AgreementOfHost

-----------------------------------------------------------------------------
(* A step of an operation.                                                 *)

QueueOK ==
  /\ slot \in [busy : BOOLEAN, of : Commands \cup {""}, err : BOOLEAN]
  /\ cmds \in Seq(EngineCommands) /\ Len(cmds) <= Depth
StaysAtIt == OperationOK(eng', lk) /\ eng'.op = eng.op /\ result' = result
Concludes(r) == OperationOK(eng', lk) /\ eng'.op = "NONE" /\ result' = r
AirKept == UNCHANGED <<evq, air, forgot, fuel, attempt>>

LEMMA TurnKeeps ==
  ASSUME NEW op, NEW sub, Turn(op, sub)
  PROVE  eng.op = op /\ eng.sub = sub /\ AirKept
  BY DEF Turn, AirKept, airVars

LEMMA QuietQueue ==
  ASSUME HostTypes, Quiet
  PROVE  QueueOK'
  <1>1. slot \in [busy : BOOLEAN, of : Commands \cup {""}, err : BOOLEAN]
        /\ cmds \in Seq(EngineCommands) /\ Len(cmds) <= Depth
    BY DEF HostTypes
  <1>2. cmds' = cmds /\ (slot' = slot \/ slot' = [slot EXCEPT !.of = "", !.err = FALSE])
    BY DEF Quiet
  <1> QED BY <1>1, <1>2 DEF QueueOK

LEMMA IssueQueue ==
  ASSUME HostTypes, NEW c \in Commands, NEW p \in Who, c = "CREATE" => p \in Peers,
         Issue(c, p)
  PROVE  QueueOK'
  BY SlotTypes DEF QueueOK

LEMMA GoStays ==
  ASSUME OperationTypes, NEW sub \in Subs, Go(sub),
         eng.op = "INQUIRY" /\ sub \in {"name_status", "name_wait"} => eng.n < MaxHits
  PROVE  StaysAtIt
  <1>1. OperationOK(eng, lk) /\ eng' = [eng EXCEPT !.sub = sub] /\ result' = result
    BY DEF Go, OperationTypes
  <1> QED BY <1>1 DEF OperationOK, StaysAtIt

LEMMA FinishConcludes ==
  ASSUME NEW r, Finish(r)
  PROVE  Concludes(r)
  <1>1. eng' = [op |-> "NONE", sub |-> "", n |-> 0, inbound |-> FALSE] /\ result' = r
    BY DEF Finish, Idle
  <1>2. 0 \in 0..(SetupSteps + MaxHits + PageAttempts)
    BY EngineConstants
  <1>3. "" \in Subs
    BY DEF Subs
  <1> QED BY <1>1, <1>2, <1>3 DEF OperationOK, Concludes

\* One more hit, attempt or setup step.
LEMMA CountStays ==
  ASSUME OperationTypes, NEW sub \in Subs, sub \notin {"name_status", "name_wait"},
         eng' = [eng EXCEPT !.sub = sub, !.n = @ + 1], result' = result,
         \/ eng.op = "PREPARE" /\ eng.n < SetupSteps
         \/ eng.op = "INQUIRY" /\ eng.n < MaxHits
         \/ eng.op = "PAGE" /\ eng.n < PageAttempts
  PROVE  StaysAtIt
  <1>1. OperationOK(eng, lk)
    BY DEF OperationTypes
  <1>2. /\ eng \in [op : {"NONE", "PREPARE", "INQUIRY", "PAGE", "PAIR", "DISCONNECT"}, sub : Subs,
            n : 0..(SetupSteps + MaxHits + PageAttempts), inbound : BOOLEAN]
        /\ (eng.op = "PAGE" => lk.bd \in Peers /\ eng.n \in 1..PageAttempts)
    BY <1>1 DEF OperationOK
  <1>3. SetupSteps \in Nat \ {0} /\ MaxHits \in Nat /\ PageAttempts \in Nat \ {0}
    BY EngineConstants
  <1>4. eng.n \in Nat /\ eng'.n = eng.n + 1 /\ eng'.sub = sub /\ eng'.op = eng.op
    BY <1>2, <1>3
  <1>5. eng.n + 1 \in 0..(SetupSteps + MaxHits + PageAttempts)
    BY <1>3, <1>4
  <1>6. eng' \in [op : {"NONE", "PREPARE", "INQUIRY", "PAGE", "PAIR", "DISCONNECT"}, sub : Subs,
            n : 0..(SetupSteps + MaxHits + PageAttempts), inbound : BOOLEAN]
    BY <1>2, <1>5
  <1>7. /\ (eng.op = "PREPARE" => eng.n + 1 <= SetupSteps) /\ (eng.op = "INQUIRY" => eng.n + 1 <= MaxHits)
        /\ (eng.op = "PAGE" => eng.n + 1 \in 1..PageAttempts)
    BY <1>3, <1>4
  <1> QED BY <1>2, <1>4, <1>6, <1>7 DEF OperationOK, StaysAtIt

LEMMA PrepareSteps ==
  ASSUME EngineTypes, Prepare
  PROVE  /\ AirKept /\ QueueOK' /\ UNCHANGED <<lk, au, bonded, astray>> /\ eng.op = "PREPARE"
         /\ StaysAtIt \/ Concludes("OK")
  <1>1. HostTypes /\ OperationTypes
    BY DEF EngineTypes
  <1>2. Turn("PREPARE", "setup") /\ UNCHANGED <<lk, au, bonded, astray>>
    BY DEF Prepare
  <1>3. eng.op = "PREPARE" /\ eng.sub = "setup" /\ AirKept
    BY <1>2, TurnKeeps
  <1>4. CASE eng.n < SetupSteps
    <2>1. Issue("SETUP", None) /\ eng' = [eng EXCEPT !.n = @ + 1] /\ result' = result
      BY <1>4 DEF Prepare
    <2>2. "SETUP" \in Commands /\ "SETUP" # "CREATE" /\ None \in Who
      BY DEF Commands, Who
    <2>3. QueueOK'
      BY <1>1, <2>1, <2>2, IssueQueue
    <2>4. eng' = [eng EXCEPT !.sub = "setup", !.n = @ + 1]
      BY <1>1, <1>3, <2>1 DEF OperationTypes, OperationOK
    <2>5. "setup" \in Subs
      BY DEF Subs
    <2>6. StaysAtIt
      BY <1>1, <1>3, <1>4, <2>1, <2>4, <2>5, CountStays
    <2> QED BY <1>2, <1>3, <2>3, <2>6
  <1>5. CASE ~(eng.n < SetupSteps)
    <2>1. Finish("OK") /\ Quiet
      BY <1>5 DEF Prepare
    <2> QED BY <1>1, <1>2, <1>3, <2>1, QuietQueue, FinishConcludes
  <1> QED BY <1>4, <1>5

LEMMA InquirySteps ==
  ASSUME EngineTypes, Inquiry
  PROVE  /\ AirKept /\ QueueOK' /\ UNCHANGED <<lk, au, bonded, astray>> /\ eng.op = "INQUIRY"
         /\ StaysAtIt \/ Concludes("OK") \/ Concludes("FAILED")
  <1>1. HostTypes /\ OperationTypes /\ OperationOK(eng, lk)
    BY DEF EngineTypes, OperationTypes
  <1>2. UNCHANGED <<lk, au, bonded, astray>>
    BY DEF Inquiry
  <1> DEFINE Done == AirKept /\ QueueOK' /\ eng.op = "INQUIRY" /\ (StaysAtIt \/ Concludes("OK") \/ Concludes("FAILED"))
  <1>3. /\ "inq_status" \in Subs /\ "wait" \in Subs /\ "name" \in Subs /\ "name_status" \in Subs
        /\ "name_wait" \in Subs /\ "choose" \in Subs
    BY DEF Subs
  <1>4. "INQUIRY" \in Commands /\ "NAME" \in Commands /\ None \in Who
    BY DEF Commands, Who
  <1>5. CASE Turn("INQUIRY", "issue") /\ Send("INQUIRY", None, "inq_status")
    <2>1. Issue("INQUIRY", None) /\ Go("inq_status")
      BY <1>5 DEF Send
    <2> QED BY <1>1, <1>2, <1>3, <1>4, <1>5, <2>1, TurnKeeps, IssueQueue, GoStays
  <1>6. CASE Turn("INQUIRY", "inq_status") /\ (IF StatusOk THEN Go("wait") ELSE Finish("FAILED")) /\ Quiet
    <2>1. CASE Go("wait")
      BY <1>1, <1>2, <1>3, <1>6, <2>1, TurnKeeps, QuietQueue, GoStays
    <2>2. CASE Finish("FAILED")
      BY <1>1, <1>2, <1>6, <2>2, TurnKeeps, QuietQueue, FinishConcludes
    <2> QED BY <1>6, <2>1, <2>2
  <1>7. CASE Turn("INQUIRY", "wait") /\ Go("name") /\ Quiet
    BY <1>1, <1>2, <1>3, <1>7, TurnKeeps, QuietQueue, GoStays
  <1>8. CASE Turn("INQUIRY", "name") /\ eng.n < MaxHits /\ Send("NAME", None, "name_status")
    <2>1. Issue("NAME", None) /\ Go("name_status")
      BY <1>8 DEF Send
    <2> QED BY <1>1, <1>2, <1>3, <1>4, <1>8, <2>1, TurnKeeps, IssueQueue, GoStays
  <1>9. CASE Turn("INQUIRY", "name_status") /\ (IF Reply.err THEN NextHit ELSE Go("name_wait")) /\ Quiet
    <2>1. eng.op = "INQUIRY" /\ eng.sub = "name_status" /\ AirKept
      BY <1>9, TurnKeeps
    <2>2. eng.n < MaxHits
      BY <1>1, <2>1 DEF OperationOK
    <2>3. CASE NextHit
      BY <1>1, <1>2, <1>3, <1>9, <2>1, <2>2, <2>3, QuietQueue, CountStays DEF NextHit
    <2>4. CASE Go("name_wait")
      BY <1>1, <1>2, <1>3, <1>9, <2>1, <2>2, <2>4, QuietQueue, GoStays
    <2> QED BY <1>9, <2>3, <2>4
  <1>10. CASE Turn("INQUIRY", "name_wait") /\ NextHit /\ Quiet
    <2>1. eng.op = "INQUIRY" /\ eng.sub = "name_wait" /\ AirKept
      BY <1>10, TurnKeeps
    <2>2. eng.n < MaxHits
      BY <1>1, <2>1 DEF OperationOK
    <2> QED BY <1>1, <1>2, <1>3, <1>10, <2>1, <2>2, QuietQueue, CountStays DEF NextHit
  <1>11. CASE Turn("INQUIRY", "name") /\ Go("choose") /\ Quiet
    BY <1>1, <1>2, <1>3, <1>11, TurnKeeps, QuietQueue, GoStays
  <1>12. CASE Turn("INQUIRY", "choose") /\ (Finish("OK") \/ Finish("FAILED")) /\ Quiet
    BY <1>1, <1>2, <1>12, TurnKeeps, QuietQueue, FinishConcludes
  <1> QED BY <1>5, <1>6, <1>7, <1>8, <1>9, <1>10, <1>11, <1>12 DEF Inquiry, StepExpired

LEMMA PageSteps ==
  ASSUME EngineTypes, Page
  PROVE  /\ AirKept /\ QueueOK' /\ UNCHANGED <<au, bonded, astray>> /\ eng.op = "PAGE"
         /\ lk' \in LinkStates /\ LinkKept
         /\ StaysAtIt \/ Concludes("OK") \/ Concludes("FAILED")
  <1>1. HostTypes /\ OperationTypes /\ OperationOK(eng, lk) /\ lk \in LinkStates
    BY DEF EngineTypes, OperationTypes, HostTypes
  <1>2. UNCHANGED au
    BY DEF Page
  <1>3. /\ "page_status" \in Subs /\ "wait" \in Subs /\ "evaluate" \in Subs /\ "cancelled" \in Subs
        /\ "issue" \in Subs
    BY DEF Subs
  <1>4. "CREATE" \in Commands /\ "CANCEL" \in Commands /\ "CANCEL" # "CREATE"
    BY DEF Commands
  <1>5. ASSUME eng.op = "PAGE" PROVE lk.bd \in Peers /\ lk.bd \in Who
    BY <1>1, <1>5 DEF OperationOK, Who
  <1>6. UNCHANGED lk => lk' \in LinkStates /\ LinkKept
    BY <1>1 DEF LinkKept
  <1>7. ASSUME eng.op = "PAGE", Retry, AttemptsLeft PROVE StaysAtIt
    BY <1>1, <1>3, <1>7, CountStays DEF Retry, AttemptsLeft
  <1>8. CASE Turn("PAGE", "issue") /\ Send("CREATE", lk.bd, "page_status") /\ lk' = [lk EXCEPT !.conn = "none"]
    <2>1. Issue("CREATE", lk.bd) /\ Go("page_status") /\ UNCHANGED <<bonded, astray>>
      BY <1>8 DEF Send
    <2>2. eng.op = "PAGE" /\ AirKept
      BY <1>8, TurnKeeps
    <2>3. QueueOK'
      BY <1>1, <1>4, <1>5, <2>1, <2>2, IssueQueue
    <2>4. lk' \in LinkStates /\ LinkKept
      BY <1>1, <1>8 DEF LinkStates, LinkKept
    <2>5. StaysAtIt
      BY <1>1, <1>3, <2>1, <2>2, GoStays
    <2> QED BY <1>2, <2>1, <2>2, <2>3, <2>4, <2>5
  <1>9. CASE /\ Turn("PAGE", "page_status") /\ (IF StatusOk THEN Go("wait") ELSE Finish("FAILED"))
             /\ Quiet /\ UNCHANGED <<bonded, astray, lk>>
    <2>1. eng.op = "PAGE" /\ AirKept /\ QueueOK'
      BY <1>1, <1>9, TurnKeeps, QuietQueue
    <2>2. CASE Go("wait")
      BY <1>1, <1>2, <1>3, <1>6, <1>9, <2>1, <2>2, GoStays
    <2>3. CASE Finish("FAILED")
      BY <1>2, <1>6, <1>9, <2>1, <2>3, FinishConcludes
    <2> QED BY <1>9, <2>2, <2>3
  <1>10. CASE Turn("PAGE", "wait") /\ Go("evaluate") /\ Quiet /\ UNCHANGED <<bonded, astray, lk>>
    <2>1. eng.op = "PAGE" /\ AirKept /\ QueueOK'
      BY <1>1, <1>10, TurnKeeps, QuietQueue
    <2> QED BY <1>1, <1>2, <1>3, <1>6, <1>10, <2>1, GoStays
  <1>11. CASE Turn("PAGE", "wait") /\ Issue("CANCEL", lk.bd) /\ Go("cancelled") /\ UNCHANGED <<bonded, astray, lk>>
    <2>1. eng.op = "PAGE" /\ AirKept
      BY <1>11, TurnKeeps
    <2>2. QueueOK'
      BY <1>1, <1>4, <1>5, <1>11, <2>1, IssueQueue
    <2> QED BY <1>1, <1>2, <1>3, <1>6, <1>11, <2>1, <2>2, GoStays
  <1>12. CASE /\ Turn("PAGE", "cancelled") \/ Turn("PAGE", "evaluate")
              /\ Finish("OK") \/ Finish("FAILED") \/ (Retry /\ AttemptsLeft)
              /\ Quiet /\ UNCHANGED <<bonded, astray, lk>>
    <2>1. eng.op = "PAGE" /\ AirKept /\ QueueOK'
      BY <1>1, <1>12, TurnKeeps, QuietQueue
    <2>2. CASE Finish("OK") \/ Finish("FAILED")
      BY <1>2, <1>6, <1>12, <2>1, <2>2, FinishConcludes
    <2>3. CASE Retry /\ AttemptsLeft
      BY <1>2, <1>6, <1>7, <1>12, <2>1, <2>3
    <2> QED BY <1>12, <2>2, <2>3
  <1>13. CASE /\ Turn("PAGE", "cancelled")
              /\ CASE lk.conn = "ok" -> Finish("OK")
                   [] ~AttemptsLeft -> Finish("FAILED")
                   [] OTHER -> Retry
              /\ Quiet /\ UNCHANGED <<bonded, astray, lk>>
    <2>1. Finish("OK") \/ Finish("FAILED") \/ (Retry /\ AttemptsLeft)
      BY <1>13
    <2> QED BY <1>12, <1>13, <2>1
  <1>14. CASE /\ Turn("PAGE", "evaluate")
              /\ CASE lk.conn = "ok" -> Finish("OK")
                   [] lk.conn = "timeout" /\ AttemptsLeft -> Retry
                   [] OTHER -> Finish("FAILED")
              /\ Quiet /\ UNCHANGED <<bonded, astray, lk>>
    <2>1. Finish("OK") \/ Finish("FAILED") \/ (Retry /\ AttemptsLeft)
      BY <1>14
    <2> QED BY <1>12, <1>14, <2>1
  <1> QED BY <1>8, <1>9, <1>10, <1>11, <1>13, <1>14 DEF Page, StepExpired

\* What a step of a pairing does to the security of the link and to the bonds.
SecurityMoves ==
  /\ au' \in Securities
  /\ au'.enc = au.enc \/ au'.enc # "on"
  /\ bonded' \subseteq Peers

LEMMA SecurityKept ==
  ASSUME HostTypes
  PROVE  /\ UNCHANGED <<au, bonded>> => SecurityMoves
         /\ au' = FreshAuth /\ (UNCHANGED bonded \/ bonded' = bonded \ {lk.bd}) => SecurityMoves
         /\ au' = [au EXCEPT !.enc = "none"] /\ UNCHANGED bonded => SecurityMoves
  <1>1. au \in Securities /\ bonded \subseteq Peers
    BY DEF HostTypes
  <1>2. FreshAuth \in Securities /\ FreshAuth.enc = au.enc
    BY <1>1 DEF FreshAuth, Securities
  <1>3. [au EXCEPT !.enc = "none"] \in Securities /\ [au EXCEPT !.enc = "none"].enc = "none"
    BY <1>1 DEF Securities
  <1> QED BY <1>1, <1>2, <1>3 DEF SecurityMoves

LEMMA PairSteps ==
  ASSUME EngineTypes, Pair
  PROVE  /\ AirKept /\ QueueOK' /\ UNCHANGED <<lk, astray>> /\ eng.op = "PAIR" /\ SecurityMoves
         /\ StaysAtIt \/ Concludes("FAILED") \/ (Concludes("OK") /\ au.enc = "on")
  <1>1. HostTypes /\ OperationTypes
    BY DEF EngineTypes
  <1>2. UNCHANGED <<lk, astray>>
    BY DEF Pair
  <1>3. /\ UNCHANGED <<au, bonded>> => SecurityMoves
        /\ au' = FreshAuth /\ (UNCHANGED bonded \/ bonded' = bonded \ {lk.bd}) => SecurityMoves
        /\ au' = [au EXCEPT !.enc = "none"] /\ UNCHANGED bonded => SecurityMoves
    BY <1>1, SecurityKept
  <1>4. /\ lk.handle \in Who /\ None \in Who /\ "AUTH" \in Commands /\ "ENC" \in Commands
        /\ "SETUP" \in Commands /\ "AUTH" # "CREATE" /\ "ENC" # "CREATE" /\ "SETUP" # "CREATE"
    BY <1>1 DEF HostTypes, LinkStates, Who, Commands
  <1>5. ASSUME NEW sub, Turn("PAIR", sub) PROVE eng.op = "PAIR" /\ AirKept
    BY <1>5, TurnKeeps
  <1>6. ASSUME NEW sub, NEW next \in Subs, Turn("PAIR", sub), Go(next) PROVE StaysAtIt
    <2>1. eng.op # "INQUIRY"
      BY <1>5, <1>6
    <2> QED BY <1>1, <1>6, <2>1, GoStays
  <1>7. ASSUME NEW sub, NEW next \in Subs, PairStatus(sub, next, "FAILED")
        PROVE  AirKept /\ QueueOK' /\ eng.op = "PAIR" /\ SecurityMoves /\ (StaysAtIt \/ Concludes("FAILED"))
    <2>1. Turn("PAIR", sub) /\ Quiet /\ UNCHANGED <<au, bonded>> /\ (Go(next) \/ Finish("FAILED"))
      BY <1>7 DEF PairStatus
    <2>2. StaysAtIt \/ Concludes("FAILED")
      BY <1>6, <2>1, FinishConcludes
    <2> QED BY <1>1, <1>3, <1>5, <2>1, <2>2, QuietQueue
  <1>8. ASSUME NEW sub, NEW next \in Subs, NEW c \in Commands, c # "CREATE", NEW p \in Who,
               Turn("PAIR", sub), Send(c, p, next)
        PROVE  AirKept /\ QueueOK' /\ eng.op = "PAIR" /\ StaysAtIt /\ UNCHANGED bonded
    <2>1. Issue(c, p) /\ Go(next) /\ UNCHANGED bonded
      BY <1>8 DEF Send
    <2> QED BY <1>1, <1>5, <1>6, <1>8, <2>1, IssueQueue
  <1>9. ASSUME NEW sub, NEW next \in Subs, Turn("PAIR", sub), Go(next), Quiet
        PROVE  AirKept /\ QueueOK' /\ eng.op = "PAIR" /\ StaysAtIt
    BY <1>1, <1>5, <1>6, <1>9, QuietQueue
  <1>10. ASSUME NEW sub, NEW r, Turn("PAIR", sub), Finish(r), Quiet
         PROVE  AirKept /\ QueueOK' /\ eng.op = "PAIR" /\ Concludes(r)
    BY <1>1, <1>5, <1>10, QuietQueue, FinishConcludes
  <1>11. /\ "peer" \in Subs /\ "auth_issue" \in Subs /\ "auth_status" \in Subs /\ "auth_wait" \in Subs
         /\ "fresh_issue" \in Subs /\ "fresh_status" \in Subs /\ "fresh_wait" \in Subs /\ "post" \in Subs
         /\ "ssp_issue" \in Subs /\ "pin_issue" \in Subs /\ "pin_status" \in Subs /\ "pin_wait" \in Subs
         /\ "enc_issue" \in Subs /\ "enc_status" \in Subs /\ "enc_wait" \in Subs
    BY DEF Subs
  <1>12. CASE /\ Turn("PAIR", "enter") /\ Quiet /\ UNCHANGED bonded
              /\ IF eng.inbound THEN Go("peer") /\ UNCHANGED au ELSE Go("auth_issue") /\ au' = FreshAuth
    <2>1. CASE Go("peer") /\ UNCHANGED au
      BY <1>2, <1>3, <1>9, <1>11, <1>12, <2>1
    <2>2. CASE Go("auth_issue") /\ au' = FreshAuth
      BY <1>2, <1>3, <1>9, <1>11, <1>12, <2>2
    <2> QED BY <1>12, <2>1, <2>2
  <1>13. CASE /\ Turn("PAIR", "peer") /\ Quiet /\ UNCHANGED bonded
              /\ IF Secured THEN Finish("OK") /\ UNCHANGED au ELSE Go("auth_issue") /\ au' = FreshAuth
    <2>1. CASE Secured /\ Finish("OK") /\ UNCHANGED au
      BY <1>2, <1>3, <1>10, <1>13, <2>1 DEF Secured
    <2>2. CASE Go("auth_issue") /\ au' = FreshAuth
      BY <1>2, <1>3, <1>9, <1>11, <1>13, <2>2
    <2> QED BY <1>13, <2>1, <2>2
  <1>14. CASE \/ Turn("PAIR", "auth_issue") /\ Send("AUTH", lk.handle, "auth_status") /\ UNCHANGED au
              \/ Turn("PAIR", "fresh_issue") /\ Send("AUTH", lk.handle, "fresh_status") /\ UNCHANGED au
              \/ Turn("PAIR", "ssp_issue") /\ Send("SETUP", None, "pin_issue") /\ UNCHANGED au
    BY <1>2, <1>3, <1>4, <1>8, <1>11, <1>14
  <1>15. CASE \/ PairStatus("auth_status", "auth_wait", "FAILED")
              \/ PairStatus("fresh_status", "fresh_wait", "FAILED")
              \/ PairStatus("pin_status", "pin_wait", "FAILED")
              \/ PairStatus("enc_status", "enc_wait", "FAILED")
    BY <1>2, <1>7, <1>11, <1>15
  <1>16. CASE PairOutcome
    <2>1. /\ Turn("PAIR", "auth_wait") /\ Quiet
          /\ \/ Go("post") /\ UNCHANGED <<au, bonded>>
             \/ Go("fresh_issue") /\ bonded' = bonded \ {lk.bd} /\ au' = FreshAuth
             \/ Finish("FAILED") /\ UNCHANGED <<au, bonded>>
      BY <1>16 DEF PairOutcome
    <2>2. CASE Go("post") /\ UNCHANGED <<au, bonded>>
      BY <1>2, <1>3, <1>9, <1>11, <2>1, <2>2
    <2>3. CASE Go("fresh_issue") /\ bonded' = bonded \ {lk.bd} /\ au' = FreshAuth
      BY <1>2, <1>3, <1>9, <1>11, <2>1, <2>3
    <2>4. CASE Finish("FAILED") /\ UNCHANGED <<au, bonded>>
      BY <1>2, <1>3, <1>10, <2>1, <2>4
    <2> QED BY <2>1, <2>2, <2>3, <2>4
  <1>17. CASE Turn("PAIR", "fresh_wait") /\ Go("post") /\ Quiet /\ UNCHANGED <<au, bonded>>
    BY <1>2, <1>3, <1>9, <1>11, <1>17
  <1>18. CASE /\ Turn("PAIR", "post") /\ Quiet /\ UNCHANGED <<au, bonded>>
              /\ Go(IF au.auth = "ok" THEN "enc_issue" ELSE "ssp_issue")
    <2>1. CASE Go("enc_issue")
      BY <1>2, <1>3, <1>9, <1>11, <1>18, <2>1
    <2>2. CASE Go("ssp_issue")
      BY <1>2, <1>3, <1>9, <1>11, <1>18, <2>2
    <2>3. Go("enc_issue") \/ Go("ssp_issue")
      BY <1>18 DEF Go
    <2> QED BY <2>1, <2>2, <2>3
  <1>19. CASE Turn("PAIR", "pin_issue") /\ Send("AUTH", lk.handle, "pin_status") /\ au' = FreshAuth
    BY <1>2, <1>3, <1>4, <1>8, <1>11, <1>19
  <1>20. CASE /\ Turn("PAIR", "pin_wait") /\ Quiet /\ UNCHANGED <<au, bonded>>
              /\ IF au.auth = "ok" THEN Go("enc_issue") ELSE Finish("FAILED")
    <2>1. CASE Go("enc_issue")
      BY <1>2, <1>3, <1>9, <1>11, <1>20, <2>1
    <2>2. CASE Finish("FAILED")
      BY <1>2, <1>3, <1>10, <1>20, <2>2
    <2> QED BY <1>20, <2>1, <2>2
  <1>21. CASE Turn("PAIR", "enc_issue") /\ Send("ENC", lk.handle, "enc_status") /\ au' = [au EXCEPT !.enc = "none"]
    BY <1>2, <1>3, <1>4, <1>8, <1>11, <1>21
  <1>22. CASE /\ Turn("PAIR", "enc_wait") /\ Quiet /\ UNCHANGED <<au, bonded>>
              /\ Finish(IF Secured THEN "OK" ELSE "FAILED")
    <2>1. CASE Secured
      <3>1. Finish("OK")
        BY <1>22, <2>1
      <3> QED BY <1>2, <1>3, <1>10, <1>22, <2>1, <3>1 DEF Secured
    <2>2. CASE ~Secured
      <3>1. Finish("FAILED")
        BY <1>22, <2>2
      <3> QED BY <1>2, <1>3, <1>10, <1>22, <3>1
    <2> QED BY <2>1, <2>2
  <1> QED BY <1>12, <1>13, <1>14, <1>15, <1>16, <1>17, <1>18, <1>19, <1>20, <1>21, <1>22 DEF Pair

LEMMA DisconnectSteps ==
  ASSUME EngineTypes, OpDisconnect
  PROVE  /\ AirKept /\ QueueOK' /\ UNCHANGED bonded /\ eng.op = "DISCONNECT" /\ SecurityMoves
         /\ lk' \in LinkStates /\ lk'.bd = lk.bd /\ lk'.st = lk.st /\ lk'.inboundUp = lk.inboundUp
         /\ \/ lk'.handle = lk.handle /\ UNCHANGED <<astray, au>> /\ (StaysAtIt \/ (Concludes("OK") /\ lk.handle = None))
            \/ /\ lk'.handle = None /\ au'.enc # "on" /\ astray' = astray \cup (air.up \cap {lk.bd})
               /\ au' = NotEncrypted /\ (Concludes("OK") \/ Concludes("FAILED"))
  <1>1. HostTypes /\ OperationTypes /\ lk \in LinkStates /\ au \in Securities
    BY DEF EngineTypes, HostTypes
  <1>2. UNCHANGED <<au, bonded>> => SecurityMoves
    BY <1>1, SecurityKept
  <1>3. lk.handle \in Who /\ "DISC" \in Commands /\ "DISC" # "CREATE" /\ "disc_status" \in Subs /\ "wait" \in Subs
    BY <1>1 DEF LinkStates, Commands, Subs
  <1>4. ASSUME NEW sub, Turn("DISCONNECT", sub) PROVE eng.op = "DISCONNECT" /\ AirKept
    BY <1>4, TurnKeeps
  <1>5. ASSUME NEW sub, NEW next \in Subs, Turn("DISCONNECT", sub), Go(next) PROVE StaysAtIt
    <2>1. eng.op # "INQUIRY"
      BY <1>4, <1>5
    <2> QED BY <1>1, <1>5, <2>1, GoStays
  <1>6. UNCHANGED lk => lk' \in LinkStates /\ lk'.bd = lk.bd /\ lk'.st = lk.st /\ lk'.inboundUp = lk.inboundUp
    BY <1>1
  <1>7. ASSUME LetGo
        PROVE  /\ lk' \in LinkStates /\ lk'.bd = lk.bd /\ lk'.st = lk.st /\ lk'.inboundUp = lk.inboundUp
               /\ lk'.handle = None /\ au'.enc # "on" /\ astray' = astray \cup (air.up \cap {lk.bd})
               /\ au' = NotEncrypted /\ (UNCHANGED bonded => SecurityMoves)
    <2>1. /\ lk' = [lk EXCEPT !.handle = None] /\ au' = NotEncrypted
          /\ astray' = astray \cup (air.up \cap {lk.bd})
      BY <1>7 DEF LetGo
    <2>2. /\ lk' \in LinkStates /\ lk'.bd = lk.bd /\ lk'.st = lk.st /\ lk'.inboundUp = lk.inboundUp
          /\ lk'.handle = None
      BY <1>1, <2>1 DEF LinkStates, Who
    <2>3. au' \in Securities /\ au'.enc # "on"
      BY <1>1, <2>1 DEF NotEncrypted, Securities
    <2>4. UNCHANGED bonded => SecurityMoves
      BY <1>1, <2>3 DEF SecurityMoves, HostTypes
    <2> QED BY <2>1, <2>2, <2>3, <2>4
  <1>8. CASE /\ Turn("DISCONNECT", "issue") /\ lk.handle = None
             /\ Finish("OK") /\ Quiet /\ UNCHANGED <<lk, au, astray, bonded>>
    BY <1>1, <1>2, <1>4, <1>6, <1>8, QuietQueue, FinishConcludes
  <1>9. CASE /\ Turn("DISCONNECT", "issue") /\ Send("DISC", lk.handle, "disc_status")
             /\ lk' = [lk EXCEPT !.discDone = FALSE] /\ UNCHANGED au
    <2>1. Issue("DISC", lk.handle) /\ Go("disc_status") /\ UNCHANGED <<bonded, astray>>
      BY <1>9 DEF Send
    <2>2. QueueOK'
      BY <1>1, <1>3, <2>1, IssueQueue
    <2>3. /\ lk' \in LinkStates /\ lk'.bd = lk.bd /\ lk'.st = lk.st /\ lk'.inboundUp = lk.inboundUp
          /\ lk'.handle = lk.handle
      BY <1>1, <1>9 DEF LinkStates
    <2> QED BY <1>2, <1>3, <1>4, <1>5, <1>9, <2>1, <2>2, <2>3
  <1>10. CASE /\ Turn("DISCONNECT", "disc_status") /\ Go("wait") /\ Quiet
              /\ UNCHANGED <<lk, au, astray, bonded>>
    BY <1>1, <1>2, <1>3, <1>4, <1>5, <1>6, <1>10, QuietQueue
  <1>11. CASE /\ Turn("DISCONNECT", "disc_status") \/ Turn("DISCONNECT", "wait")
              /\ LetGo /\ Quiet /\ UNCHANGED bonded
              /\ Finish("OK") \/ Finish("FAILED")
    <2>1. eng.op = "DISCONNECT" /\ AirKept /\ QueueOK'
      BY <1>1, <1>4, <1>11, QuietQueue
    <2>2. Concludes("OK") \/ Concludes("FAILED")
      BY <1>11, FinishConcludes
    <2> QED BY <1>7, <1>11, <2>1, <2>2
  <1>12. CASE /\ Turn("DISCONNECT", "wait") /\ LetGo /\ Quiet /\ UNCHANGED bonded
              /\ Finish(IF lk.discDone THEN "OK" ELSE "FAILED")
    <2>1. Finish("OK") \/ Finish("FAILED")
      BY <1>12 DEF Finish
    <2> QED BY <1>11, <1>12, <2>1
  <1> QED BY <1>8, <1>9, <1>10, <1>11, <1>12 DEF OpDisconnect, StepExpired

\* A step of the operation that runs: it goes on, or ends with its result.
OpResult ==
  \/ StaysAtIt /\ lk'.handle = lk.handle
  \/ \E r \in {"OK", "FAILED"} :
       /\ Concludes(r) /\ eng.op # "NONE" /\ (eng.op = "PREPARE" => r = "OK")
       /\ eng.op = "PAIR" /\ r = "OK" => au.enc = "on"
       /\ lk'.handle = IF eng.op = "DISCONNECT" THEN None ELSE lk.handle

LEMMA OpStepMoves ==
  ASSUME EngineTypes, OpStep
  PROVE  /\ AirKept /\ QueueOK' /\ SecurityMoves /\ OpResult
         /\ lk' \in LinkStates /\ lk'.bd = lk.bd /\ lk'.st = lk.st /\ lk'.inboundUp = lk.inboundUp
         /\ \/ lk'.handle = lk.handle /\ astray' = astray
            \/ lk'.handle = None /\ au'.enc # "on" /\ astray' = astray \cup (air.up \cap {lk.bd})
  <1>1. HostTypes /\ lk \in LinkStates
    BY DEF EngineTypes, HostTypes
  <1>2. UNCHANGED <<au, bonded>> => SecurityMoves
    BY <1>1, SecurityKept
  <1>3. UNCHANGED lk => lk' \in LinkStates /\ LinkKept
    BY <1>1 DEF LinkKept
  <1>4. CASE Prepare
    BY <1>2, <1>3, <1>4, PrepareSteps DEF OpResult, LinkKept
  <1>5. CASE Inquiry
    BY <1>2, <1>3, <1>5, InquirySteps DEF OpResult, LinkKept
  <1>6. CASE Page
    BY <1>2, <1>6, PageSteps DEF OpResult, LinkKept
  <1>7. CASE Pair
    BY <1>3, <1>7, PairSteps DEF OpResult, LinkKept
  <1>8. CASE OpDisconnect
    BY <1>8, DisconnectSteps DEF OpResult
  <1> QED BY <1>4, <1>5, <1>6, <1>7, <1>8 DEF OpStep

LEMMA OpStepAgrees ==
  ASSUME Agreement, OpStep
  PROVE  Agreement'
  <1>1. EngineTypes /\ HostTypes /\ OperationTypes /\ AirTypes /\ HostAgrees /\ None \notin Peers
    BY EngineConstants DEF Agreement, EngineTypes
  <1>2. /\ AirKept /\ QueueOK' /\ SecurityMoves /\ OpResult
        /\ lk' \in LinkStates /\ lk'.bd = lk.bd /\ lk'.st = lk.st /\ lk'.inboundUp = lk.inboundUp
        /\ \/ lk'.handle = lk.handle /\ astray' = astray
           \/ lk'.handle = None /\ au'.enc # "on" /\ astray' = astray \cup (air.up \cap {lk.bd})
    BY <1>1, OpStepMoves
  <1>3. UNCHANGED <<evq, air, forgot, fuel, attempt>>
    BY <1>2 DEF AirKept
  <1>4. pageScan' \in [want : BOOLEAN, have : BOOLEAN]
    <2>1. pageScan' = [pageScan EXCEPT !.want = Listening(lk', bonded')] /\ pageScan \in [want : BOOLEAN, have : BOOLEAN]
      BY <1>1 DEF OpStep, HostTypes
    <2>2. Listening(lk', bonded') \in BOOLEAN
      BY EngineConstants DEF Listening
    <2> QED BY <2>1, <2>2
  <1>5. astray' \subseteq Peers
    BY <1>1, <1>2 DEF HostTypes, AirTypes, AirStates
  <1>6. HostTypes'
    BY <1>1, <1>2, <1>3, <1>4, <1>5 DEF HostTypes, QueueOK, SecurityMoves
  <1>7. OperationOK(eng', lk) /\ result' \in {"OK", "FAILED"}
    BY <1>1, <1>2 DEF OpResult, StaysAtIt, Concludes, OperationTypes
  <1>8. OperationTypes'
    BY <1>1, <1>2, <1>3, <1>7 DEF OperationTypes, OperationOK
  <1>9. LinkUp' = LinkUp
    BY <1>2 DEF LinkUp, IsUp
  <1>10. au'.enc = au.enc \/ au'.enc # "on"
    BY <1>2 DEF SecurityMoves
  <1>11. lk.handle \in air.up => lk.handle \in astray \cup (air.up \cap {lk.bd})
    BY <1>1 DEF HostAgrees, AirTypes, AirStates
  <1> QED BY <1>2, <1>3, <1>6, <1>8, <1>9, <1>10, <1>11, AgreementOfHost

-----------------------------------------------------------------------------
(* The engine agrees with the air, always.                                 *)

LEMMA AgreementStarts ==
  ASSUME EngineInit
  PROVE  Agreement
  <1>1. /\ attempt = "NONE" /\ eng = [op |-> "NONE", sub |-> "", n |-> 0, inbound |-> FALSE] /\ result = "OK"
        /\ slot = [busy |-> FALSE, of |-> "", err |-> FALSE]
        /\ lk = [bd |-> None, handle |-> None, st |-> "NONE", incoming |-> FALSE, role |-> "master",
                 inboundUp |-> FALSE, supDone |-> FALSE, conn |-> "none", discDone |-> FALSE]
        /\ au = [auth |-> "none", offered |-> FALSE, enc |-> "none"]
        /\ pageScan = [want |-> FALSE, have |-> FALSE]
        /\ bonded = Stored /\ cmds = <<>> /\ evq = <<>>
        /\ air = [up |-> {}, page |-> {}, asked |-> {}, accepted |-> {}, slave |-> {}, quiet |-> {},
                  enc |-> {}, auth |-> None, scan |-> FALSE]
        /\ forgot \in SUBSET bonded /\ astray = {} /\ fuel = [starts |-> MaxStarts, moves |-> MaxMoves]
    BY DEF EngineInit, Idle
  <1>2. /\ Stored \subseteq Peers /\ Depth \in Nat /\ SetupSteps \in Nat /\ MaxHits \in Nat /\ PageAttempts \in Nat
        /\ MaxStarts \in Nat /\ MaxMoves \in Nat
    BY EngineConstants
  <1>3. cmds \in Seq(EngineCommands) /\ Len(cmds) = 0 /\ evq \in Seq(Unread) /\ \A i \in DOMAIN evq : FALSE
    <2>1. /\ <<>> \in Seq(EngineCommands) /\ Len(<<>>) = 0 /\ <<>> \in Seq(Unread)
          /\ \A i \in DOMAIN <<>> : FALSE
      OBVIOUS
    <2>2. cmds = <<>> /\ evq = <<>>
      BY <1>1
    <2> QED BY <2>1, <2>2
  <1>4. lk \in LinkStates /\ au \in Securities
    BY <1>1 DEF LinkStates, Securities, Who
  <1>5. HostTypes
    <2>1. slot \in [busy : BOOLEAN, of : Commands \cup {""}, err : BOOLEAN] /\ pageScan \in [want : BOOLEAN, have : BOOLEAN]
      BY <1>1
    <2>2. bonded \subseteq Peers /\ forgot \subseteq Peers /\ astray \subseteq Peers
      BY <1>1, <1>2
    <2>3. cmds \in Seq(EngineCommands) /\ Len(cmds) <= Depth
      BY <1>2, <1>3
    <2> QED BY <1>4, <2>1, <2>2, <2>3 DEF HostTypes
  <1>6. "" \in Subs
    BY DEF Subs
  <1>7. OperationTypes
    <2>1. 0 \in 0..(SetupSteps + MaxHits + PageAttempts)
      BY <1>2
    <2>2. /\ eng \in [op : {"NONE", "PREPARE", "INQUIRY", "PAGE", "PAIR", "DISCONNECT"}, sub : Subs,
                     n : 0..(SetupSteps + MaxHits + PageAttempts), inbound : BOOLEAN]
          /\ eng.op = "NONE"
      BY <1>1, <1>6, <2>1
    <2>3. OperationOK(eng, lk)
      BY <2>2 DEF OperationOK
    <2>4. MaxStarts \in 0..MaxStarts /\ MaxMoves \in 0..MaxMoves
      BY <1>2
    <2>5. fuel \in [starts : 0..MaxStarts, moves : 0..MaxMoves]
      BY <1>1, <2>4
    <2> QED BY <1>1, <2>3, <2>5 DEF OperationTypes
  <1>8. AirTypes
    BY <1>1, <1>3 DEF AirTypes, AirStates, Who
  <1>9. AirSound(air, evq)
    BY <1>1, <1>3 DEF AirSound
  <1>10. HostAgrees /\ EncryptionAgrees
    BY <1>1 DEF HostAgrees, EncryptionAgrees
  <1> QED BY <1>5, <1>7, <1>8, <1>9, <1>10 DEF Agreement, EngineTypes

LEMMA AgreementSteps ==
  ASSUME Agreement, [EngineNext]_engineVars
  PROVE  Agreement'
  <1>1. EngineTypes /\ AirSound(air, evq)
    BY DEF Agreement
  <1>2. CASE EngineCalls
    BY <1>2, CallsAgree
  <1>3. CASE ReconcileScan
    BY <1>3, ReconcileScanAgrees
  <1>4. CASE OpStep
    BY <1>4, OpStepAgrees
  <1>5. CASE OnEvent
    BY <1>1, <1>5, OnEventMoves, AgreementWithoutLink
  <1>6. CASE Execute
    BY <1>1, <1>6, ExecuteMoves, AgreementWithoutLink
  <1>7. CASE Air
    <2>1. NoLinkMade \/ \E q \in Peers : LinkMade(q)
      BY <1>1, <1>7, AirMoves
    <2> QED BY <2>1, AgreementWithoutLink, AgreementWithLink
  <1>8. CASE UNCHANGED engineVars
    <2>1. UNCHANGED <<eng, result, slot, lk, au, pageScan, bonded, cmds, evq, air, forgot, fuel, astray, attempt>>
      BY <1>8 DEF engineVars, hostVars, airVars
    <2>2. EngineTypes'
      <3>1. HostTypes'
        BY <1>1, <2>1 DEF EngineTypes, HostTypes
      <3>2. OperationOK(eng, lk)'
        BY <1>1, <2>1 DEF EngineTypes, OperationTypes, OperationOK
      <3>3. OperationTypes' /\ AirTypes'
        BY <1>1, <2>1, <3>2 DEF EngineTypes, OperationTypes, AirTypes
      <3> QED BY <3>1, <3>3 DEF EngineTypes
    <2>3. AirSound(air, evq)'
      BY <1>1, <2>1 DEF AirSound
    <2>4. HostAgrees' /\ EncryptionAgrees'
      BY <2>1 DEF Agreement, HostAgrees, EncryptionAgrees, LinkUp, IsUp
    <2> QED BY <2>2, <2>3, <2>4 DEF Agreement
  <1> QED BY <1>2, <1>3, <1>4, <1>5, <1>6, <1>7, <1>8 DEF EngineNext

LEMMA AgreementGives == Agreement => LinkAgrees
  <1> SUFFICES ASSUME Agreement PROVE LinkAgrees
    OBVIOUS
  <1>1. EngineTypes /\ HostAgrees /\ None \notin Peers /\ air.up \subseteq Peers
    BY EngineConstants DEF Agreement, EngineTypes, AirTypes, AirStates
  <1>2. EngineTypeOK
    BY <1>1, EngineTypesGive
  <1>3. HandleIsTheLink
    BY <1>1 DEF HandleIsTheLink, HostAgrees, Told
  <1>4. LinkInView
    BY <1>1 DEF LinkInView, HostAgrees
  <1> QED BY <1>2, <1>3, <1>4 DEF LinkAgrees

\* What the engine of BtLink.cpp believes of its link, its handle and its encryption is always
\* what the air has, or what an event not read yet will tell it: the inductive invariant.
THEOREM EngineAgreement == EngineSpec => []Agreement
  <1>1. EngineInit => Agreement
    BY AgreementStarts
  <1>2. Agreement /\ [EngineNext]_engineVars => Agreement'
    BY AgreementSteps
  <1> QED BY <1>1, <1>2, PTL DEF EngineSpec

\* The handle the host holds is of the link it deals with, and that link is up or its
\* Disconnection_Complete is on the way; a link to the peer the engine deals with is known to the
\* host once its events are read (BtLink.cpp:598-610), for any number of peers and any queue.
THEOREM EngineNeverParts == EngineSpec => []LinkAgrees
  <1>1. Agreement => LinkAgrees
    BY AgreementGives
  <1> QED BY <1>1, EngineAgreement, PTL

-----------------------------------------------------------------------------
(* The engine does what LinkOps promises.                                  *)

LinkView(o, r, s, b, h, i) ==
  [op |-> o, result |-> r, st |-> s, bd |-> b, handle |-> h, inboundUp |-> i]
Seen == LinkView(eng.op, result, lk.st, lk.bd, lk.handle, lk.inboundUp)
Allowed == Abstract!LinkNext \/ UNCHANGED Seen

\* What LinkOps makes of a view, field by field.
Downed(v) == [v EXCEPT !.st = "LOST", !.handle = None]
Raised(v, b, j) == [v EXCEPT !.st = "UP", !.handle = b, !.inboundUp = j]
Closed(v, q, k) == [v EXCEPT !.op = "NONE", !.result = q, !.handle = k]

LEMMA LostView ==
  ASSUME NEW o, NEW r, NEW s, NEW b, NEW h, NEW i
  PROVE  Downed(LinkView(o, r, s, b, h, i)) = LinkView(o, r, "LOST", b, None, i)
  <1> DEFINE x == LinkView(o, r, s, b, h, i)
             y == [x EXCEPT !.st = "LOST"]
  <1>1. y = LinkView(o, r, "LOST", b, h, i)
    BY DEF LinkView
  <1>2. Downed(x) = [y EXCEPT !.handle = None]
    BY DEF Downed
  <1> HIDE DEF y
  <1>3. [y EXCEPT !.handle = None] = LinkView(o, r, "LOST", b, None, i)
    BY <1>1 DEF LinkView
  <1> QED BY <1>2, <1>3

LEMMA UpView ==
  ASSUME NEW o, NEW r, NEW s, NEW b, NEW h, NEW i, NEW j
  PROVE  Raised(LinkView(o, r, s, b, h, i), b, j) = LinkView(o, r, "UP", b, b, j)
  <1> DEFINE x == LinkView(o, r, s, b, h, i)
             y == [x EXCEPT !.st = "UP"]
             z == [y EXCEPT !.handle = b]
  <1>1. y = LinkView(o, r, "UP", b, h, i)
    BY DEF LinkView
  <1>2. Raised(x, b, j) = [z EXCEPT !.inboundUp = j]
    BY DEF Raised
  <1> HIDE DEF y
  <1>3. z = LinkView(o, r, "UP", b, b, i)
    BY <1>1 DEF LinkView
  <1> HIDE DEF z
  <1>4. [z EXCEPT !.inboundUp = j] = LinkView(o, r, "UP", b, b, j)
    BY <1>3 DEF LinkView
  <1> QED BY <1>2, <1>4

LEMMA EndedView ==
  ASSUME NEW o, NEW r, NEW s, NEW b, NEW h, NEW i, NEW q, NEW k
  PROVE  Closed(LinkView(o, r, s, b, h, i), q, k) = LinkView("NONE", q, s, b, k, i)
  <1> DEFINE x == LinkView(o, r, s, b, h, i)
             y == [x EXCEPT !.op = "NONE"]
             z == [y EXCEPT !.result = q]
  <1>1. y = LinkView("NONE", r, s, b, h, i)
    BY DEF LinkView
  <1>2. Closed(x, q, k) = [z EXCEPT !.handle = k]
    BY DEF Closed
  <1> HIDE DEF y
  <1>3. z = LinkView("NONE", q, s, b, h, i)
    BY <1>1 DEF LinkView
  <1> HIDE DEF z
  <1>4. [z EXCEPT !.handle = k] = LinkView("NONE", q, s, b, k, i)
    BY <1>3 DEF LinkView
  <1> QED BY <1>2, <1>4

LEMMA HandlingAllowed ==
  ASSUME EngineTypes, NEW x \in Events, Handle(x),
         Arrival(x) /\ Ours(x.p) => lk.handle = None
  PROVE  Allowed
  <1>1. HostTypes /\ None \notin Peers
    BY EngineConstants DEF EngineTypes
  <1>2. UNCHANGED <<eng, result>>
    BY DEF Handle
  <1>3. x.e # "REPLY" => x.p \in Peers
    BY DEF Events
  <1>4. CASE NotForUs(x)
    BY <1>2, <1>4 DEF NotForUs, LinkKept, Allowed, Seen, LinkView
  <1>5. CASE OurLinkComes(x)
    <2>1. /\ lk.handle = None /\ lk.bd = x.p /\ x.p \in Peers /\ lk'.handle = lk.bd /\ lk'.bd = lk.bd
          /\ lk'.st = "UP" /\ lk'.inboundUp = (lk.inboundUp \/ eng.op # "PAGE")
      BY <1>3, <1>5 DEF OurLinkComes, Arrival, Ours, Paging
    <2>2. LinkView(eng'.op, result', lk'.st, lk'.bd, lk'.handle, lk'.inboundUp)
            = LinkView(eng.op, result, "UP", lk.bd, lk.bd, lk'.inboundUp)
      BY <1>2, <2>1
    <2>3. Raised(LinkView(eng.op, result, lk.st, lk.bd, lk.handle, lk.inboundUp), lk.bd, lk'.inboundUp)
            = LinkView(eng.op, result, "UP", lk.bd, lk.bd, lk'.inboundUp)
      BY UpView
    <2>4. Abstract!ComesUp
      BY <1>1, <2>1, <2>2, <2>3 DEF Abstract!ComesUp, LinkView, Raised
    <2> QED BY <2>4 DEF Allowed, Abstract!LinkNext
  <1>6. CASE CallTaken(x)
    <2>1. /\ x.p \in Peers /\ ~LinkUp /\ eng.op # "PAGE" /\ lk'.bd = x.p /\ lk'.handle = lk.handle
          /\ lk'.st = lk.st /\ lk'.inboundUp = lk.inboundUp
      BY <1>3, <1>6 DEF CallTaken, Refused, Paging
    <2>2. Abstract!CallAccepted(x.p)
      BY <1>2, <2>1 DEF Abstract!CallAccepted, Abstract!IsUp, LinkUp, IsUp
    <2> QED BY <2>1, <2>2 DEF Allowed, Abstract!LinkNext
  <1>7. CASE OurLinkEnds(x)
    <2>1. /\ lk.handle # None /\ lk'.handle = None /\ lk'.bd = lk.bd /\ lk'.st = "LOST"
          /\ lk'.inboundUp = lk.inboundUp
      BY <1>1, <1>3, <1>7 DEF OurLinkEnds
    <2>2. LinkView(eng'.op, result', lk'.st, lk'.bd, lk'.handle, lk'.inboundUp)
            = LinkView(eng.op, result, "LOST", lk.bd, None, lk.inboundUp)
      BY <1>2, <2>1
    <2>3. Downed(LinkView(eng.op, result, lk.st, lk.bd, lk.handle, lk.inboundUp))
            = LinkView(eng.op, result, "LOST", lk.bd, None, lk.inboundUp)
      BY LostView
    <2>4. Abstract!Drops
      BY <2>1, <2>2, <2>3 DEF Abstract!Drops, LinkView, Downed
    <2> QED BY <2>4 DEF Allowed, Abstract!LinkNext
  <1>8. CASE EncryptionNoted(x)
    <2>1. /\ lk'.handle = lk.handle /\ lk'.bd = lk.bd /\ lk'.inboundUp = lk.inboundUp
          /\ lk'.st = (IF x.v = "on" THEN "SECURE" ELSE lk.st)
      BY <1>8 DEF EncryptionNoted
    <2>2. CASE x.v = "on"
      <3>1. Abstract!Secures
        BY <1>2, <2>1, <2>2 DEF Abstract!Secures
      <3> QED BY <3>1 DEF Allowed, Abstract!LinkNext
    <2>3. CASE x.v # "on"
      BY <1>2, <2>1, <2>3 DEF Allowed, Seen, LinkView
    <2> QED BY <2>2, <2>3
  <1> QED BY <1>1, <1>4, <1>5, <1>6, <1>7, <1>8, LinkEffects

LEMMA EventsAllowed ==
  ASSUME Agreement, NoLinkMade \/ \E q \in Peers : LinkMade(q)
  PROVE  Allowed
  <1>1. EngineTypes /\ HostAgrees
    BY DEF Agreement
  <1>2. CASE NoLinkMade
    <2>1. PICK x \in Events, s \in Seq(Unread) : Reads(x, s) /\ (x.e = "CONN" => x.v # "ok")
      BY <1>2 DEF NoLinkMade
    <2>2. Handle(x) /\ ~Arrival(x)
      BY <2>1 DEF Reads, Arrival
    <2> QED BY <1>1, <2>2, HandlingAllowed
  <1>3. ASSUME NEW q \in Peers, LinkMade(q) PROVE Allowed
    <2> DEFINE x == Ev("CONN", q, "ok")
    <2>1. Handle(x) /\ q \notin air.up /\ evq = <<>>
      BY <1>3 DEF LinkMade
    <2>2. x \in Events /\ x.p = q
      BY DEF Ev, Events, Who, Values
    <2> HIDE DEF x
    <2>3. Ours(x.p) => lk.handle = None
      BY <1>1, <2>1, <2>2 DEF Ours, HostAgrees
    <2> QED BY <1>1, <2>1, <2>2, <2>3, HandlingAllowed
  <1> QED BY <1>2, <1>3

LEMMA OpStepAllowed ==
  ASSUME Agreement, OpStep
  PROVE  Allowed
  <1>1. EngineTypes /\ (au.enc = "on" => LinkUp)
    BY DEF Agreement, HostAgrees
  <1>2. /\ OpResult /\ lk'.bd = lk.bd /\ lk'.st = lk.st /\ lk'.inboundUp = lk.inboundUp
    BY <1>1, OpStepMoves
  <1>3. CASE StaysAtIt /\ lk'.handle = lk.handle
    BY <1>2, <1>3 DEF StaysAtIt, Allowed, Seen, LinkView
  <1>4. ASSUME NEW r \in {"OK", "FAILED"},
               Concludes(r) /\ eng.op # "NONE" /\ (eng.op = "PREPARE" => r = "OK"),
               eng.op = "PAIR" /\ r = "OK" => au.enc = "on",
               lk'.handle = IF eng.op = "DISCONNECT" THEN None ELSE lk.handle
        PROVE  Allowed
    <2>1. eng'.op = "NONE" /\ result' = r
      BY <1>4 DEF Concludes
    <2>2. eng.op = "PAIR" /\ r = "OK" => lk.st \in {"UP", "SECURE"}
      BY <1>1, <1>4 DEF LinkUp, IsUp
    <2> DEFINE k == IF eng.op = "DISCONNECT" THEN None ELSE lk.handle
    <2>3. LinkView(eng'.op, result', lk'.st, lk'.bd, lk'.handle, lk'.inboundUp)
            = LinkView("NONE", r, lk.st, lk.bd, k, lk.inboundUp)
      BY <1>2, <1>4, <2>1
    <2>4. Closed(LinkView(eng.op, result, lk.st, lk.bd, lk.handle, lk.inboundUp), r, k)
            = LinkView("NONE", r, lk.st, lk.bd, k, lk.inboundUp)
      BY EndedView
    <2>5. Abstract!OpEnds
      BY <1>4, <2>2, <2>3, <2>4 DEF Abstract!OpEnds, Abstract!IsUp, LinkView, Closed
    <2> QED BY <2>5 DEF Allowed, Abstract!LinkNext
  <1> QED BY <1>2, <1>3, <1>4 DEF OpResult

LEMMA CallsAllowed ==
  ASSUME EngineTypes, EngineCalls
  PROVE  Allowed
  <1>1. lk \in LinkStates
    BY DEF EngineTypes, HostTypes
  <1>2. ASSUME NEW op \in {"PREPARE", "INQUIRY", "PAIR", "DISCONNECT"}, NEW sub, NEW n, NEW b,
               Start(op, sub, n, b), UNCHANGED lk
        PROVE  Allowed
    <2>1. eng.op = "NONE" /\ eng'.op = op /\ result' = result
      BY <1>2 DEF Start
    <2>2. Abstract!Calls
      BY <1>2, <2>1 DEF Abstract!Calls, Abstract!Started
    <2> QED BY <2>2 DEF Allowed, Abstract!LinkNext
  <1>3. CASE StartPrepare
    BY <1>2, <1>3 DEF StartPrepare
  <1>4. CASE StartInquiry
    BY <1>2, <1>4 DEF StartInquiry
  <1>5. CASE StartDisconnect
    BY <1>2, <1>5 DEF StartDisconnect
  <1>6. CASE AckLost
    <2>1. lk.st = "LOST" /\ lk' = [lk EXCEPT !.st = "NONE"] /\ UNCHANGED <<eng, result>>
      BY <1>6 DEF AckLost
    <2>2. /\ lk'.st = "NONE" /\ lk'.bd = lk.bd /\ lk'.handle = lk.handle /\ lk'.inboundUp = lk.inboundUp
      BY <1>1, <2>1 DEF LinkStates
    <2>3. Abstract!Calls
      BY <2>1, <2>2 DEF Abstract!Calls, Abstract!LostAcked
    <2> QED BY <2>3 DEF Allowed, Abstract!LinkNext
  <1>7. CASE AttemptEnds \/ WantScan
    <2>1. UNCHANGED <<eng, result, lk>>
      BY <1>7 DEF AttemptEnds, WantScan
    <2> QED BY <2>1 DEF Allowed, Seen, LinkView
  <1>8. ASSUME NEW p \in Peers, StartPage(p) PROVE Allowed
    <2>1. /\ eng.op = "NONE" /\ eng'.op = "PAGE" /\ result' = result
          /\ lk' = [lk EXCEPT !.bd = p, !.handle = None]
      BY <1>8 DEF StartPage, Start
    <2>2. lk'.st = lk.st /\ lk'.bd = p /\ lk'.handle = None /\ lk'.inboundUp = lk.inboundUp
      BY <1>1, <2>1 DEF LinkStates
    <2>3. Abstract!Calls
      BY <2>1, <2>2 DEF Abstract!Calls, Abstract!Paged
    <2> QED BY <2>3 DEF Allowed, Abstract!LinkNext
  <1>9. ASSUME NEW b \in BOOLEAN, StartPair(b) PROVE Allowed
    <2>1. Start("PAIR", "enter", 0, b)
      BY <1>9 DEF StartPair
    <2>2. CASE UNCHANGED lk
      BY <1>2, <2>1, <2>2
    <2>3. CASE lk' = [lk EXCEPT !.inboundUp = FALSE]
      <3>1. eng.op = "NONE" /\ eng'.op = "PAIR" /\ result' = result
        BY <2>1 DEF Start
      <3>2. lk'.st = lk.st /\ lk'.bd = lk.bd /\ lk'.handle = lk.handle /\ lk'.inboundUp = FALSE
        BY <1>1, <2>3 DEF LinkStates
      <3>3. Abstract!Calls
        BY <3>1, <3>2 DEF Abstract!Calls, Abstract!Started, Abstract!InboundAcked
      <3> QED BY <3>3 DEF Allowed, Abstract!LinkNext
    <2> QED BY <1>9, <2>2, <2>3 DEF StartPair
  <1> QED BY <1>3, <1>4, <1>5, <1>6, <1>7, <1>8, <1>9 DEF EngineCalls

LEMMA EngineStepsAllowed ==
  ASSUME Agreement, [EngineNext]_engineVars
  PROVE  Allowed
  <1>1. EngineTypes /\ AirSound(air, evq)
    BY DEF Agreement
  <1>2. CASE EngineCalls
    BY <1>1, <1>2, CallsAllowed
  <1>3. CASE ReconcileScan
    <2>1. /\ UNCHANGED <<eng, result>>
          /\ lk' = lk \/ lk' = [lk EXCEPT !.supDone = TRUE]
      BY <1>3 DEF ReconcileScan
    <2>2. lk'.st = lk.st /\ lk'.bd = lk.bd /\ lk'.handle = lk.handle /\ lk'.inboundUp = lk.inboundUp
      BY <1>1, <2>1 DEF EngineTypes, HostTypes, LinkStates
    <2> QED BY <2>1, <2>2 DEF Allowed, Seen, LinkView
  <1>4. CASE OpStep
    BY <1>4, OpStepAllowed
  <1>5. CASE OnEvent
    BY <1>1, <1>5, OnEventMoves, EventsAllowed
  <1>6. CASE Execute
    BY <1>1, <1>6, ExecuteMoves, EventsAllowed
  <1>7. CASE Air
    BY <1>1, <1>7, AirMoves, EventsAllowed
  <1>8. CASE UNCHANGED engineVars
    BY <1>8 DEF engineVars, hostVars, Allowed, Seen, LinkView
  <1> QED BY <1>2, <1>3, <1>4, <1>5, <1>6, <1>7, <1>8 DEF EngineNext

\* Every step of the engine, of its events and of its calls is a step of LinkOps or hidden from it.
THEOREM EngineImplementsLinkOps == EngineSpec => ImplementsLinkOps
  <1>1. EngineInit => Abstract!LinkInit
    <2> SUFFICES ASSUME EngineInit PROVE Abstract!LinkInit
      OBVIOUS
    <2>1. eng.op = "NONE" /\ result = "OK"
      BY DEF EngineInit, Idle
    <2>2. lk.st = "NONE" /\ lk.bd = None /\ lk.handle = None /\ lk.inboundUp = FALSE
      BY DEF EngineInit
    <2>3. LinkView(eng.op, result, lk.st, lk.bd, lk.handle, lk.inboundUp)
            = LinkView("NONE", "OK", "NONE", None, None, FALSE)
      BY <2>1, <2>2
    <2> QED BY <2>3 DEF LinkView, Abstract!LinkInit, Abstract!NoLink
  <1>2. Agreement /\ [EngineNext]_engineVars => [Abstract!LinkNext]_Seen
    BY EngineStepsAllowed DEF Allowed
  <1>3. [Abstract!LinkNext]_Seen => [Abstract!LinkNext]_[op |-> eng.op, result |-> result, st |-> lk.st,
          bd |-> lk.bd, handle |-> lk.handle, inboundUp |-> lk.inboundUp]
    BY DEF Seen, LinkView
  <1> QED BY <1>1, <1>2, <1>3, EngineAgreement, PTL DEF EngineSpec, ImplementsLinkOps, Abstract!LinkSpec

-----------------------------------------------------------------------------
(* A pairing that ends well.                                               *)

LEMMA EventsKeepOperation ==
  ASSUME Agreement, OnEvent \/ Execute \/ Air
  PROVE  UNCHANGED eng
  <1>1. EngineTypes /\ AirSound(air, evq)
    BY DEF Agreement
  <1>2. NoLinkMade \/ \E q \in Peers : LinkMade(q)
    BY <1>1, OnEventMoves, ExecuteMoves, AirMoves
  <1>3. ASSUME NEW x, Handle(x) PROVE UNCHANGED eng
    BY <1>3 DEF Handle
  <1>4. CASE NoLinkMade
    <2>1. PICK x \in Events, s \in Seq(Unread) : Reads(x, s)
      BY <1>4 DEF NoLinkMade
    <2> QED BY <1>3, <2>1 DEF Reads
  <1>5. CASE \E q \in Peers : LinkMade(q)
    BY <1>3, <1>5 DEF LinkMade
  <1> QED BY <1>2, <1>4, <1>5

LEMMA OnlyStepsEndOperations ==
  ASSUME Agreement, [EngineNext]_engineVars, eng.op # "NONE", eng'.op = "NONE"
  PROVE  OpStep
  <1>1. CASE OnEvent \/ Execute \/ Air
    BY <1>1, EventsKeepOperation
  <1>2. CASE ReconcileScan
    BY <1>2 DEF ReconcileScan
  <1>3. CASE UNCHANGED engineVars
    BY <1>3 DEF engineVars, hostVars
  <1>4. CASE StartPrepare \/ StartInquiry \/ StartDisconnect
    BY <1>4 DEF StartPrepare, StartInquiry, StartDisconnect, Start
  <1>5. CASE (\E p \in Peers : StartPage(p)) \/ \E b \in BOOLEAN : StartPair(b)
    BY <1>5 DEF StartPage, StartPair, Start
  <1>6. CASE AckLost \/ AttemptEnds \/ WantScan
    BY <1>6 DEF AckLost, AttemptEnds, WantScan
  <1> QED BY <1>1, <1>2, <1>3, <1>4, <1>5, <1>6 DEF EngineNext, EngineCalls

LEMMA PairEndsSecured ==
  ASSUME Agreement, [EngineNext]_engineVars, eng.op = "PAIR", eng'.op = "NONE", result' = "OK",
         astray = {}
  PROVE  lk.bd \in air.enc \/ lk.bd \notin air.up
  <1>1. EngineTypes /\ HostAgrees /\ EncryptionAgrees
    BY DEF Agreement
  <1>2. OpResult
    <2>1. OpStep
      BY OnlyStepsEndOperations
    <2> QED BY <1>1, <2>1, OpStepMoves
  <1>3. ~StaysAtIt
    BY DEF StaysAtIt
  <1>4. au.enc = "on"
    BY <1>2, <1>3 DEF OpResult, Concludes
  <1>5. lk.handle # None /\ lk.handle = lk.bd
    BY <1>1, <1>4 DEF HostAgrees, EncryptionAgrees
  <1> QED BY <1>1, <1>4, <1>5 DEF EncryptionAgrees

\* A pairing that ends well leaves a link encrypted at the controller, or one that has just
\* dropped: while no link is astray, encryption of an earlier link never counts (BtLink.cpp:373).
THEOREM EnginePairsEncrypted == EngineSpec => PairedMeansEncrypted
  <1>1. Agreement /\ [EngineNext]_engineVars =>
          [eng.op = "PAIR" /\ eng'.op = "NONE" /\ result' = "OK" /\ astray = {} =>
             lk.bd \in air.enc \/ lk.bd \notin air.up]_engineVars
    BY PairEndsSecured
  <1> QED BY <1>1, EngineAgreement, PTL DEF EngineSpec, PairedMeansEncrypted

-----------------------------------------------------------------------------
(* A stored key that was refused.  The inductive invariant: an              *)
(* authentication at the controller is the one the pairing has asked for,   *)
(* and a refusal it has heard is of the key its peer had lost.              *)

Queued(cm) == \E i \in DOMAIN cm : cm[i].c = "AUTH"
Keyed(s) == \E i \in DOMAIN s : s[i].e \in {"KEYREQ", "NEWKEY"}
Asking == {"auth_status", "fresh_status", "pin_status"}

\* The pairing has not authenticated yet; it waits for its first authentication.
Early(g, cm) ==
  g.op = "PAIR" /\ (g.sub \in {"enter", "peer", "auth_issue"} \/ (g.sub = "auth_status" /\ Queued(cm)))
First(g) == g.op = "PAIR" /\ g.sub \in {"auth_status", "auth_wait"}

\* One command of the engine at most is in the queue, and the slot is busy with it.
QueueOwned(cm, busy) ==
  /\ \A i \in DOMAIN cm : (cm[i].own => busy) /\ (cm[i].c = "AUTH" => cm[i].own)
  /\ \A i, j \in DOMAIN cm : cm[i].own /\ cm[j].own => i = j

\* Only a pairing asks for authentication, and the operation that runs is the attempt's.
Asks(g, cm, t) ==
  /\ Queued(cm) => g.op = "PAIR" /\ g.sub \in Asking
  /\ g.op \notin {"NONE", "PREPARE"} => t = g.op

\* Authentication is of a link, and a link that is authenticated is no longer new.
AirAuth(a) == a.auth # None => a.auth \in a.up /\ a.auth \notin a.quiet

\* An authentication under way was asked for by this attempt, no refusal is left of an earlier one,
\* and one heard at the first authentication of a pairing is of a key the peer has lost.
Judged(g, cm, t, a, u, b, s, f) ==
  /\ a.auth # None => t \in {"PAIR", "DISCONNECT"} /\ ~Early(g, cm)
  /\ Early(g, cm) /\ g.sub \notin {"enter", "peer"} => u.auth # "reject"
  /\ First(g) /\ u.auth = "reject" =>
       (u.offered => b \in f) /\ a.auth = None /\ a.quiet = {} /\ ~Keyed(s)

KeyInv ==
  /\ QueueOwned(cmds, slot.busy) /\ Asks(eng, cmds, attempt) /\ AirAuth(air)
  /\ astray = {} => Judged(eng, cmds, attempt, air, au, lk.bd, evq, forgot)

LEMMA QueueAppend ==
  ASSUME NEW cm \in Seq(EngineCommands), NEW m \in EngineCommands, NEW b \in BOOLEAN, QueueOwned(cm, b),
         m.own => ~b, m.c = "AUTH" => m.own
  PROVE  /\ QueueOwned(Append(cm, m), b \/ m.own)
         /\ Queued(Append(cm, m)) => Queued(cm) \/ m.c = "AUTH"
  <1> DEFINE w == Append(cm, m)
             n == Len(cm)
  <1>1. n \in Nat /\ DOMAIN cm = 1..n
    BY LenProperties
  <1>2. DOMAIN w = 1..(n + 1) /\ w[n + 1] = m /\ \A i \in 1..n : w[i] = cm[i]
    BY <1>1, AppendProperties
  <1> HIDE DEF w, n
  <1>3. \A i \in DOMAIN w : (i \in DOMAIN cm /\ w[i] = cm[i]) \/ (i = n + 1 /\ w[i] = m)
    BY <1>1, <1>2
  <1>4. Queued(w) => Queued(cm) \/ m.c = "AUTH"
    BY <1>3 DEF Queued
  <1>5. \A i \in DOMAIN w : (w[i].own => b \/ m.own) /\ (w[i].c = "AUTH" => w[i].own)
    BY <1>3 DEF QueueOwned
  <1>6. \A i, j \in DOMAIN w : w[i].own /\ w[j].own => i = j
    BY <1>3 DEF QueueOwned
  <1> QED BY <1>4, <1>5, <1>6 DEF QueueOwned, w

LEMMA QueueTail ==
  ASSUME NEW cm \in Seq(EngineCommands), cm # <<>>, NEW b \in BOOLEAN, QueueOwned(cm, b)
  PROVE  /\ QueueOwned(Tail(cm), b /\ ~Head(cm).own)
         /\ Queued(Tail(cm)) => Queued(cm) /\ Head(cm).c # "AUTH"
         /\ Head(cm).c = "AUTH" => Queued(cm)
  <1> DEFINE w == Tail(cm)
             n == Len(cm)
             h == Head(cm)
  <1>1. n \in Nat /\ n > 0 /\ DOMAIN cm = 1..n
    BY LenProperties, EmptySeq
  <1>2. h = cm[1] /\ w \in Seq(EngineCommands) /\ Len(w) = n - 1 /\ \A i \in 1..Len(w) : w[i] = cm[i + 1]
    BY HeadTailProperties
  <1> HIDE DEF w, n, h
  <1>3. \A i \in DOMAIN w : i \in Nat /\ i + 1 \in DOMAIN cm /\ i + 1 # 1 /\ w[i] = cm[i + 1]
    BY <1>1, <1>2
  <1>4. 1 \in DOMAIN cm
    BY <1>1
  <1>5. \A i \in DOMAIN w : w[i].own => b /\ ~h.own
    BY <1>2, <1>3, <1>4 DEF QueueOwned
  <1>6. \A i \in DOMAIN w : w[i].c = "AUTH" => w[i].own
    BY <1>3 DEF QueueOwned
  <1>7. \A i, j \in DOMAIN w : w[i].own /\ w[j].own => i = j
    <2>1. \A i, j \in DOMAIN w : w[i].own /\ w[j].own => i + 1 = j + 1
      BY <1>3 DEF QueueOwned
    <2> QED BY <1>3, <2>1
  <1>8. h.c = "AUTH" => h.own /\ Queued(cm)
    BY <1>2, <1>4 DEF QueueOwned, Queued
  <1>9. Queued(w) => Queued(cm) /\ h.c # "AUTH"
    BY <1>3, <1>5, <1>6, <1>8 DEF Queued
  <1> QED BY <1>5, <1>6, <1>7, <1>8, <1>9 DEF QueueOwned, w, h

\* A free slot: no command of the engine is in the queue.
LEMMA QueueFree ==
  ASSUME NEW cm, NEW b, ~b, QueueOwned(cm, b)
  PROVE  ~Queued(cm)
  BY DEF QueueOwned, Queued

LEMMA IssueOwned ==
  ASSUME HostTypes, QueueOwned(cmds, slot.busy), ~slot.busy, NEW c \in Commands, NEW p \in Who,
         c = "CREATE" => p \in Peers, Issue(c, p)
  PROVE  QueueOwned(cmds, slot.busy)' /\ (Queued(cmds') => c = "AUTH")
  <1> DEFINE m == [c |-> c, p |-> p, own |-> TRUE]
  <1>1. m \in EngineCommands /\ m.own /\ m.c = c
    BY DEF EngineCommands
  <1>2. cmds \in Seq(EngineCommands) /\ slot \in [busy : BOOLEAN, of : Commands \cup {""}, err : BOOLEAN]
    BY DEF HostTypes
  <1>3. cmds' = Append(cmds, m) /\ slot'.busy
    BY <1>2 DEF Issue
  <1> HIDE DEF m
  <1>4. QueueOwned(Append(cmds, m), slot.busy \/ m.own) /\ (Queued(Append(cmds, m)) => Queued(cmds) \/ m.c = "AUTH")
    BY <1>1, <1>2, QueueAppend
  <1>5. ~Queued(cmds)
    BY QueueFree
  <1> QED BY <1>1, <1>3, <1>4, <1>5 DEF QueueOwned

LEMMA SubmitOwned ==
  ASSUME HostTypes, QueueOwned(cmds, slot.busy), NEW c \in Commands \ {"AUTH", "CREATE"}, NEW p \in Who,
         Submit(c, p), UNCHANGED slot
  PROVE  QueueOwned(cmds, slot.busy)' /\ (Queued(cmds') => Queued(cmds))
  <1> DEFINE m == [c |-> c, p |-> p, own |-> FALSE]
  <1>1. m \in EngineCommands /\ m.own = FALSE /\ m.c = c
    BY DEF EngineCommands
  <1>2. cmds \in Seq(EngineCommands) /\ slot.busy \in BOOLEAN
    BY DEF HostTypes
  <1>3. cmds' = Append(cmds, m) \/ cmds' = cmds
    BY DEF Submit
  <1> HIDE DEF m
  <1>4. QueueOwned(Append(cmds, m), slot.busy \/ m.own) /\ (Queued(Append(cmds, m)) => Queued(cmds) \/ m.c = "AUTH")
    BY <1>1, <1>2, QueueAppend
  <1> QED BY <1>1, <1>3, <1>4 DEF QueueOwned

LEMMA ReplyOwned ==
  ASSUME HostTypes, QueueOwned(cmds, slot.busy), NEW v, CommandDone(v), cmds # <<>>
  PROVE  /\ QueueOwned(cmds, slot.busy)' /\ (Queued(cmds') => Queued(cmds))
         /\ Head(cmds).c = "AUTH" => ~Queued(cmds') /\ Queued(cmds)
  <1>1. cmds \in Seq(EngineCommands) /\ slot.busy \in BOOLEAN
    BY DEF HostTypes
  <1> DEFINE h == Head(cmds)
             t == Tail(cmds)
  <1>2. h \in EngineCommands
    BY <1>1, HeadTailProperties
  <1>3. cmds' = t /\ (h.own => slot'.busy = FALSE) /\ (~h.own => slot' = slot)
    BY DEF CommandDone
  <1>4. /\ QueueOwned(t, slot.busy /\ ~h.own) /\ (Queued(t) => Queued(cmds) /\ h.c # "AUTH")
        /\ h.c = "AUTH" => Queued(cmds)
    BY <1>1, QueueTail
  <1> HIDE DEF h, t
  <1>5. QueueOwned(cmds, slot.busy)'
    BY <1>3, <1>4 DEF QueueOwned
  <1> QED BY <1>3, <1>4, <1>5 DEF h

\* What handling one event does to the queue and to an authentication.
LEMMA KeyEffects ==
  ASSUME HostTypes, QueueOwned(cmds, slot.busy), NEW x \in Events, Handle(x), x.e = "REPLY" => cmds # <<>>
  PROVE  /\ UNCHANGED <<eng, attempt>> /\ astray \subseteq astray' /\ bonded \subseteq bonded'
         /\ QueueOwned(cmds, slot.busy)' /\ (Queued(cmds') => Queued(cmds))
         /\ x.e = "REPLY" /\ Head(cmds).c = "AUTH" => ~Queued(cmds') /\ Queued(cmds)
         /\ au'.auth = (IF x.e = "AUTH" THEN x.v ELSE au.auth)
         /\ au'.offered => (au.offered /\ lk'.bd = lk.bd) \/ x.e = "KEYREQ"
         /\ x.e # "NEWKEY" => forgot' = forgot
         /\ Arrival(x) /\ eng.op = "PAIR" => astray' # {}
  <1>1. lk \in LinkStates /\ au \in Securities /\ (x.e # "REPLY" => x.p \in Who)
    BY DEF HostTypes, Events, Who
  <1>2. UNCHANGED <<eng, attempt>>
    BY DEF Handle
  <1>3. ASSUME UNCHANGED <<cmds, slot>>
        PROVE  QueueOwned(cmds, slot.busy)' /\ (Queued(cmds') => Queued(cmds))
    BY <1>3 DEF QueueOwned
  <1>4. CASE x.e = "NEWKEY" /\ LinkKeyNotification(x.p)
    <2>1. UNCHANGED <<slot, lk, au, cmds, astray>> /\ bonded \subseteq bonded'
      BY <1>4 DEF LinkKeyNotification
    <2> QED BY <1>2, <1>3, <1>4, <2>1 DEF Arrival
  <1>5. CASE Other(x)
    <2>1. UNCHANGED forgot
      BY <1>5 DEF Other
    <2>2. CASE x.e = "REPLY" /\ CommandDone(x.v)
      <3>1. UNCHANGED <<lk, au, bonded, astray>>
        BY <2>2 DEF CommandDone
      <3>2. /\ QueueOwned(cmds, slot.busy)' /\ (Queued(cmds') => Queued(cmds))
            /\ Head(cmds).c = "AUTH" => ~Queued(cmds') /\ Queued(cmds)
        BY <2>2, ReplyOwned
      <3> QED BY <1>2, <2>1, <2>2, <3>1, <3>2 DEF Arrival
    <2>3. CASE x.e = "CONN" /\ ConnectionComplete(x.p, x.v)
      <3>1. /\ UNCHANGED <<slot, au, bonded, cmds>> /\ astray \subseteq astray'
            /\ x.v = "ok" /\ eng.op = "PAIR" => x.p \in astray'
        BY <2>3 DEF ConnectionComplete
      <3>2. lk'.bd = lk.bd
        BY <1>1, <2>3 DEF ConnectionComplete, LinkStates
      <3> QED BY <1>2, <1>3, <2>1, <2>3, <3>1, <3>2 DEF Arrival
    <2>4. CASE x.e = "REQ" /\ ConnectionRequest(x.p)
      <3>1. /\ Submit("REJECT", x.p) \/ Submit("ACCEPT", x.p)
            /\ UNCHANGED <<slot, bonded, astray>>
            /\ UNCHANGED <<lk, au>> \/ au' = [au EXCEPT !.offered = FALSE]
        BY <2>4 DEF ConnectionRequest
      <3>2. /\ "REJECT" \in Commands \ {"AUTH", "CREATE"} /\ "ACCEPT" \in Commands \ {"AUTH", "CREATE"}
        BY DEF Commands
      <3>3. QueueOwned(cmds, slot.busy)' /\ (Queued(cmds') => Queued(cmds))
        BY <1>1, <2>4, <3>1, <3>2, SubmitOwned
      <3>4. au'.auth = au.auth /\ (au'.offered => au.offered /\ lk'.bd = lk.bd)
        BY <1>1, <3>1 DEF Securities
      <3> QED BY <1>2, <2>1, <2>4, <3>1, <3>3, <3>4 DEF Arrival
    <2>5. CASE x.e = "ROLE" /\ RoleChange(x.p, x.v)
      <3>1. UNCHANGED <<slot, au, bonded, cmds, astray>>
        BY <2>5 DEF RoleChange
      <3>2. lk'.bd = lk.bd
        BY <1>1, <2>5 DEF RoleChange, LinkStates
      <3> QED BY <1>2, <1>3, <2>1, <2>5, <3>1, <3>2 DEF Arrival
    <2>6. CASE x.e = "DISC" /\ Disconnection(x.p)
      <3>1. UNCHANGED <<slot, bonded, cmds, astray>>
        BY <2>6 DEF Disconnection
      <3>2. lk'.bd = lk.bd
        BY <1>1, <2>6 DEF Disconnection, LinkStates
      <3>3. au'.auth = au.auth /\ au'.offered = au.offered
        BY <1>1, <2>6 DEF Disconnection, LinkOver, NotEncrypted, Securities
      <3> QED BY <1>2, <1>3, <2>1, <2>6, <3>1, <3>2, <3>3 DEF Arrival
    <2>7. CASE x.e = "KEYREQ" /\ KeyRequest(x.p)
      <3>1. Submit("ANSWER", x.p) /\ UNCHANGED <<slot, lk, bonded, astray>>
        BY <2>7 DEF KeyRequest
      <3>2. "ANSWER" \in Commands \ {"AUTH", "CREATE"}
        BY DEF Commands
      <3>3. QueueOwned(cmds, slot.busy)' /\ (Queued(cmds') => Queued(cmds))
        BY <1>1, <2>7, <3>1, <3>2, SubmitOwned
      <3>4. au'.auth = au.auth
        BY <1>1, <2>7 DEF KeyRequest, Securities
      <3> QED BY <1>2, <2>1, <2>7, <3>1, <3>3, <3>4 DEF Arrival
    <2>8. CASE x.e = "AUTH" /\ AuthenticationComplete(x.v)
      <3>1. UNCHANGED <<slot, lk, bonded, cmds, astray>> /\ au' = [au EXCEPT !.auth = x.v]
        BY <2>8 DEF AuthenticationComplete
      <3>2. au'.auth = x.v /\ au'.offered = au.offered
        BY <1>1, <3>1 DEF Securities
      <3> QED BY <1>2, <1>3, <2>1, <2>8, <3>1, <3>2 DEF Arrival
    <2>9. CASE x.e = "ENC" /\ EncryptionChange(x.v)
      <3>1. UNCHANGED <<slot, bonded, cmds, astray>>
        BY <2>9 DEF EncryptionChange
      <3>2. lk'.bd = lk.bd /\ au'.auth = au.auth /\ au'.offered = au.offered
        BY <1>1, <2>9 DEF EncryptionChange, LinkStates, Securities
      <3> QED BY <1>2, <1>3, <2>1, <2>9, <3>1, <3>2 DEF Arrival
    <2> QED BY <1>5, <2>2, <2>3, <2>4, <2>5, <2>6, <2>7, <2>8, <2>9 DEF Other
  <1> QED BY <1>4, <1>5 DEF Handle

\* A step of the air or of the queue that ends no authentication with a refusal.
Stirs(x, s) ==
  /\ Handle(x) /\ (x.e = "REPLY" => cmds # <<>>) /\ evq' = s
  /\ x.e = "AUTH" => x.v # "reject"
  /\ x.e \in {"KEYREQ", "NEWKEY"} \/ Keyed(s) =>
       Keyed(evq) \/ air.auth # None \/ air.quiet # {} \/ (cmds # <<>> /\ Head(cmds).c = "AUTH")
  /\ air'.quiet \subseteq air.quiet \/ Arrival(x)
  /\ air'.auth \in {air.auth, None} \/ (x.e = "REPLY" /\ Head(cmds).c = "AUTH")
  /\ AirAuth(air')

LEMMA KeyInvStirred ==
  ASSUME HostTypes, KeyInv, NEW x \in Events, NEW s, Stirs(x, s)
  PROVE  KeyInv' /\ bonded \subseteq bonded'
  <1>1. /\ QueueOwned(cmds, slot.busy) /\ Asks(eng, cmds, attempt) /\ AirAuth(air)
        /\ astray = {} => Judged(eng, cmds, attempt, air, au, lk.bd, evq, forgot)
    BY DEF KeyInv
  <1>2. /\ Handle(x) /\ (x.e = "REPLY" => cmds # <<>>) /\ evq' = s /\ AirAuth(air')
        /\ x.e = "AUTH" => x.v # "reject"
        /\ x.e \in {"KEYREQ", "NEWKEY"} \/ Keyed(s) =>
             Keyed(evq) \/ air.auth # None \/ air.quiet # {} \/ (cmds # <<>> /\ Head(cmds).c = "AUTH")
        /\ air'.quiet \subseteq air.quiet \/ Arrival(x)
        /\ air'.auth \in {air.auth, None} \/ (x.e = "REPLY" /\ Head(cmds).c = "AUTH")
    BY DEF Stirs
  <1>3. /\ UNCHANGED <<eng, attempt>> /\ astray \subseteq astray' /\ bonded \subseteq bonded'
        /\ QueueOwned(cmds, slot.busy)' /\ (Queued(cmds') => Queued(cmds))
        /\ x.e = "REPLY" /\ Head(cmds).c = "AUTH" => ~Queued(cmds') /\ Queued(cmds)
        /\ au'.auth = (IF x.e = "AUTH" THEN x.v ELSE au.auth)
        /\ au'.offered => (au.offered /\ lk'.bd = lk.bd) \/ x.e = "KEYREQ"
        /\ x.e # "NEWKEY" => forgot' = forgot
        /\ Arrival(x) /\ eng.op = "PAIR" => astray' # {}
    BY <1>1, <1>2, KeyEffects
  <1>4. cmds # <<>> /\ Head(cmds).c = "AUTH" => Queued(cmds)
    <2>1. cmds \in Seq(EngineCommands) /\ slot.busy \in BOOLEAN
      BY DEF HostTypes
    <2> QED BY <1>1, <2>1, QueueTail
  <1>5. Asks(eng, cmds, attempt)'
    BY <1>1, <1>3 DEF Asks
  <1>6. AirAuth(air)'
    BY <1>2
  <1>7. ASSUME astray' = {} PROVE Judged(eng, cmds, attempt, air, au, lk.bd, evq, forgot)'
    <2>1. Judged(eng, cmds, attempt, air, au, lk.bd, evq, forgot)
      BY <1>1, <1>3, <1>7
    <2>2. Early(eng, cmds)' => Early(eng, cmds)
      BY <1>3 DEF Early
    <2>3. (au.auth = "reject") \/ au'.auth # "reject"
      BY <1>2, <1>3
    <2>4. ASSUME air'.auth # None PROVE attempt' \in {"PAIR", "DISCONNECT"} /\ ~Early(eng, cmds)'
      <3>1. CASE air'.auth = air.auth
        BY <1>3, <2>1, <2>2, <2>4, <3>1 DEF Judged
      <3>2. CASE x.e = "REPLY" /\ Head(cmds).c = "AUTH"
        <4>1. Queued(cmds) /\ ~Queued(cmds')
          BY <1>3, <3>2
        <4>2. eng.op = "PAIR" /\ eng.sub \in Asking /\ attempt = eng.op
          BY <1>1, <4>1 DEF Asks
        <4> QED BY <1>3, <4>1, <4>2 DEF Early, Asking
      <3> QED BY <1>2, <2>4, <3>1, <3>2
    <2>5. ASSUME Early(eng, cmds)', eng'.sub \notin {"enter", "peer"} PROVE au'.auth # "reject"
      BY <1>3, <2>1, <2>2, <2>3, <2>5 DEF Judged
    <2>6. ASSUME First(eng)', au'.auth = "reject"
          PROVE  (au'.offered => lk'.bd \in forgot') /\ air'.auth = None /\ air'.quiet = {} /\ ~Keyed(evq')
      <3>1. First(eng) /\ au.auth = "reject"
        BY <1>3, <2>3, <2>6 DEF First
      <3>2. (au.offered => lk.bd \in forgot) /\ air.auth = None /\ air.quiet = {} /\ ~Keyed(evq)
        BY <2>1, <3>1 DEF Judged
      <3>3. ~Queued(cmds)
        <4>1. Queued(cmds) => eng.sub = "auth_status"
          BY <1>1, <3>1 DEF Asks, Asking, First
        <4>2. Queued(cmds) => Early(eng, cmds) /\ eng.sub \notin {"enter", "peer"}
          BY <3>1, <4>1 DEF Early, First
        <4> QED BY <2>1, <3>1, <4>2 DEF Judged
      <3>4. x.e \notin {"KEYREQ", "NEWKEY"} /\ ~Keyed(s)
        BY <1>2, <1>4, <3>2, <3>3
      <3>5. eng.op = "PAIR"
        BY <3>1 DEF First
      <3>6. ~Arrival(x)
        BY <1>3, <1>7, <3>5
      <3> QED BY <1>2, <1>3, <3>2, <3>3, <3>4, <3>6
    <2> QED BY <2>4, <2>5, <2>6 DEF Judged
  <1> QED BY <1>3, <1>5, <1>6, <1>7 DEF KeyInv

\* An authentication ends with a refusal.
LEMMA KeyInvRefused ==
  ASSUME Agreement, KeyInv, NEW p \in Peers, air.auth = p, p \in forgot,
         Handle(Ev("AUTH", p, "reject")), evq = <<>>, evq' = <<>>, air' = [air EXCEPT !.auth = None]
  PROVE  KeyInv' /\ bonded \subseteq bonded'
  <1> DEFINE x == Ev("AUTH", p, "reject")
  <1>1. /\ QueueOwned(cmds, slot.busy) /\ Asks(eng, cmds, attempt) /\ AirAuth(air)
        /\ astray = {} => Judged(eng, cmds, attempt, air, au, lk.bd, evq, forgot)
    BY DEF KeyInv
  <1>2. HostTypes /\ air \in AirStates /\ HostAgrees /\ AirSound(air, evq) /\ None \notin Peers
    BY EngineConstants DEF Agreement, EngineTypes, AirTypes
  <1>3. x \in Events /\ x.e = "AUTH" /\ x.v = "reject"
    BY DEF Events, Ev, Who, Values
  <1> HIDE DEF x
  <1>4. /\ UNCHANGED <<eng, attempt>> /\ astray \subseteq astray' /\ bonded \subseteq bonded'
        /\ QueueOwned(cmds, slot.busy)' /\ (Queued(cmds') => Queued(cmds))
        /\ au'.auth = "reject" /\ (au'.offered => au.offered /\ lk'.bd = lk.bd) /\ forgot' = forgot
    <2>1. Handle(x)
      BY DEF x
    <2> QED BY <1>1, <1>2, <1>3, <2>1, KeyEffects
  <1>5. air'.auth = None /\ air'.quiet = air.quiet /\ air'.up = air.up
    BY <1>2 DEF AirStates
  <1>6. Asks(eng, cmds, attempt)' /\ AirAuth(air)'
    BY <1>1, <1>4, <1>5 DEF Asks, AirAuth
  <1>7. ASSUME astray' = {} PROVE Judged(eng, cmds, attempt, air, au, lk.bd, evq, forgot)'
    <2>1. astray = {} /\ Judged(eng, cmds, attempt, air, au, lk.bd, evq, forgot)
      BY <1>1, <1>4, <1>7
    <2>2. ~Early(eng, cmds)
      BY <1>2, <2>1 DEF Judged
    <2>3. ~Early(eng, cmds)'
      BY <1>4, <2>2 DEF Early
    <2>4. p \in air.up /\ p \notin air.quiet
      BY <1>1, <1>2 DEF AirAuth
    <2>5. lk.handle = p /\ air.up \subseteq {p}
      BY <1>2, <2>1, <2>4 DEF HostAgrees
    <2>6. lk.bd = p
      BY <1>2, <2>5 DEF HostAgrees
    <2>7. air.quiet = {}
      BY <1>2, <2>4, <2>5 DEF AirSound
    <2>8. ~Keyed(evq')
      BY DEF Keyed
    <2> QED BY <1>4, <1>5, <2>3, <2>6, <2>7, <2>8 DEF Judged
  <1> QED BY <1>4, <1>6, <1>7 DEF KeyInv

\* A link that ends takes its authentication with it.
LEMMA DroppedAuth ==
  ASSUME air \in AirStates, AirAuth(air), NEW p \in air.up, None \notin Peers
  PROVE  /\ AirAuth(Dropped(p)) /\ Dropped(p).quiet \subseteq air.quiet
         /\ Dropped(p).auth \in {air.auth, None} /\ ~Keyed(DropEvents(p))
         /\ \/ DropEvents(p) = <<Ev("AUTH", p, "other")>> \o <<Ev("DISC", p, "other")>>
            \/ DropEvents(p) = <<Ev("DISC", p, "other")>>
  <1> DEFINE b == Dropped(p)
             d == Ev("DISC", p, "other")
             u == Ev("AUTH", p, "other")
  <1>1. p \in Peers
    BY DEF AirStates
  <1>2. /\ b.up = air.up \ {p} /\ b.quiet = air.quiet \ {p}
        /\ b.auth = (IF air.auth = p THEN None ELSE air.auth)
    BY DEF Dropped, AirStates
  <1>3. d \in Unread /\ u \in Unread /\ d.e = "DISC" /\ u.e = "AUTH"
    BY <1>1 DEF Ev, Unread, Values
  <1>4. DropEvents(p) = (IF air.auth = p THEN <<u>> ELSE <<>>) \o <<d>>
    BY DEF DropEvents
  <1> HIDE DEF b, d, u
  <1>5. AirAuth(b)
    BY <1>2 DEF AirAuth
  <1>6. <<u>> \o <<d>> = <<u, d>> /\ <<>> \o <<d>> = <<d>>
    BY <1>3, TwoEvents
  <1>7. DropEvents(p) = <<u>> \o <<d>> \/ DropEvents(p) = <<d>>
    BY <1>4, <1>6
  <1>8. (\A i \in DOMAIN <<u, d>> : <<u, d>>[i] \in {u, d}) /\ (\A i \in DOMAIN <<d>> : <<d>>[i] = d)
    OBVIOUS
  <1>9. ~Keyed(<<u, d>>) /\ ~Keyed(<<d>>)
    BY <1>3, <1>8 DEF Keyed
  <1> QED BY <1>2, <1>5, <1>6, <1>7, <1>9 DEF b, d, u

LEMMA EffectsStir ==
  ASSUME air \in AirStates, AirSound(air, <<>>), AirAuth(air), NEW c \in Commands, NEW p \in Who,
         NEW r \in Effects(c, p), None \notin Peers
  PROVE  /\ r.air.quiet \subseteq air.quiet /\ AirAuth(r.air)
         /\ r.air.auth \in {air.auth, None} \/ c = "AUTH"
         /\ Keyed(r.events) => c = "AUTH"
  <1> DEFINE Good(b, s) == /\ b.quiet \subseteq air.quiet /\ AirAuth(b) /\ (b.auth \in {air.auth, None} \/ c = "AUTH")
                           /\ Keyed(s) => c = "AUTH"
  <1>1. ASSUME NEW b, NEW s, Good(b, s), r = Effect(b, s)
        PROVE  /\ r.air.quiet \subseteq air.quiet /\ AirAuth(r.air)
               /\ r.air.auth \in {air.auth, None} \/ c = "AUTH"
               /\ Keyed(r.events) => c = "AUTH"
    <2>1. r.air = b /\ r.events = s
      BY <1>1 DEF Effect
    <2> QED BY <1>1, <2>1
  <1>2. ~Keyed(<<>>)
    BY DEF Keyed
  <1>3. ASSUME NEW e, NEW v, e \notin {"KEYREQ", "NEWKEY"} PROVE ~Keyed(<<Ev(e, p, v)>>)
    BY <1>3 DEF Keyed, Ev
  <1>4. ASSUME NEW b \in AirStates, b.up = air.up, b.quiet = air.quiet, b.auth = air.auth, NEW s, ~Keyed(s) PROVE Good(b, s)
    BY <1>4 DEF AirAuth
  <1> HIDE DEF Good
  <1>5. CASE c = "CREATE"
    <2> DEFINE b == [air EXCEPT !.page = {p}]
    <2>1. r = Effect(b, <<>>) /\ p \in Who
      BY <1>5, ResultOf DEF Effects
    <2>2. b.up = air.up /\ b.quiet = air.quiet /\ b.auth = air.auth
      BY DEF AirStates
    <2>3. Good(b, <<>>)
      BY <1>2, <2>2 DEF Good, AirAuth
    <2> QED BY <1>1, <2>1, <2>3
  <1>6. CASE c = "CANCEL"
    <2> DEFINE b == [air EXCEPT !.page = {}]
               s == <<Ev("CONN", p, "other")>>
    <2>1. r = Effect(b, s)
      BY <1>6, ResultOf DEF Effects
    <2>2. b.up = air.up /\ b.quiet = air.quiet /\ b.auth = air.auth
      BY DEF AirStates
    <2>3. ~Keyed(s)
      BY <1>3
    <2> HIDE DEF b, s
    <2>4. Good(b, s)
      BY <2>2, <2>3 DEF Good, AirAuth
    <2> QED BY <1>1, <2>1, <2>4
  <1>7. CASE c = "ACCEPT"
    <2> DEFINE b == [air EXCEPT !.asked = @ \ {p}, !.accepted = @ \cup {p}]
    <2>1. r = Effect(b, <<>>)
      BY <1>7, ResultOf DEF Effects
    <2>2. b.up = air.up /\ b.quiet = air.quiet /\ b.auth = air.auth
      BY DEF AirStates
    <2> HIDE DEF b
    <2>3. Good(b, <<>>)
      BY <1>2, <2>2 DEF Good, AirAuth
    <2> QED BY <1>1, <2>1, <2>3
  <1>8. CASE c = "REJECT"
    <2> DEFINE b == [air EXCEPT !.asked = @ \ {p}]
               s == <<Ev("CONN", p, "other")>>
    <2>1. r = Effect(b, s)
      BY <1>8, ResultOf DEF Effects
    <2>2. b.up = air.up /\ b.quiet = air.quiet /\ b.auth = air.auth
      BY DEF AirStates
    <2>3. ~Keyed(s)
      BY <1>3
    <2> HIDE DEF b, s
    <2>4. Good(b, s)
      BY <2>2, <2>3 DEF Good, AirAuth
    <2> QED BY <1>1, <2>1, <2>4
  <1>9. CASE c = "AUTH"
    <2> DEFINE b == [air EXCEPT !.auth = p, !.quiet = @ \ {p}]
               s == <<Ev("KEYREQ", p, "")>>
    <2>1. r \in If(p \in air.up /\ air.auth = None, Effect(b, s))
      BY <1>9 DEF Effects
    <2>2. p \in air.up /\ r = Effect(b, s)
      BY <2>1, ResultOf
    <2>3. b.up = air.up /\ b.quiet = air.quiet \ {p} /\ b.auth = p
      BY DEF AirStates
    <2> HIDE DEF b, s
    <2>4. Good(b, s)
      BY <1>9, <2>2, <2>3 DEF Good, AirAuth
    <2> QED BY <1>1, <2>2, <2>4
  <1>10. CASE c = "ENC"
    <2> DEFINE b == [air EXCEPT !.enc = @ \cup {p}]
               s == <<Ev("ENC", p, "on")>>
               t == <<Ev("ENC", p, "off")>>
    <2>1. r = Effect(b, s) \/ r = Effect(air, t)
      BY <1>10, ResultOf DEF Effects
    <2>2. b.up = air.up /\ b.quiet = air.quiet /\ b.auth = air.auth
      BY DEF AirStates
    <2>3. ~Keyed(s) /\ ~Keyed(t)
      BY <1>3
    <2> HIDE DEF b, s, t
    <2>4. Good(b, s) /\ Good(air, t)
      BY <2>2, <2>3 DEF Good, AirAuth
    <2> QED BY <1>1, <2>1, <2>4
  <1>11. CASE c = "DISC"
    <2> DEFINE b == Dropped(p)
               s == DropEvents(p)
    <2>1. r \in If(p \in air.up, Effect(b, s))
      BY <1>11 DEF Effects
    <2>2. p \in air.up /\ r = Effect(b, s)
      BY <2>1, ResultOf
    <2>3. AirAuth(b) /\ b.quiet \subseteq air.quiet /\ b.auth \in {air.auth, None} /\ ~Keyed(s)
      BY <2>2, DroppedAuth
    <2> HIDE DEF b, s
    <2>4. Good(b, s)
      BY <2>3 DEF Good
    <2> QED BY <1>1, <2>2, <2>4
  <1>12. CASE c \in {"SCAN_ON", "SCAN_OFF"}
    <2> DEFINE o == c = "SCAN_ON"
               b == [air EXCEPT !.scan = o]
    <2>1. r = Effect(b, <<>>)
      BY <1>12 DEF Effects
    <2> HIDE DEF o
    <2>2. b.up = air.up /\ b.quiet = air.quiet /\ b.auth = air.auth
      BY DEF AirStates
    <2> HIDE DEF b
    <2>3. Good(b, <<>>)
      BY <1>2, <2>2 DEF Good, AirAuth
    <2> QED BY <1>1, <2>1, <2>3
  <1>13. CASE c \notin {"CREATE", "CANCEL", "ACCEPT", "REJECT", "AUTH", "ENC", "DISC", "SCAN_ON",
                        "SCAN_OFF"}
    <2>1. r = Effect(air, <<>>)
      BY <1>13 DEF Effects
    <2>2. Good(air, <<>>)
      BY <1>2 DEF Good
    <2> QED BY <1>1, <2>1, <2>2
  <1> QED BY <1>5, <1>6, <1>7, <1>8, <1>9, <1>10, <1>11, <1>12, <1>13

\* What drives the controller keeps the invariant.
KeysKept == KeyInv' /\ bonded \subseteq bonded'

LEMMA ExecuteKeys ==
  ASSUME Agreement, KeyInv, Execute
  PROVE  KeysKept
  <1> DEFINE c == Head(cmds).c
             p == Head(cmds).p
             x(v) == Ev("REPLY", None, v)
  <1>1. /\ HostTypes /\ cmds \in Seq(EngineCommands) /\ air \in AirStates /\ AirSound(air, evq) /\ AirAuth(air)
        /\ None \notin Peers
    BY EngineConstants DEF Agreement, EngineTypes, HostTypes, AirTypes, KeyInv
  <1>2. cmds # <<>>
    BY DEF Execute
  <1>3. c \in Commands /\ p \in Who /\ (c = "CREATE" => p \in Peers)
    BY <1>1, <1>2, HeadTailProperties DEF EngineCommands
  <1>4. \A v \in {"ok", "err"} : x(v) \in Events /\ x(v).e = "REPLY"
    BY DEF Ev, Events, Values, Who
  <1>5. \/ \E v \in {"ok", "err"} : \E r \in Effects(c, p) : air' = r.air /\ Tell(<<x(v)>> \o r.events)
        \/ UNCHANGED air /\ Tell(<<x("err")>>)
    BY DEF Execute
  <1> HIDE DEF p, x
  <1>6. ASSUME NEW v \in {"ok", "err"}, NEW r \in Effects(c, p), air' = r.air, Tell(<<x(v)>> \o r.events)
        PROVE  KeysKept
    <2> DEFINE y == x(v)
               s == r.events
    <2>1. y \in Events /\ y.e = "REPLY"
      BY <1>4
    <2>2. evq = <<>>
      BY <1>6 DEF Tell
    <2>3. AirSound(air, <<>>)
      BY <1>1, <2>2
    <2>4. s \in Seq(Unread)
      BY <1>1, <1>3, <2>1, <2>3, EffectsMove
    <2>5. /\ r.air.quiet \subseteq air.quiet /\ AirAuth(r.air)
          /\ r.air.auth \in {air.auth, None} \/ c = "AUTH"
          /\ Keyed(s) => c = "AUTH"
      BY <1>1, <1>3, <2>3, EffectsStir
    <2>6. Tell(<<y>> \o s)
      BY <1>6
    <2> HIDE DEF y, s
    <2>7. Handle(y) /\ evq' = s
      BY <2>1, <2>4, <2>6, TellsMore
    <2>8. Stirs(y, s)
      BY <1>2, <1>6, <2>1, <2>5, <2>7 DEF Stirs
    <2> QED BY <1>1, <2>1, <2>8, KeyInvStirred DEF KeysKept
  <1>7. ASSUME UNCHANGED air, Tell(<<x("err")>>) PROVE KeysKept
    <2> DEFINE y == x("err")
    <2>1. y \in Events /\ y.e = "REPLY" /\ Tell(<<y>>)
      BY <1>4, <1>7
    <2> HIDE DEF y
    <2>2. Handle(y) /\ evq' = <<>>
      BY <2>1, TellsOne
    <2>3. ~Keyed(<<>>)
      BY DEF Keyed
    <2>4. Stirs(y, <<>>)
      BY <1>1, <1>2, <1>7, <2>1, <2>2, <2>3 DEF Stirs
    <2> QED BY <1>1, <2>1, <2>4, KeyInvStirred DEF KeysKept
  <1> QED BY <1>5, <1>6, <1>7

LEMMA OnEventKeys ==
  ASSUME Agreement, KeyInv, OnEvent
  PROVE  KeysKept
  <1> DEFINE x == Head(evq)
             s == Tail(evq)
  <1>1. HostTypes /\ evq \in Seq(Unread) /\ AirAuth(air)
    BY DEF Agreement, EngineTypes, AirTypes, KeyInv
  <1>2. evq # <<>> /\ Handle(x) /\ evq' = s /\ UNCHANGED air
    BY DEF OnEvent
  <1>3. x \in Unread /\ \A i \in DOMAIN s : \E j \in DOMAIN evq : evq[j] = s[i]
    BY <1>1, <1>2, Oldest
  <1>4. \E j \in DOMAIN evq : evq[j] = x
    BY <1>1, <1>2, HeadTailProperties, EmptySeq, LenProperties
  <1> HIDE DEF x, s
  <1>5. x.e \in {"KEYREQ", "NEWKEY"} \/ Keyed(s) => Keyed(evq)
    BY <1>3, <1>4 DEF Keyed
  <1>6. x \in Events /\ x.e # "REPLY" /\ (x.e = "AUTH" => x.v # "reject")
    BY <1>3, UnreadAreEvents DEF Unread
  <1>7. Stirs(x, s)
    BY <1>1, <1>2, <1>5, <1>6 DEF Stirs
  <1> QED BY <1>1, <1>6, <1>7, KeyInvStirred DEF KeysKept

\* A step of the controller of which the host is told at once, and one with more to tell.
LEMMA OneTellsKeys ==
  ASSUME HostTypes, KeyInv, NEW x \in Events, Tell(<<x>>), x.e \notin {"REPLY", "KEYREQ", "NEWKEY"},
         x.e = "AUTH" => x.v # "reject", air'.quiet \subseteq air.quiet \/ Arrival(x),
         air'.auth \in {air.auth, None}, AirAuth(air')
  PROVE  KeysKept
  <1>1. Handle(x) /\ evq' = <<>>
    BY TellsOne
  <1>2. ~Keyed(<<>>)
    BY DEF Keyed
  <1>3. Stirs(x, <<>>)
    BY <1>1, <1>2 DEF Stirs
  <1> QED BY <1>3, KeyInvStirred DEF KeysKept

LEMMA MoreTellKeys ==
  ASSUME HostTypes, KeyInv, NEW x \in Events, NEW s \in Seq(Unread), Tell(<<x>> \o s), x.e # "REPLY",
         x.e = "AUTH" => x.v # "reject", air'.quiet \subseteq air.quiet,
         air'.auth \in {air.auth, None}, AirAuth(air'),
         \/ air.auth # None \/ air.quiet # {}
         \/ x.e \notin {"KEYREQ", "NEWKEY"} /\ ~Keyed(s)
  PROVE  KeysKept
  <1>1. Handle(x) /\ evq' = s
    BY TellsMore
  <1>2. Stirs(x, s)
    BY <1>1 DEF Stirs
  <1> QED BY <1>2, KeyInvStirred DEF KeysKept

LEMMA AirKeys ==
  ASSUME Agreement, KeyInv, Air
  PROVE  KeysKept
  <1>1. /\ HostTypes /\ air \in AirStates /\ AirSound(air, evq) /\ AirAuth(air) /\ None \notin Peers
    BY EngineConstants DEF Agreement, EngineTypes, AirTypes, KeyInv
  <1>2. ASSUME NEW y, Tell(y) PROVE evq = <<>>
    BY <1>2 DEF Tell
  <1>3. /\ air.quiet \subseteq air.up /\ air.up \cap (air.page \cup air.asked \cup air.accepted) = {}
    BY <1>1 DEF AirSound
  <1>4. ASSUME NEW a, a.up = air.up, a.quiet = air.quiet, a.auth \in {air.auth, None} PROVE AirAuth(a)
    BY <1>1, <1>4 DEF AirAuth
  <1>5. ASSUME NEW p \in Peers, NEW v \in {"ok", "timeout", "other"}, PageEnds(p, v) PROVE KeysKept
    <2> DEFINE x == Ev("CONN", p, v)
    <2>1. /\ p \in air.page /\ Tell(<<x>>)
          /\ air' = [(IF v = "ok" THEN Linked(air, p) ELSE air) EXCEPT !.page = {}]
      BY <1>5 DEF PageEnds
    <2>2. x \in Events /\ x.e = "CONN" /\ x.v = v
      BY DEF Events, Ev, Who, Values
    <2> HIDE DEF x
    <2>3. CASE v = "ok"
      <3>1. air'.up = air.up \cup {p} /\ air'.quiet = air.quiet \cup {p} /\ air'.auth = air.auth
        BY <1>1, <2>1, <2>3 DEF Linked, AirStates
      <3>2. AirAuth(air')
        BY <1>1, <1>3, <2>1, <3>1 DEF AirAuth
      <3>3. Arrival(x)
        BY <2>2, <2>3 DEF Arrival
      <3> QED BY <1>1, <2>1, <2>2, <3>1, <3>2, <3>3, OneTellsKeys
    <2>4. CASE v # "ok"
      <3>1. air'.up = air.up /\ air'.quiet = air.quiet /\ air'.auth = air.auth
        BY <1>1, <2>1, <2>4 DEF AirStates
      <3>2. AirAuth(air')
        BY <1>1, <3>1 DEF AirAuth
      <3> QED BY <1>1, <2>1, <2>2, <3>1, <3>2, OneTellsKeys
    <2> QED BY <2>3, <2>4
  <1>6. ASSUME NEW p \in Peers, PeerCalls(p) PROVE KeysKept
    <2> DEFINE x == Ev("REQ", p, "")
    <2>1. Tell(<<x>>) /\ air' = [air EXCEPT !.asked = @ \cup {p}]
      BY <1>6 DEF PeerCalls
    <2>2. x \in Events /\ x.e = "REQ"
      BY DEF Events, Ev, Who, Values
    <2> HIDE DEF x
    <2>3. air'.up = air.up /\ air'.quiet = air.quiet /\ air'.auth = air.auth
      BY <1>1, <2>1 DEF AirStates
    <2>4. AirAuth(air')
      BY <1>1, <2>3 DEF AirAuth
    <2> QED BY <1>1, <2>1, <2>2, <2>3, <2>4, OneTellsKeys
  <1>7. ASSUME NEW p \in Peers, LinkDrops(p) PROVE KeysKept
    <2> DEFINE d == Ev("DISC", p, "other")
               u == Ev("AUTH", p, "other")
    <2>1. p \in air.up /\ air' = Dropped(p) /\ Tell(DropEvents(p))
      BY <1>7 DEF LinkDrops
    <2>2. /\ d \in Unread /\ u \in Unread /\ d.e = "DISC" /\ u.e = "AUTH" /\ u.v = "other"
      BY DEF Ev, Unread, Values
    <2>3. /\ AirAuth(air') /\ air'.quiet \subseteq air.quiet /\ air'.auth \in {air.auth, None}
          /\ DropEvents(p) = <<u>> \o <<d>> \/ DropEvents(p) = <<d>>
      BY <1>1, <2>1, DroppedAuth
    <2> HIDE DEF d, u
    <2>4. d \in Events /\ u \in Events /\ <<d>> \in Seq(Unread)
      BY <2>2, UnreadAreEvents
    <2>5. ~Keyed(<<d>>)
      BY <2>2 DEF Keyed
    <2>6. CASE DropEvents(p) = <<u>> \o <<d>>
      <3>1. Tell(<<u>> \o <<d>>)
        BY <2>1, <2>6
      <3> QED BY <1>1, <2>2, <2>3, <2>4, <2>5, <3>1, MoreTellKeys
    <2>7. CASE DropEvents(p) = <<d>>
      <3>1. Tell(<<d>>)
        BY <2>1, <2>7
      <3> QED BY <1>1, <2>2, <2>3, <2>4, <3>1, OneTellsKeys
    <2> QED BY <2>3, <2>6, <2>7
  <1>8. ASSUME NEW p \in Peers, SwapRoles(p) PROVE KeysKept
    <2> DEFINE x == Ev("ROLE", p, IF p \in air.slave THEN "master" ELSE "slave")
    <2>1. Tell(<<x>>) /\ air' = [air EXCEPT !.slave = IF p \in @ THEN @ \ {p} ELSE @ \cup {p}]
      BY <1>8 DEF SwapRoles
    <2>2. x \in Events /\ x.e = "ROLE"
      BY DEF Events, Ev, Who, Values
    <2> HIDE DEF x
    <2>3. air'.up = air.up /\ air'.quiet = air.quiet /\ air'.auth = air.auth
      BY <1>1, <2>1 DEF AirStates
    <2>4. AirAuth(air')
      BY <1>1, <2>3 DEF AirAuth
    <2> QED BY <1>1, <2>1, <2>2, <2>3, <2>4, OneTellsKeys
  <1>9. ASSUME NEW p \in Peers, NEW v \in {"ok", "other"}, CallEnds(p, v) PROVE KeysKept
    <2> DEFINE x == Ev("CONN", p, v)
    <2>1. /\ p \in air.accepted \cup air.asked /\ Tell(<<x>>)
          /\ air' = IF v = "ok" THEN [Linked(air, p) EXCEPT !.slave = @ \cup {p}]
                    ELSE [air EXCEPT !.asked = @ \ {p}, !.accepted = @ \ {p}]
      BY <1>9 DEF CallEnds
    <2>2. x \in Events /\ x.e = "CONN" /\ x.v = v
      BY DEF Events, Ev, Who, Values
    <2> HIDE DEF x
    <2>3. CASE v = "ok"
      <3>1. air'.up = air.up \cup {p} /\ air'.quiet = air.quiet \cup {p} /\ air'.auth = air.auth
        BY <1>1, <2>1, <2>3 DEF Linked, AirStates
      <3>2. AirAuth(air')
        BY <1>1, <1>3, <2>1, <3>1 DEF AirAuth
      <3>3. Arrival(x)
        BY <2>2, <2>3 DEF Arrival
      <3> QED BY <1>1, <2>1, <2>2, <3>1, <3>2, <3>3, OneTellsKeys
    <2>4. CASE v # "ok"
      <3>1. air'.up = air.up /\ air'.quiet = air.quiet /\ air'.auth = air.auth
        BY <1>1, <2>1, <2>4 DEF AirStates
      <3>2. AirAuth(air')
        BY <1>1, <3>1 DEF AirAuth
      <3> QED BY <1>1, <2>1, <2>2, <3>1, <3>2, OneTellsKeys
    <2> QED BY <2>3, <2>4
  <1>10. ASSUME NEW p \in Peers, NEW v \in {"ok", "reject", "other"}, AuthenticationEnds(p, v) PROVE KeysKept
    <2> DEFINE x == Ev("AUTH", p, v)
               y == Ev("NEWKEY", p, "")
    <2>1. /\ air.auth = p /\ (v = "reject" => p \in forgot) /\ air' = [air EXCEPT !.auth = None]
          /\ Tell((IF v = "ok" THEN KeyEvents(p) ELSE <<>>) \o <<x>>)
      BY <1>10 DEF AuthenticationEnds
    <2>2. /\ x \in Events /\ x.e = "AUTH" /\ x.v = v /\ y \in Events /\ y.e = "NEWKEY"
          /\ v # "reject" => x \in Unread
      BY DEF Events, Unread, Ev, Who, Values
    <2>3. KeyEvents(p) = <<>> \/ KeyEvents(p) = <<y>>
      BY DEF KeyEvents
    <2>4. air'.up = air.up /\ air'.quiet = air.quiet /\ air'.auth = None /\ air.auth # None
      BY <1>1, <2>1 DEF AirStates
    <2>5. AirAuth(air')
      BY <2>4 DEF AirAuth
    <2> HIDE DEF y
    <2>6. v = "reject" => x = Ev("AUTH", p, "reject")
      OBVIOUS
    <2> HIDE DEF x
    <2>7. <<>> \o <<x>> = <<x>>
      <3>1. <<x>> \in Seq(Events)
        BY <2>2
      <3> QED BY <3>1, ConcatEmptySeq
    <2>8. CASE v = "ok" /\ KeyEvents(p) = <<y>>
      <3>1. Tell(<<y>> \o <<x>>) /\ <<x>> \in Seq(Unread)
        BY <2>1, <2>2, <2>8
      <3> QED BY <1>1, <2>2, <2>4, <2>5, <3>1, MoreTellKeys
    <2>9. CASE ~(v = "ok" /\ KeyEvents(p) = <<y>>)
      <3>1. (IF v = "ok" THEN KeyEvents(p) ELSE <<>>) = <<>>
        BY <2>3, <2>9
      <3>2. Tell(<<x>>)
        BY <2>1, <2>7, <3>1
      <3>3. CASE v # "reject"
        BY <1>1, <2>2, <2>4, <2>5, <3>2, <3>3, OneTellsKeys
      <3>4. CASE v = "reject"
        <4>1. evq = <<>> /\ Handle(Ev("AUTH", p, "reject")) /\ evq' = <<>>
          BY <2>6, <3>2, <3>4, TellsOne
        <4> QED BY <2>1, <3>4, <4>1, KeyInvRefused DEF KeysKept
      <3> QED BY <3>3, <3>4
    <2> QED BY <2>8, <2>9
  <1>11. ASSUME NEW p \in Peers, PeerSecures(p) PROVE KeysKept
    <2> DEFINE x == Ev("KEYREQ", p, "")
               y == Ev("NEWKEY", p, "")
               z == Ev("ENC", p, "on")
    <2>1. /\ p \in air.quiet /\ air' = [air EXCEPT !.quiet = @ \ {p}, !.enc = @ \cup {p}]
          /\ Tell(<<x>> \o KeyEvents(p) \o <<z>>)
      BY <1>11 DEF PeerSecures
    <2>2. /\ x \in Unread /\ y \in Unread /\ z \in Unread /\ x.e = "KEYREQ"
      BY DEF Unread, Ev, Values
    <2>3. KeyEvents(p) = <<>> \/ KeyEvents(p) = <<y>>
      BY DEF KeyEvents
    <2> HIDE DEF x, y, z
    <2>4. air'.up = air.up /\ air'.quiet = air.quiet \ {p} /\ air'.auth = air.auth /\ air.quiet # {}
      BY <1>1, <2>1 DEF AirStates
    <2>5. AirAuth(air') /\ air'.quiet \subseteq air.quiet
      BY <1>1, <2>4 DEF AirAuth
    <2>6. x \in Events /\ <<x>> \in Seq(Unread) /\ <<y>> \in Seq(Unread) /\ <<z>> \in Seq(Unread)
      BY <2>2, UnreadAreEvents
    <2>7. CASE KeyEvents(p) = <<>>
      <3>1. Tell(<<x>> \o <<z>>)
        <4>1. <<x>> \o <<>> = <<x>>
          BY <2>6, ConcatEmptySeq
        <4> QED BY <2>1, <2>7, <4>1
      <3> QED BY <1>1, <2>2, <2>4, <2>5, <2>6, <3>1, MoreTellKeys
    <2>8. CASE KeyEvents(p) = <<y>>
      <3> DEFINE s == <<y>> \o <<z>>
      <3>1. (<<x>> \o <<y>>) \o <<z>> = <<x>> \o s
        BY <2>6, ConcatAssociative
      <3>2. s \in Seq(Unread)
        BY <2>6, ConcatProperties
      <3> HIDE DEF s
      <3>3. Tell(<<x>> \o s)
        BY <2>1, <2>8, <3>1
      <3> QED BY <1>1, <2>2, <2>4, <2>5, <2>6, <3>2, <3>3, MoreTellKeys
    <2> QED BY <2>3, <2>7, <2>8
  <1> QED BY <1>5, <1>6, <1>7, <1>8, <1>9, <1>10, <1>11 DEF Air

\* The calls leave the queue and the air alone.
LEMMA CallsKeys ==
  ASSUME Agreement, KeyInv, EngineCalls
  PROVE  KeysKept
  <1>1. /\ QueueOwned(cmds, slot.busy) /\ Asks(eng, cmds, attempt) /\ AirAuth(air)
        /\ astray = {} => Judged(eng, cmds, attempt, air, au, lk.bd, evq, forgot)
    BY DEF KeyInv
  <1>2. /\ lk \in LinkStates /\ au \in Securities /\ air \in AirStates /\ HostAgrees /\ None \notin Peers
    BY EngineConstants DEF Agreement, EngineTypes, HostTypes, AirTypes
  <1>3. ASSUME NEW op \in {"PREPARE", "INQUIRY", "PAGE", "PAIR", "DISCONNECT"}, NEW sub, NEW n, NEW b,
               Start(op, sub, n, b), astray \subseteq astray', op = "PREPARE" \/ attempt' = op,
               op # "DISCONNECT" => attempt \in {"NONE", "INQUIRY", "PAGE"}, op = "DISCONNECT" => attempt # "NONE",
               op \in {"PREPARE", "INQUIRY", "PAGE"} => sub \in {"setup", "issue"},
               op = "PAIR" => sub = "enter", op = "PREPARE" => attempt' = attempt
        PROVE  KeysKept
    <2>1. /\ eng.op = "NONE" /\ eng' = [op |-> op, sub |-> sub, n |-> n, inbound |-> b]
          /\ UNCHANGED <<slot, bonded, cmds, evq, air, forgot>>
      BY <1>3 DEF Start
    <2>2. eng'.op = op /\ eng'.sub = sub
      BY <2>1
    <2>3. ~Queued(cmds)
      BY <1>1, <2>1 DEF Asks
    <2>4. Asks(eng, cmds, attempt)' /\ AirAuth(air)' /\ QueueOwned(cmds, slot.busy)'
      BY <1>1, <1>3, <2>1, <2>2, <2>3 DEF Asks
    <2>5. ASSUME astray' = {} PROVE Judged(eng, cmds, attempt, air, au, lk.bd, evq, forgot)'
      <3>1. Judged(eng, cmds, attempt, air, au, lk.bd, evq, forgot)
        BY <1>1, <1>3, <2>5
      <3>2. op # "DISCONNECT" => air.auth = None
        BY <1>3, <3>1 DEF Judged
      <3>3. ~First(eng)' /\ (Early(eng, cmds)' => eng'.op = "PAIR" /\ eng'.sub = "enter")
        BY <1>3, <2>2 DEF First, Early
      <3>4. air'.auth # None => attempt' \in {"PAIR", "DISCONNECT"} /\ ~Early(eng, cmds)'
        BY <1>3, <2>1, <2>2, <3>2, <3>3
      <3> QED BY <3>3, <3>4 DEF Judged
    <2> QED BY <2>1, <2>4, <2>5 DEF KeyInv, KeysKept
  <1>4. ASSUME UNCHANGED <<eng, slot, au, cmds, evq, air, forgot, astray, bonded>>, lk'.bd = lk.bd,
               attempt' = attempt \/ (eng.op = "NONE" /\ (astray = {} => air.auth = None))
        PROVE  KeysKept
    <2>1. Asks(eng, cmds, attempt)' /\ AirAuth(air)' /\ QueueOwned(cmds, slot.busy)'
      BY <1>1, <1>4 DEF Asks
    <2>2. ASSUME astray' = {} PROVE Judged(eng, cmds, attempt, air, au, lk.bd, evq, forgot)'
      <3>1. Judged(eng, cmds, attempt, air, au, lk.bd, evq, forgot)
        BY <1>1, <1>4, <2>2
      <3> QED BY <1>4, <2>2, <3>1 DEF Judged
    <2> QED BY <1>4, <2>1, <2>2 DEF KeyInv, KeysKept
  <1>5. CASE StartPrepare
    <2>1. Start("PREPARE", "setup", 0, FALSE) /\ attempt = "NONE" /\ UNCHANGED <<astray, attempt>>
      BY <1>5 DEF StartPrepare
    <2> QED BY <1>3, <2>1
  <1>6. CASE StartInquiry
    <2>1. Start("INQUIRY", "issue", 0, FALSE) /\ attempt = "NONE" /\ attempt' = "INQUIRY" /\ UNCHANGED astray
      BY <1>6 DEF StartInquiry
    <2> QED BY <1>3, <2>1
  <1>7. CASE StartDisconnect
    <2>1. Start("DISCONNECT", "issue", 0, FALSE) /\ attempt # "NONE" /\ attempt' = "DISCONNECT" /\ UNCHANGED astray
      BY <1>7 DEF StartDisconnect
    <2> QED BY <1>3, <2>1
  <1>8. ASSUME NEW p \in Peers, StartPage(p) PROVE KeysKept
    <2>1. /\ Start("PAGE", "issue", 1, FALSE) /\ attempt \in {"NONE", "INQUIRY"} /\ attempt' = "PAGE"
          /\ astray \subseteq astray'
      BY <1>8 DEF StartPage
    <2> QED BY <1>3, <2>1
  <1>9. ASSUME NEW b \in BOOLEAN, StartPair(b) PROVE KeysKept
    <2>1. Start("PAIR", "enter", 0, b) /\ attempt \in {"NONE", "PAGE"} /\ attempt' = "PAIR" /\ UNCHANGED astray
      BY <1>9 DEF StartPair
    <2> QED BY <1>3, <2>1
  <1>10. CASE AckLost
    <2>1. /\ UNCHANGED <<eng, slot, au, cmds, evq, air, forgot, astray, bonded, attempt>>
          /\ lk' = [lk EXCEPT !.st = "NONE"]
      BY <1>10 DEF AckLost, airVars
    <2>2. lk'.bd = lk.bd
      BY <1>2, <2>1 DEF LinkStates
    <2> QED BY <1>4, <2>1, <2>2
  <1>11. CASE AttemptEnds
    <2>1. /\ UNCHANGED <<eng, slot, lk, au, cmds, evq, air, forgot, astray, bonded>>
          /\ eng.op = "NONE" /\ lk.handle = None
      BY <1>11 DEF AttemptEnds, airVars
    <2>2. astray = {} => air.auth = None
      BY <1>1, <1>2, <2>1 DEF HostAgrees, AirAuth, AirStates
    <2> QED BY <1>4, <2>1, <2>2
  <1>12. CASE WantScan
    <2>1. UNCHANGED <<eng, slot, lk, au, cmds, evq, air, forgot, astray, bonded, attempt>>
      BY <1>12 DEF WantScan, airVars
    <2> QED BY <1>4, <2>1
  <1> QED BY <1>5, <1>6, <1>7, <1>8, <1>9, <1>10, <1>11, <1>12 DEF EngineCalls

LEMMA ReconcileScanKeys ==
  ASSUME Agreement, KeyInv, ReconcileScan
  PROVE  KeysKept
  <1>1. /\ QueueOwned(cmds, slot.busy) /\ Asks(eng, cmds, attempt) /\ AirAuth(air)
        /\ astray = {} => Judged(eng, cmds, attempt, air, au, lk.bd, evq, forgot)
    BY DEF KeyInv
  <1>2. HostTypes /\ lk \in LinkStates
    BY DEF Agreement, EngineTypes, HostTypes
  <1>3. /\ UNCHANGED <<eng, au, bonded, evq, air, forgot, astray, attempt>> /\ ~slot.busy
        /\ lk' = lk \/ lk' = [lk EXCEPT !.supDone = TRUE]
        /\ \E c \in {"SCAN_ON", "SCAN_OFF", "SUPERVISION"} : Issue(c, None)
    BY DEF ReconcileScan, airVars
  <1>4. PICK c \in {"SCAN_ON", "SCAN_OFF", "SUPERVISION"} : Issue(c, None)
    BY <1>3
  <1>5. c \in Commands /\ c # "CREATE" /\ c # "AUTH" /\ None \in Who
    BY DEF Commands, Who
  <1>6. QueueOwned(cmds, slot.busy)' /\ ~Queued(cmds')
    BY <1>1, <1>2, <1>3, <1>4, <1>5, IssueOwned
  <1>7. lk'.bd = lk.bd
    BY <1>2, <1>3 DEF LinkStates
  <1>8. Asks(eng, cmds, attempt)' /\ AirAuth(air)'
    BY <1>1, <1>3, <1>6 DEF Asks
  <1>9. Early(eng, cmds)' => Early(eng, cmds)
    BY <1>3, <1>6 DEF Early
  <1>10. ASSUME astray' = {} PROVE Judged(eng, cmds, attempt, air, au, lk.bd, evq, forgot)'
    <2>1. Judged(eng, cmds, attempt, air, au, lk.bd, evq, forgot)
      BY <1>1, <1>3, <1>10
    <2>2. First(eng)' => First(eng)
      BY <1>3 DEF First
    <2> QED BY <1>3, <1>7, <1>9, <2>1, <2>2 DEF Judged
  <1> QED BY <1>3, <1>6, <1>8, <1>10 DEF KeyInv, KeysKept

LEMMA QuietOwned ==
  ASSUME HostTypes, QueueOwned(cmds, slot.busy), ~slot.busy, Quiet
  PROVE  QueueOwned(cmds, slot.busy)' /\ ~Queued(cmds')
  <1>1. cmds' = cmds /\ slot'.busy = slot.busy
    BY DEF Quiet, HostTypes
  <1>2. ~Queued(cmds)
    BY QueueFree
  <1> QED BY <1>1, <1>2 DEF QueueOwned

\* The steps that pair nothing ask for no authentication.
LEMMA PlainSteps ==
  ASSUME EngineTypes, QueueOwned(cmds, slot.busy), Prepare \/ Inquiry \/ Page \/ OpDisconnect
  PROVE  eng.op # "PAIR" /\ QueueOwned(cmds, slot.busy)' /\ ~Queued(cmds') /\ bonded' = bonded
  <1>1. HostTypes /\ OperationOK(eng, lk) /\ lk.handle \in Who /\ None \in Who /\ lk.bd \in Who
    BY DEF EngineTypes, HostTypes, OperationTypes, LinkStates, Who
  <1>2. ASSUME NEW op, NEW sub, Turn(op, sub), Quiet \/ \E c \in Commands \ {"AUTH", "CREATE"} : \E p \in Who : Issue(c, p)
        PROVE  eng.op = op /\ QueueOwned(cmds, slot.busy)' /\ ~Queued(cmds')
    <2>1. eng.op = op /\ ~slot.busy
      BY <1>2 DEF Turn
    <2>2. CASE Quiet
      BY <1>1, <2>1, <2>2, QuietOwned
    <2>3. ASSUME NEW c \in Commands \ {"AUTH", "CREATE"}, NEW p \in Who, Issue(c, p)
          PROVE  QueueOwned(cmds, slot.busy)' /\ ~Queued(cmds')
      BY <1>1, <2>1, <2>3, IssueOwned
    <2> QED BY <1>2, <2>1, <2>2, <2>3
  <1>3. /\ {"SETUP", "INQUIRY", "NAME", "CANCEL", "DISC"} \subseteq Commands \ {"AUTH", "CREATE"}
        /\ "CREATE" \in Commands
    BY DEF Commands
  <1>4. CASE Prepare
    <2>1. Turn("PREPARE", "setup") /\ (Issue("SETUP", None) \/ Quiet) /\ bonded' = bonded
      BY <1>4 DEF Prepare
    <2> QED BY <1>1, <1>2, <1>3, <2>1
  <1>5. CASE Inquiry
    <2>1. /\ \E sub \in Subs : Turn("INQUIRY", sub)
          /\ Issue("INQUIRY", None) \/ Issue("NAME", None) \/ Quiet
          /\ bonded' = bonded
      BY <1>5 DEF Inquiry, Send, Subs
    <2> QED BY <1>1, <1>2, <1>3, <2>1
  <1>6. CASE Page
    <2>1. /\ \E sub \in Subs : Turn("PAGE", sub)
          /\ Issue("CREATE", lk.bd) \/ Issue("CANCEL", lk.bd) \/ Quiet
          /\ bonded' = bonded
      BY <1>6 DEF Page, Send, Subs
    <2>2. CASE Issue("CREATE", lk.bd)
      <3>1. eng.op = "PAGE" /\ ~slot.busy
        BY <2>1 DEF Turn
      <3>2. lk.bd \in Peers
        BY <1>1, <3>1 DEF OperationOK
      <3> QED BY <1>1, <1>3, <2>1, <2>2, <3>1, <3>2, IssueOwned
    <2> QED BY <1>1, <1>2, <1>3, <2>1, <2>2
  <1>7. CASE OpDisconnect
    <2>1. /\ \E sub \in Subs : Turn("DISCONNECT", sub)
          /\ Issue("DISC", lk.handle) \/ Quiet
          /\ bonded' = bonded
      BY <1>7 DEF OpDisconnect, Send, Subs
    <2> QED BY <1>1, <1>2, <1>3, <2>1
  <1> QED BY <1>4, <1>5, <1>6, <1>7

\* The ladder of a pairing: how it comes to its first authentication, and past it.
Later ==
  {"fresh_issue", "fresh_wait", "post", "enc_issue", "ssp_issue", "pin_wait", "enc_wait"}
Erases == au.offered /\ au.auth = "reject" /\ bonded' = bonded \ {lk.bd}
Ladder ==
  \/ Quiet /\ eng'.op = "NONE" /\ bonded' = bonded
  \/ /\ Quiet /\ eng.sub \in {"enter", "peer"} /\ eng'.op = "PAIR" /\ bonded' = bonded
     /\ eng'.sub = "peer" \/ (eng'.sub = "auth_issue" /\ au'.auth = "none")
  \/ Quiet /\ eng.sub = "auth_status" /\ eng'.op = "PAIR" /\ eng'.sub = "auth_wait" /\ UNCHANGED <<au, bonded>>
  \/ Quiet /\ eng'.op = "PAIR" /\ eng'.sub \in Later /\ (bonded' = bonded \/ (eng.sub = "auth_wait" /\ Erases))
  \/ /\ eng.sub = "auth_issue" /\ Issue("AUTH", lk.handle) /\ eng'.op = "PAIR" /\ eng'.sub = "auth_status"
     /\ UNCHANGED <<au, bonded>>
  \/ /\ Issue("AUTH", lk.handle) /\ eng'.op = "PAIR" /\ eng'.sub \in {"fresh_status", "pin_status"}
     /\ bonded' = bonded
  \/ /\ Issue("SETUP", None) \/ Issue("ENC", lk.handle)
     /\ eng'.op = "PAIR" /\ eng'.sub \in {"pin_issue", "enc_status"} /\ bonded' = bonded

LEMMA PairLadder ==
  ASSUME EngineTypes, Pair
  PROVE  eng.op = "PAIR" /\ ~slot.busy /\ Ladder
  <1>1. OperationOK(eng, lk) /\ au \in Securities
    BY DEF EngineTypes, HostTypes, OperationTypes
  <1>2. ASSUME NEW sub, Turn("PAIR", sub) PROVE eng.op = "PAIR" /\ ~slot.busy /\ eng.sub = sub
    BY <1>2 DEF Turn
  <1>3. ASSUME NEW next, Go(next) PROVE eng'.op = eng.op /\ eng'.sub = next
    BY <1>1, <1>3 DEF Go, OperationOK
  <1>4. ASSUME NEW r, Finish(r) PROVE eng'.op = "NONE"
    BY <1>4 DEF Finish, Idle
  <1>5. FreshAuth.auth = "none"
    BY <1>1 DEF FreshAuth, Securities
  <1>6. CASE /\ Turn("PAIR", "enter") /\ Quiet /\ UNCHANGED bonded
             /\ IF eng.inbound THEN Go("peer") /\ UNCHANGED au ELSE Go("auth_issue") /\ au' = FreshAuth
    BY <1>2, <1>3, <1>5, <1>6 DEF Ladder
  <1>7. CASE /\ Turn("PAIR", "peer") /\ Quiet /\ UNCHANGED bonded
             /\ IF Secured THEN Finish("OK") /\ UNCHANGED au ELSE Go("auth_issue") /\ au' = FreshAuth
    BY <1>2, <1>3, <1>4, <1>5, <1>7 DEF Ladder
  <1>8. CASE Turn("PAIR", "auth_issue") /\ Send("AUTH", lk.handle, "auth_status") /\ UNCHANGED au
    BY <1>2, <1>3, <1>8 DEF Ladder, Send
  <1>9. CASE PairStatus("auth_status", "auth_wait", "FAILED")
    BY <1>2, <1>3, <1>4, <1>9 DEF Ladder, PairStatus
  <1>10. CASE PairOutcome
    <2>1. /\ Turn("PAIR", "auth_wait") /\ Quiet
          /\ \/ Go("post") /\ UNCHANGED bonded
             \/ Go("fresh_issue") /\ Erases
             \/ Finish("FAILED") /\ UNCHANGED bonded
      BY <1>10 DEF PairOutcome, Rejected, Erases
    <2> QED BY <1>2, <1>3, <1>4, <2>1 DEF Ladder, Later
  <1>11. CASE Turn("PAIR", "fresh_issue") /\ Send("AUTH", lk.handle, "fresh_status") /\ UNCHANGED au
    BY <1>2, <1>3, <1>11 DEF Ladder, Send
  <1>12. CASE \/ PairStatus("fresh_status", "fresh_wait", "FAILED")
              \/ PairStatus("pin_status", "pin_wait", "FAILED")
              \/ PairStatus("enc_status", "enc_wait", "FAILED")
    BY <1>2, <1>3, <1>4, <1>12 DEF Ladder, Later, PairStatus
  <1>13. CASE Turn("PAIR", "fresh_wait") /\ Go("post") /\ Quiet /\ UNCHANGED <<au, bonded>>
    BY <1>2, <1>3, <1>13 DEF Ladder, Later
  <1>14. CASE /\ Turn("PAIR", "post") /\ Quiet /\ UNCHANGED <<au, bonded>>
              /\ Go(IF au.auth = "ok" THEN "enc_issue" ELSE "ssp_issue")
    <2>1. eng'.op = eng.op /\ eng'.sub \in {"enc_issue", "ssp_issue"}
      BY <1>3, <1>14
    <2> QED BY <1>2, <1>14, <2>1 DEF Ladder, Later
  <1>15. CASE Turn("PAIR", "ssp_issue") /\ Send("SETUP", None, "pin_issue") /\ UNCHANGED au
    BY <1>2, <1>3, <1>15 DEF Ladder, Send
  <1>16. CASE Turn("PAIR", "pin_issue") /\ Send("AUTH", lk.handle, "pin_status") /\ au' = FreshAuth
    BY <1>2, <1>3, <1>16 DEF Ladder, Send
  <1>17. CASE /\ Turn("PAIR", "pin_wait") /\ Quiet /\ UNCHANGED <<au, bonded>>
              /\ IF au.auth = "ok" THEN Go("enc_issue") ELSE Finish("FAILED")
    BY <1>2, <1>3, <1>4, <1>17 DEF Ladder, Later
  <1>18. CASE Turn("PAIR", "enc_issue") /\ Send("ENC", lk.handle, "enc_status") /\ au' = [au EXCEPT !.enc = "none"]
    BY <1>2, <1>3, <1>18 DEF Ladder, Send
  <1>19. CASE /\ Turn("PAIR", "enc_wait") /\ Quiet /\ UNCHANGED <<au, bonded>>
              /\ Finish(IF Secured THEN "OK" ELSE "FAILED")
    BY <1>2, <1>4, <1>19 DEF Ladder
  <1> QED BY <1>6, <1>7, <1>8, <1>9, <1>10, <1>11, <1>12, <1>13, <1>14, <1>15, <1>16, <1>17, <1>18, <1>19 DEF Pair

LEMMA LadderQueue ==
  ASSUME EngineTypes, QueueOwned(cmds, slot.busy), eng.op = "PAIR", ~slot.busy, Ladder
  PROVE  /\ QueueOwned(cmds, slot.busy)'
         /\ Queued(cmds') => eng'.op = "PAIR" /\ eng'.sub \in Asking
  <1>1. HostTypes /\ lk.handle \in Who /\ None \in Who
    BY DEF EngineTypes, HostTypes, LinkStates, Who
  <1>2. {"AUTH", "SETUP", "ENC"} \subseteq Commands
    BY DEF Commands
  <1>3. CASE Quiet
    BY <1>1, <1>3, QuietOwned
  <1>4. CASE Issue("AUTH", lk.handle) /\ eng'.op = "PAIR" /\ eng'.sub \in Asking
    BY <1>1, <1>2, <1>4, IssueOwned
  <1>5. CASE Issue("SETUP", None) \/ Issue("ENC", lk.handle)
    <2>1. CASE Issue("SETUP", None)
      BY <1>1, <1>2, <2>1, IssueOwned
    <2>2. CASE Issue("ENC", lk.handle)
      BY <1>1, <1>2, <2>2, IssueOwned
    <2> QED BY <1>5, <2>1, <2>2
  <1> QED BY <1>3, <1>4, <1>5 DEF Ladder, Asking

LEMMA OpStepKeys ==
  ASSUME Agreement, KeyInv, OpStep
  PROVE  /\ KeyInv'
         /\ bonded' = bonded \/ (bonded \ bonded' \subseteq {lk.bd} /\ (lk.bd \in forgot \/ astray # {}))
  <1>1. /\ QueueOwned(cmds, slot.busy) /\ Asks(eng, cmds, attempt) /\ AirAuth(air)
        /\ astray = {} => Judged(eng, cmds, attempt, air, au, lk.bd, evq, forgot)
    BY DEF KeyInv
  <1>2. EngineTypes
    BY DEF Agreement
  <1>3. /\ UNCHANGED <<evq, air, forgot, attempt>> /\ OpResult /\ lk'.bd = lk.bd /\ astray \subseteq astray'
    BY <1>2, OpStepMoves DEF AirKept
  <1>4. eng'.op \in {eng.op, "NONE"}
    BY <1>3 DEF OpResult, StaysAtIt, Concludes
  <1>5. AirAuth(air)'
    BY <1>1, <1>3 DEF AirAuth
  <1>6. CASE Prepare \/ Inquiry \/ Page \/ OpDisconnect
    <2>1. eng.op # "PAIR" /\ QueueOwned(cmds, slot.busy)' /\ ~Queued(cmds') /\ bonded' = bonded
      BY <1>1, <1>2, <1>6, PlainSteps
    <2>2. Asks(eng, cmds, attempt)'
      BY <1>1, <1>3, <1>4, <2>1 DEF Asks
    <2>3. ~Early(eng, cmds)' /\ ~First(eng)'
      BY <1>4, <2>1 DEF Early, First
    <2>4. ASSUME astray' = {} PROVE Judged(eng, cmds, attempt, air, au, lk.bd, evq, forgot)'
      <3>1. Judged(eng, cmds, attempt, air, au, lk.bd, evq, forgot)
        BY <1>1, <1>3, <2>4
      <3> QED BY <1>3, <2>3, <3>1 DEF Judged
    <2> QED BY <1>5, <2>1, <2>2, <2>4 DEF KeyInv
  <1>7. CASE Pair
    <2>1. eng.op = "PAIR" /\ ~slot.busy /\ Ladder
      BY <1>2, <1>7, PairLadder
    <2>2. /\ QueueOwned(cmds, slot.busy)'
          /\ Queued(cmds') => eng'.op = "PAIR" /\ eng'.sub \in Asking
      BY <1>1, <1>2, <2>1, LadderQueue
    <2>3. Asks(eng, cmds, attempt)'
      BY <1>1, <1>3, <1>4, <2>1, <2>2 DEF Asks
    <2>4. First(eng)' => (eng.sub = "auth_issue" \/ eng.sub = "auth_status") /\ UNCHANGED au
      BY <2>1 DEF First, Ladder, Later
    <2>5. Early(eng, cmds)' => /\ Early(eng, cmds)
                               /\ \/ eng'.sub \in {"enter", "peer"} \/ au'.auth = "none"
                                  \/ eng.sub = "auth_issue" /\ UNCHANGED au
      <3>1. CASE Quiet
        <4>1. ~Queued(cmds')
          <5>1. HostTypes
            BY <1>2 DEF EngineTypes
          <5> QED BY <1>1, <2>1, <3>1, <5>1, QuietOwned
        <4> QED BY <2>1, <4>1 DEF Ladder, Early, Later
      <3>2. CASE ~Quiet
        BY <2>1, <3>2 DEF Ladder, Early
      <3> QED BY <3>1, <3>2
    <2>6. ASSUME astray' = {} PROVE Judged(eng, cmds, attempt, air, au, lk.bd, evq, forgot)'
      <3>1. Judged(eng, cmds, attempt, air, au, lk.bd, evq, forgot)
        BY <1>1, <1>3, <2>6
      <3>2. air'.auth # None => attempt' \in {"PAIR", "DISCONNECT"} /\ ~Early(eng, cmds)'
        BY <1>3, <2>5, <3>1 DEF Judged
      <3>3. Early(eng, cmds)' /\ eng'.sub \notin {"enter", "peer"} => au'.auth # "reject"
        BY <2>5, <3>1 DEF Judged
      <3>4. ASSUME First(eng)', au'.auth = "reject"
            PROVE  (au'.offered => lk'.bd \in forgot') /\ air'.auth = None /\ air'.quiet = {} /\ ~Keyed(evq')
        <4>1. UNCHANGED au /\ eng.sub # "auth_issue"
          <5>1. eng.sub = "auth_issue" => Early(eng, cmds) /\ eng.sub \notin {"enter", "peer"}
            BY <2>1 DEF Early
          <5> QED BY <2>4, <3>1, <3>4, <5>1 DEF Judged
        <4>2. First(eng)
          BY <2>1, <2>4, <3>4, <4>1 DEF First
        <4> QED BY <1>3, <3>1, <3>4, <4>1, <4>2 DEF Judged
      <3> QED BY <3>2, <3>3, <3>4 DEF Judged
    <2>7. bonded' = bonded \/ (bonded \ bonded' \subseteq {lk.bd} /\ (lk.bd \in forgot \/ astray # {}))
      <3>1. bonded' = bonded \/ (eng.sub = "auth_wait" /\ Erases)
        BY <2>1 DEF Ladder
      <3>2. CASE eng.sub = "auth_wait" /\ Erases
        <4>1. First(eng)
          BY <2>1, <3>2 DEF First
        <4>2. astray = {} => lk.bd \in forgot
          BY <1>1, <3>2, <4>1 DEF Judged, Erases
        <4> QED BY <3>2, <4>2 DEF Erases
      <3> QED BY <3>1, <3>2
    <2> QED BY <1>5, <2>2, <2>3, <2>6, <2>7 DEF KeyInv
  <1> QED BY <1>6, <1>7 DEF OpStep

LEMMA KeysStart ==
  ASSUME EngineInit
  PROVE  KeyInv
  <1>1. /\ eng = [op |-> "NONE", sub |-> "", n |-> 0, inbound |-> FALSE] /\ cmds = <<>> /\ air.auth = None
    BY DEF EngineInit, Idle
  <1>2. eng.op = "NONE" /\ (\A i \in DOMAIN cmds : FALSE)
    <2>1. \A i \in DOMAIN <<>> : FALSE
      OBVIOUS
    <2>2. cmds = <<>> /\ eng.op = "NONE"
      BY <1>1
    <2> QED BY <2>1, <2>2
  <1>3. ~Queued(cmds) /\ QueueOwned(cmds, slot.busy) /\ ~Early(eng, cmds) /\ ~First(eng)
    BY <1>2 DEF Queued, QueueOwned, Early, First
  <1> QED BY <1>1, <1>2, <1>3 DEF KeyInv, Asks, AirAuth, Judged

LEMMA KeysStep ==
  ASSUME Agreement, KeyInv, [EngineNext]_engineVars
  PROVE  /\ KeyInv'
         /\ \A p \in bonded \ bonded' : p \in forgot \/ astray # {}
  <1>1. CASE EngineCalls
    BY <1>1, CallsKeys DEF KeysKept
  <1>2. CASE ReconcileScan
    BY <1>2, ReconcileScanKeys DEF KeysKept
  <1>3. CASE OpStep
    BY <1>3, OpStepKeys
  <1>4. CASE OnEvent
    BY <1>4, OnEventKeys DEF KeysKept
  <1>5. CASE Execute
    BY <1>5, ExecuteKeys DEF KeysKept
  <1>6. CASE Air
    BY <1>6, AirKeys DEF KeysKept
  <1>7. CASE UNCHANGED engineVars
    <2>1. UNCHANGED <<eng, slot, lk, au, bonded, cmds, evq, air, forgot, astray, attempt>>
      BY <1>7 DEF engineVars, hostVars, airVars
    <2>2. QueueOwned(cmds, slot.busy)' /\ Asks(eng, cmds, attempt)' /\ AirAuth(air)'
      BY <2>1 DEF KeyInv, QueueOwned, Asks, AirAuth
    <2>3. (astray = {} => Judged(eng, cmds, attempt, air, au, lk.bd, evq, forgot))'
      BY <2>1 DEF KeyInv, Judged
    <2> QED BY <2>1, <2>2, <2>3 DEF KeyInv
  <1> QED BY <1>1, <1>2, <1>3, <1>4, <1>5, <1>6, <1>7 DEF EngineNext

\* The ladder of BtLink.cpp:392-416 erases a bond only when its peer has really lost the key, or
\* a link is astray: no late end of another authentication costs a pairing that works.
THEOREM EngineKeepsKeys == EngineSpec => KeyErasedOnlyIfForgotten
  <1>1. EngineInit => KeyInv
    BY KeysStart
  <1>2. Agreement /\ KeyInv /\ [EngineNext]_engineVars => KeyInv'
    BY KeysStep
  <1>3. Agreement /\ KeyInv /\ [EngineNext]_engineVars => [\A p \in bonded \ bonded' : p \in forgot \/ astray # {}]_engineVars
    BY KeysStep
  <1> QED BY <1>1, <1>2, <1>3, EngineAgreement, PTL DEF EngineSpec, KeyErasedOnlyIfForgotten
=============================================================================
