--------------------------- MODULE MediaRingProofs ---------------------------
(***************************************************************************)
(* Proofs about MediaRing, for every size of the ring and of a packet and  *)
(* any number of frames: indices and frames are well typed, as long as     *)
(* nothing was dropped the sink gets every frame once and in order, and    *)
(* no frame is lost that was not counted.                                  *)
(***************************************************************************)
EXTENDS MediaRing, SequenceTheorems, FiniteSetTheorems, TLAPS

-----------------------------------------------------------------------------
(* Arithmetic modulo the size of the ring.                                   *)

LEMMA ModRange ==
  ASSUME NEW d \in Nat \ {0}, NEW x \in Int
  PROVE  x % d \in 0..d-1
  OBVIOUS

LEMMA ModUnique ==
  ASSUME NEW d \in Nat \ {0}, NEW q \in Int, NEW r \in 0..d-1
  PROVE  (d * q + r) % d = r
  OBVIOUS

LEMMA ModSmall ==
  ASSUME NEW d \in Nat \ {0}, NEW r \in 0..d-1
  PROVE  r % d = r
  OBVIOUS

LEMMA ModDiv ==
  ASSUME NEW d \in Nat \ {0}, NEW x \in Int
  PROVE  /\ x \div d \in Int
         /\ x = d * (x \div d) + (x % d)
  OBVIOUS

\* A remainder may be taken early.
LEMMA ModAdd ==
  ASSUME NEW d \in Nat \ {0}, NEW x \in Int, NEW y \in Int
  PROVE  ((x % d) + y) % d = (x + y) % d
  <1> DEFINE q == x \div d
             z == (x % d) + y
             p == z \div d
             r == z % d
  <1>1. q \in Int /\ x = d * q + (x % d)
    BY ModDiv
  <1>2. z \in Int /\ p \in Int /\ z = d * p + r /\ r \in 0..d-1
    <2>1. z \in Int /\ r \in 0..d-1
      BY ModRange
    <2> HIDE DEF z
    <2>2. p \in Int /\ z = d * p + r
      BY <2>1, ModDiv
    <2> QED BY <2>1, <2>2
  <1>3. x + y = d * (q + p) + r
    BY <1>1, <1>2
  <1>4. (d * (q + p) + r) % d = r
    <2> HIDE DEF q, p, r, z
    <2> QED BY ModUnique, <1>1, <1>2
  <1> QED BY <1>3, <1>4

\* Numbers less than a lap apart have different remainders.
LEMMA ModApart ==
  ASSUME NEW d \in Nat \ {0}, NEW x \in Int, NEW k \in 1..d-1
  PROVE  (x + k) % d # x % d
  <1> DEFINE r == x % d
  <1>1. r \in 0..d-1
    BY ModRange
  <1>2. ((x % d) + k) % d = (x + k) % d
    <2>1. k \in Int
      OBVIOUS
    <2> QED BY <2>1, ModAdd
  <1>3. CASE r + k < d
    <2>1. (d * 0 + (r + k)) % d = r + k
      <3> HIDE DEF r
      <3> QED BY <1>1, <1>3, ModUnique
    <2> QED BY <2>1, <1>1, <1>2
  <1>4. CASE r + k >= d
    <2>1. (d * 1 + (r + k - d)) % d = r + k - d
      <3> HIDE DEF r
      <3> QED BY <1>1, <1>4, ModUnique
    <2> QED BY <2>1, <1>1, <1>2
  <1> QED BY <1>1, <1>3, <1>4

LEMMA SuccInRing == \A i \in Int : Succ(i) \in Slots
  BY ModRange, RingAssumption DEF Succ, Slots

LEMMA SuccInside ==
  ASSUME NEW i \in Nat, i + 1 < RING
  PROVE  Succ(i) = i + 1
  <1>1. RING \in Nat \ {0} /\ i + 1 \in 0..RING-1
    BY RingAssumption
  <1> QED BY <1>1, ModSmall DEF Succ

LEMMA AdvanceInRing ==
  ASSUME NEW c \in Slots, NEW a \in Slots, NEW n \in Nat
  PROVE  AdvanceRd(c, a, n) \in Slots
  <1>1. RING \in Nat \ {0} /\ a + n \in Int
    BY RingAssumption DEF Slots
  <1>2. (a + n) % RING \in Slots
    BY <1>1, ModRange DEF Slots
  <1> QED BY <1>2 DEF AdvanceRd

-----------------------------------------------------------------------------
(* Types.                                                                    *)

\* In the first lap the indices are in order; a slot below the number of frames pushed has been
\* written, so drain() never copies one that was not.
Written ==
  /\ drops <= pushed
  /\ pushed < RING => /\ wr = pushed /\ rd <= wr
                      /\ pc # "idle" => rd0 + Len(pkt) = cur /\ cur <= wr
  /\ \A s \in Slots : s < pushed => buf[s] # 0

LEMMA WrittenStep ==
  ASSUME TypeOK, Written, Next
  PROVE  TypeOK' /\ Written'
  <1> USE RingAssumption
  <1>0. Len(pkt) \in Nat /\ wr \in Int /\ rd \in Int /\ cur \in Int /\ rd0 \in Int
    BY DEF TypeOK, Slots
  <1>1. CASE Push
    <2>1. Succ(wr) \in Slots /\ Succ(rd) \in Slots
      BY <1>0, SuccInRing
    <2>2. TypeOK'
      BY <1>1, <2>1 DEF Push, TypeOK, drainVars, Written
    <2>3. ASSUME pushed' < RING
          PROVE  Succ(wr) = wr + 1 /\ wr = pushed /\ rd <= wr /\ wr + 1 < RING
      <3>1. wr = pushed /\ rd <= wr /\ wr + 1 < RING /\ wr \in Nat
        BY <2>3, <1>1 DEF Push, Written, TypeOK, Slots
      <3> QED BY <3>1, SuccInside
    <2>4. pushed' < RING => /\ wr' = pushed' /\ rd' <= wr'
                            /\ pc' # "idle" => rd0' + Len(pkt') = cur' /\ cur' <= wr'
      BY <2>3, <1>0, <1>1 DEF Push, Written, TypeOK, Full, drainVars
    <2>5. \A s \in Slots : s < pushed' => buf'[s] # 0
      BY <1>1 DEF Push, Written, TypeOK, Slots
    <2>6. drops' <= pushed'
      BY <1>1 DEF Push, Written, TypeOK
    <2> QED BY <2>2, <2>4, <2>5, <2>6 DEF Written
  <1>2. CASE StartPacket
    <2>1. pkt' \in Seq(1..MaxFrames) /\ Len(pkt') = 0
      BY <1>2 DEF StartPacket
    <2>2. TypeOK'
      BY <1>2, <2>1 DEF StartPacket, TypeOK
    <2>3. Written'
      BY <1>2, <2>1, <1>0 DEF StartPacket, Written, TypeOK
    <2> QED BY <2>2, <2>3
  <1>3. CASE Gather
    <2>1. cur < pushed
      BY <1>3 DEF Gather, TypeOK, Written, Slots
    <2>2. buf[cur] \in 1..MaxFrames
      BY <2>1 DEF TypeOK, Written, Slots
    <2>3. pkt' \in Seq(1..MaxFrames) /\ Len(pkt') = Len(pkt) + 1
      BY <1>3, <2>2, AppendProperties DEF Gather, TypeOK
    <2>4. Succ(cur) \in Slots
      BY <1>0, SuccInRing
    <2>5. TypeOK'
      BY <1>3, <2>3, <2>4, <1>0 DEF Gather, TypeOK
    <2>6. ASSUME pushed < RING
          PROVE  Succ(cur) = cur + 1 /\ cur + 1 <= wr
      <3>1. cur + 1 <= wr /\ wr < RING /\ cur \in Nat
        BY <2>6, <1>3 DEF Gather, Written, TypeOK, Slots
      <3> QED BY <3>1, <1>0, SuccInside
    <2>7. Written'
      BY <1>3, <2>3, <2>6, <1>0 DEF Gather, Written
    <2> QED BY <2>5, <2>7
  <1>4. CASE Gathered
    BY <1>4 DEF Gathered, TypeOK, Written
  <1>5. CASE Send
    <2>1. sent' \in Seq(1..MaxFrames)
      BY <1>5, ConcatProperties DEF Send, TypeOK
    <2> QED BY <1>5, <2>1 DEF Send, TypeOK, Written
  <1>6. CASE Refuse
    BY <1>6 DEF Refuse, TypeOK, Written
  <1>7. CASE Commit
    <2>1. rd' \in Slots
      BY <1>0, <1>7, AdvanceInRing DEF Commit, TypeOK
    <2>2. ASSUME pushed < RING
          PROVE  rd' <= wr
      <3>1. rd0 + Len(pkt) = cur /\ cur % RING = cur
        <4>1. rd0 + Len(pkt) = cur /\ cur \in 0..RING-1 /\ RING \in Nat \ {0}
          BY <2>2, <1>7 DEF Commit, Written, TypeOK, Slots
        <4> QED BY <4>1, ModSmall
      <3> QED BY <3>1, <2>2, <1>7 DEF Commit, AdvanceRd, Written
    <2>3. TypeOK'
      BY <1>7, <2>1 DEF Commit, TypeOK
    <2>4. Written'
      BY <1>7, <2>2 DEF Commit, Written
    <2> QED BY <2>3, <2>4
  <1> QED BY <1>1, <1>2, <1>3, <1>4, <1>5, <1>6, <1>7 DEF Next, Drain

LEMMA WrittenAlways == Spec => [](TypeOK /\ Written)
  <1>1. Init => TypeOK /\ Written
    BY RingAssumption DEF Init, TypeOK, Written, Slots
  <1>2. TypeOK /\ Written /\ [Next]_vars => TypeOK' /\ Written'
    <2> SUFFICES ASSUME TypeOK, Written, [Next]_vars PROVE TypeOK' /\ Written'
      OBVIOUS
    <2>1. CASE UNCHANGED vars
      BY <2>1 DEF vars, TypeOK, Written
    <2> QED BY <2>1, WrittenStep
  <1> QED BY <1>1, <1>2, PTL DEF Spec

\* The indices stay in the ring, a packet never exceeds its size, and no slot is sent that
\* was never written, although interrupt and drain() both move the read index
\* (MediaPacketizer's push() and drain()).
THEOREM TypeCorrect == Spec => []TypeOK
  BY WrittenAlways, PTL

-----------------------------------------------------------------------------
(* Order.                                                                    *)

\* The frames of a packet count as committed once the read index has moved over them.
Committed == Len(sent) - (IF pc = "commit" THEN Len(pkt) ELSE 0)

\* While nothing is dropped the indices are the numbers of frames pushed and committed, modulo
\* the ring, every uncommitted frame is in its slot, and a packet holds the first of them.
Lossless ==
  drops = 0 =>
    /\ Committed \in 0..pushed /\ pushed - Committed < RING
    /\ wr = pushed % RING /\ rd = Committed % RING
    /\ \A j \in 1..pushed : j > Committed => buf[(j - 1) % RING] = j
    /\ pc # "idle" => /\ rd0 = rd /\ cur = (Committed + Len(pkt)) % RING
                      /\ Committed + Len(pkt) <= pushed
                      /\ \A i \in 1..Len(pkt) : pkt[i] = Committed + i
    /\ pc \in {"send", "commit"} => Len(pkt) > 0
    /\ \A i \in 1..Len(sent) : sent[i] = i

\* A slot of a queued frame is not the one written next.
LEMMA SlotsApart ==
  ASSUME NEW n \in Nat, NEW j \in 1..n, n - j < RING - 1
  PROVE  (j - 1) % RING # n % RING
  <1>1. RING \in Nat \ {0} /\ j - 1 \in Int /\ n - (j - 1) \in 1..RING-1
    BY RingAssumption
  <1>2. ((j - 1) + (n - (j - 1))) % RING # (j - 1) % RING
    <2> DEFINE k == n - (j - 1)
               x == j - 1
    <2>1. (x + k) % RING # x % RING
      <3>1. x \in Int /\ k \in 1..RING-1 /\ RING \in Nat \ {0}
        BY <1>1
      <3> HIDE DEF x, k
      <3> QED BY <3>1, ModApart
    <2> QED BY <2>1
  <1>3. (j - 1) + (n - (j - 1)) = n
    OBVIOUS
  <1> QED BY <1>2, <1>3

\* The next index belongs to the next number.
LEMMA SuccCounts ==
  ASSUME NEW n \in Nat
  PROVE  Succ(n % RING) = (n + 1) % RING
  <1>1. RING \in Nat \ {0} /\ n \in Int /\ 1 \in Int
    BY RingAssumption
  <1> QED BY <1>1, ModAdd DEF Succ

LEMMA LosslessPush ==
  ASSUME TypeOK, Written, Lossless, Push
  PROVE  Lossless'
  <1> SUFFICES ASSUME drops' = 0 PROVE Lossless'
    BY DEF Lossless
  <1> USE RingAssumption
  <1>1. drops = 0 /\ ~Full
    BY DEF Push, TypeOK
  <1>2. Committed' = Committed /\ rd' = rd /\ pushed' = pushed + 1 /\ pushed \in Nat
    BY <1>1 DEF Push, Committed, drainVars, TypeOK
  <1>3. Committed \in 0..pushed /\ pushed - Committed < RING /\ wr = pushed % RING /\ rd = Committed % RING
    BY <1>1 DEF Lossless
  <1>4. pushed + 1 - Committed # RING
    <2>1. SUFFICES ASSUME pushed + 1 - Committed = RING PROVE FALSE
      OBVIOUS
    <2>2. Succ(wr) = (pushed + 1) % RING
      BY <1>2, <1>3, SuccCounts
    <2>3. (pushed + 1) % RING = Committed % RING
      <3> DEFINE k == Committed
                 q == k \div RING
                 r == k % RING
      <3>1. k \in Int /\ pushed + 1 = RING + k
        BY <1>2, <1>3, <2>1
      <3>2. RING \in Nat \ {0} /\ q + 1 \in Int /\ k = RING * q + r /\ r \in 0..RING-1
        <4> HIDE DEF k
        <4> QED BY <3>1, ModDiv, ModRange
      <3>3. pushed + 1 = RING * (q + 1) + r
        <4>1. q \in Int
          BY <3>1, ModDiv
        <4> HIDE DEF q, r, k
        <4> QED BY <4>1, <3>1, <3>2
      <3>4. (RING * (q + 1) + r) % RING = r
        <4> HIDE DEF q, r
        <4> QED BY <3>2, ModUnique
      <3> QED BY <3>3, <3>4
    <2> QED BY <2>2, <2>3, <1>1, <1>3 DEF Full
  <1>5. Committed' \in 0..pushed' /\ pushed' - Committed' < RING
    BY <1>2, <1>3, <1>4
  <1>6. wr' = pushed' % RING /\ rd' = Committed' % RING
    BY <1>2, <1>3, SuccCounts DEF Push
  <1>7. ASSUME NEW j \in 1..pushed', j > Committed'
        PROVE  buf'[(j - 1) % RING] = j
    <2>1. CASE j = pushed + 1
      BY <2>1, <1>2, <1>3, ModRange DEF Push, TypeOK, Slots
    <2>2. CASE j # pushed + 1
      <3>1. j \in 1..pushed /\ j > Committed /\ pushed - j < RING - 1
        BY <2>2, <1>2, <1>3, <1>4, <1>7
      <3>2. (j - 1) % RING # wr
        BY <3>1, <1>2, <1>3, SlotsApart
      <3>3. (j - 1) % RING \in Slots
        <4>1. j - 1 \in Int /\ RING \in Nat \ {0}
          BY <3>1, <1>2
        <4> QED BY <4>1, ModRange DEF Slots
      <3>4. buf[(j - 1) % RING] = j
        BY <3>1, <1>1 DEF Lossless
      <3> QED BY <3>2, <3>3, <3>4 DEF Push, TypeOK
    <2> QED BY <2>1, <2>2
  <1>8. pc' # "idle" => /\ rd0' = rd' /\ cur' = (Committed' + Len(pkt')) % RING
                        /\ Committed' + Len(pkt') <= pushed'
                        /\ \A i \in 1..Len(pkt') : pkt'[i] = Committed' + i
    BY <1>1, <1>2, <1>3 DEF Lossless, Push, drainVars, TypeOK
  <1>9. /\ pc' \in {"send", "commit"} => Len(pkt') > 0
        /\ \A i \in 1..Len(sent') : sent'[i] = i
    BY <1>1 DEF Lossless, Push, drainVars
  <1> QED BY <1>5, <1>6, <1>7, <1>8, <1>9 DEF Lossless

LEMMA LosslessDrain ==
  ASSUME TypeOK, Written, Lossless, Drain
  PROVE  Lossless'
  <1> SUFFICES ASSUME drops' = 0 PROVE Lossless'
    BY DEF Lossless
  <1> USE RingAssumption
  <1>0. drops = 0 /\ pushed \in Nat /\ pushed' = pushed /\ wr' = wr /\ buf' = buf
    BY DEF Drain, StartPacket, Gather, Gathered, Send, Refuse, Commit, TypeOK
  <1>1. Len(pkt) \in Nat /\ Len(sent) \in Nat /\ Committed \in Int /\ RING \in Nat \ {0}
    BY DEF TypeOK, Committed
  <1>2. /\ Committed \in 0..pushed /\ pushed - Committed < RING
        /\ wr = pushed % RING /\ rd = Committed % RING
        /\ \A j \in 1..pushed : j > Committed => buf[(j - 1) % RING] = j
        /\ \A i \in 1..Len(sent) : sent[i] = i
    BY <1>0 DEF Lossless
  <1>3. pc # "idle" => /\ rd0 = rd /\ cur = (Committed + Len(pkt)) % RING
                       /\ Committed + Len(pkt) <= pushed
                       /\ \A i \in 1..Len(pkt) : pkt[i] = Committed + i
    BY <1>0 DEF Lossless
  <1>4. pc \in {"send", "commit"} => Len(pkt) > 0
    BY <1>0 DEF Lossless
  <1>5. CASE StartPacket
    <2>1. Committed' = Committed /\ rd' = rd /\ Len(pkt') = 0 /\ sent' = sent /\ pc' = "gather"
      BY <1>5, <1>1 DEF StartPacket, Committed
    <2>2. rd0' = rd' /\ cur' = (Committed' + Len(pkt')) % RING
      BY <1>5, <2>1, <1>1, <1>2 DEF StartPacket
    <2> QED BY <2>1, <2>2, <1>0, <1>1, <1>2 DEF Lossless
  <1>6. CASE Gather
    <2> DEFINE n == Committed + Len(pkt)
    <2>1. Committed' = Committed /\ rd' = rd /\ rd0' = rd0 /\ sent' = sent /\ pc' = "gather"
      BY <1>6 DEF Gather, Committed
    <2>2. n \in Nat /\ cur = n % RING /\ n <= pushed
      <3>1. pc # "idle"
        BY <1>6 DEF Gather
      <3>2. cur = (Committed + Len(pkt)) % RING /\ Committed + Len(pkt) <= pushed
        BY <1>3, <3>1
      <3>3. Committed + Len(pkt) \in Nat
        BY <1>1, <1>2
      <3> QED BY <3>2, <3>3
    <2>3. n # pushed
      BY <1>6, <1>2, <2>2 DEF Gather
    <2>4. buf[cur] = n + 1
      <3>1. n + 1 \in 1..pushed /\ n + 1 > Committed /\ (n + 1) - 1 = n
        BY <2>2, <2>3, <1>0, <1>1
      <3>2. buf[((n + 1) - 1) % RING] = n + 1
        BY <3>1, <1>2
      <3> QED BY <3>1, <3>2, <2>2
    <2>5. pkt' = Append(pkt, n + 1) /\ Len(pkt') = Len(pkt) + 1
      BY <1>6, <2>4, AppendProperties DEF Gather, TypeOK
    <2>6. cur' = (n + 1) % RING
      BY <1>6, <2>2, SuccCounts DEF Gather
    <2>7. Committed' + Len(pkt') = n + 1
      BY <2>1, <2>5, <1>1
    <2>8. \A i \in 1..Len(pkt') : pkt'[i] = Committed' + i
      <3> TAKE i \in 1..Len(pkt')
      <3>1. CASE i = Len(pkt) + 1
        BY <3>1, <2>1, <2>5, <1>1, AppendProperties DEF TypeOK
      <3>2. CASE i # Len(pkt) + 1
        <4>1. i \in 1..Len(pkt)
          BY <3>2, <2>5, <1>1
        <4>2. pkt'[i] = pkt[i]
          BY <4>1, <2>5, <1>1, AppendProperties DEF TypeOK
        <4>3. pkt[i] = Committed + i
          BY <4>1, <1>3, <1>6 DEF Gather
        <4> QED BY <4>2, <4>3, <2>1
      <3> QED BY <3>1, <3>2
    <2>9. Committed' + Len(pkt') <= pushed'
      BY <2>7, <2>2, <2>3, <1>0
    <2> QED BY <2>1, <2>6, <2>7, <2>8, <2>9, <1>0, <1>2, <1>3, <1>6 DEF Lossless, Gather
  <1>7. CASE Gathered
    <2>1. Committed' = Committed /\ UNCHANGED <<rd, rd0, cur, pkt, sent>> /\ pc' \in {"idle", "send"} /\ pc # "idle"
      BY <1>7 DEF Gathered, Committed
    <2>2. pc' = "send" => Len(pkt) > 0
      BY <1>7, <1>1, EmptySeq DEF Gathered, TypeOK
    <2> QED BY <2>1, <2>2, <1>0, <1>2, <1>3 DEF Lossless
  <1>8. CASE Send
    <2>1. sent' = sent \o pkt /\ Len(sent') = Len(sent) + Len(pkt) /\ pc = "send" /\ pc' = "commit"
          /\ UNCHANGED <<rd, rd0, cur, pkt>>
      BY <1>8, ConcatProperties DEF Send, TypeOK
    <2>2. Committed = Len(sent) /\ Committed' = Committed
      BY <2>1, <1>1 DEF Committed
    <2>3. \A i \in 1..Len(sent') : sent'[i] = i
      <3> TAKE i \in 1..Len(sent')
      <3>1. CASE i <= Len(sent)
        BY <3>1, <2>1, <1>1, <1>2, ConcatProperties DEF TypeOK
      <3>2. CASE i > Len(sent)
        <4>1. sent'[i] = pkt[i - Len(sent)] /\ i - Len(sent) \in 1..Len(pkt)
          BY <3>2, <2>1, <1>1, ConcatProperties DEF TypeOK
        <4> QED BY <4>1, <2>1, <2>2, <1>1, <1>3
      <3> QED BY <3>1, <3>2, <1>1
    <2> QED BY <2>1, <2>2, <2>3, <1>0, <1>2, <1>3, <1>4 DEF Lossless
  <1>9. CASE Refuse
    <2>1. Committed' = Committed /\ UNCHANGED <<rd, rd0, cur, pkt, sent>> /\ pc' = "idle"
      BY <1>9 DEF Refuse, Committed
    <2> QED BY <2>1, <1>0, <1>2 DEF Lossless
  <1>10. CASE Commit
    <2> DEFINE n == Len(pkt)
    <2>1. pc = "commit" /\ pc' = "idle" /\ sent' = sent /\ pkt' = pkt
          /\ rd' = AdvanceRd(rd, rd0, n)
      BY <1>10 DEF Commit
    <2>2. Committed' = Committed + n
      BY <2>1, <1>1 DEF Committed
    <2>3. rd0 = rd /\ n > 0 /\ Committed + n <= pushed
      BY <2>1, <1>3, <1>4
    <2>4. (rd - rd0) % RING = 0
      <3>1. rd - rd0 = 0 /\ 0 \in 0..RING-1
        BY <2>3 DEF TypeOK, Slots
      <3> QED BY <3>1, <1>1, ModSmall
    <2>5. rd' = (rd0 + n) % RING
      BY <2>1, <2>3, <2>4, <1>1 DEF AdvanceRd
    <2>6. (rd0 + n) % RING = (Committed + n) % RING
      <3>1. n \in Int
        BY <1>1
      <3>2. ((Committed % RING) + n) % RING = (Committed + n) % RING
        BY <3>1, <1>1, ModAdd
      <3> QED BY <3>2, <2>3, <1>2
    <2>7. Committed' \in 0..pushed' /\ pushed' - Committed' < RING
      BY <2>2, <2>3, <1>0, <1>1, <1>2
    <2>8. \A j \in 1..pushed' : j > Committed' => buf'[(j - 1) % RING] = j
      BY <2>2, <1>0, <1>1, <1>2
    <2> QED BY <2>1, <2>2, <2>5, <2>6, <2>7, <2>8, <1>0, <1>2 DEF Lossless
  <1> QED BY <1>5, <1>6, <1>7, <1>8, <1>9, <1>10 DEF Drain

\* As long as the interrupt has dropped nothing, the sink has got every frame once and in
\* order, whatever drain() was interrupted between.
THEOREM EveryFrameInOrder == Spec => []InOrderWithoutDrops
  <1>1. Init => Lossless
    BY RingAssumption, ModSmall DEF Init, Lossless, Committed
  <1>2. TypeOK /\ Written /\ Lossless /\ [Next]_vars => Lossless'
    <2> SUFFICES ASSUME TypeOK, Written, Lossless, [Next]_vars PROVE Lossless'
      OBVIOUS
    <2>1. CASE UNCHANGED vars
      BY <2>1 DEF vars, Lossless, Committed
    <2> QED BY <2>1, LosslessPush, LosslessDrain DEF Next
  <1>3. Lossless => InOrderWithoutDrops
    BY DEF Lossless, InOrderWithoutDrops
  <1> QED BY <1>1, <1>2, <1>3, WrittenAlways, PTL DEF Spec

-----------------------------------------------------------------------------
(* What drops() counts.                                                      *)

SentSet == {sent[i] : i \in 1..Len(sent)}

\* The frames up to n that the sink never took.
Lost(n) == (1..n) \ SentSet

\* The read index stands behind frame r, and what was lost up to there was counted.
ReadTo(r) ==
  /\ pushed - r < RING /\ rd = r % RING
  /\ Cardinality(Lost(r)) <= drops

\* drain() has started a packet behind frame r0, and the interrupt has dropped the frames from
\* there to r.  A slot may have been overwritten before it was copied, by one lap or several:
\* the frame gathered in place of another differs from it by whole laps, and is a later one
\* than r0.  Only the drops are certain, so they have to make up for it.
Gathering(r0, r) ==
  /\ rd0 = r0 % RING /\ cur = (r0 + Len(pkt)) % RING /\ r0 + Len(pkt) <= pushed
  /\ r > r0 => pushed - r = RING - 1
  /\ Cardinality(Lost(r0)) + (r - r0) <= drops
  /\ \A j \in 1..Len(pkt) : pkt[j] \in (r0 + 1)..pushed /\ pkt[j] % RING = (r0 + j) % RING
  /\ pc = "commit" => \A j \in 1..Len(pkt) : pkt[j] \in SentSet

\* The slots hold the last RING frames.
LastLap ==
  /\ wr = pushed % RING
  /\ \A i \in 1..pushed : pushed - i < RING => buf[(i - 1) % RING] = i

\* The inductive invariant of LossesCounted.
LossInv ==
  /\ LastLap
  /\ \E r \in 0..pushed :
       ReadTo(r) /\ (pc # "idle" => \E r0 \in 0..r : Gathering(r0, r))

LEMMA ModSub ==
  ASSUME NEW d \in Nat \ {0}, NEW x \in Int, NEW y \in Int
  PROVE  ((x % d) - (y % d)) % d = (x - y) % d
  <1>1. PICK p \in Int, a \in 0..d-1 : p = x \div d /\ a = x % d /\ x = d * p + a
    BY ModDiv, ModRange
  <1>2. PICK q \in Int, b \in 0..d-1 : q = y \div d /\ b = y % d /\ y = d * q + b
    BY ModDiv, ModRange
  <1>z. PICK z \in Int : z = a - b
    OBVIOUS
  <1>3. PICK t \in Int, u \in 0..d-1 : u = z % d /\ z = d * t + u
    BY ModDiv, ModRange
  <1>4. x - y = d * (p - q + t) + u
    <2>1. d * (p - q + t) = d * p - d * q + d * t
      OBVIOUS
    <2>2. d * p \in Int /\ d * q \in Int /\ d * t \in Int
      OBVIOUS
    <2>3. x = d * p + a /\ y = d * q + b /\ a - b = d * t + u
      BY <1>1, <1>2, <1>z, <1>3
    <2>4. PICK P, Q, T \in Int : P = d * p /\ Q = d * q /\ T = d * t
      BY <2>2
    <2>5. x = P + a /\ y = Q + b /\ a - b = T + u
      BY <2>3, <2>4, Zenon
    <2>6. x - y = P - Q + T + u
      BY <2>5
    <2>7. d * p - d * q + d * t + u = P - Q + T + u
      BY <2>4, Zenon
    <2>8. x - y = d * p - d * q + d * t + u
      BY <2>6, <2>7, Zenon
    <2>9. x - y = d * (p - q + t) + u
      BY <2>1, <2>8, Zenon
    <2> QED BY <2>9
  <1>5. p - q + t \in Int
    OBVIOUS
  <1>6. (d * (p - q + t) + u) % d = u
    BY <1>5, ModUnique
  <1> QED BY <1>1, <1>2, <1>z, <1>3, <1>4, <1>6

\* Numbers with the same remainder less than a lap apart are the same.
LEMMA ModSame ==
  ASSUME NEW d \in Nat \ {0}, NEW x \in Int, NEW y \in Int, x % d = y % d, x <= y, y - x < d
  PROVE  x = y
  <1> SUFFICES ASSUME x # y PROVE FALSE
    OBVIOUS
  <1>1. PICK k \in 1..d-1 : k = y - x
    <2>1. y - x \in 1..d-1
      OBVIOUS
    <2> QED BY <2>1
  <1>2. (x + k) % d # x % d
    BY ModApart
  <1>3. x + k = y
    BY <1>1
  <1> QED BY <1>2, <1>3

LEMMA ModShift ==
  ASSUME NEW d \in Nat \ {0}, NEW x \in Int, NEW y \in Int, NEW k \in Int, x % d = y % d
  PROVE  (x + k) % d = (y + k) % d
  <1>1. ((x % d) + k) % d = (x + k) % d /\ ((y % d) + k) % d = (y + k) % d
    BY ModAdd
  <1> QED BY <1>1

LEMMA RingNat == RING \in Nat \ {0} /\ RING \in Int
  BY RingAssumption

\* The indices know how many frames are queued, whether one more fits, and which they are.
LEMMA CountIs ==
  ASSUME TypeOK, LastLap, NEW r \in 0..pushed, ReadTo(r)
  PROVE  /\ Count = pushed - r
         /\ Full <=> pushed - r = RING - 1
         /\ Queued = (r + 1)..pushed
  <1>1. /\ pushed \in Nat /\ r \in Nat /\ r <= pushed /\ pushed - r \in 0..RING-1
        /\ wr = pushed % RING /\ rd = r % RING
    BY RingNat DEF TypeOK, LastLap, ReadTo
  <1>2. Count = pushed - r
    <2>1. ((pushed % RING) - (r % RING)) % RING = (pushed - r) % RING
      <3>1. pushed \in Int /\ r \in Int
        BY <1>1
      <3> QED BY <3>1, RingNat, ModSub
    <2>2. (pushed - r) % RING = pushed - r
      <3>1. PICK k \in 0..RING-1 : k = pushed - r
        BY <1>1
      <3>2. k % RING = k
        BY RingNat, ModSmall
      <3> QED BY <3>1, <3>2
    <2> QED BY <1>1, <2>1, <2>2 DEF Count
  <1>3. Full <=> pushed - r = RING - 1
    <2>1. Succ(wr) = (pushed + 1) % RING
      BY <1>1, SuccCounts
    <2>2. ASSUME pushed - r = RING - 1 PROVE (pushed + 1) % RING = r % RING
      <3>1. PICK q \in Int, u \in 0..RING-1 : u = r % RING /\ r = RING * q + u
        <4>1. r \in Int
          BY <1>1
        <4> QED BY <4>1, RingNat, ModDiv, ModRange
      <3>2. pushed + 1 = RING * (q + 1) + u
        BY <1>1, <2>2, <3>1, RingNat
      <3>3. q + 1 \in Int
        OBVIOUS
      <3>4. (RING * (q + 1) + u) % RING = u
        BY <3>3, RingNat, ModUnique
      <3> QED BY <3>1, <3>2, <3>4
    <2>3. ASSUME pushed - r # RING - 1 PROVE (pushed + 1) % RING # r % RING
      <3>1. r \in Int /\ pushed + 1 \in Int /\ r <= pushed + 1 /\ pushed + 1 - r < RING /\ pushed + 1 # r
        BY <1>1, <2>3, RingNat
      <3>2. PICK n \in Int : n = pushed + 1
        BY <3>1
      <3>3. r \in Int /\ r <= n /\ n - r < RING
        BY <1>1, <2>3, <3>2, RingNat
      <3>4. r % RING = n % RING => r = n
        BY <3>3, RingNat, ModSame
      <3> QED BY <3>1, <3>2, <3>4
    <2> QED BY <1>1, <2>1, <2>2, <2>3 DEF Full
  <1>4. ASSUME NEW i \in 0..(Count - 1) PROVE buf[(rd + i) % RING] = r + i + 1
    <2>1. ((r % RING) + i) % RING = (r + i) % RING
      <3>1. r \in Int /\ i \in Int
        BY <1>1, <1>2
      <3> QED BY <3>1, RingNat, ModAdd
    <2>2. r + i + 1 \in 1..pushed /\ pushed - (r + i + 1) < RING /\ (r + i + 1) - 1 = r + i
      BY <1>1, <1>2, RingNat
    <2>3. buf[((r + i + 1) - 1) % RING] = r + i + 1
      BY <2>2 DEF LastLap
    <2> QED BY <1>1, <2>1, <2>2, <2>3
  <1>5. Queued = (r + 1)..pushed
    <2>1. ASSUME NEW f \in Queued PROVE f \in (r + 1)..pushed
      <3>1. PICK i \in 0..(Count - 1) : f = r + i + 1
        BY <1>4 DEF Queued
      <3> QED BY <1>1, <1>2, <3>1
    <2>2. ASSUME NEW f \in (r + 1)..pushed PROVE f \in Queued
      <3>1. PICK i \in 0..(Count - 1) : i = f - r - 1
        <4>1. f - r - 1 \in 0..(Count - 1)
          BY <1>1, <1>2
        <4> QED BY <4>1
      <3>2. buf[(rd + i) % RING] = f
        BY <1>1, <1>4, <3>1
      <3> QED BY <3>2 DEF Queued
    <2> QED BY <2>1, <2>2
  <1> QED BY <1>2, <1>3, <1>5

-----------------------------------------------------------------------------
(* Counting what is lost.                                                    *)

LEMMA LostFinite ==
  ASSUME NEW n \in Nat
  PROVE  IsFiniteSet(Lost(n)) /\ Cardinality(Lost(n)) \in Nat
  <1>1. IsFiniteSet(1..n)
    BY FS_Interval
  <1>2. IsFiniteSet(Lost(n))
    BY <1>1, FS_Subset DEF Lost
  <1> QED BY <1>2, FS_CardinalityType

\* A frame dropped is one more lost at most.
LEMMA LostGrows ==
  ASSUME NEW n \in Nat
  PROVE  Cardinality(Lost(n + 1)) <= Cardinality(Lost(n)) + 1
  <1>1. Lost(n + 1) \subseteq Lost(n) \cup {n + 1}
    BY DEF Lost
  <1>2. IsFiniteSet(Lost(n) \cup {n + 1})
        /\ Cardinality(Lost(n) \cup {n + 1}) <= Cardinality(Lost(n)) + 1
    <2>1. IsFiniteSet(Lost(n)) /\ Cardinality(Lost(n)) \in Nat
      BY LostFinite
    <2>2. /\ IsFiniteSet(Lost(n) \cup {n + 1})
          /\ Cardinality(Lost(n) \cup {n + 1})
               = IF n + 1 \in Lost(n) THEN Cardinality(Lost(n)) ELSE Cardinality(Lost(n)) + 1
      BY <2>1, FS_AddElement
    <2> QED BY <2>1, <2>2
  <1>3. Cardinality(Lost(n + 1)) <= Cardinality(Lost(n) \cup {n + 1})
    BY <1>1, <1>2, FS_Subset
  <1>4. Cardinality(Lost(n + 1)) \in Nat /\ Cardinality(Lost(n)) \in Nat
        /\ Cardinality(Lost(n) \cup {n + 1}) \in Nat
    <2>1. n + 1 \in Nat
      OBVIOUS
    <2> QED BY <1>2, <2>1, LostFinite, FS_CardinalityType
  <1> QED BY <1>2, <1>3, <1>4

\* Of the frames between a and b, those in T were sent.
LEMMA LostBetween ==
  ASSUME NEW a \in Nat, NEW b \in Nat, a <= b,
         NEW T, T \subseteq (a + 1)..b, T \subseteq SentSet
  PROVE  /\ IsFiniteSet(T) /\ Cardinality(T) \in Nat
         /\ Cardinality(Lost(b)) <= Cardinality(Lost(a)) + (b - a) - Cardinality(T)
  <1> DEFINE gap == ((a + 1)..b) \ T
  <1>1. /\ IsFiniteSet((a + 1)..b) /\ Cardinality((a + 1)..b) = b - a
    <2>1. a + 1 \in Int /\ b \in Int
      OBVIOUS
    <2>2. /\ IsFiniteSet((a + 1)..b)
          /\ Cardinality((a + 1)..b) = IF a + 1 > b THEN 0 ELSE b - (a + 1) + 1
      BY <2>1, FS_Interval
    <2> QED BY <2>2
  <1>2. IsFiniteSet(T) /\ Cardinality(T) \in Nat
    BY <1>1, FS_Subset, FS_CardinalityType
  <1>3. IsFiniteSet(gap) /\ Cardinality(gap) = (b - a) - Cardinality(T)
    <2>1. /\ IsFiniteSet(gap)
          /\ Cardinality(gap) = Cardinality((a + 1)..b) - Cardinality(((a + 1)..b) \cap T)
      BY <1>1, FS_Difference
    <2>2. ((a + 1)..b) \cap T = T
      OBVIOUS
    <2> QED BY <1>1, <2>1, <2>2
  <1>4. Lost(b) \subseteq Lost(a) \cup gap
    BY DEF Lost
  <1>5. /\ IsFiniteSet(Lost(a)) /\ IsFiniteSet(Lost(b))
        /\ Cardinality(Lost(a)) \in Nat /\ Cardinality(Lost(b)) \in Nat /\ Cardinality(gap) \in Nat
    BY <1>3, LostFinite, FS_CardinalityType
  <1> HIDE DEF gap
  <1>6. /\ IsFiniteSet(Lost(a) \cup gap) /\ Cardinality(Lost(a) \cup gap) \in Nat
        /\ Cardinality(Lost(a) \cup gap) <= Cardinality(Lost(a)) + Cardinality(gap)
    <2>1. /\ IsFiniteSet(Lost(a) \cup gap)
          /\ Cardinality(Lost(a) \cup gap)
               = Cardinality(Lost(a)) + Cardinality(gap) - Cardinality(Lost(a) \cap gap)
      BY <1>3, <1>5, FS_Union
    <2>2. Cardinality(Lost(a) \cap gap) \in Nat
      BY <1>5, FS_Intersection, FS_CardinalityType
    <2> QED BY <1>5, <2>1, <2>2, FS_CardinalityType
  <1>7. Cardinality(Lost(b)) <= Cardinality(Lost(a) \cup gap)
    BY <1>4, <1>6, FS_Subset
  <1> QED BY <1>2, <1>3, <1>5, <1>6, <1>7

-----------------------------------------------------------------------------
(* The steps.                                                                *)

LEMMA LastLapPush ==
  ASSUME TypeOK, LastLap, Push
  PROVE  LastLap'
  <1>1. /\ pushed \in Nat /\ pushed' = pushed + 1 /\ wr = pushed % RING /\ wr' = Succ(wr)
        /\ buf' = [buf EXCEPT ![wr] = pushed + 1] /\ wr \in Slots /\ buf \in [Slots -> 0..MaxFrames]
    BY DEF Push, TypeOK, LastLap
  <1>2. wr' = pushed' % RING
    BY <1>1, SuccCounts
  <1>3. ASSUME NEW i \in 1..pushed', pushed' - i < RING PROVE buf'[(i - 1) % RING] = i
    <2>1. CASE i = pushed + 1
      <3>1. i - 1 = pushed
        BY <1>1, <2>1
      <3> QED BY <1>1, <2>1, <3>1
    <2>2. CASE i # pushed + 1
      <3>1. i \in 1..pushed /\ pushed - i < RING - 1 /\ pushed - i < RING
        BY <1>1, <1>3, <2>2, RingNat
      <3>2. (i - 1) % RING # pushed % RING
        BY <1>1, <3>1, SlotsApart
      <3>3. buf[(i - 1) % RING] = i
        BY <3>1 DEF LastLap
      <3>4. (i - 1) % RING \in Slots
        <4>1. i - 1 \in Int
          BY <3>1
        <4> QED BY <4>1, RingNat, ModRange DEF Slots
      <3> QED BY <1>1, <3>2, <3>3, <3>4
    <2> QED BY <2>1, <2>2
  <1> QED BY <1>2, <1>3 DEF LastLap

LEMMA LossPush ==
  ASSUME TypeOK, LossInv, Push
  PROVE  LossInv'
  <1>1. PICK r \in 0..pushed : /\ ReadTo(r)
                               /\ pc # "idle" => \E r0 \in 0..r : Gathering(r0, r)
    BY DEF LossInv
  <1>2. LastLap /\ LastLap'
    BY LastLapPush DEF LossInv
  <1>3. /\ pushed \in Nat /\ pushed' = pushed + 1 /\ r \in Nat /\ r <= pushed /\ drops \in Nat
        /\ UNCHANGED drainVars /\ pushed - r < RING /\ rd = r % RING
    BY <1>1 DEF Push, TypeOK, ReadTo
  <1>4. Full <=> pushed - r = RING - 1
    BY <1>1, <1>2, CountIs
  <1>5. \A n : Lost(n)' = Lost(n)
    BY <1>3 DEF Lost, SentSet, drainVars
  <1>6. Cardinality(Lost(r)) <= drops /\ Cardinality(Lost(r)) \in Nat
    BY <1>1, <1>3, LostFinite DEF ReadTo
  <1>7. CASE Full
    <2>1. rd' = Succ(rd) /\ drops' = drops + 1
      BY <1>7 DEF Push
    <2>2. rd' = (r + 1) % RING
      BY <1>3, <2>1, SuccCounts
    <2>3. Cardinality(Lost(r + 1)) <= drops'
      <3>1. Cardinality(Lost(r + 1)) <= Cardinality(Lost(r)) + 1 /\ Cardinality(Lost(r + 1)) \in Nat
        <4>1. r + 1 \in Nat
          BY <1>3
        <4> QED BY <1>3, <4>1, LostGrows, LostFinite
      <3> QED BY <1>3, <1>6, <2>1, <3>1
    <2>4. r + 1 \in 0..pushed' /\ pushed' - (r + 1) = RING - 1 /\ pushed' - (r + 1) < RING
      BY <1>3, <1>4, <1>7, RingNat
    <2>5. PICK r1 \in 0..pushed' : r1 = r + 1
      BY <2>4
    <2>6. ReadTo(r1)'
      BY <1>5, <2>2, <2>3, <2>4, <2>5 DEF ReadTo
    <2>7. ASSUME NEW r0 \in 0..r, Gathering(r0, r) PROVE r0 \in 0..r1 /\ Gathering(r0, r1)'
      <3>1. r0 \in 0..r1 /\ r0 \in Nat /\ r0 <= r
        BY <1>3, <2>5
      <3>2. /\ rd0 = r0 % RING /\ cur = (r0 + Len(pkt)) % RING /\ r0 + Len(pkt) <= pushed
            /\ Cardinality(Lost(r0)) + (r - r0) <= drops
            /\ \A j \in 1..Len(pkt) : pkt[j] \in (r0 + 1)..pushed /\ pkt[j] % RING = (r0 + j) % RING
            /\ pc = "commit" => \A j \in 1..Len(pkt) : pkt[j] \in SentSet
        BY <2>7 DEF Gathering
      <3>3. /\ rd0' = rd0 /\ cur' = cur /\ pkt' = pkt /\ pc' = pc /\ SentSet' = SentSet
        BY <1>3 DEF drainVars, SentSet
      <3>4. Cardinality(Lost(r0)) + (r1 - r0) <= drops' /\ Len(pkt) \in Nat
        <4>1. Cardinality(Lost(r0)) \in Nat
          BY <3>1, LostFinite
        <4>2. Len(pkt) \in Nat
          BY DEF TypeOK
        <4> QED BY <1>3, <2>1, <2>5, <3>1, <3>2, <4>1, <4>2
      <3>5. r0 + Len(pkt) <= pushed'
        BY <1>3, <3>1, <3>2, <3>4
      <3>6. \A j \in 1..Len(pkt) : pkt[j] \in (r0 + 1)..pushed'
        BY <1>3, <3>1, <3>2
      <3> QED BY <1>5, <2>4, <2>5, <3>1, <3>2, <3>3, <3>4, <3>5, <3>6 DEF Gathering
    <2>8. pc' = pc
      BY <1>3 DEF drainVars
    <2> QED BY <1>1, <1>2, <2>6, <2>7, <2>8 DEF LossInv
  <1>8. CASE ~Full
    <2>1. rd' = rd /\ drops' = drops
      BY <1>8 DEF Push
    <2>2. r \in 0..pushed' /\ pushed' - r < RING /\ pushed - r # RING - 1
      BY <1>3, <1>4, <1>8, RingNat
    <2>3. ReadTo(r)'
      BY <1>3, <1>5, <1>6, <2>1, <2>2 DEF ReadTo
    <2>4. ASSUME NEW r0 \in 0..r, Gathering(r0, r) PROVE Gathering(r0, r)'
      <3>1. /\ rd0 = r0 % RING /\ cur = (r0 + Len(pkt)) % RING /\ r0 + Len(pkt) <= pushed
            /\ r > r0 => pushed - r = RING - 1
            /\ Cardinality(Lost(r0)) + (r - r0) <= drops
            /\ \A j \in 1..Len(pkt) : pkt[j] \in (r0 + 1)..pushed /\ pkt[j] % RING = (r0 + j) % RING
            /\ pc = "commit" => \A j \in 1..Len(pkt) : pkt[j] \in SentSet
        BY <2>4 DEF Gathering
      <3>2. /\ rd0' = rd0 /\ cur' = cur /\ pkt' = pkt /\ pc' = pc /\ SentSet' = SentSet
        BY <1>3 DEF drainVars, SentSet
      <3>3. r0 + Len(pkt) <= pushed'
        <4>1. Len(pkt) \in Nat /\ r0 \in Nat
          BY <1>3 DEF TypeOK
        <4> QED BY <1>3, <3>1, <4>1
      <3>4. \A j \in 1..Len(pkt) : pkt[j] \in (r0 + 1)..pushed'
        BY <1>3, <3>1
      <3>5. ~(r > r0)
        BY <2>2, <3>1
      <3> QED BY <1>5, <2>1, <3>1, <3>2, <3>3, <3>4, <3>5 DEF Gathering
    <2>5. pc' = pc
      BY <1>3 DEF drainVars
    <2> QED BY <1>1, <1>2, <2>2, <2>3, <2>4, <2>5 DEF LossInv
  <1> QED BY <1>7, <1>8

\* The frame copied from the slot of frame c + 1 is that frame or one that overwrote it.
LEMMA FrameCopied ==
  ASSUME TypeOK, LastLap, NEW c \in Nat, c <= pushed, c % RING # wr
  PROVE  /\ c + 1 <= pushed
         /\ buf[c % RING] \in (c + 1)..pushed
         /\ buf[c % RING] % RING = (c + 1) % RING
  <1>1. pushed \in Nat /\ wr = pushed % RING
    BY DEF TypeOK, LastLap
  <1>2. c + 1 <= pushed
    <2>1. c # pushed
      BY <1>1
    <2> QED BY <1>1, <2>1
  <1>3. PICK n \in Nat : n = pushed - 1 - c
    BY <1>1, <1>2
  <1>4. PICK k \in 0..RING-1, q \in Int : n = RING * q + k
    <2>1. n \in Int
      OBVIOUS
    <2>2. n % RING \in 0..RING-1 /\ n \div RING \in Int /\ n = RING * (n \div RING) + (n % RING)
      BY <2>1, RingNat, ModRange, ModDiv
    <2> QED BY <2>2
  <1>5. q >= 0
    <2> SUFFICES ASSUME q <= -1 PROVE FALSE
      OBVIOUS
    <2>1. RING * q <= RING * (-1)
      BY RingNat
    <2> QED BY <1>4, <2>1, RingNat
  <1>6. k <= n
    <2>1. RING * q >= 0 /\ RING * q \in Int
      BY <1>5, RingNat
    <2> QED BY <1>4, <2>1
  <1>7. PICK f \in (c + 1)..pushed : f = pushed - k
    BY <1>1, <1>3, <1>6
  \* f is in the slot of c + 1.
  <1>8. (f - 1) % RING = c % RING
    <2>1. PICK x \in Int, u \in 0..RING-1 : u = c % RING /\ c = RING * x + u
      <3>1. c \in Int
        OBVIOUS
      <3> QED BY <3>1, RingNat, ModRange, ModDiv
    <2>2. f - 1 = c + RING * q
      <3>1. PICK m \in Int : m = RING * q
        BY RingNat
      <3>2. n = m + k
        BY <1>4, <3>1, Zenon
      <3>3. f - 1 = c + m
        BY <1>1, <1>3, <1>7, <3>2
      <3> QED BY <3>1, <3>3
    <2>3. f - 1 = RING * (x + q) + u
      BY <2>1, <2>2, RingNat
    <2>4. x + q \in Int
      OBVIOUS
    <2>5. (RING * (x + q) + u) % RING = u
      BY <2>4, RingNat, ModUnique
    <2> QED BY <2>1, <2>3, <2>5
  <1>9. f \in 1..pushed /\ pushed - f < RING
    BY <1>1, <1>4, <1>7, RingNat
  <1>10. buf[c % RING] = f
    <2>1. buf[(f - 1) % RING] = f
      BY <1>9 DEF LastLap
    <2> QED BY <1>8, <2>1
  <1>11. f % RING = (c + 1) % RING
    <2>1. PICK g \in Int : g = f - 1
      BY <1>9
    <2>2. (g + 1) % RING = (c + 1) % RING
      <3>1. g \in Int /\ c \in Int /\ 1 \in Int /\ g % RING = c % RING
        BY <1>8, <2>1
      <3>2. RING \in Nat \ {0}
        BY RingNat
      <3>3. (g + 1) % RING = (c + 1) % RING
        BY <3>1, <3>2, ModShift, Zenon
      <3> QED BY <3>3
    <2>3. g + 1 = f
      BY <1>9, <2>1
    <2> QED BY <2>2, <2>3
  <1> QED BY <1>2, <1>7, <1>10, <1>11

\* The first n - d frames dropped behind r are made up for by frames of the packet, which are
\* as many different ones no later than r + n - d.
LEMMA LossCommit ==
  ASSUME TypeOK, LastLap, NEW r \in 0..pushed, NEW r0 \in 0..r, ReadTo(r), Gathering(r0, r),
         Commit
  PROVE  \E s \in 0..pushed : ReadTo(s)'
  <1> DEFINE n == Len(pkt)
  <1>1. /\ pushed \in Nat /\ pushed' = pushed /\ r \in Nat /\ r0 \in Nat /\ r0 <= r /\ r <= pushed
        /\ n \in Nat /\ n < RING /\ drops' = drops /\ drops \in Nat /\ SentSet' = SentSet
        /\ rd' = AdvanceRd(rd, rd0, n)
    BY RingNat, RingAssumption, BatchAssumption DEF Commit, TypeOK, SentSet
  <1>2. /\ pushed - r < RING /\ rd = r % RING /\ Cardinality(Lost(r)) <= drops
        /\ rd0 = r0 % RING /\ r0 + n <= pushed /\ (r > r0 => pushed - r = RING - 1)
        /\ Cardinality(Lost(r0)) + (r - r0) <= drops
        /\ \A j \in 1..n : /\ pkt[j] \in (r0 + 1)..pushed /\ pkt[j] % RING = (r0 + j) % RING
                           /\ pkt[j] \in SentSet
    BY DEF ReadTo, Gathering, Commit
  <1>3. \A x : Lost(x)' = Lost(x)
    BY <1>1 DEF Lost
  <1> HIDE DEF n
  <1>4. PICK d \in 0..RING-1, q \in Int : /\ d = (rd - rd0) % RING /\ r - r0 = RING * q + d
                                          /\ (r = r0 => d = 0)
    <2>1. PICK x \in Int : x = r - r0
      BY <1>1
    <2>2. ((r % RING) - (r0 % RING)) % RING = x % RING
      <3>1. r \in Int /\ r0 \in Int
        BY <1>1
      <3>2. ((r % RING) - (r0 % RING)) % RING = (r - r0) % RING
        BY <3>1, RingNat, ModSub
      <3> QED BY <2>1, <3>2
    <2>3. x % RING \in 0..RING-1 /\ x \div RING \in Int /\ x = RING * (x \div RING) + (x % RING)
      BY RingNat, ModRange, ModDiv
    <2>4. r = r0 => x % RING = 0
      <3>1. r = r0 => x = 0
        BY <1>1, <2>1
      <3>2. 0 \in 0..RING-1
        BY RingNat
      <3>3. 0 % RING = 0
        BY <3>2, RingNat, ModSmall
      <3> QED BY <3>1, <3>3
    <2> QED BY <1>2, <2>1, <2>2, <2>3, <2>4
  <1>5. CASE d >= n
    <2>1. rd' = rd
      BY <1>1, <1>4, <1>5 DEF AdvanceRd
    <2> QED BY <1>1, <1>2, <1>3, <2>1 DEF ReadTo
  <1>6. CASE d < n
    <2>1. rd' = (rd0 + n) % RING
      BY <1>1, <1>4, <1>6 DEF AdvanceRd
    <2>2. rd' = (r0 + n) % RING
      <3>1. ((r0 % RING) + n) % RING = (r0 + n) % RING
        <4>1. r0 \in Int /\ n \in Int
          BY <1>1
        <4> QED BY <4>1, RingNat, ModAdd
      <3> QED BY <1>2, <2>1, <3>1
    <2>3. PICK m \in Int : m = RING * q /\ r - r0 = m + d
      <3>1. RING * q \in Int
        BY RingNat
      <3>2. r - r0 = RING * q + d
        BY <1>4
      <3> QED BY <3>1, <3>2
    <2>4. r + (n - d) <= pushed
      <3>1. CASE r = r0
        BY <1>1, <1>2, <1>4, <3>1
      <3>2. CASE r # r0
        <4>1. r > r0
          BY <1>1, <3>2
        <4>2. pushed - r = RING - 1
          BY <1>2, <4>1
        <4> QED BY <1>1, <4>2, RingNat
      <3> QED BY <3>1, <3>2
    <2>5. PICK s \in 0..pushed : s = r + (n - d)
      <3>1. r + (n - d) \in 0..pushed
        BY <1>1, <1>6, <2>4
      <3> QED BY <3>1
    \* Numbers in the lap of r are those in the lap of r0, shifted.
    <2>6. ASSUME NEW k \in Int PROVE (k + m) % RING = k % RING
      <3>1. PICK x \in Int, u \in 0..RING-1 : u = k % RING /\ k = RING * x + u
        BY RingNat, ModRange, ModDiv
      <3>2. k + m = RING * (x + q) + u
        <4>1. RING * (x + q) = RING * x + RING * q
          BY RingNat
        <4>2. PICK y \in Int : y = RING * x
          BY RingNat
        <4>3. k = y + u
          BY <3>1, <4>2, Zenon
        <4>4. RING * (x + q) = y + m
          BY <2>3, <4>1, <4>2, Zenon
        <4>5. k + m = (y + m) + u
          BY <4>3
        <4> QED BY <4>4, <4>5, Zenon
      <3>3. x + q \in Int
        OBVIOUS
      <3>4. (RING * (x + q) + u) % RING = u
        BY <3>3, RingNat, ModUnique
      <3> QED BY <3>1, <3>2, <3>4
    <2>7. rd' = s % RING
      <3>1. (r0 + n) + m = s /\ r0 + n \in Int
        BY <1>1, <2>3, <2>5
      <3>2. ((r0 + n) + m) % RING = (r0 + n) % RING
        BY <2>6, <3>1
      <3> QED BY <2>2, <3>1, <3>2
    <2> DEFINE S == (d + 1)..n
               T == {pkt[j] : j \in S}
    <2>8. \A j \in S : j \in 1..n /\ j \in Int
      BY <1>1
    <2>9. T \subseteq SentSet
      BY <1>2, <2>8
    <2>10. ASSUME NEW j \in S PROVE pkt[j] \in (r0 + 1)..s
      <3>1. j \in 1..n /\ j \in Int /\ d + 1 <= j /\ j <= n
        BY <1>1, <2>8
      <3>2. PICK x \in (r0 + 1)..pushed : x = pkt[j] /\ x % RING = (r0 + j) % RING
        BY <1>2, <3>1
      <3>3. PICK y \in Int : y = r + (j - d)
        BY <1>1
      <3>4. y % RING = (r0 + j) % RING
        <4>1. (r0 + j) + m = y /\ r0 + j \in Int
          BY <1>1, <2>3, <3>1, <3>3
        <4>2. ((r0 + j) + m) % RING = (r0 + j) % RING
          BY <2>6, <4>1
        <4> QED BY <4>1, <4>2
      <3>5. r + 1 <= y /\ y <= s
        BY <1>1, <2>5, <3>1, <3>3
      <3>6. x <= y
        <4> SUFFICES ASSUME ~(x <= y) PROVE FALSE
          OBVIOUS
        <4>1. y <= x /\ x - y < RING /\ y # x /\ x \in Int
          BY <1>1, <1>2, <3>5, RingNat
        <4>2. y % RING = x % RING
          BY <3>2, <3>4
        <4>3. y = x
          BY <4>1, <4>2, RingNat, ModSame
        <4> QED BY <4>1, <4>3
      <3>7. x \in (r0 + 1)..s
        BY <1>1, <3>5, <3>6
      <3> QED BY <3>2, <3>7
    <2>11. T \subseteq (r0 + 1)..s
      BY <2>10
    <2>12. \A i, j \in S : pkt[i] = pkt[j] => i = j
      <3>1. ASSUME NEW i \in S, NEW j \in S, pkt[i] = pkt[j], i <= j PROVE i = j
        <4>1. i \in 1..n /\ j \in 1..n /\ i \in Int /\ j \in Int
          BY <2>8
        <4>2. (r0 + i) % RING = (r0 + j) % RING
          BY <1>2, <3>1, <4>1
        <4>3. r0 + i \in Int /\ r0 + j \in Int /\ r0 + i <= r0 + j /\ (r0 + j) - (r0 + i) < RING
          BY <1>1, <3>1, <4>1, RingNat
        <4>4. r0 + i = r0 + j
          BY <4>2, <4>3, RingNat, ModSame
        <4> QED BY <1>1, <4>1, <4>4
      <3>2. \A i, j \in S : i <= j \/ j <= i
        BY <2>8
      <3> QED BY <3>1, <3>2
    <2> HIDE DEF T
    <2>13. /\ IsFiniteSet(T) /\ Cardinality(T) \in Nat
           /\ Cardinality(Lost(s)) <= Cardinality(Lost(r0)) + (s - r0) - Cardinality(T)
      <3>1. s \in Nat /\ r0 <= s
        BY <1>1, <1>6, <2>5
      <3> QED BY <1>1, <2>9, <2>11, <3>1, LostBetween
    <2>14. n - d <= Cardinality(T)
      <3> DEFINE f == [j \in S |-> pkt[j]]
      <3>1. f \in Injection(S, T)
        BY <2>12 DEF T, Injection, IsInjective
      <3> HIDE DEF f
      <3>2. Cardinality(S) <= Cardinality(T)
        BY <2>13, <3>1, FS_Injection
      <3>3. Cardinality(S) = n - d
        <4>1. d + 1 \in Int /\ n \in Int
          BY <1>1
        <4>2. Cardinality(S) = IF d + 1 > n THEN 0 ELSE n - (d + 1) + 1
          BY <4>1, FS_Interval
        <4> QED BY <1>1, <1>6, <4>2
      <3> QED BY <3>2, <3>3
    <2>15. Cardinality(Lost(s)) <= drops
      <3>1. Cardinality(Lost(s)) \in Nat /\ Cardinality(Lost(r0)) \in Nat
        BY <1>1, LostFinite
      <3> QED BY <1>1, <1>2, <2>5, <2>13, <2>14, <3>1
    <2>16. pushed' - s < RING
      BY <1>1, <1>2, <1>6, <2>5, RingNat
    <2> QED BY <1>1, <1>3, <2>7, <2>15, <2>16 DEF ReadTo
  <1> QED BY <1>1, <1>5, <1>6

LEMMA LossDrain ==
  ASSUME TypeOK, TypeOK', LossInv, Drain
  PROVE  LossInv'
  <1>1. PICK r \in 0..pushed : /\ ReadTo(r)
                               /\ pc # "idle" => \E r0 \in 0..r : Gathering(r0, r)
    BY DEF LossInv
  <1>2. /\ LastLap /\ pushed \in Nat /\ r \in Nat /\ r <= pushed /\ drops \in Nat
        /\ UNCHANGED <<wr, buf, pushed, drops>>
    <2>1. LastLap /\ pushed \in Nat /\ drops \in Nat
      BY DEF LossInv, TypeOK
    <2>2. UNCHANGED <<wr, buf, pushed, drops>>
      BY DEF Drain, StartPacket, Gather, Gathered, Send, Refuse, Commit
    <2> QED BY <2>1, <2>2
  <1>3. LastLap'
    BY <1>2 DEF LastLap
  <1>4. /\ pushed - r < RING /\ rd = r % RING
        /\ Cardinality(Lost(r)) <= drops /\ Cardinality(Lost(r)) \in Nat
    BY <1>1, <1>2, LostFinite DEF ReadTo
  <1>5. ASSUME UNCHANGED <<rd, sent>> PROVE ReadTo(r)' /\ SentSet' = SentSet /\ \A n : Lost(n)' = Lost(n)
    <2>1. SentSet' = SentSet
      BY <1>5 DEF SentSet
    <2>2. \A n : Lost(n)' = Lost(n)
      BY <2>1 DEF Lost
    <2> QED BY <1>2, <1>4, <1>5, <2>1, <2>2 DEF ReadTo
  <1>6. CASE StartPacket
    <2>1. rd0' = rd /\ cur' = rd /\ Len(pkt') = 0 /\ UNCHANGED <<rd, sent>> /\ pc' = "gather"
      BY <1>6 DEF StartPacket
    <2>2. Gathering(r, r)'
      <3>1. r + 0 = r /\ r - r = 0 /\ Cardinality(Lost(r)) + 0 = Cardinality(Lost(r))
        BY <1>2, <1>4
      <3> QED BY <1>2, <1>4, <1>5, <2>1, <3>1 DEF Gathering
    <2>3. r \in 0..r
      BY <1>2
    <2> QED BY <1>2, <1>3, <1>5, <2>1, <2>2, <2>3 DEF LossInv
  <1>7. ASSUME pc # "idle" PROVE \E r0 \in 0..r : Gathering(r0, r)
    BY <1>1, <1>7
  <1>8. CASE Gather
    <2>1. PICK r0 \in 0..r : Gathering(r0, r)
      BY <1>7, <1>8 DEF Gather
    <2>2. /\ rd0 = r0 % RING /\ cur = (r0 + Len(pkt)) % RING /\ r0 + Len(pkt) <= pushed
          /\ r > r0 => pushed - r = RING - 1
          /\ Cardinality(Lost(r0)) + (r - r0) <= drops
          /\ \A j \in 1..Len(pkt) : pkt[j] \in (r0 + 1)..pushed /\ pkt[j] % RING = (r0 + j) % RING
      BY <2>1 DEF Gathering
    <2>3. /\ pkt' = Append(pkt, buf[cur]) /\ cur' = Succ(cur) /\ cur # wr
          /\ UNCHANGED <<rd, sent, rd0, pc>> /\ pc = "gather"
          /\ pkt \in Seq(1..MaxFrames) /\ Len(pkt) \in Nat
      BY <1>8 DEF Gather, TypeOK
    <2>4. PICK c \in Nat : c = r0 + Len(pkt) /\ c <= pushed
      <3>1. r0 + Len(pkt) \in Nat
        BY <1>2, <2>3
      <3> QED BY <2>2, <3>1
    <2>5. /\ c + 1 <= pushed /\ buf[cur] \in (c + 1)..pushed /\ buf[cur] % RING = (c + 1) % RING
      <3>1. cur = c % RING
        BY <2>2, <2>4
      <3>2. c % RING # wr
        BY <2>3, <3>1
      <3>3. /\ c + 1 <= pushed
            /\ buf[c % RING] \in (c + 1)..pushed
            /\ buf[c % RING] % RING = (c + 1) % RING
        BY <1>2, <2>4, <3>2, FrameCopied
      <3> QED BY <3>1, <3>3
    <2>6. cur' = (c + 1) % RING
      BY <2>2, <2>3, <2>4, SuccCounts
    <2>7. /\ Len(pkt') = Len(pkt) + 1 /\ pkt'[Len(pkt) + 1] = buf[cur]
          /\ \A j \in 1..Len(pkt) : pkt'[j] = pkt[j]
      <3>1. buf[cur] \in 1..MaxFrames
        BY <2>5, RingAssumption DEF TypeOK
      <3> QED BY <2>3, <3>1, AppendProperties
    <2>8. r0 + Len(pkt') = c + 1 /\ r0 + (Len(pkt) + 1) = c + 1 /\ r0 + 1 <= c + 1
      <3>1. r0 \in Nat
        BY <1>2
      <3>2. PICK k \in Nat : k = Len(pkt)
        BY <2>3
      <3>3. c = r0 + k /\ Len(pkt') = k + 1
        BY <2>4, <2>7, <3>2
      <3>4. r0 + (k + 1) = c + 1 /\ r0 + 1 <= c + 1
        BY <3>1, <3>3
      <3> QED BY <3>2, <3>3, <3>4
    <2>9. ASSUME NEW j \in 1..Len(pkt')
          PROVE  pkt'[j] \in (r0 + 1)..pushed /\ pkt'[j] % RING = (r0 + j) % RING
      <3>1. CASE j \in 1..Len(pkt)
        BY <2>2, <2>7, <3>1
      <3>2. CASE j = Len(pkt) + 1
        <4>1. buf[cur] \in (r0 + 1)..pushed
          BY <1>2, <2>4, <2>5, <2>8
        <4> QED BY <2>5, <2>7, <2>8, <3>2, <4>1
      <3> QED BY <2>3, <2>7, <3>1, <3>2
    <2>10. Gathering(r0, r)'
      BY <1>2, <1>5, <2>2, <2>3, <2>5, <2>6, <2>8, <2>9 DEF Gathering
    <2> QED BY <1>2, <1>3, <1>5, <2>3, <2>10 DEF LossInv
  <1>9. CASE Gathered
    <2>1. PICK r0 \in 0..r : Gathering(r0, r)
      BY <1>7, <1>9 DEF Gathered
    <2>2. UNCHANGED <<rd, rd0, cur, pkt, sent>> /\ pc' # "commit"
      BY <1>9 DEF Gathered
    <2>3. Gathering(r0, r)'
      BY <1>2, <1>5, <2>1, <2>2 DEF Gathering
    <2> QED BY <1>2, <1>3, <1>5, <2>2, <2>3 DEF LossInv
  <1>10. CASE Send
    <2>1. PICK r0 \in 0..r : Gathering(r0, r)
      BY <1>7, <1>10 DEF Send
    <2>2. /\ sent' = sent \o pkt /\ pc' = "commit" /\ UNCHANGED <<rd, rd0, cur, pkt>>
          /\ sent \in Seq(1..MaxFrames) /\ pkt \in Seq(1..MaxFrames)
          /\ Len(sent) \in Nat /\ Len(pkt) \in Nat
      BY <1>10 DEF Send, TypeOK
    <2>3. /\ Len(sent') = Len(sent) + Len(pkt)
          /\ \A i \in 1..Len(sent) : sent'[i] = sent[i] /\ i \in 1..Len(sent')
          /\ \A j \in 1..Len(pkt) : sent'[Len(sent) + j] = pkt[j] /\ Len(sent) + j \in 1..Len(sent')
      BY <2>2
    <2>4. SentSet \subseteq SentSet' /\ \A j \in 1..Len(pkt) : pkt[j] \in SentSet'
      BY <2>3 DEF SentSet
    <2>5. ASSUME NEW n \in Nat
          PROVE  Cardinality(Lost(n)') <= Cardinality(Lost(n)) /\ Cardinality(Lost(n)') \in Nat
      <3>1. Lost(n)' \subseteq Lost(n)
        BY <2>4 DEF Lost
      <3> QED BY <3>1, LostFinite, FS_Subset, FS_CardinalityType
    <2>6. ReadTo(r)'
      BY <1>2, <1>4, <2>2, <2>5 DEF ReadTo
    <2>7. Gathering(r0, r)'
      <3>1. Cardinality(Lost(r0)') + (r - r0) <= drops
        <4>1. Cardinality(Lost(r0)) + (r - r0) <= drops /\ r0 \in Nat
          BY <1>2, <2>1 DEF Gathering
        <4>2. Cardinality(Lost(r0)) \in Nat
          BY <4>1, LostFinite
        <4> QED BY <1>2, <2>5, <4>1, <4>2
      <3> QED BY <1>2, <2>1, <2>2, <2>4, <3>1 DEF Gathering
    <2> QED BY <1>2, <1>3, <2>6, <2>7 DEF LossInv
  <1>11. CASE Refuse
    <2>1. pc' = "idle" /\ UNCHANGED <<rd, sent>>
      BY <1>11 DEF Refuse
    <2> QED BY <1>2, <1>3, <1>5, <2>1 DEF LossInv
  <1>12. CASE Commit
    <2>1. PICK r0 \in 0..r : Gathering(r0, r)
      BY <1>7, <1>12 DEF Commit
    <2>2. PICK s \in 0..pushed : ReadTo(s)'
      BY <1>1, <1>2, <1>12, <2>1, LossCommit
    <2>3. pc' = "idle"
      BY <1>12 DEF Commit
    <2> QED BY <1>2, <1>3, <2>2, <2>3 DEF LossInv
  <1> QED BY <1>6, <1>8, <1>9, <1>10, <1>11, <1>12 DEF Drain

LEMMA LossInit == Init => LossInv
  <1> SUFFICES ASSUME Init PROVE LossInv
    OBVIOUS
  <1>1. wr = 0 /\ rd = 0 /\ pushed = 0 /\ drops = 0 /\ pc = "idle"
    BY DEF Init
  <1>2. 0 % RING = 0
    <2>1. 0 \in 0..RING-1
      BY RingNat
    <2> QED BY <2>1, RingNat, ModSmall
  <1>3. LastLap
    BY <1>1, <1>2 DEF LastLap
  <1>4. Cardinality(Lost(0)) = 0
    <2>1. Lost(0) = {}
      BY DEF Lost
    <2> QED BY <2>1, FS_EmptySet
  <1>5. ReadTo(0) /\ 0 \in 0..pushed
    BY <1>1, <1>2, <1>4, RingNat DEF ReadTo
  <1> QED BY <1>1, <1>3, <1>5 DEF LossInv

\* drops() never understates what the peer did not get, for every ring larger than a packet and
\* however often the interrupt laps drain() while it gathers and sends.
THEOREM DropsCoverLosses == Spec => []LossesCounted
  <1>1. TypeOK /\ TypeOK' /\ LossInv /\ [Next]_vars => LossInv'
    <2> SUFFICES ASSUME TypeOK, TypeOK', LossInv, [Next]_vars PROVE LossInv'
      OBVIOUS
    <2>1. CASE UNCHANGED vars
      <3>1. LastLap'
        BY <2>1 DEF vars, LossInv, LastLap
      <3>2. \A n : Lost(n)' = Lost(n) /\ SentSet' = SentSet
        BY <2>1 DEF vars, Lost, SentSet
      <3>3. \A n : ReadTo(n)' <=> ReadTo(n)
        BY <2>1, <3>2 DEF vars, ReadTo
      <3>4. \A m, n : Gathering(m, n)' <=> Gathering(m, n)
        BY <2>1, <3>2 DEF vars, Gathering
      <3>5. pushed' = pushed /\ pc' = pc
        BY <2>1 DEF vars
      <3> QED BY <3>1, <3>3, <3>4, <3>5 DEF LossInv
    <2> QED BY <2>1, LossPush, LossDrain DEF Next
  <1>2. TypeOK /\ LossInv => LossesCounted
    <2> SUFFICES ASSUME TypeOK, LossInv PROVE LossesCounted
      OBVIOUS
    <2>1. PICK r \in 0..pushed : ReadTo(r)
      BY DEF LossInv
    <2>2. Queued = (r + 1)..pushed
      BY <2>1, CountIs DEF LossInv
    <2>3. (1..pushed) \ (Queued \cup {sent[i] : i \in 1..Len(sent)}) = Lost(r)
      <3>1. pushed \in Nat
        BY DEF TypeOK
      <3> QED BY <2>2, <3>1 DEF Lost, SentSet
    <2> QED BY <2>1, <2>3 DEF LossesCounted, ReadTo
  <1> QED BY <1>1, <1>2, LossInit, TypeCorrect, PTL DEF Spec
=============================================================================
