--------------------------- MODULE ConnPoolProofs ---------------------------
(***************************************************************************)
(* Proofs about ConnPool, for pools, control blocks, handles, ports,       *)
(* windows and deliveries of every number and size.                        *)
(*                                                                         *)
(* What holds of the pool is stated of its parts as arguments, so that it  *)
(* can be followed through a call that changes them more than once.        *)
(***************************************************************************)
EXTENDS ConnPool, FiniteSetTheorems, TLAPS

-----------------------------------------------------------------------------
(* The invariant.  c, b and hd are conn, pcb and handle; x is the slot an    *)
(* assignment has referenced and not given to its handle yet, r the slot     *)
(* that release() is about to free.                                          *)

SlotRecords ==
  [state : ConnStates, pcb : Pcbs \cup {None}, refs : Nat, claimed : BOOLEAN,
   port : Ports \cup {0}, done : BOOLEAN, ok : BOOLEAN, rx : 0..RxMax \cup 0..MaxDelivery,
   off : 0..1, age : 0..StallAge]
PcbRecords ==
  [st : {"free", "syn", "open", "closing"}, cb : Slots \cup {None}, debit : 0..Window,
   refused : 0..MaxDelivery, fin : BOOLEAN, unacked : BOOLEAN]
SlotOrNone == Slots \cup {None}
Conns == [Slots -> SlotRecords]
Blocks == [Pcbs -> PcbRecords]
Pointers == [Handles -> SlotOrNone]

\* f with v at i; b with block q, if there is one, replaced by k.
Put(f, i, v) == [f EXCEPT ![i] = v]
Without(b, q, k) == IF q = None THEN b ELSE [b EXCEPT ![q] = k]

Typed(c, b, hd, x, r) ==
  /\ c \in Conns /\ b \in Blocks
  /\ hd \in Pointers /\ x \in SlotOrNone /\ r \in SlotOrNone

Count(hd, s) == Cardinality({h \in Handles : hd[h] = s})
Extra(x, s) == IF x = s THEN 1 ELSE 0

\* A slot's references are counted, and with them it is claimed and in use.
Counted(c, hd, x) ==
  \A s \in Slots : /\ c[s].refs = Count(hd, s) + Extra(x, s)
                   /\ c[s].refs # 0 => c[s].claimed /\ c[s].state # "FREE"

\* A free slot is blank; one in use can be collected.
Reapable(c, r) ==
  \A s \in Slots : IF c[s].state = "FREE" THEN c[s] = FreeConn
                   ELSE \/ c[s].refs # 0
                        \/ ~c[s].claimed /\ c[s].port # 0 /\ c[s].pcb # None
                        \/ s = r

\* Nobody but release() can reach the slot it frees.
Releasing(c, r) ==
  r # None => c[r].refs = 0 /\ c[r].pcb = None /\ c[r].claimed /\ c[r].state # "FREE"

\* A slot and its control block point at each other, and the window is down by what is staged
\* or refused.
Owned(c, b) ==
  /\ \A p \in Pcbs : b[p].cb # None => c[b[p].cb].pcb = p
  /\ \A s \in Slots : c[s].pcb # None =>
       /\ c[s].state # "FREE"
       /\ b[c[s].pcb].cb = s /\ b[c[s].pcb].st \in {"syn", "open"}
       /\ b[c[s].pcb].debit = AvailableBytes(c[s]) + 2 * b[c[s].pcb].refused

Pool(c, b, hd, x, r) ==
  /\ Typed(c, b, hd, x, r)
  /\ Counted(c, hd, x) /\ Reapable(c, r) /\ Releasing(c, r) /\ Owned(c, b)

Giving == IF sketch.at = "release" THEN sketch.give ELSE None
Freeing == IF sketch.at = "release" THEN sketch.slot ELSE None

\* Where a call waits, its handle has a slot; that has no block before tcp_connect() and after
\* the close, and nothing staged before it.
Waiting ==
  /\ sketch \in SketchStates
  /\ sketch.at \in {"flush", "stop", "new", "wait"} => handle[sketch.h] # None
  /\ sketch.at \in {"stop", "new"} => conn[handle[sketch.h]].pcb = None
  /\ sketch.at = "new" => AvailableBytes(conn[handle[sketch.h]]) = 0
  /\ sketch.at = "release" => handle[sketch.h] = None

IInv ==
  /\ Pool(conn, pcb, handle, Giving, Freeing) /\ Waiting
  /\ listening \subseteq Ports /\ linkUp \in BOOLEAN

-----------------------------------------------------------------------------
(* Counting.                                                                 *)

LEMMA CountType ==
  ASSUME NEW hd
  PROVE  \A s : Count(hd, s) \in Nat /\ Count(hd, s) <= Cardinality(Handles)
  <1> SUFFICES ASSUME NEW s PROVE Count(hd, s) \in Nat /\ Count(hd, s) <= Cardinality(Handles)
    OBVIOUS
  <1>1. {h \in Handles : hd[h] = s} \subseteq Handles /\ IsFiniteSet(Handles)
    BY PoolAssumption
  <1> QED BY <1>1, FS_Subset, FS_CardinalityType DEF Count

\* A handle that is pointed elsewhere is counted there and no longer where it was.
LEMMA CountMoves ==
  ASSUME NEW hd \in Pointers, NEW h \in Handles, NEW g \in SlotOrNone,
         NEW new, new = Put(hd, h, g)
  PROVE  /\ new \in Pointers
         /\ \A s \in Slots : Count(new, s) = Count(hd, s) - Extra(hd[h], s) + Extra(g, s)
  <1> USE DEF Pointers, Put
  <1> SUFFICES ASSUME NEW s \in Slots
               PROVE  Count(new, s) = Count(hd, s) - Extra(hd[h], s) + Extra(g, s)
    OBVIOUS
  <1> DEFINE S == {k \in Handles : hd[k] = s}
             B == S \ {h}
             T == {k \in Handles : new[k] = s}
  <1>1. IsFiniteSet(S) /\ IsFiniteSet(B) /\ Cardinality(S) \in Nat /\ Cardinality(B) \in Nat
    BY PoolAssumption, FS_Subset, FS_CardinalityType
  <1>2. Cardinality(S) = Cardinality(B) + Extra(hd[h], s)
    <2>1. CASE hd[h] = s
      <3>1. h \in S /\ S = B \cup {h} /\ h \notin B
        BY <2>1
      <3> QED BY <1>1, <2>1, <3>1, FS_AddElement DEF Extra
    <2>2. CASE hd[h] # s
      <3>1. S = B
        BY <2>2
      <3> QED BY <1>1, <2>2, <3>1 DEF Extra
    <2> QED BY <2>1, <2>2
  <1>3. Cardinality(T) = Cardinality(B) + Extra(g, s)
    <2>1. CASE g = s
      <3>1. T = B \cup {h} /\ h \notin B
        BY <2>1
      <3> QED BY <1>1, <2>1, <3>1, FS_AddElement DEF Extra
    <2>2. CASE g # s
      <3>1. T = B
        BY <2>2
      <3> QED BY <1>1, <2>2, <3>1 DEF Extra
    <2> QED BY <2>1, <2>2
  <1>4. Extra(hd[h], s) \in {0, 1} /\ Extra(g, s) \in {0, 1}
    BY DEF Extra
  <1> HIDE DEF S, B, T
  <1>5. Count(hd, s) = Cardinality(S) /\ Count(new, s) = Cardinality(T)
    BY DEF Count, S, T
  <1> QED BY <1>1, <1>2, <1>3, <1>4, <1>5

\* The count of a slot fits its counter, with one to spare.
LEMMA CountFits ==
  ASSUME NEW c, NEW b, NEW hd, NEW x, NEW r, Pool(c, b, hd, x, r)
  PROVE  \A s \in Slots : /\ c[s].refs \in Nat /\ c[s].refs <= Holders
                          /\ x = None => (c[s].refs + 1) % RefMod = c[s].refs + 1
  <1> SUFFICES ASSUME NEW s \in Slots
               PROVE  /\ c[s].refs \in Nat /\ c[s].refs <= Holders
                      /\ x = None => (c[s].refs + 1) % RefMod = c[s].refs + 1
    OBVIOUS
  <1>1. Count(hd, s) \in Nat /\ Count(hd, s) <= Cardinality(Handles) /\ Cardinality(Handles) \in Nat
    BY CountType, PoolAssumption, FS_CardinalityType
  <1>2. c[s].refs = Count(hd, s) + Extra(x, s)
    BY DEF Pool, Counted
  <1>3. Extra(x, s) \in {0, 1} /\ (x = None => Extra(x, s) = 0)
    BY PoolAssumption DEF Extra
  <1>4. RefMod \in Nat /\ Cardinality(Handles) + 1 < RefMod
    BY PoolAssumption
  <1>5. ASSUME x = None PROVE (c[s].refs + 1) % RefMod = c[s].refs + 1
    <2>1. c[s].refs + 1 \in 0..(RefMod - 1)
      BY <1>1, <1>2, <1>3, <1>4, <1>5
    <2> QED BY <1>4, <2>1
  <1> QED BY <1>1, <1>2, <1>3, <1>5 DEF Holders

-----------------------------------------------------------------------------
(* What a pool stays a pool under.                                           *)

LEMMA Blank ==
  /\ FreeConn \in SlotRecords /\ FreePcb \in PcbRecords
  /\ FreeConn.state = "FREE" /\ FreeConn.refs = 0 /\ FreeConn.pcb = None
  /\ FreePcb.st = "free" /\ FreePcb.cb = None
  /\ AvailableBytes(FreeConn) = 0
  <1>1. 0 \in 0..RxMax /\ 0 \in 0..StallAge /\ 0 \in 0..Window /\ 0 \in 0..MaxDelivery
    BY PoolAssumption
  <1> QED BY <1>1 DEF FreeConn, FreePcb, SlotRecords, PcbRecords, ConnStates, AvailableBytes

\* Steps that change no slot's owner and no reference.
LEMMA StaysPool ==
  ASSUME NEW c, NEW b, NEW hd, NEW x, NEW r, Pool(c, b, hd, x, r),
         NEW c2 \in Conns, NEW b2 \in Blocks,
         \A s \in Slots : /\ c2[s].refs = c[s].refs /\ c2[s].claimed = c[s].claimed
                          /\ c2[s].port = c[s].port /\ c2[s].pcb = c[s].pcb
                          /\ c2[s].state = "FREE" <=> c[s].state = "FREE"
                          /\ c[s].state = "FREE" => c2[s] = c[s],
         \A p \in Pcbs : b2[p].cb = b[p].cb,
         \A s \in Slots : c[s].pcb # None =>
           /\ b2[c[s].pcb].st \in {"syn", "open"}
           /\ b2[c[s].pcb].debit = AvailableBytes(c2[s]) + 2 * b2[c[s].pcb].refused
  PROVE  Pool(c2, b2, hd, x, r)
  <1> USE DEF Conns, Blocks
  <1>1. Typed(c2, b2, hd, x, r)
    BY DEF Pool, Typed
  <1>2. Counted(c2, hd, x)
    BY DEF Pool, Counted
  <1>3. Reapable(c2, r)
    BY DEF Pool, Reapable
  <1>4. Releasing(c2, r)
    BY DEF Pool, Typed, SlotOrNone, Releasing
  <1>5. Owned(c2, b2)
    <2>1. ASSUME NEW p \in Pcbs, b2[p].cb # None PROVE c2[b2[p].cb].pcb = p
      <3>1. b[p].cb \in Slots /\ c[b[p].cb].pcb = p /\ b2[p].cb = b[p].cb
        BY <2>1 DEF Pool, Typed, Owned, PcbRecords
      <3> QED BY <3>1
    <2>2. ASSUME NEW s \in Slots, c2[s].pcb # None
          PROVE  /\ c2[s].state # "FREE"
                 /\ b2[c2[s].pcb].cb = s /\ b2[c2[s].pcb].st \in {"syn", "open"}
                 /\ b2[c2[s].pcb].debit = AvailableBytes(c2[s]) + 2 * b2[c2[s].pcb].refused
      <3>1. c2[s].pcb = c[s].pcb /\ c[s].pcb \in Pcbs
        BY <2>2 DEF Pool, Typed, SlotRecords
      <3>2. c[s].state # "FREE" /\ b[c[s].pcb].cb = s
        BY <2>2, <3>1 DEF Pool, Owned
      <3> QED BY <2>2, <3>1, <3>2
    <2> QED BY <2>1, <2>2 DEF Owned
  <1> QED BY <1>1, <1>2, <1>3, <1>4, <1>5 DEF Pool

\* connErr() on every slot of D: abortAll(), and with one slot a failure of that connection.
LEMMA ErrorsKeep ==
  ASSUME NEW c, NEW b, NEW hd, NEW x, NEW r, Pool(c, b, hd, x, r),
         NEW D, D \subseteq Slots, \A s \in D : c[s].pcb # None,
         NEW c2, c2 = [s \in Slots |-> IF s \in D THEN Errored(c[s]) ELSE c[s]],
         NEW b2, b2 = [p \in Pcbs |-> IF \E s \in D : c[s].pcb = p THEN FreePcb ELSE b[p]]
  PROVE  Pool(c2, b2, hd, x, r)
  <1> USE DEF Conns, Blocks
  <1>0. /\ c \in Conns /\ b \in Blocks
        /\ \A s \in D : c[s].state # "FREE"
    BY DEF Pool, Typed, Owned
  <1>1. \A s \in Slots : Errored(c[s]) \in SlotRecords
    BY <1>0, Blank DEF Errored, SlotRecords, ConnStates
  <1>2. Typed(c2, b2, hd, x, r)
    BY <1>0, <1>1, Blank DEF Pool, Typed
  <1>3. \A s \in Slots : /\ s \notin D => c2[s] = c[s]
                         /\ s \in D /\ c[s].refs = 0 => c2[s] = FreeConn
                         /\ s \in D /\ c[s].refs # 0 =>
                              /\ c2[s].refs = c[s].refs /\ c2[s].claimed = c[s].claimed
                              /\ c2[s].state = "PEER_CLOSED"
                         /\ s \in D => c2[s].pcb = None
    BY <1>0, Blank DEF Errored, SlotRecords
  <1>4. Counted(c2, hd, x)
    BY <1>0, <1>3, Blank DEF Pool, Counted
  <1>5. Reapable(c2, r)
    BY <1>0, <1>3, Blank DEF Pool, Reapable
  <1>6. Releasing(c2, r)
    <2>1. r # None => r \in Slots /\ r \notin D
      BY DEF Pool, Typed, SlotOrNone, Releasing
    <2> QED BY <1>3, <2>1 DEF Pool, Releasing
  <1>7. Owned(c2, b2)
    <2>1. ASSUME NEW p \in Pcbs, b2[p].cb # None PROVE c2[b2[p].cb].pcb = p
      <3>1. b2[p] = b[p] /\ ~(\E s \in D : c[s].pcb = p)
        BY <2>1, Blank
      <3>2. b[p].cb \in Slots /\ c[b[p].cb].pcb = p
        BY <1>0, <2>1, <3>1 DEF Pool, Owned, PcbRecords
      <3> QED BY <1>3, <3>1, <3>2
    <2>2. ASSUME NEW s \in Slots, c2[s].pcb # None
          PROVE  /\ c2[s] = c[s] /\ b2[c[s].pcb] = b[c[s].pcb] /\ c[s].pcb \in Pcbs
      <3>1. s \notin D /\ c2[s] = c[s]
        BY <1>3, <2>2
      <3>2. c[s].pcb \in Pcbs /\ b[c[s].pcb].cb = s
        BY <1>0, <2>2, <3>1 DEF Pool, Owned, SlotRecords
      <3>3. ASSUME NEW t \in D, c[t].pcb = c[s].pcb PROVE FALSE
        BY <3>1, <3>2, <3>3 DEF Pool, Owned
      <3> QED BY <3>1, <3>2, <3>3
    <2>3. ASSUME NEW s \in Slots, c2[s].pcb # None
          PROVE  /\ c2[s].state # "FREE"
                 /\ b2[c2[s].pcb].cb = s /\ b2[c2[s].pcb].st \in {"syn", "open"}
                 /\ b2[c2[s].pcb].debit = AvailableBytes(c2[s]) + 2 * b2[c2[s].pcb].refused
      <3>1. c2[s] = c[s] /\ b2[c2[s].pcb] = b[c[s].pcb] /\ c[s].pcb # None
        BY <2>2, <2>3
      <3>2. /\ c[s].state # "FREE"
            /\ b[c[s].pcb].cb = s /\ b[c[s].pcb].st \in {"syn", "open"}
            /\ b[c[s].pcb].debit = AvailableBytes(c[s]) + 2 * b[c[s].pcb].refused
        BY <3>1 DEF Pool, Owned
      <3> QED BY <3>1, <3>2
    <2>4. \A p \in Pcbs : b2[p].cb # None => c2[b2[p].cb].pcb = p
      BY <2>1
    <2>5. \A s \in Slots : c2[s].pcb # None =>
            /\ c2[s].state # "FREE"
            /\ b2[c2[s].pcb].cb = s /\ b2[c2[s].pcb].st \in {"syn", "open"}
            /\ b2[c2[s].pcb].debit = AvailableBytes(c2[s]) + 2 * b2[c2[s].pcb].refused
      BY <2>3
    <2> QED BY <2>4, <2>5 DEF Owned
  <1> QED BY <1>2, <1>4, <1>5, <1>6, <1>7 DEF Pool

LEMMA ErrorKeeps ==
  ASSUME NEW c, NEW b, NEW hd, NEW x, NEW r, Pool(c, b, hd, x, r),
         NEW s \in Slots, NEW p \in Pcbs, c[s].pcb = p
  PROVE  Pool([c EXCEPT ![s] = Errored(c[s])], [b EXCEPT ![p] = FreePcb], hd, x, r)
  <1> USE DEF Conns, Blocks
  <1> DEFINE D == {s}
             c2 == [t \in Slots |-> IF t \in D THEN Errored(c[t]) ELSE c[t]]
             b2 == [q \in Pcbs |-> IF \E t \in D : c[t].pcb = q THEN FreePcb ELSE b[q]]
  <1>1. c \in Conns /\ b \in Blocks /\ p # None
    BY PoolAssumption DEF Pool, Typed
  <1>2. c2 = [c EXCEPT ![s] = Errored(c[s])] /\ b2 = [b EXCEPT ![p] = FreePcb]
    BY <1>1
  <1>3. D \subseteq Slots /\ \A t \in D : c[t].pcb # None
    BY <1>1
  <1> HIDE DEF D, c2, b2
  <1>4. Pool(c2, b2, hd, x, r)
    BY <1>3, ErrorsKeep DEF c2, b2
  <1> QED BY <1>2, <1>4

-----------------------------------------------------------------------------
(* One slot changes, and the blocks with it.                                 *)

LEMMA OwnedKeeps ==
  ASSUME NEW c \in Conns, NEW b \in Blocks, Owned(c, b),
         NEW s \in Slots, NEW n \in SlotRecords, NEW b2 \in Blocks,
         \A p \in Pcbs : b2[p].cb # None =>
           \/ b2[p].cb = s /\ n.pcb = p
           \/ b2[p].cb # s /\ b2[p].cb = b[p].cb,
         \A t \in Slots \ {s} : c[t].pcb # None => b2[c[t].pcb] = b[c[t].pcb],
         n.pcb # None =>
           /\ n.state # "FREE"
           /\ b2[n.pcb].cb = s /\ b2[n.pcb].st \in {"syn", "open"}
           /\ b2[n.pcb].debit = AvailableBytes(n) + 2 * b2[n.pcb].refused,
         NEW c2, c2 = Put(c, s, n)
  PROVE  Owned(c2, b2)
  <1> USE DEF Conns, Blocks, Put
  <1>0. c2[s] = n /\ \A t \in Slots \ {s} : c2[t] = c[t]
    OBVIOUS
  <1>1. ASSUME NEW p \in Pcbs, b2[p].cb # None PROVE c2[b2[p].cb].pcb = p
    <2>1. CASE b2[p].cb = s
      BY <1>0, <1>1, <2>1
    <2>2. CASE b2[p].cb # s
      <3>1. b2[p].cb \in Slots \ {s} /\ b2[p].cb = b[p].cb
        BY <1>1, <2>2 DEF PcbRecords
      <3> QED BY <1>0, <1>1, <3>1 DEF Owned
    <2> QED BY <2>1, <2>2
  <1>2. ASSUME NEW t \in Slots, c2[t].pcb # None
        PROVE  /\ c2[t].state # "FREE"
               /\ b2[c2[t].pcb].cb = t /\ b2[c2[t].pcb].st \in {"syn", "open"}
               /\ b2[c2[t].pcb].debit = AvailableBytes(c2[t]) + 2 * b2[c2[t].pcb].refused
    <2>1. CASE t = s
      BY <1>0, <1>2, <2>1
    <2>2. CASE t # s
      <3>1. c2[t] = c[t] /\ b2[c[t].pcb] = b[c[t].pcb] /\ c[t].pcb # None
        BY <1>0, <1>2, <2>2
      <3> QED BY <3>1 DEF Owned
    <2> QED BY <2>1, <2>2
  <1> QED BY <1>1, <1>2 DEF Owned

LEMMA SlotChanges ==
  ASSUME NEW c, NEW b, NEW hd, NEW x, NEW r, Pool(c, b, hd, x, r),
         NEW s \in Slots, NEW n \in SlotRecords, NEW b2 \in Blocks,
         NEW hd2 \in Pointers, NEW x2 \in SlotOrNone, NEW r2 \in SlotOrNone,
         NEW c2, c2 = Put(c, s, n), Owned(c2, b2),
         \A t \in Slots \ {s} : Count(hd2, t) + Extra(x2, t) = Count(hd, t) + Extra(x, t),
         n.refs = Count(hd2, s) + Extra(x2, s),
         n.refs # 0 => n.claimed /\ n.state # "FREE",
         IF n.state = "FREE" THEN n = FreeConn
         ELSE n.refs # 0 \/ (~n.claimed /\ n.port # 0 /\ n.pcb # None) \/ s = r2,
         r \in {None, s, r2},
         r2 # None => \/ r2 = s /\ n.refs = 0 /\ n.pcb = None /\ n.claimed /\ n.state # "FREE"
                      \/ r2 = r /\ r # s
  PROVE  Pool(c2, b2, hd2, x2, r2)
  <1> USE DEF Conns, Put
  <1>0. c \in Conns
    BY DEF Pool, Typed
  <1>1. c2[s] = n /\ (\A t \in Slots \ {s} : c2[t] = c[t]) /\ c2 \in Conns
    BY <1>0
  <1>2. Typed(c2, b2, hd2, x2, r2)
    BY <1>1 DEF Typed
  <1>3. Counted(c2, hd2, x2)
    <2>1. ASSUME NEW t \in Slots, t # s
          PROVE  /\ c2[t].refs = Count(hd2, t) + Extra(x2, t)
                 /\ c2[t].refs # 0 => c2[t].claimed /\ c2[t].state # "FREE"
      BY <1>1, <2>1 DEF Pool, Counted
    <2> QED BY <1>1, <2>1 DEF Counted
  <1>4. Reapable(c2, r2)
    <2>1. None \notin Slots
      BY PoolAssumption
    <2>2. ASSUME NEW t \in Slots, t # s
          PROVE  IF c2[t].state = "FREE" THEN c2[t] = FreeConn
                 ELSE \/ c2[t].refs # 0
                      \/ ~c2[t].claimed /\ c2[t].port # 0 /\ c2[t].pcb # None
                      \/ t = r2
      BY <1>1, <2>1, <2>2 DEF Pool, Reapable
    <2> QED BY <1>1, <2>2 DEF Reapable
  <1>5. Releasing(c2, r2)
    <2>1. CASE r2 # None /\ r2 = r /\ r # s
      <3>1. c2[r2] = c[r2]
        BY <1>1, <2>1 DEF SlotOrNone
      <3> QED BY <2>1, <3>1 DEF Pool, Releasing
    <2> QED BY <1>1, <2>1 DEF Releasing
  <1> QED BY <1>2, <1>3, <1>4, <1>5 DEF Pool

-----------------------------------------------------------------------------
(* The pool's operations.                                                    *)

\* A slot lets go of its control block; one without a block has none to lose.
LEMMA LetsGo ==
  ASSUME NEW c \in Conns, NEW b \in Blocks, Owned(c, b),
         NEW s \in Slots, NEW n \in SlotRecords, n.pcb = None,
         NEW k \in PcbRecords, k.cb = None,
         NEW b2, b2 = Without(b, c[s].pcb, k),
         NEW c2, c2 = Put(c, s, n)
  PROVE  b2 \in Blocks /\ Owned(c2, b2)
  <1> USE DEF Conns, Blocks, Put, Without
  <1>1. c[s].pcb \in Pcbs \cup {None} /\ None \notin Pcbs
    BY PoolAssumption DEF SlotRecords, Conns
  <1>2. b2 \in Blocks
    BY <1>1
  <1>3. ASSUME NEW q \in Pcbs, b2[q].cb # None
        PROVE  \/ b2[q].cb = s /\ n.pcb = q
               \/ b2[q].cb # s /\ b2[q].cb = b[q].cb
    <2>1. q # c[s].pcb /\ b2[q] = b[q]
      BY <1>1, <1>3
    <2>2. c[b[q].cb].pcb = q
      BY <1>3, <2>1 DEF Owned
    <2> QED BY <2>1, <2>2
  <1>4. ASSUME NEW t \in Slots \ {s}, c[t].pcb # None PROVE b2[c[t].pcb] = b[c[t].pcb]
    <2>1. c[t].pcb \in Pcbs /\ b[c[t].pcb].cb = t
      BY <1>4 DEF Owned, SlotRecords
    <2>2. c[t].pcb # c[s].pcb
      BY <1>1, <1>4, <2>1 DEF Owned
    <2> QED BY <1>1, <2>1, <2>2
  <1> HIDE DEF Conns, Blocks, Put, Without
  <1> QED BY <1>2, <1>3, <1>4, OwnedKeeps

\* A slot keeps its control block, its bytes and its use.
LEMMA HoldsOn ==
  ASSUME NEW c \in Conns, NEW b \in Blocks, Owned(c, b),
         NEW s \in Slots, NEW n \in SlotRecords, n.pcb = c[s].pcb,
         n.rx = c[s].rx, n.off = c[s].off, n.state = "FREE" => c[s].pcb = None,
         NEW c2, c2 = Put(c, s, n)
  PROVE  Owned(c2, b)
  <1>1. \A p \in Pcbs : b[p].cb # None =>
           \/ b[p].cb = s /\ n.pcb = p
           \/ b[p].cb # s /\ b[p].cb = b[p].cb
    BY DEF Owned
  <1>2. n.pcb # None =>
           /\ n.state # "FREE"
           /\ b[n.pcb].cb = s /\ b[n.pcb].st \in {"syn", "open"}
           /\ b[n.pcb].debit = AvailableBytes(n) + 2 * b[n.pcb].refused
    BY DEF Owned, AvailableBytes
  <1> QED BY <1>1, <1>2, OwnedKeeps

\* closeConn() on a slot that has references.
LEMMA CloseKeeps ==
  ASSUME NEW c, NEW b, NEW hd, NEW x, NEW r, Pool(c, b, hd, x, r),
         NEW s \in Slots, c[s].refs # 0, NEW k \in PcbRecords, k.cb = None,
         NEW b2, b2 = Without(b, c[s].pcb, k),
         NEW c2, c2 = Put(c, s, [c[s] EXCEPT !.pcb = None])
  PROVE  Pool(c2, b2, hd, x, r)
  <1> DEFINE n == [c[s] EXCEPT !.pcb = None]
  <1>0. /\ c \in Conns /\ b \in Blocks
        /\ hd \in Pointers /\ x \in SlotOrNone /\ r \in SlotOrNone
        /\ Owned(c, b)
    BY DEF Pool, Typed
  <1>1. /\ n \in SlotRecords /\ n.pcb = None /\ n.refs = c[s].refs /\ n.claimed = c[s].claimed
        /\ n.state = c[s].state
        /\ c2 = Put(c, s, n)
    BY <1>0 DEF Put, Conns, SlotRecords
  <1> HIDE DEF n
  <1>2. b2 \in Blocks /\ Owned(c2, b2)
    BY <1>0, <1>1, LetsGo
  <1>3. /\ n.refs = Count(hd, s) + Extra(x, s) /\ n.claimed /\ n.state # "FREE"
        /\ r # s
    BY <1>1, PoolAssumption DEF Pool, Counted, Releasing
  <1>4. Typed(c2, b2, hd, x, r)
    BY <1>0, <1>1, <1>2 DEF Typed, Put, Conns
  <1>5. Counted(c2, hd, x)
    BY <1>0, <1>1 DEF Pool, Counted, Put, Conns
  <1>6. Reapable(c2, r)
    BY <1>0, <1>1, <1>3 DEF Pool, Reapable, Put, Conns
  <1>7. Releasing(c2, r)
    BY <1>0, <1>1, <1>3 DEF Pool, Releasing, SlotOrNone, Put, Conns
  <1> QED BY <1>2, <1>4, <1>5, <1>6, <1>7 DEF Pool

\* release() of a last reference to a live connection, up to the close.
LEMMA LastKeeps ==
  ASSUME NEW c, NEW b, NEW hd, NEW x, Pool(c, b, hd, x, None),
         NEW h \in Handles, NEW s \in Slots, hd[h] = s,
         c[s].refs = 1, c[s].pcb # None, NEW k \in PcbRecords, k.cb = None,
         NEW c2, c2 = Put(c, s, [c[s] EXCEPT !.refs = 0, !.pcb = None]),
         NEW b2, b2 = Put(b, c[s].pcb, k),
         NEW hd2, hd2 = Put(hd, h, None)
  PROVE  Pool(c2, b2, hd2, x, s)
  <1> DEFINE n == [c[s] EXCEPT !.refs = 0, !.pcb = None]
  <1>0. /\ c \in Conns /\ b \in Blocks
        /\ hd \in Pointers /\ x \in SlotOrNone /\ Owned(c, b)
        /\ None \in SlotOrNone /\ s \in SlotOrNone /\ None \notin Slots
    BY PoolAssumption DEF Pool, Typed, SlotOrNone
  <1>1. /\ n \in SlotRecords /\ n.pcb = None /\ n.refs = 0 /\ n.claimed = c[s].claimed
        /\ n.state = c[s].state
        /\ c2 = Put(c, s, n)
    <2>1. c[s] \in SlotRecords
      BY <1>0 DEF Conns
    <2>2. /\ n \in SlotRecords /\ n.pcb = None /\ n.refs = 0 /\ n.claimed = c[s].claimed
          /\ n.state = c[s].state
      BY <1>0, <2>1 DEF SlotRecords
    <2>3. c2 = Put(c, s, n)
      OBVIOUS
    <2> QED BY <2>2, <2>3
  <1> HIDE DEF n
  <1>2. b2 \in Blocks /\ Owned(c2, b2)
    <2>1. b2 = Without(b, c[s].pcb, k)
      BY DEF Put, Without
    <2> QED BY <1>0, <1>1, <2>1, LetsGo
  <1>3. /\ c[s].claimed /\ c[s].state # "FREE"
        /\ Count(hd, s) + Extra(x, s) = 1
    BY DEF Pool, Counted
  <1>4. /\ hd2 \in Pointers
        /\ \A t \in Slots : Count(hd2, t) = Count(hd, t) - Extra(hd[h], t) + Extra(None, t)
    BY <1>0, CountMoves
  <1>5. \A t : Count(hd2, t) \in Nat /\ Count(hd, t) \in Nat
    BY CountType
  <1>6. n.refs = Count(hd2, s) + Extra(x, s)
    <2>1. Count(hd2, s) = Count(hd, s) - 1
      BY <1>0, <1>4, <1>5 DEF Extra
    <2> QED BY <1>1, <1>3, <1>5, <2>1 DEF Extra
  <1>7. \A t \in Slots \ {s} : Count(hd2, t) + Extra(x, t) = Count(hd, t) + Extra(x, t)
    <2>1. \A t \in Slots \ {s} : Count(hd2, t) = Count(hd, t)
      BY <1>0, <1>4, <1>5 DEF Extra
    <2> QED BY <2>1
  <1>8. /\ n.refs # 0 => n.claimed /\ n.state # "FREE"
        /\ IF n.state = "FREE" THEN n = FreeConn
           ELSE n.refs # 0 \/ (~n.claimed /\ n.port # 0 /\ n.pcb # None) \/ s = s
        /\ None \in {None, s, s}
        /\ s # None => \/ s = s /\ n.refs = 0 /\ n.pcb = None /\ n.claimed /\ n.state # "FREE"
                       \/ s = None /\ None # s
    BY <1>1, <1>3
  <1> QED BY <1>0, <1>1, <1>2, <1>4, <1>6, <1>7, <1>8, SlotChanges

\* release() otherwise: the handle lets go of slot s, and gets the one an assignment has
\* referenced.
LEMMA ReleaseKeeps ==
  ASSUME NEW c, NEW b, NEW hd, NEW x, Pool(c, b, hd, x, None),
         NEW h \in Handles, NEW s \in Slots, hd[h] = s,
         c[s].refs = 1 => c[s].pcb = None,
         NEW c2, c2 = Released(c, s), NEW hd2, hd2 = Put(hd, h, x)
  PROVE  Pool(c2, b, hd2, None, None)
  <1> DEFINE n == IF c[s].refs <= 1 THEN FreeConn ELSE [c[s] EXCEPT !.refs = @ - 1]
  <1>0. /\ c \in Conns /\ b \in Blocks
        /\ hd \in Pointers /\ x \in SlotOrNone /\ Owned(c, b)
        /\ None \in SlotOrNone /\ s \in SlotOrNone /\ None \notin Slots
    BY PoolAssumption DEF Pool, Typed, SlotOrNone
  <1>1. /\ hd2 \in Pointers
        /\ \A t \in Slots : Count(hd2, t) = Count(hd, t) - Extra(s, t) + Extra(x, t)
    BY <1>0, CountMoves
  <1>2. \A t : Count(hd2, t) \in Nat /\ Count(hd, t) \in Nat
    BY CountType
  <1>3. c[s].refs = Count(hd, s) + Extra(x, s)
    BY DEF Pool, Counted
  <1>4. Extra(x, s) \in {0, 1} /\ Extra(s, s) = 1 /\ \A t \in Slots : Extra(None, t) = 0
    BY <1>0 DEF Extra
  <1>5. /\ c[s].refs \in Nat /\ c[s].refs >= 1
        /\ Count(hd2, s) + Extra(None, s) = c[s].refs - 1
    <2> DEFINE m == Count(hd, s)
               m2 == Count(hd2, s)
               e == Extra(x, s)
    <2>1. m \in Nat /\ m2 \in Nat /\ e \in {0, 1} /\ m2 = m - 1 + e /\ c[s].refs = m + e
      BY <1>1, <1>2, <1>3, <1>4
    <2> HIDE DEF m, m2, e
    <2> QED BY <1>4, <2>1 DEF m2
  <1>6. c[s].claimed /\ c[s].state # "FREE"
    BY <1>5 DEF Pool, Counted
  <1>7. /\ n \in SlotRecords /\ n.refs = c[s].refs - 1
        /\ n.refs # 0 => n.claimed /\ n.state # "FREE"
        /\ IF n.state = "FREE" THEN n = FreeConn ELSE n.refs # 0
        /\ c2 = Put(c, s, n)
    <2>1. CASE c[s].refs <= 1
      <3>1. n = FreeConn /\ c[s].refs = 1 /\ c2 = Put(c, s, n)
        BY <1>5, <2>1 DEF Released, Put
      <3> QED BY <3>1, Blank
    <2>2. CASE ~(c[s].refs <= 1)
      <3>1. n = [c[s] EXCEPT !.refs = @ - 1]
        BY <2>2
      <3>2. c[s].refs - 1 \in Nat \ {0}
        BY <1>5, <2>2
      <3>3. n \in SlotRecords /\ n.refs = c[s].refs - 1 /\ n.claimed /\ n.state # "FREE"
        BY <1>0, <1>6, <3>1, <3>2 DEF SlotRecords, Conns
      <3>4. c2 = Put(c, s, n)
        BY <1>0, <2>2, <3>1 DEF Released, Put, Conns
      <3> QED BY <3>2, <3>3, <3>4
    <2> QED BY <2>1, <2>2
  <1>8. Owned(c2, b)
    <2>1. CASE c[s].pcb = None
      <3>1. n.pcb = None
        BY <1>0, <2>1, Blank DEF SlotRecords, Conns
      <3> HIDE DEF n
      <3>2. b = Without(b, c[s].pcb, FreePcb)
        BY <2>1 DEF Without
      <3> QED BY <1>0, <1>7, <3>1, <3>2, Blank, LetsGo
    <2>2. CASE c[s].pcb # None
      <3>1. ~(c[s].refs <= 1)
        BY <1>5, <2>2
      <3>2. n.pcb = c[s].pcb /\ n.rx = c[s].rx /\ n.off = c[s].off /\ n.state # "FREE"
        BY <1>0, <1>6, <3>1 DEF SlotRecords, Conns
      <3> HIDE DEF n
      <3> QED BY <1>0, <1>7, <3>2, HoldsOn
    <2> QED BY <2>1, <2>2
  <1> HIDE DEF n
  <1>9. \A t \in Slots \ {s} : Count(hd2, t) + Extra(None, t) = Count(hd, t) + Extra(x, t)
    <2>1. \A t \in Slots \ {s} : Extra(s, t) = 0 /\ Extra(x, t) \in {0, 1}
      BY DEF Extra
    <2> QED BY <1>1, <1>2, <1>4, <2>1
  <1>10. b \in Blocks /\ None \in SlotOrNone
    BY <1>0
  <1> QED BY <1>0, <1>1, <1>5, <1>7, <1>8, <1>9, <1>10, SlotChanges

\* An empty handle gets the slot an assignment has referenced, or stays empty.
LEMMA GiveKeeps ==
  ASSUME NEW c, NEW b, NEW hd, NEW x, NEW r, Pool(c, b, hd, x, r),
         NEW h \in Handles, hd[h] = None,
         NEW hd2, hd2 = Put(hd, h, x)
  PROVE  Pool(c, b, hd2, None, r)
  <1>0. hd \in Pointers /\ x \in SlotOrNone /\ None \in SlotOrNone /\ None \notin Slots
    BY PoolAssumption DEF Pool, Typed, SlotOrNone
  <1>1. /\ hd2 \in Pointers
        /\ \A t \in Slots : Count(hd2, t) = Count(hd, t) - Extra(hd[h], t) + Extra(x, t)
    BY <1>0, CountMoves
  <1>2. \A t : Count(hd2, t) \in Nat /\ Count(hd, t) \in Nat
    BY CountType
  <1>3. \A t \in Slots : Extra(None, t) = 0 /\ Extra(x, t) \in {0, 1}
    BY <1>0 DEF Extra
  <1>4. \A t \in Slots : Count(hd2, t) + Extra(None, t) = Count(hd, t) + Extra(x, t)
    BY <1>1, <1>2, <1>3
  <1>5. Typed(c, b, hd2, None, r)
    BY <1>0, <1>1 DEF Pool, Typed
  <1>6. Counted(c, hd2, None)
    BY <1>4 DEF Pool, Counted
  <1> QED BY <1>5, <1>6 DEF Pool

\* release() frees its slot, once the close has returned.
LEMMA FreeKeeps ==
  ASSUME NEW c, NEW b, NEW hd, NEW x, NEW r \in Slots, Pool(c, b, hd, x, r),
         NEW c2, c2 = Put(c, r, FreeConn)
  PROVE  Pool(c2, b, hd, x, None)
  <1>0. /\ c \in Conns /\ b \in Blocks /\ hd \in Pointers /\ x \in SlotOrNone
        /\ Owned(c, b) /\ None \in SlotOrNone /\ None \notin Slots
    BY PoolAssumption DEF Pool, Typed, SlotOrNone
  <1>1. c[r].refs = 0 /\ c[r].pcb = None
    BY <1>0 DEF Pool, Releasing
  <1>2. b = Without(b, c[r].pcb, FreePcb)
    BY <1>1 DEF Without
  <1>3. Owned(c2, b)
    BY <1>0, <1>2, Blank, LetsGo
  <1>4. FreeConn.refs = Count(hd, r) + Extra(x, r)
    BY <1>1, Blank DEF Pool, Counted
  <1>5. /\ FreeConn \in SlotRecords
        /\ FreeConn.refs # 0 => FreeConn.claimed /\ FreeConn.state # "FREE"
        /\ IF FreeConn.state = "FREE" THEN FreeConn = FreeConn
           ELSE \/ FreeConn.refs # 0
                \/ ~FreeConn.claimed /\ FreeConn.port # 0 /\ FreeConn.pcb # None
                \/ r = None
        /\ r \in {None, r, None}
    BY Blank
  <1>6. None # None => \/ None = r /\ FreeConn.refs = 0 /\ FreeConn.pcb = None
                                   /\ FreeConn.claimed /\ FreeConn.state # "FREE"
                       \/ None = r /\ r # r
    OBVIOUS
  <1>7. \A t \in Slots \ {r} : Count(hd, t) + Extra(x, t) = Count(hd, t) + Extra(x, t)
    OBVIOUS
  <1> QED BY <1>0, <1>3, <1>4, <1>5, <1>6, <1>7, SlotChanges

\* addRef() and adopt() on a slot in use.
Taken(c, s) == [c[s] EXCEPT !.refs = (@ + 1) % RefMod, !.claimed = TRUE]

LEMMA RefKeeps ==
  ASSUME NEW c, NEW b, NEW hd, Pool(c, b, hd, None, None),
         NEW s \in Slots, c[s].state # "FREE",
         NEW c2, c2 = Put(c, s, Taken(c, s))
  PROVE  Pool(c2, b, hd, s, None)
  <1> DEFINE n == Taken(c, s)
  <1>0. /\ c \in Conns /\ b \in Blocks /\ hd \in Pointers
        /\ Owned(c, b) /\ None \in SlotOrNone /\ s \in SlotOrNone /\ None \notin Slots
    BY PoolAssumption DEF Pool, Typed, SlotOrNone
  <1>1. c[s].refs \in Nat /\ (c[s].refs + 1) % RefMod = c[s].refs + 1
    BY CountFits
  <1>2. /\ n \in SlotRecords /\ n.refs = c[s].refs + 1 /\ n.claimed /\ n.state = c[s].state
        /\ n.pcb = c[s].pcb /\ n.rx = c[s].rx /\ n.off = c[s].off
    <2>1. n = [c[s] EXCEPT !.refs = c[s].refs + 1, !.claimed = TRUE]
      BY <1>1, Zenon DEF Taken
    <2>2. c[s].refs + 1 \in Nat
      BY <1>1
    <2> HIDE DEF n
    <2> QED BY <1>0, <2>1, <2>2 DEF Conns, SlotRecords
  <1>3. n.refs # 0
    BY <1>1, <1>2
  <1> HIDE DEF n
  <1>4. c2 = Put(c, s, n)
    BY DEF n
  <1>5. Owned(c2, b)
    BY <1>0, <1>2, <1>4, HoldsOn
  <1>6. \A t \in Slots : Count(hd, t) \in Nat /\ c[t].refs = Count(hd, t) + Extra(None, t)
    BY CountType DEF Pool, Counted
  <1>7. \A t \in Slots : Extra(None, t) = 0 /\ (t # s => Extra(s, t) = 0) /\ Extra(s, s) = 1
    BY <1>0 DEF Extra
  <1>8. n.refs = Count(hd, s) + Extra(s, s)
    BY <1>2, <1>6, <1>7
  <1>9. \A t \in Slots \ {s} : Count(hd, t) + Extra(s, t) = Count(hd, t) + Extra(None, t)
    BY <1>7
  <1>10. /\ n.refs # 0 => n.claimed /\ n.state # "FREE"
         /\ IF n.state = "FREE" THEN n = FreeConn
            ELSE n.refs # 0 \/ (~n.claimed /\ n.port # 0 /\ n.pcb # None) \/ s = None
         /\ None \in {None, s, None}
    BY <1>2, <1>3
  <1>11. None # None => \/ None = s /\ n.refs = 0 /\ n.pcb = None /\ n.claimed /\ n.state # "FREE"
                        \/ None = None /\ None # s
    OBVIOUS
  <1> QED BY <1>0, <1>2, <1>4, <1>5, <1>8, <1>9, <1>10, <1>11, SlotChanges

\* connect() reserves a free slot, with its first reference.
Reserved == [FreeConn EXCEPT !.state = "CONNECTING", !.claimed = TRUE, !.refs = 1]

LEMMA ReserveKeeps ==
  ASSUME NEW c, NEW b, NEW hd, Pool(c, b, hd, None, None),
         NEW s \in Slots, c[s].state = "FREE",
         NEW c2, c2 = Put(c, s, Reserved)
  PROVE  Pool(c2, b, hd, s, None)
  <1>0. /\ c \in Conns /\ b \in Blocks /\ hd \in Pointers
        /\ Owned(c, b) /\ None \in SlotOrNone /\ s \in SlotOrNone /\ None \notin Slots
        /\ c[s] = FreeConn
    BY PoolAssumption DEF Pool, Typed, SlotOrNone, Reapable
  <1>1. /\ Reserved \in SlotRecords /\ Reserved.refs = 1 /\ Reserved.claimed
        /\ Reserved.state = "CONNECTING" /\ Reserved.pcb = None
    BY Blank DEF Reserved, FreeConn, SlotRecords, ConnStates
  <1>2. b = Without(b, c[s].pcb, FreePcb)
    BY <1>0, Blank DEF Without
  <1>3. Owned(c2, b)
    BY <1>0, <1>1, <1>2, Blank, LetsGo
  <1>4. \A t \in Slots : Count(hd, t) \in Nat /\ c[t].refs = Count(hd, t) + Extra(None, t)
    BY CountType DEF Pool, Counted
  <1>5. \A t \in Slots : Extra(None, t) = 0 /\ (t # s => Extra(s, t) = 0) /\ Extra(s, s) = 1
    BY <1>0 DEF Extra
  <1>6. Reserved.refs = Count(hd, s) + Extra(s, s)
    BY <1>0, <1>1, <1>4, <1>5, Blank
  <1>7. \A t \in Slots \ {s} : Count(hd, t) + Extra(s, t) = Count(hd, t) + Extra(None, t)
    BY <1>5
  <1>8. /\ Reserved.refs # 0 => Reserved.claimed /\ Reserved.state # "FREE"
        /\ IF Reserved.state = "FREE" THEN Reserved = FreeConn
           ELSE \/ Reserved.refs # 0
                \/ ~Reserved.claimed /\ Reserved.port # 0 /\ Reserved.pcb # None
                \/ s = None
        /\ None \in {None, s, None}
    BY <1>1
  <1>9. None # None => \/ None = s /\ Reserved.refs = 0 /\ Reserved.pcb = None
                                   /\ Reserved.claimed /\ Reserved.state # "FREE"
                       \/ None = None /\ None # s
    OBVIOUS
  <1> QED BY <1>0, <1>1, <1>3, <1>6, <1>7, <1>8, <1>9, SlotChanges

\* A slot's references, and what else makes it reapable, do not change.
LEMMA SameRefs ==
  ASSUME NEW c, NEW b, NEW hd, NEW x, NEW r, Pool(c, b, hd, x, r),
         NEW s \in Slots, s # r, NEW n \in SlotRecords, n.refs = c[s].refs, n.state # "FREE",
         n.refs # 0 => n.claimed,
         n.refs = 0 => ~n.claimed /\ n.port # 0 /\ n.pcb # None,
         NEW b2 \in Blocks, NEW c2, c2 = Put(c, s, n), Owned(c2, b2)
  PROVE  Pool(c2, b2, hd, x, r)
  <1> USE DEF Conns, Put
  <1>0. c \in Conns /\ hd \in Pointers /\ x \in SlotOrNone /\ r \in SlotOrNone
    BY DEF Pool, Typed
  <1>1. c2[s] = n /\ (\A t \in Slots \ {s} : c2[t] = c[t]) /\ c2 \in Conns
    BY <1>0
  <1>2. Typed(c2, b2, hd, x, r)
    BY <1>0, <1>1 DEF Typed
  <1>3. Counted(c2, hd, x)
    BY <1>1 DEF Pool, Counted
  <1>4. Reapable(c2, r)
    BY <1>1 DEF Pool, Reapable
  <1>5. Releasing(c2, r)
    <2>1. r # None => c2[r] = c[r]
      BY <1>0, <1>1 DEF SlotOrNone
    <2> QED BY <2>1 DEF Pool, Releasing
  <1> QED BY <1>2, <1>3, <1>4, <1>5 DEF Pool

\* A block that is free carries no slot.
LEMMA FreeBlock ==
  ASSUME NEW c, NEW b, NEW hd, NEW x, NEW r, Pool(c, b, hd, x, r),
         NEW p \in Pcbs, b[p].st \notin {"syn", "open"}
  PROVE  b[p].cb = None /\ \A s \in Slots : c[s].pcb # p
  <1>1. p # None
    BY PoolAssumption
  <1>2. \A s \in Slots : c[s].pcb # p
    BY <1>1 DEF Pool, Owned
  <1>3. b[p].cb \in Slots \cup {None}
    BY DEF Pool, Typed, Blocks, PcbRecords
  <1> QED BY <1>2, <1>3 DEF Pool, Owned

\* tcp_connect(): a reserved slot and a free block.
LEMMA InstallKeeps ==
  ASSUME NEW c, NEW b, NEW hd, NEW x, NEW r, Pool(c, b, hd, x, r),
         NEW s \in Slots, c[s].refs # 0, c[s].pcb = None, AvailableBytes(c[s]) = 0,
         NEW p \in Pcbs, b[p].st = "free",
         NEW c2, c2 = Put(c, s, InstalledConn(c[s], p)),
         NEW b2, b2 = Put(b, p, InstalledPcb("syn", s))
  PROVE  Pool(c2, b2, hd, x, r)
  <1> DEFINE n == InstalledConn(c[s], p)
             k == InstalledPcb("syn", s)
  <1>0. /\ c \in Conns /\ b \in Blocks /\ Owned(c, b) /\ None \notin Pcbs
        /\ c[s].claimed /\ c[s].state # "FREE" /\ s # r
    BY PoolAssumption DEF Pool, Typed, Counted, Releasing
  <1>1. /\ n \in SlotRecords /\ n.refs = c[s].refs /\ n.claimed = c[s].claimed
        /\ n.state = c[s].state /\ n.pcb = p /\ AvailableBytes(n) = 0
    <2>1. 0 \in 0..StallAge
      BY PoolAssumption
    <2> QED BY <1>0, <2>1 DEF Conns, SlotRecords, InstalledConn, AvailableBytes
  <1>2. /\ k \in PcbRecords /\ k.cb = s /\ k.st = "syn" /\ k.debit = 0 /\ k.refused = 0
    BY Blank DEF PcbRecords, InstalledPcb, FreePcb
  <1>3. b2 \in Blocks /\ b2[p] = k /\ \A q \in Pcbs \ {p} : b2[q] = b[q]
    BY <1>0, <1>2 DEF Put, Blocks
  <1>4. c2 = Put(c, s, n)
    OBVIOUS
  <1> HIDE DEF n, k
  <1>5. \A q \in Pcbs : b2[q].cb # None => \/ b2[q].cb = s /\ n.pcb = q
                                           \/ b2[q].cb # s /\ b2[q].cb = b[q].cb
    BY <1>0, <1>1, <1>2, <1>3 DEF Owned
  <1>6. \A t \in Slots \ {s} : c[t].pcb # None => b2[c[t].pcb] = b[c[t].pcb]
    BY <1>0, <1>3, FreeBlock DEF Conns, SlotRecords
  <1>7. n.pcb # None =>
           /\ n.state # "FREE"
           /\ b2[n.pcb].cb = s /\ b2[n.pcb].st \in {"syn", "open"}
           /\ b2[n.pcb].debit = AvailableBytes(n) + 2 * b2[n.pcb].refused
    BY <1>0, <1>1, <1>2, <1>3
  <1>8. Owned(c2, b2)
    BY <1>0, <1>1, <1>3, <1>4, <1>5, <1>6, <1>7, OwnedKeeps
  <1>9. /\ n.refs = c[s].refs /\ n.state # "FREE" /\ (n.refs # 0 => n.claimed)
        /\ (n.refs = 0 => ~n.claimed /\ n.port # 0 /\ n.pcb # None)
    BY <1>0, <1>1
  <1>10. s # r /\ n \in SlotRecords /\ b2 \in Blocks
    BY <1>0, <1>1, <1>3
  <1> QED BY <1>4, <1>8, <1>9, <1>10, SameRefs

\* acceptCb(): a free slot, or one taken from its owner.
Accepted(port, p) ==
  InstalledConn([FreeConn EXCEPT !.state = "ESTABLISHED", !.port = port,
                                 !.done = TRUE, !.ok = TRUE], p)

LEMMA AcceptedIs ==
  ASSUME NEW port \in Ports, NEW p \in Pcbs, NEW n, n = Accepted(port, p)
  PROVE  /\ n \in SlotRecords /\ n.refs = 0 /\ ~n.claimed /\ n.port = port
         /\ n.state = "ESTABLISHED" /\ n.pcb = p /\ AvailableBytes(n) = 0
  <1> DEFINE m == [state |-> "ESTABLISHED", pcb |-> p, refs |-> 0, claimed |-> FALSE,
                   port |-> port, done |-> TRUE, ok |-> TRUE, rx |-> 0, off |-> 0, age |-> 0]
  <1>1. n = m
    BY DEF Accepted, InstalledConn, FreeConn
  <1>2. 0 \in 0..StallAge /\ 0 \in 0..RxMax /\ 0 \in 0..1
    BY PoolAssumption
  <1>3. m \in SlotRecords
    BY <1>2 DEF SlotRecords, ConnStates
  <1>4. /\ m.refs = 0 /\ m.claimed = FALSE /\ m.port = port /\ m.state = "ESTABLISHED"
        /\ m.pcb = p /\ m.rx = 0 /\ m.off = 0
    OBVIOUS
  <1> HIDE DEF m
  <1>5. AvailableBytes(m) = 0
    BY <1>4 DEF AvailableBytes
  <1> QED BY <1>1, <1>3, <1>4, <1>5

LEMMA AcceptKeeps ==
  ASSUME NEW c, NEW b, NEW hd, NEW x, NEW r, Pool(c, b, hd, x, r),
         NEW s \in Slots, c[s].state = "FREE" \/ ~c[s].claimed, NEW port \in Ports,
         NEW p \in Pcbs, b[p].st = "free",
         NEW n, n = Accepted(port, p),
         NEW c2, c2 = Put(c, s, n),
         NEW b2, b2 = [q \in Pcbs |-> IF q = p THEN InstalledPcb("open", s)
                                      ELSE IF q = c[s].pcb THEN FreePcb ELSE b[q]]
  PROVE  Pool(c2, b2, hd, x, r)
  <1>0. /\ c \in Conns /\ b \in Blocks /\ Owned(c, b) /\ None \notin Pcbs /\ None \notin Slots
        /\ c[s].refs = 0 /\ s # r /\ r \in SlotOrNone
    <2>1. s # r
      BY PoolAssumption DEF Pool, Releasing, SlotOrNone
    <2>2. c[s].refs = 0
      BY DEF Pool, Counted
    <2> QED BY <2>1, <2>2, PoolAssumption DEF Pool, Typed
  <1>1. /\ n \in SlotRecords /\ n.refs = 0 /\ ~n.claimed /\ n.port = port
        /\ n.state = "ESTABLISHED" /\ n.pcb = p /\ AvailableBytes(n) = 0
    BY AcceptedIs
  <1>2. port # 0
    BY PoolAssumption
  <1> DEFINE k == InstalledPcb("open", s)
  <1>3. /\ k \in PcbRecords /\ k.cb = s /\ k.st = "open" /\ k.debit = 0 /\ k.refused = 0
    BY Blank DEF PcbRecords, InstalledPcb, FreePcb
  <1>4. /\ b2 \in Blocks /\ b2[p] = k
        /\ \A q \in Pcbs \ {p} : b2[q] = IF q = c[s].pcb THEN FreePcb ELSE b[q]
    BY <1>0, <1>3, Blank DEF Blocks
  <1>5. \A q \in Pcbs : b2[q].cb # None => \/ b2[q].cb = s /\ n.pcb = q
                                           \/ b2[q].cb # s /\ b2[q].cb = b[q].cb
    <2> HIDE DEF k
    <2> SUFFICES ASSUME NEW q \in Pcbs, b2[q].cb # None, q # p
                 PROVE  b2[q].cb # s /\ b2[q].cb = b[q].cb
      BY <1>1, <1>3, <1>4
    <2>1. q # c[s].pcb /\ b2[q] = b[q]
      BY <1>4, Blank
    <2>2. c[b[q].cb].pcb = q
      BY <1>0, <2>1 DEF Owned
    <2> QED BY <2>1, <2>2
  <1>6. \A t \in Slots \ {s} : c[t].pcb # None => b2[c[t].pcb] = b[c[t].pcb]
    <2> HIDE DEF k
    <2> SUFFICES ASSUME NEW t \in Slots \ {s}, c[t].pcb # None PROVE b2[c[t].pcb] = b[c[t].pcb]
      OBVIOUS
    <2>1. c[t].pcb \in Pcbs /\ b[c[t].pcb].cb = t
      BY <1>0 DEF Owned, Conns, SlotRecords
    <2>2. c[t].pcb # c[s].pcb
      BY <1>0, <2>1 DEF Owned
    <2>3. c[t].pcb # p
      BY FreeBlock
    <2> QED BY <1>4, <2>1, <2>2, <2>3
  <1>7. n.pcb # None =>
           /\ n.state # "FREE"
           /\ b2[n.pcb].cb = s /\ b2[n.pcb].st \in {"syn", "open"}
           /\ b2[n.pcb].debit = AvailableBytes(n) + 2 * b2[n.pcb].refused
    BY <1>1, <1>3, <1>4
  <1>8. n \in SlotRecords /\ b2 \in Blocks /\ c \in Conns /\ b \in Blocks /\ Owned(c, b)
        /\ s # r
    BY <1>0, <1>1, <1>4
  <1>9. Owned(c2, b2)
    BY <1>5, <1>6, <1>7, <1>8, OwnedKeeps
  <1>10. /\ n.refs = c[s].refs /\ n.state # "FREE" /\ (n.refs # 0 => n.claimed)
         /\ (n.refs = 0 => ~n.claimed /\ n.port # 0 /\ n.pcb # None)
    BY <1>0, <1>1, <1>2
  <1> QED BY <1>8, <1>9, <1>10, SameRefs

\* The block a close leaves: reset, or closing, and never a slot's.
LEMMA CloseLeaves ==
  ASSUME NEW p, pcb' \in CloseOutcomes(p)
  PROVE  \E k \in PcbRecords : k.cb = None /\ pcb' = Put(pcb, p, k)
  <1> DEFINE k == [FreePcb EXCEPT !.st = "closing"]
  <1>1. k \in PcbRecords /\ k.cb = None
    BY Blank DEF PcbRecords, FreePcb
  <1>2. CASE pcb' = [pcb EXCEPT ![p] = FreePcb]
    BY <1>2, Blank DEF Put
  <1>3. CASE pcb' = [pcb EXCEPT ![p] = k]
    <2> HIDE DEF k
    <2> QED BY <1>1, <1>3 DEF Put
  <1> QED BY <1>2, <1>3 DEF CloseOutcomes

\* A handle lets go of its slot in pool c, and its call returns or waits for the close.
LEMMA DetachKeeps ==
  ASSUME NEW c, NEW h \in Handles, NEW g, Pool(c, pcb, handle, g, None), Detach(h, c, g)
  PROVE  Pool(conn', pcb', handle', Giving', Freeing')
  <1> DEFINE s == handle[h]
  <1>0. /\ c \in Conns /\ pcb \in Blocks /\ handle \in Pointers /\ g \in SlotOrNone
        /\ s \in SlotOrNone /\ None \notin Slots
    BY PoolAssumption DEF Pool, Typed, Pointers
  <1>1. CASE s # None /\ c[s].refs = 1 /\ c[s].pcb # None
    <2>1. PICK k \in PcbRecords : k.cb = None /\ pcb' = Put(pcb, c[s].pcb, k)
      BY <1>1, CloseLeaves DEF Detach
    <2>2. /\ conn' = [c EXCEPT ![s].refs = 0, ![s].pcb = None]
          /\ handle' = Put(handle, h, None)
          /\ sketch' = [at |-> "release", h |-> h, slot |-> s, give |-> g]
      BY <1>1 DEF Detach, Put
    <2>3. Giving' = g /\ Freeing' = s
      BY <2>2 DEF Giving, Freeing
    <2>4. conn' = Put(c, s, [c[s] EXCEPT !.refs = 0, !.pcb = None])
      BY <1>0, <1>1, <2>2 DEF Put, Conns, SlotOrNone
    <2>5. s \in Slots /\ handle[h] = s
      BY <1>0, <1>1 DEF SlotOrNone
    <2> HIDE DEF s
    <2>6. Pool(conn', pcb', handle', g, s)
      BY <1>1, <2>1, <2>2, <2>4, <2>5, LastKeeps
    <2> QED BY <2>3, <2>6
  <1>2. CASE ~(s # None /\ c[s].refs = 1 /\ c[s].pcb # None)
    <2>1. /\ conn' = IF s = None THEN c ELSE Released(c, s)
          /\ handle' = Put(handle, h, g) /\ pcb' = pcb /\ sketch' = Idle
      BY <1>2 DEF Detach, Put
    <2>2. Giving' = None /\ Freeing' = None
      BY <2>1 DEF Giving, Freeing, Idle
    <2>3. CASE s = None
      <3>1. Pool(c, pcb, handle', None, None)
        BY <2>1, <2>3, GiveKeeps
      <3> QED BY <2>1, <2>2, <2>3, <3>1
    <2>4. CASE s # None
      <3>1. s \in Slots /\ (c[s].refs = 1 => c[s].pcb = None) /\ conn' = Released(c, s)
            /\ handle[h] = s
        BY <1>0, <1>2, <2>1, <2>4 DEF SlotOrNone
      <3> HIDE DEF s
      <3>2. Pool(conn', pcb, handle', None, None)
        BY <2>1, <3>1, ReleaseKeeps
      <3> QED BY <2>1, <2>2, <3>2
    <2> QED BY <2>3, <2>4
  <1> QED BY <1>1, <1>2

-----------------------------------------------------------------------------
(* The window.                                                               *)

\* A handle's slot is referenced, so claimed and in use, and nobody is freeing it.
LEMMA HandleHolds ==
  ASSUME NEW c, NEW b, NEW hd, NEW x, NEW r, Pool(c, b, hd, x, r),
         NEW h \in Handles, hd[h] # None
  PROVE  /\ hd[h] \in Slots /\ c[hd[h]].refs # 0 /\ c[hd[h]].claimed
         /\ c[hd[h]].state # "FREE" /\ hd[h] # r
  <1>1. hd \in Pointers /\ x \in SlotOrNone
    BY DEF Pool, Typed
  <1>2. hd[h] \in Slots
    BY <1>1 DEF Pointers, SlotOrNone
  <1> DEFINE S == {k \in Handles : hd[k] = hd[h]}
  <1>3. IsFiniteSet(S) /\ h \in S
    BY PoolAssumption, FS_Subset
  <1>4. Cardinality(S) # 0 /\ Cardinality(S) \in Nat
    BY <1>3, FS_EmptySet, FS_CardinalityType
  <1>5. Count(hd, hd[h]) = Cardinality(S)
    BY DEF Count
  <1>6. Extra(x, hd[h]) \in {0, 1}
    BY DEF Extra
  <1> HIDE DEF S
  <1>7. c[hd[h]].refs # 0
    BY <1>2, <1>4, <1>5, <1>6 DEF Pool, Counted
  <1>8. c[hd[h]].claimed /\ c[hd[h]].state # "FREE"
    BY <1>2, <1>7 DEF Pool, Counted
  <1>9. hd[h] # r
    BY <1>2, <1>7, PoolAssumption DEF Pool, Releasing
  <1> QED BY <1>2, <1>7, <1>8, <1>9

\* What a block's callbacks carry is the slot that owns the block.
LEMMA CallbackHas ==
  ASSUME NEW c, NEW b, NEW hd, NEW x, NEW r, Pool(c, b, hd, x, r),
         NEW p \in Pcbs, b[p].cb # None
  PROVE  /\ b[p].cb \in Slots /\ c[b[p].cb].pcb = p /\ c[b[p].cb].state # "FREE"
         /\ b[p].st \in {"syn", "open"} /\ b[p].cb # r
         /\ b[p].debit = AvailableBytes(c[b[p].cb]) + 2 * b[p].refused
         /\ c[b[p].cb] \in SlotRecords /\ b[p] \in PcbRecords
  <1>1. b \in Blocks /\ c \in Conns /\ None \notin Pcbs
    BY PoolAssumption DEF Pool, Typed
  <1>2. b[p].cb \in Slots /\ b[p] \in PcbRecords /\ c[b[p].cb] \in SlotRecords
    BY <1>1 DEF Blocks, Conns, PcbRecords
  <1>3. c[b[p].cb].pcb = p
    BY DEF Pool, Owned
  <1>4. b[p].cb # r
    BY <1>1, <1>2, <1>3, PoolAssumption DEF Pool, Releasing
  <1> QED BY <1>1, <1>2, <1>3, <1>4 DEF Pool, Owned

\* A slot and its block change together.
LEMMA StagedKeeps ==
  ASSUME NEW c, NEW b, NEW hd, NEW x, NEW r, Pool(c, b, hd, x, r),
         NEW s \in Slots, NEW p \in Pcbs, c[s].pcb = p,
         NEW n \in SlotRecords, n.pcb = p, n.state # "FREE",
         n.refs = c[s].refs, n.claimed = c[s].claimed, n.port = c[s].port,
         NEW k \in PcbRecords, k.cb = s, k.st \in {"syn", "open"},
         k.debit = AvailableBytes(n) + 2 * k.refused,
         NEW c2, c2 = Put(c, s, n), NEW b2, b2 = Put(b, p, k)
  PROVE  Pool(c2, b2, hd, x, r)
  <1>0. /\ c \in Conns /\ b \in Blocks /\ Owned(c, b) /\ None \notin Pcbs
        /\ c[s].state # "FREE" /\ s # r
    BY PoolAssumption DEF Pool, Typed, Owned, Releasing
  <1>1. /\ (c[s].refs # 0 => c[s].claimed)
        /\ c[s].refs = 0 => ~c[s].claimed /\ c[s].port # 0
    BY <1>0 DEF Pool, Counted, Reapable
  <1>2. b2 \in Blocks /\ b2[p] = k /\ \A q \in Pcbs \ {p} : b2[q] = b[q]
    BY <1>0 DEF Put, Blocks
  <1>3. \A q \in Pcbs : b2[q].cb # None => \/ b2[q].cb = s /\ n.pcb = q
                                           \/ b2[q].cb # s /\ b2[q].cb = b[q].cb
    BY <1>0, <1>2 DEF Owned
  <1>4. \A t \in Slots \ {s} : c[t].pcb # None => b2[c[t].pcb] = b[c[t].pcb]
    <2> SUFFICES ASSUME NEW t \in Slots \ {s}, c[t].pcb # None PROVE b2[c[t].pcb] = b[c[t].pcb]
      OBVIOUS
    <2>1. c[t].pcb \in Pcbs /\ b[c[t].pcb].cb = t
      BY <1>0 DEF Owned, Conns, SlotRecords
    <2>2. c[t].pcb # p
      BY <1>0, <2>1 DEF Owned
    <2> QED BY <1>2, <2>1, <2>2
  <1>5. n.pcb # None =>
           /\ n.state # "FREE"
           /\ b2[n.pcb].cb = s /\ b2[n.pcb].st \in {"syn", "open"}
           /\ b2[n.pcb].debit = AvailableBytes(n) + 2 * b2[n.pcb].refused
    BY <1>2
  <1>6. Owned(c2, b2)
    BY <1>0, <1>2, <1>3, <1>4, <1>5, OwnedKeeps
  <1>7. /\ (n.refs # 0 => n.claimed)
        /\ n.refs = 0 => ~n.claimed /\ n.port # 0 /\ n.pcb # None
    BY <1>0, <1>1
  <1>8. s # r /\ b2 \in Blocks
    BY <1>0, <1>2
  <1> QED BY <1>6, <1>7, <1>8, SameRefs

\* consume(): n bytes fewer are staged.
LEMMA ConsumedIs ==
  ASSUME NEW c \in SlotRecords, NEW n \in 1..AvailableBytes(c), NEW d, d = Consumed(c, n)
  PROVE  /\ d \in SlotRecords /\ AvailableBytes(d) = AvailableBytes(c) - n
         /\ d.pcb = c.pcb /\ d.refs = c.refs /\ d.claimed = c.claimed /\ d.port = c.port
         /\ d.state = c.state
  <1> DEFINE rx == c.rx
             off == c.off
             q == (off + n) \div 2
             m == (off + n) % 2
  <1>1. off \in {0, 1} /\ rx \in Nat /\ n \in Nat \ {0} /\ n <= 2 * rx - off
        /\ RxMax \in Nat /\ MaxDelivery \in Nat /\ (rx <= RxMax \/ rx <= MaxDelivery)
    BY PoolAssumption DEF SlotRecords, AvailableBytes
  <1>2. d = [c EXCEPT !.rx = rx - q, !.off = m, !.age = 0]
    BY DEF Consumed
  <1>3. q \in Nat /\ m \in {0, 1} /\ off + n = 2 * q + m /\ q <= rx
    <2> HIDE DEF rx, off
    <2> DEFINE u == off + n
    <2>1. u \in Nat /\ u <= 2 * rx
      BY <1>1
    <2> HIDE DEF u
    <2>2. u = 2 * (u \div 2) + (u % 2) /\ (u \div 2) \in Nat /\ (u % 2) \in {0, 1}
      BY <2>1, Z3
    <2>3. (u \div 2) <= rx
      BY <1>1, <2>1, <2>2
    <2> QED BY <2>2, <2>3 DEF u
  <1> HIDE DEF rx, off, q, m
  <1>4. rx - q \in 0..RxMax \cup 0..MaxDelivery /\ m \in 0..1 /\ 0 \in 0..StallAge
    BY <1>1, <1>3, PoolAssumption
  <1>5. /\ d \in SlotRecords /\ d.rx = rx - q /\ d.off = m
        /\ d.pcb = c.pcb /\ d.refs = c.refs /\ d.claimed = c.claimed /\ d.port = c.port
        /\ d.state = c.state
    BY <1>2, <1>4 DEF SlotRecords
  <1>6. AvailableBytes(d) = AvailableBytes(c) - n
    <2>1. 2 * (rx - q) - m = (2 * rx - off) - n
      BY <1>1, <1>3
    <2>2. AvailableBytes(c) = 2 * rx - off
      BY DEF AvailableBytes, rx, off
    <2>3. AvailableBytes(d) = 2 * (rx - q) - m
      BY <1>5 DEF AvailableBytes
    <2> QED BY <2>1, <2>2, <2>3
  <1> QED BY <1>5, <1>6

-----------------------------------------------------------------------------
(* Steps of a service pass, and of calls that return at once.                *)

\* The sketch waits where it did: no slot a handle holds gets or loses a block or bytes,
\* but for one that had a block.
LEMMA WaitsOn ==
  ASSUME IInv, UNCHANGED <<handle, sketch>>,
         \A s \in Slots : conn[s].refs # 0 /\ conn[s].pcb = None =>
           /\ conn'[s].pcb = None
           /\ conn'[s].rx = conn[s].rx /\ conn'[s].off = conn[s].off
  PROVE  Waiting' /\ Giving' = Giving /\ Freeing' = Freeing
  <1>1. Giving' = Giving /\ Freeing' = Freeing
    BY DEF Giving, Freeing
  <1>2. \A h \in Handles : handle[h] # None => handle[h] \in Slots /\ conn[handle[h]].refs # 0
    BY HandleHolds DEF IInv
  <1>3. sketch \in SketchStates /\ sketch' = sketch /\ handle' = handle
    BY DEF IInv, Waiting
  <1>4. sketch.at # "idle" => sketch.h \in Handles
    BY <1>3 DEF SketchStates, Idle
  <1>5. sketch.at \in {"flush", "stop", "new", "wait"} => handle[sketch.h] # None
    BY DEF IInv, Waiting
  <1>6. sketch.at \in {"stop", "new"} =>
          /\ handle[sketch.h] \in Slots /\ conn[handle[sketch.h]].refs # 0
          /\ conn[handle[sketch.h]].pcb = None
    BY <1>2, <1>4, <1>5 DEF IInv, Waiting
  <1>7. sketch.at \in {"stop", "new"} =>
          /\ conn'[handle[sketch.h]].pcb = None
          /\ AvailableBytes(conn'[handle[sketch.h]]) = AvailableBytes(conn[handle[sketch.h]])
    BY <1>6 DEF AvailableBytes
  <1> QED BY <1>1, <1>3, <1>5, <1>7 DEF IInv, Waiting

\* A slot with a block changes, and the block.
LEMMA BlockSteps ==
  ASSUME IInv, UNCHANGED <<handle, sketch, listening, linkUp>>,
         NEW p \in Pcbs, NEW s \in Slots, conn[s].pcb = p,
         NEW n \in SlotRecords, n.pcb = p, n.state # "FREE",
         n.refs = conn[s].refs, n.claimed = conn[s].claimed, n.port = conn[s].port,
         NEW k \in PcbRecords, k.cb = s, k.st \in {"syn", "open"},
         k.debit = AvailableBytes(n) + 2 * k.refused,
         conn' = Put(conn, s, n), pcb' = Put(pcb, p, k)
  PROVE  IInv'
  <1>1. Pool(conn', pcb', handle, Giving, Freeing)
    BY StagedKeeps DEF IInv
  <1>2. conn \in Conns /\ None \notin Pcbs
    BY PoolAssumption DEF IInv, Pool, Typed
  <1>3. \A t \in Slots : conn[t].refs # 0 /\ conn[t].pcb = None => conn'[t] = conn[t]
    BY <1>2 DEF Put, Conns
  <1>4. Waiting' /\ Giving' = Giving /\ Freeing' = Freeing
    BY <1>3, WaitsOn
  <1> QED BY <1>1, <1>4 DEF IInv

LEMMA ReadStep ==
  ASSUME IInv, NEW h \in Handles, NEW m \in 1..Window, Read(h, m) PROVE IInv'
  <1> DEFINE s == handle[h]
             p == conn[s].pcb
             n == Consumed(conn[s], m)
  <1>1. /\ s \in Slots /\ conn[s].refs # 0 /\ conn[s].claimed /\ conn[s].state # "FREE"
        /\ s # Freeing
    BY HandleHolds DEF IInv, Read
  <1>2. conn \in Conns /\ pcb \in Blocks /\ None \notin Pcbs /\ conn[s] \in SlotRecords
        /\ Owned(conn, pcb)
    BY <1>1, PoolAssumption DEF IInv, Pool, Typed, Conns
  <1>3. m \in 1..AvailableBytes(conn[s])
    BY DEF Read
  <1>4. /\ n \in SlotRecords /\ AvailableBytes(n) = AvailableBytes(conn[s]) - m
        /\ n.pcb = p /\ n.refs = conn[s].refs /\ n.claimed = conn[s].claimed
        /\ n.port = conn[s].port /\ n.state = conn[s].state
    BY <1>2, <1>3, ConsumedIs
  <1>5. conn' = Put(conn, s, n) /\ UNCHANGED <<handle, sketch, listening, linkUp>>
    BY DEF Read, Put
  <1> HIDE DEF n
  <1>6. CASE p = None
    <2>1. pcb' = pcb
      BY <1>6 DEF Read
    <2>2. pcb = Without(pcb, conn[s].pcb, FreePcb)
      BY <1>6 DEF Without
    <2>3. Owned(conn', pcb)
      BY <1>1, <1>2, <1>4, <1>5, <1>6, <2>2, Blank, LetsGo
    <2>4. /\ n.refs = conn[s].refs /\ n.state # "FREE" /\ (n.refs # 0 => n.claimed)
          /\ n.refs = 0 => ~n.claimed /\ n.port # 0 /\ n.pcb # None
      BY <1>1, <1>4
    <2>5. Pool(conn', pcb', handle, Giving, Freeing)
      BY <1>1, <1>2, <1>4, <1>5, <2>1, <2>3, <2>4, SameRefs DEF IInv
    <2>6. sketch.at = "idle"
      BY DEF Read
    <2>7. Waiting' /\ Giving' = Giving /\ Freeing' = Freeing
      BY <1>5, <2>6 DEF IInv, Waiting, Giving, Freeing
    <2> QED BY <1>5, <2>5, <2>7 DEF IInv
  <1>7. CASE p # None
    <2> DEFINE k == [pcb[p] EXCEPT !.debit = @ - m]
    <2>1. p \in Pcbs /\ pcb[p] \in PcbRecords
      BY <1>2, <1>7 DEF SlotRecords, Blocks
    <2>2. /\ pcb[p].cb = s /\ pcb[p].st \in {"syn", "open"}
          /\ pcb[p].debit = AvailableBytes(conn[s]) + 2 * pcb[p].refused
      BY <1>1, <1>2, <1>7 DEF Owned
    <2>3. AvailableBytes(conn[s]) \in Int
      BY <1>2, PoolAssumption DEF AvailableBytes, SlotRecords
    <2>4. /\ pcb[p].debit \in Nat /\ pcb[p].debit <= Window /\ pcb[p].refused \in Nat
          /\ Window \in Nat
      BY <2>1, PoolAssumption DEF PcbRecords
    <2>5. pcb[p].debit - m \in 0..Window
      BY <1>3, <2>2, <2>3, <2>4
    <2>6. /\ k \in PcbRecords /\ k.cb = s /\ k.st = pcb[p].st /\ k.debit = pcb[p].debit - m
          /\ k.refused = pcb[p].refused
      BY <2>1, <2>2, <2>5 DEF PcbRecords
    <2>7. pcb' = Put(pcb, p, k)
      BY <1>7 DEF Read, Put
    <2> HIDE DEF k
    <2>8. k.debit = AvailableBytes(n) + 2 * k.refused
      BY <1>3, <1>4, <2>2, <2>3, <2>4, <2>6
    <2> HIDE DEF s, p
    <2>9. conn[s].pcb = p /\ n.pcb = p /\ n.state # "FREE" /\ k.st \in {"syn", "open"}
      BY <1>1, <1>4, <2>2, <2>6 DEF p
    <2> QED BY <1>1, <1>4, <1>5, <2>1, <2>6, <2>7, <2>8, <2>9, BlockSteps
  <1> QED BY <1>6, <1>7

\* connRecv() takes or refuses m pbufs that the window has room for.
LEMMA OfferStep ==
  ASSUME IInv, NEW p \in Pcbs, Attached(p), NEW m \in 1..MaxDelivery, NEW debit \in 0..Window,
         debit = AvailableBytes(conn[pcb[p].cb]) + 2 * m, Offer(p, m, debit)
  PROVE  IInv'
  <1> DEFINE s == pcb[p].cb
             no == Refuses(conn[s], m)
             n == IF no THEN conn[s] ELSE [conn[s] EXCEPT !.rx = @ + m, !.age = 0]
             k == [pcb[p] EXCEPT !.refused = IF no THEN m ELSE 0, !.debit = debit]
  <1>1. /\ s \in Slots /\ conn[s].pcb = p /\ conn[s].state # "FREE"
        /\ pcb[p].st \in {"syn", "open"}
        /\ conn[s] \in SlotRecords /\ pcb[p] \in PcbRecords
    BY CallbackHas DEF IInv, Attached
  <1>2. conn \in Conns /\ pcb \in Blocks
    BY DEF IInv, Pool, Typed
  <1>3. /\ conn[s].rx \in Nat /\ conn[s].off \in {0, 1} /\ m \in Nat /\ m <= MaxDelivery
        /\ RxMax \in Nat /\ MaxDelivery \in Nat
    BY <1>1, PoolAssumption DEF SlotRecords
  <1>4. ~no => conn[s].rx + m \in 0..RxMax \cup 0..MaxDelivery
    BY <1>3 DEF Refuses
  <1>5. /\ n \in SlotRecords /\ n.pcb = p /\ n.state # "FREE" /\ n.refs = conn[s].refs
        /\ n.claimed = conn[s].claimed /\ n.port = conn[s].port /\ n.off = conn[s].off
        /\ n.rx = IF no THEN conn[s].rx ELSE conn[s].rx + m
    <2>1. CASE no
      BY <1>1, <2>1
    <2>2. CASE ~no
      <3>1. n = [conn[s] EXCEPT !.rx = conn[s].rx + m, !.age = 0] /\ 0 \in 0..StallAge
        BY <2>2, PoolAssumption
      <3> HIDE DEF no, n
      <3> QED BY <1>1, <1>4, <2>2, <3>1 DEF SlotRecords
    <2> QED BY <2>1, <2>2
  <1>6. /\ k \in PcbRecords /\ k.cb = s /\ k.st \in {"syn", "open"} /\ k.debit = debit
        /\ k.refused = IF no THEN m ELSE 0
    <2>1. m \in 0..MaxDelivery /\ 0 \in 0..MaxDelivery
      BY PoolAssumption
    <2> QED BY <1>1, <2>1 DEF PcbRecords
  <1>7. conn' = Put(conn, s, n) /\ pcb' = Put(pcb, p, k)
        /\ UNCHANGED <<handle, sketch, listening, linkUp>>
    <2>1. conn' = Put(conn, s, n)
      BY <1>1, <1>2 DEF Offer, Put, Conns
    <2> QED BY <2>1 DEF Offer, Put
  <1> HIDE DEF n, k, no, s
  <1>8. k.debit = AvailableBytes(n) + 2 * k.refused
    <2>1. debit = 2 * conn[s].rx - conn[s].off + 2 * m
      BY DEF AvailableBytes, s
    <2>2. AvailableBytes(n) = 2 * n.rx - n.off
      BY DEF AvailableBytes
    <2>3. CASE no
      BY <1>3, <1>5, <1>6, <2>1, <2>2, <2>3
    <2>4. CASE ~no
      BY <1>3, <1>5, <1>6, <2>1, <2>2, <2>4
    <2> QED BY <2>3, <2>4
  <1> QED BY <1>1, <1>5, <1>6, <1>7, <1>8, BlockSteps

LEMMA DeliverStep ==
  ASSUME IInv, NEW p \in Pcbs, NEW m \in 1..MaxDelivery, Deliver(p, m) PROVE IInv'
  <1>1. /\ pcb[p].debit = AvailableBytes(conn[pcb[p].cb]) + 2 * pcb[p].refused
        /\ conn[pcb[p].cb] \in SlotRecords /\ pcb[p] \in PcbRecords
    BY CallbackHas DEF IInv, Attached, Deliver
  <1>2. pcb[p].debit \in Nat /\ pcb[p].refused = 0 /\ Window \in Nat /\ m \in Nat
    BY <1>1, PoolAssumption DEF PcbRecords, Deliver
  <1>3. AvailableBytes(conn[pcb[p].cb]) \in Int
    BY <1>1, PoolAssumption DEF AvailableBytes, SlotRecords
  <1>4. pcb[p].debit + 2 * m \in 0..Window
    BY <1>2 DEF Deliver
  <1>5. pcb[p].debit + 2 * m = AvailableBytes(conn[pcb[p].cb]) + 2 * m
    BY <1>1, <1>2, <1>3
  <1>6. Offer(p, m, pcb[p].debit + 2 * m) /\ Attached(p)
    BY DEF Deliver
  <1> QED BY <1>4, <1>5, <1>6, OfferStep

LEMMA ReofferStep ==
  ASSUME IInv, NEW p \in Pcbs, Reoffer(p) PROVE IInv'
  <1>1. /\ pcb[p].debit = AvailableBytes(conn[pcb[p].cb]) + 2 * pcb[p].refused
        /\ pcb[p] \in PcbRecords
    BY CallbackHas DEF IInv, Attached, Reoffer
  <1>2. pcb[p].refused \in 1..MaxDelivery /\ pcb[p].debit \in 0..Window
    BY <1>1, PoolAssumption DEF PcbRecords, Reoffer
  <1>3. Offer(p, pcb[p].refused, pcb[p].debit) /\ Attached(p)
    BY DEF Reoffer
  <1> QED BY <1>1, <1>2, <1>3, OfferStep

\* A callback that leaves the staged bytes and the window as they are.
LEMMA CallbackStep ==
  ASSUME IInv, UNCHANGED <<handle, sketch, listening, linkUp>>,
         NEW p \in Pcbs, Attached(p),
         NEW n \in SlotRecords, n.pcb = p, n.state # "FREE",
         n.refs = conn[pcb[p].cb].refs, n.claimed = conn[pcb[p].cb].claimed,
         n.port = conn[pcb[p].cb].port,
         n.rx = conn[pcb[p].cb].rx, n.off = conn[pcb[p].cb].off,
         NEW k \in PcbRecords, k.cb = pcb[p].cb, k.st \in {"syn", "open"},
         k.debit = pcb[p].debit, k.refused = pcb[p].refused,
         conn' = Put(conn, pcb[p].cb, n), pcb' = Put(pcb, p, k)
  PROVE  IInv'
  <1>1. /\ pcb[p].cb \in Slots /\ conn[pcb[p].cb].pcb = p
        /\ pcb[p].debit = AvailableBytes(conn[pcb[p].cb]) + 2 * pcb[p].refused
    BY CallbackHas DEF IInv, Attached
  <1>2. k.debit = AvailableBytes(n) + 2 * k.refused
    BY <1>1 DEF AvailableBytes
  <1> QED BY <1>1, <1>2, BlockSteps

LEMMA CallbackSteps ==
  ASSUME IInv, NEW p \in Pcbs, Connected(p) \/ Fin(p) \/ Sent(p) PROVE IInv'
  <1> DEFINE s == pcb[p].cb
  <1>1. /\ s \in Slots /\ conn[s].pcb = p /\ conn[s].state # "FREE"
        /\ pcb[p].st \in {"syn", "open"}
        /\ conn[s] \in SlotRecords /\ pcb[p] \in PcbRecords /\ Attached(p)
    <2>1. Attached(p)
      BY DEF Connected, Fin, Sent
    <2>2. pcb[p].cb # None
      BY <2>1 DEF Attached
    <2>3. Pool(conn, pcb, handle, Giving, Freeing)
      BY DEF IInv
    <2> QED BY <2>1, <2>2, <2>3, CallbackHas
  <1>2. conn \in Conns /\ pcb \in Blocks
    BY DEF IInv, Pool, Typed
  <1>3. CASE Connected(p)
    <2> DEFINE n == [conn[s] EXCEPT !.state = "ESTABLISHED", !.done = TRUE, !.ok = TRUE]
               k == [pcb[p] EXCEPT !.st = "open"]
    <2>1. /\ n \in SlotRecords /\ n.pcb = p /\ n.state # "FREE" /\ n.refs = conn[s].refs
          /\ n.claimed = conn[s].claimed /\ n.port = conn[s].port /\ n.rx = conn[s].rx
          /\ n.off = conn[s].off
      BY <1>1 DEF SlotRecords, ConnStates
    <2>2. /\ k \in PcbRecords /\ k.cb = s /\ k.st \in {"syn", "open"}
          /\ k.debit = pcb[p].debit /\ k.refused = pcb[p].refused
      BY <1>1 DEF PcbRecords
    <2>3. conn' = Put(conn, s, n) /\ pcb' = Put(pcb, p, k)
      BY <1>1, <1>2, <1>3 DEF Connected, Put, Conns, Blocks
    <2>4. UNCHANGED <<handle, sketch, listening, linkUp>>
      BY <1>3 DEF Connected
    <2> HIDE DEF n, k
    <2> QED BY <1>1, <2>1, <2>2, <2>3, <2>4, CallbackStep
  <1>4. CASE Fin(p)
    <2> DEFINE n == [conn[s] EXCEPT !.state = "PEER_CLOSED"]
               k == [pcb[p] EXCEPT !.fin = TRUE]
    <2>1. /\ n \in SlotRecords /\ n.pcb = p /\ n.state # "FREE" /\ n.refs = conn[s].refs
          /\ n.claimed = conn[s].claimed /\ n.port = conn[s].port /\ n.rx = conn[s].rx
          /\ n.off = conn[s].off
      BY <1>1 DEF SlotRecords, ConnStates
    <2>2. /\ k \in PcbRecords /\ k.cb = s /\ k.st \in {"syn", "open"}
          /\ k.debit = pcb[p].debit /\ k.refused = pcb[p].refused
      BY <1>1 DEF PcbRecords
    <2>3. conn' = Put(conn, s, n) /\ pcb' = Put(pcb, p, k)
      BY <1>1, <1>2, <1>4 DEF Fin, Put, Conns, Blocks
    <2>4. UNCHANGED <<handle, sketch, listening, linkUp>>
      BY <1>4 DEF Fin
    <2> HIDE DEF n, k
    <2> QED BY <1>1, <2>1, <2>2, <2>3, <2>4, CallbackStep
  <1>5. CASE Sent(p)
    <2> DEFINE n == [conn[s] EXCEPT !.age = 0]
               k == [pcb[p] EXCEPT !.unacked = FALSE]
    <2>0. 0 \in 0..StallAge
      BY PoolAssumption
    <2>1. /\ n \in SlotRecords /\ n.pcb = p /\ n.state # "FREE" /\ n.refs = conn[s].refs
          /\ n.claimed = conn[s].claimed /\ n.port = conn[s].port /\ n.rx = conn[s].rx
          /\ n.off = conn[s].off
      BY <1>1, <2>0 DEF SlotRecords
    <2>2. /\ k \in PcbRecords /\ k.cb = s /\ k.st \in {"syn", "open"}
          /\ k.debit = pcb[p].debit /\ k.refused = pcb[p].refused
      BY <1>1 DEF PcbRecords
    <2>3. conn' = Put(conn, s, n) /\ pcb' = Put(pcb, p, k)
      BY <1>1, <1>2, <1>5 DEF Sent, Put, Conns, Blocks
    <2>4. UNCHANGED <<handle, sketch, listening, linkUp>>
      BY <1>5 DEF Sent
    <2> HIDE DEF n, k
    <2> QED BY <1>1, <2>1, <2>2, <2>3, <2>4, CallbackStep
  <1> QED BY <1>3, <1>4, <1>5

\* Steps on the blocks alone.
LEMMA WriteSteps ==
  ASSUME IInv,
         \/ \E h \in Handles : Write(h)
         \/ \E port \in Ports : ServerWrite(port)
         \/ \E p \in Pcbs : ClosingEnds(p)
  PROVE  IInv'
  <1>1. conn \in Conns /\ pcb \in Blocks /\ Pool(conn, pcb, handle, Giving, Freeing)
    BY DEF IInv, Pool, Typed
  <1>2. conn' = conn /\ UNCHANGED <<handle, sketch, listening, linkUp>>
    BY DEF Write, ServerWrite, ClosingEnds
  <1>3. /\ pcb' \in Blocks
        /\ \A q \in Pcbs : pcb'[q].cb = pcb[q].cb
        /\ \A q \in Pcbs : pcb[q].st \in {"syn", "open"} =>
             /\ pcb'[q].st = pcb[q].st /\ pcb'[q].debit = pcb[q].debit
             /\ pcb'[q].refused = pcb[q].refused
    <2>1. CASE \E h \in Handles : Write(h)
      <3>1. PICK p : pcb' = [pcb EXCEPT ![p].unacked = TRUE]
        BY <2>1 DEF Write
      <3>2. \A q \in Pcbs : pcb[q] \in PcbRecords
        BY <1>1 DEF Blocks
      <3>3. \A q \in Pcbs : pcb'[q] = pcb[q] \/ pcb'[q] = [pcb[q] EXCEPT !.unacked = TRUE]
        BY <1>1, <3>1 DEF Blocks
      <3>4. \A q \in Pcbs : /\ pcb'[q] \in PcbRecords /\ pcb'[q].cb = pcb[q].cb /\ pcb'[q].st = pcb[q].st
                            /\ pcb'[q].debit = pcb[q].debit /\ pcb'[q].refused = pcb[q].refused
        <4> TAKE q \in Pcbs
        <4>1. pcb[q] \in PcbRecords /\ (pcb'[q] = pcb[q] \/ pcb'[q] = [pcb[q] EXCEPT !.unacked = TRUE])
          BY <3>2, <3>3
        <4> QED BY <4>1 DEF PcbRecords
      <3>5. pcb' \in Blocks
        BY <1>1, <3>1, <3>4 DEF Blocks
      <3> QED BY <3>4, <3>5
    <2>2. CASE \E port \in Ports : ServerWrite(port)
      <3>1. PICK took : pcb' = [p \in Pcbs |-> [pcb[p] EXCEPT !.unacked = @ \/ p \in took]]
        BY <2>2 DEF ServerWrite
      <3>2. \A q \in Pcbs : pcb[q] \in PcbRecords
        BY <1>1 DEF Blocks
      <3>3. \A q \in Pcbs : pcb'[q] = [pcb[q] EXCEPT !.unacked = @ \/ q \in took]
        BY <3>1
      <3>4. \A q \in Pcbs : /\ pcb'[q] \in PcbRecords /\ pcb'[q].cb = pcb[q].cb /\ pcb'[q].st = pcb[q].st
                            /\ pcb'[q].debit = pcb[q].debit /\ pcb'[q].refused = pcb[q].refused
        <4> TAKE q \in Pcbs
        <4>1. pcb[q] \in PcbRecords /\ pcb'[q] = [pcb[q] EXCEPT !.unacked = @ \/ q \in took]
          BY <3>2, <3>3
        <4> QED BY <4>1 DEF PcbRecords
      <3>5. pcb' \in Blocks
        BY <3>1, <3>4 DEF Blocks
      <3> QED BY <3>4, <3>5
    <2>3. CASE \E p \in Pcbs : ClosingEnds(p)
      <3>1. PICK p \in Pcbs : pcb[p].st = "closing" /\ pcb' = [pcb EXCEPT ![p] = FreePcb]
        BY <2>3 DEF ClosingEnds
      <3>2. pcb[p].cb = None
        BY <1>1, <3>1, FreeBlock
      <3> QED BY <1>1, <3>1, <3>2, Blank DEF Blocks
    <2> QED BY <2>1, <2>2, <2>3
  <1>4. \A s \in Slots : conn[s].pcb # None =>
           /\ pcb'[conn[s].pcb].st \in {"syn", "open"}
           /\ pcb'[conn[s].pcb].debit = AvailableBytes(conn[s]) + 2 * pcb'[conn[s].pcb].refused
    <2> SUFFICES ASSUME NEW s \in Slots, conn[s].pcb # None
                 PROVE  /\ pcb'[conn[s].pcb].st \in {"syn", "open"}
                        /\ pcb'[conn[s].pcb].debit
                             = AvailableBytes(conn[s]) + 2 * pcb'[conn[s].pcb].refused
      OBVIOUS
    <2>1. conn[s].pcb \in Pcbs
      BY <1>1 DEF Conns, SlotRecords
    <2>2. /\ pcb[conn[s].pcb].st \in {"syn", "open"}
          /\ pcb[conn[s].pcb].debit = AvailableBytes(conn[s]) + 2 * pcb[conn[s].pcb].refused
      BY <1>1 DEF Pool, Owned
    <2> QED BY <1>3, <2>1, <2>2
  <1>5. \A s \in Slots : /\ conn[s].refs = conn[s].refs /\ conn[s].claimed = conn[s].claimed
                         /\ conn[s].port = conn[s].port /\ conn[s].pcb = conn[s].pcb
                         /\ conn[s].state = "FREE" <=> conn[s].state = "FREE"
                         /\ conn[s].state = "FREE" => conn[s] = conn[s]
    OBVIOUS
  <1>6. Pool(conn, pcb', handle, Giving, Freeing)
    BY <1>1, <1>3, <1>4, <1>5, StaysPool
  <1>7. Waiting' /\ Giving' = Giving /\ Freeing' = Freeing
    BY <1>2, WaitsOn
  <1> QED BY <1>2, <1>6, <1>7 DEF IInv

LEMMA TickStep ==
  ASSUME IInv, Tick PROVE IInv'
  <1>1. conn \in Conns /\ pcb \in Blocks /\ Pool(conn, pcb, handle, Giving, Freeing)
        /\ Owned(conn, pcb)
    BY DEF IInv, Pool, Typed
  <1>2. UNCHANGED <<pcb, handle, sketch, listening, linkUp>>
    BY DEF Tick
  <1>3. /\ conn' \in Conns
        /\ \A s \in Slots : /\ conn'[s].refs = conn[s].refs /\ conn'[s].claimed = conn[s].claimed
                            /\ conn'[s].port = conn[s].port /\ conn'[s].pcb = conn[s].pcb
                            /\ conn'[s].state = "FREE" <=> conn[s].state = "FREE"
                            /\ conn[s].state = "FREE" => conn'[s] = conn[s]
        /\ \A s \in Slots : conn'[s].rx = conn[s].rx /\ conn'[s].off = conn[s].off
    <2>1. ASSUME NEW s \in Slots, ~(conn[s].state = "FREE" \/ conn[s].age = StallAge)
          PROVE  conn[s].age + 1 \in 0..StallAge
      <3>1. conn[s].age \in 0..StallAge
        BY <1>1 DEF Conns, SlotRecords
      <3> QED BY <2>1, <3>1, PoolAssumption
    <2>2. \A s \in Slots : conn'[s] \in SlotRecords
      BY <1>1, <2>1 DEF Tick, Conns, SlotRecords
    <2>3. conn' \in Conns
      BY <2>2 DEF Tick, Conns
    <2> QED BY <1>1, <2>3 DEF Tick, Conns, SlotRecords
  <1>4. \A s \in Slots : conn[s].pcb # None =>
           /\ pcb[conn[s].pcb].st \in {"syn", "open"}
           /\ pcb[conn[s].pcb].debit = AvailableBytes(conn'[s]) + 2 * pcb[conn[s].pcb].refused
    BY <1>1, <1>3 DEF Owned, AvailableBytes
  <1>5. \A p \in Pcbs : pcb[p].cb = pcb[p].cb
    OBVIOUS
  <1> DEFINE c2 == conn'
  <1>6. Pool(c2, pcb, handle, Giving, Freeing)
    <2> HIDE DEF c2
    <2>1. /\ c2 \in Conns
          /\ \A s \in Slots : /\ c2[s].refs = conn[s].refs /\ c2[s].claimed = conn[s].claimed
                              /\ c2[s].port = conn[s].port /\ c2[s].pcb = conn[s].pcb
                              /\ c2[s].state = "FREE" <=> conn[s].state = "FREE"
                              /\ conn[s].state = "FREE" => c2[s] = conn[s]
          /\ \A s \in Slots : conn[s].pcb # None =>
               /\ pcb[conn[s].pcb].st \in {"syn", "open"}
               /\ pcb[conn[s].pcb].debit = AvailableBytes(c2[s]) + 2 * pcb[conn[s].pcb].refused
      BY <1>3, <1>4 DEF c2
    <2> QED BY <1>1, <1>5, <2>1, StaysPool
  <1>7. Waiting' /\ Giving' = Giving /\ Freeing' = Freeing
    BY <1>2, <1>3, WaitsOn
  <1> QED BY <1>2, <1>6, <1>7 DEF IInv

\* connErr(), and the stall valve, which does the same to a slot without references.
LEMMA FailSteps ==
  ASSUME IInv, NEW p \in Pcbs, Fail(p) \/ Poll(p) PROVE IInv'
  <1> DEFINE s == pcb[p].cb
  <1>1. s \in Slots /\ conn[s].pcb = p
    BY CallbackHas DEF IInv, Attached, Fail, Poll
  <1>2. conn \in Conns /\ None \notin Pcbs
    BY PoolAssumption DEF IInv, Pool, Typed
  <1>3. /\ conn' = [conn EXCEPT ![s] = Errored(conn[s])]
        /\ pcb' = [pcb EXCEPT ![p] = FreePcb]
        /\ UNCHANGED <<handle, sketch, listening, linkUp>>
    BY <1>1, <1>2 DEF Fail, Poll, Errored, Conns
  <1> HIDE DEF s
  <1>4. Pool(conn', pcb', handle, Giving, Freeing)
    BY <1>1, <1>3, ErrorKeeps DEF IInv
  <1>5. \A t \in Slots : conn[t].refs # 0 /\ conn[t].pcb = None => conn'[t] = conn[t]
    BY <1>1, <1>2, <1>3 DEF Conns
  <1>6. Waiting' /\ Giving' = Giving /\ Freeing' = Freeing
    BY <1>3, <1>5, WaitsOn
  <1> QED BY <1>3, <1>4, <1>6 DEF IInv

LEMMA LinkSteps ==
  ASSUME IInv, LinkDown \/ LinkUp PROVE IInv'
  <1>1. CASE LinkUp
    BY <1>1 DEF LinkUp, IInv, Waiting, Giving, Freeing
  <1>2. CASE LinkDown
    <2> DEFINE D == {s \in Slots : conn[s].pcb # None}
    <2>1. conn \in Conns /\ pcb \in Blocks /\ None \notin Pcbs
          /\ Pool(conn, pcb, handle, Giving, Freeing)
      BY PoolAssumption DEF IInv, Pool, Typed
    <2>2. conn' = [s \in Slots |-> IF s \in D THEN Errored(conn[s]) ELSE conn[s]]
      BY <1>2 DEF LinkDown
    <2>3. pcb' = [p \in Pcbs |-> IF \E s \in D : conn[s].pcb = p THEN FreePcb ELSE pcb[p]]
      BY <1>2, <2>1 DEF LinkDown
    <2>4. D \subseteq Slots /\ \A s \in D : conn[s].pcb # None
      OBVIOUS
    <2>5. UNCHANGED <<handle, sketch, listening>> /\ linkUp' \in BOOLEAN
      BY <1>2 DEF LinkDown
    <2>6. \A t \in Slots : conn[t].refs # 0 /\ conn[t].pcb = None => conn'[t] = conn[t]
      BY <2>1, <2>2 DEF Conns
    <2> HIDE DEF D
    <2>7. Pool(conn', pcb', handle, Giving, Freeing)
      BY <2>1, <2>2, <2>3, <2>4, ErrorsKeep
    <2>8. Waiting' /\ Giving' = Giving /\ Freeing' = Freeing
      BY <2>5, <2>6, WaitsOn
    <2> QED BY <2>5, <2>7, <2>8 DEF IInv
  <1> QED BY <1>1, <1>2

LEMMA AcceptStep ==
  ASSUME IInv, NEW p \in Pcbs, NEW port \in Ports, Accept(p, port) PROVE IInv'
  <1>1. PICK s \in Slots : (conn[s].state = "FREE" \/ ~conn[s].claimed) /\ AcceptOn(p, s, port)
    BY DEF Accept, First, FreeSlots, Victims, Evictable
  <1>2. conn \in Conns /\ pcb[p].st = "free" /\ Pool(conn, pcb, handle, Giving, Freeing)
    BY DEF IInv, Pool, Typed, Accept
  <1> DEFINE n == Accepted(port, p)
  <1>3. /\ conn' = Put(conn, s, n)
        /\ pcb' = [q \in Pcbs |-> IF q = p THEN InstalledPcb("open", s)
                                  ELSE IF q = conn[s].pcb THEN FreePcb ELSE pcb[q]]
        /\ UNCHANGED <<handle, sketch, listening, linkUp>>
    BY <1>1 DEF AcceptOn, Put, Accepted
  <1> HIDE DEF n
  <1>4. n = Accepted(port, p)
    BY DEF n
  <1>5. Pool(conn', pcb', handle, Giving, Freeing)
    BY <1>1, <1>2, <1>3, <1>4, AcceptKeeps
  <1>6. conn[s].refs = 0
    BY <1>1, <1>2 DEF Pool, Counted
  <1>7. \A t \in Slots : conn[t].refs # 0 /\ conn[t].pcb = None => conn'[t] = conn[t]
    BY <1>2, <1>3, <1>6 DEF Put, Conns
  <1>8. Waiting' /\ Giving' = Giving /\ Freeing' = Freeing
    BY <1>3, <1>7, WaitsOn
  <1> QED BY <1>3, <1>5, <1>8 DEF IInv

-----------------------------------------------------------------------------
(* The sketch's calls.                                                       *)

\* A handle lets go in pool c, and the call returns or waits for the close.
LEMMA DetachSteps ==
  ASSUME IInv, NEW c, NEW h \in Handles, NEW g \in SlotOrNone,
         Pool(c, pcb, handle, g, None), Detach(h, c, g), UNCHANGED <<listening, linkUp>>
  PROVE  IInv'
  <1>1. Pool(conn', pcb', handle', Giving', Freeing')
    BY DetachKeeps
  <1>2. handle \in Pointers
    BY DEF IInv, Pool, Typed
  <1>3. \/ sketch' = Idle
        \/ /\ sketch' = [at |-> "release", h |-> h, slot |-> handle[h], give |-> g]
           /\ handle[h] # None /\ handle' = [handle EXCEPT ![h] = None]
    BY DEF Detach
  <1>4. Waiting'
    <2>1. CASE sketch' = Idle
      BY <2>1 DEF Waiting, SketchStates, Idle
    <2>2. CASE /\ sketch' = [at |-> "release", h |-> h, slot |-> handle[h], give |-> g]
               /\ handle[h] # None /\ handle' = [handle EXCEPT ![h] = None]
      <3>1. handle[h] \in Slots /\ g \in Slots \cup {None} /\ handle'[h] = None
        BY <1>2, <2>2 DEF Pointers, SlotOrNone
      <3>2. sketch' \in SketchStates
        BY <2>2, <3>1 DEF SketchStates
      <3>3. sketch'.at = "release" /\ sketch'.h = h
        BY <2>2
      <3> QED BY <3>1, <3>2, <3>3 DEF Waiting
    <2> QED BY <1>3, <2>1, <2>2
  <1> QED BY <1>1, <1>4 DEF IInv

\* While no release() runs, nothing is given or freed.
LEMMA NoneGiven ==
  ASSUME sketch.at # "release" PROVE Giving = None /\ Freeing = None
  BY DEF Giving, Freeing

LEMMA TakenIs ==
  ASSUME NEW c \in Conns, NEW s \in Slots
  PROVE  /\ AddRef([c EXCEPT ![s].claimed = TRUE], s) = Put(c, s, Taken(c, s))
         /\ c[s].claimed => AddRef(c, s) = Put(c, s, Taken(c, s))
  <1> DEFINE r == c[s]
             m == (r.refs + 1) % RefMod
             c1 == [c EXCEPT ![s].claimed = TRUE]
  <1>1. r \in SlotRecords /\ c1[s] = [r EXCEPT !.claimed = TRUE] /\ c1 \in Conns
    BY DEF Conns, SlotRecords
  <1>2. c1[s].refs = r.refs
    BY <1>1 DEF SlotRecords
  <1>3. AddRef(c1, s) = [c1 EXCEPT ![s] = [c1[s] EXCEPT !.refs = m]]
    BY <1>1, <1>2 DEF AddRef
  <1>4. AddRef(c, s) = [c EXCEPT ![s] = [r EXCEPT !.refs = m]]
    BY DEF AddRef
  <1>5. Taken(c, s) = [r EXCEPT !.refs = m, !.claimed = TRUE]
    BY DEF Taken
  <1> HIDE DEF m
  <1>6. [c1[s] EXCEPT !.refs = m] = [r EXCEPT !.refs = m, !.claimed = TRUE]
    BY <1>1 DEF SlotRecords
  <1>7. r.claimed => [r EXCEPT !.refs = m] = [r EXCEPT !.refs = m, !.claimed = TRUE]
    BY <1>1 DEF SlotRecords
  <1>8. AddRef(c1, s) = Put(c, s, Taken(c, s))
    BY <1>3, <1>5, <1>6 DEF Put, Conns
  <1>9. r.claimed => AddRef(c, s) = Put(c, s, Taken(c, s))
    BY <1>4, <1>5, <1>7 DEF Put
  <1> QED BY <1>8, <1>9

LEMMA LettingSteps ==
  ASSUME IInv, NEW h \in Handles,
         \/ Drop(h)
         \/ \E g \in Handles : Assign(h, g)
         \/ \E port \in Ports : ServerAccept(h, port) \/ ServerAvailable(h, port)
  PROVE  IInv'
  <1>1. sketch.at = "idle" /\ UNCHANGED <<listening, linkUp>>
    BY DEF Drop, Assign, ServerAccept, ServerAvailable, Adopt
  <1>2. Pool(conn, pcb, handle, None, None) /\ conn \in Conns /\ None \in SlotOrNone
        /\ Slots \subseteq SlotOrNone
    BY <1>1, NoneGiven DEF IInv, Pool, Typed, SlotOrNone
  <1>3. CASE Drop(h)
    <2>1. Detach(h, conn, None)
      BY <1>3 DEF Drop
    <2> QED BY <1>1, <1>2, <2>1, DetachSteps
  <1>4. ASSUME NEW g \in Handles, Assign(h, g) PROVE IInv'
    <2> DEFINE s == handle[g]
    <2>1. s \in Slots /\ conn[s].claimed /\ conn[s].state # "FREE"
      BY <1>2, <1>4, HandleHolds DEF Assign
    <2>2. AddRef(conn, s) = Put(conn, s, Taken(conn, s)) /\ Detach(h, AddRef(conn, s), s)
      BY <1>2, <1>4, <2>1, TakenIs DEF Assign
    <2> HIDE DEF s
    <2>3. Pool(AddRef(conn, s), pcb, handle, s, None)
      BY <1>2, <2>1, <2>2, RefKeeps
    <2> QED BY <1>1, <1>2, <2>1, <2>2, <2>3, DetachSteps
  <1>5. ASSUME NEW port \in Ports, ServerAccept(h, port) \/ ServerAvailable(h, port) PROVE IInv'
    <2>1. PICK s \in Slots : conn[s].state # "FREE" /\ Adopt(h, s)
      BY <1>5 DEF ServerAccept, ServerAvailable, First, ServerSlots
    <2> DEFINE c == AddRef([conn EXCEPT ![s].claimed = TRUE], s)
    <2>2. c = Put(conn, s, Taken(conn, s)) /\ Detach(h, c, s)
      BY <1>2, <2>1, TakenIs DEF Adopt
    <2> HIDE DEF c
    <2>3. Pool(c, pcb, handle, s, None)
      BY <1>2, <2>1, <2>2, RefKeeps
    <2> QED BY <1>1, <1>2, <2>1, <2>2, <2>3, DetachSteps
  <1> QED BY <1>3, <1>4, <1>5

\* connect() past its stop(): handle h is free to point anywhere.
LEMMA ReserveSteps ==
  ASSUME IInv, NEW c, NEW hd, NEW h \in Handles, hd[h] = None, Pool(c, pcb, hd, None, None),
         \A g : [hd EXCEPT ![h] = g] = [handle EXCEPT ![h] = g],
         Reserve(h, c), UNCHANGED <<pcb, listening, linkUp>>
  PROVE  IInv'
  <1>1. c \in Conns /\ hd \in Pointers /\ handle \in Pointers /\ 1 % RefMod = 1
    <2>1. RefMod \in Nat /\ 1 < RefMod
      <3>1. Cardinality(Handles) \in Nat
        BY PoolAssumption, FS_CardinalityType
      <3> QED BY <3>1, PoolAssumption
    <2>2. 1 \in 0..(RefMod - 1)
      BY <2>1
    <2> QED BY <2>1, <2>2 DEF IInv, Pool, Typed
  <1>2. CASE linkUp /\ FreeSlots(c) # {}
    <2>1. PICK s \in Slots :
            /\ c[s].state = "FREE"
            /\ conn' = AddRef([c EXCEPT ![s].state = "CONNECTING", ![s].claimed = TRUE], s)
            /\ handle' = [handle EXCEPT ![h] = s]
            /\ sketch' = [at |-> "new", h |-> h]
      BY <1>2 DEF Reserve, First, FreeSlots
    <2>2. conn' = Put(c, s, Reserved)
      <3> DEFINE c1 == [c EXCEPT ![s].state = "CONNECTING", ![s].claimed = TRUE]
      <3>1. c[s] = FreeConn
        BY <2>1 DEF Pool, Reapable
      <3>2. c1 = [c EXCEPT ![s] = [FreeConn EXCEPT !.state = "CONNECTING", !.claimed = TRUE]]
            /\ c1[s] = [FreeConn EXCEPT !.state = "CONNECTING", !.claimed = TRUE]
        BY <1>1, <3>1 DEF Conns
      <3>3. c1[s].refs = 0
        <4> HIDE DEF c1
        <4>1. c1[s] = [FreeConn EXCEPT !.state = "CONNECTING", !.claimed = TRUE]
          BY <3>2
        <4> QED BY <4>1 DEF FreeConn
      <3>4. AddRef(c1, s) = [c1 EXCEPT ![s] = [c1[s] EXCEPT !.refs = (c1[s].refs + 1) % RefMod]]
        BY DEF AddRef
      <3>5. (c1[s].refs + 1) % RefMod = 1
        BY <1>1, <3>3
      <3> HIDE DEF c1
      <3>6. AddRef(c1, s) = [c1 EXCEPT ![s] = [c1[s] EXCEPT !.refs = 1]]
        BY <3>4, <3>5
      <3>7. [c1[s] EXCEPT !.refs = 1] = Reserved
        BY <3>2 DEF FreeConn, Reserved
      <3>8. AddRef(c1, s) = Put(c, s, Reserved)
        BY <1>1, <3>2, <3>6, <3>7 DEF Put, Conns
      <3> QED BY <2>1, <3>8 DEF c1
    <2> DEFINE c2 == conn'
    <2>3. c2 = Put(c, s, Reserved)
      BY <2>2
    <2> HIDE DEF c2
    <2>4. Pool(c2, pcb, hd, s, None)
      BY <2>1, <2>3, ReserveKeeps
    <2> DEFINE hd2 == [hd EXCEPT ![h] = s]
    <2>5. hd2 = Put(hd, h, s) /\ handle' = hd2 /\ hd2[h] = s
      BY <1>1, <2>1 DEF Put, Pointers
    <2> HIDE DEF hd2
    <2>6. Pool(c2, pcb, hd2, None, None)
      BY <2>4, <2>5, GiveKeeps
    <2>7. Giving' = None /\ Freeing' = None
      BY <2>1 DEF Giving, Freeing
    <2>8. Waiting'
      <3>1. Reserved.pcb = None /\ AvailableBytes(Reserved) = 0
        BY DEF Reserved, FreeConn, AvailableBytes
      <3>2. conn'[s] = Reserved
        BY <1>1, <2>2 DEF Put, Conns
      <3>3. sketch' \in SketchStates /\ sketch'.at = "new" /\ sketch'.h = h
        BY <2>1 DEF SketchStates
      <3>4. handle'[h] = s /\ s # None
        BY <2>5, PoolAssumption
      <3> QED BY <3>1, <3>2, <3>3, <3>4 DEF Waiting
    <2> QED BY <2>5, <2>6, <2>7, <2>8 DEF IInv, c2
  <1>3. CASE ~(linkUp /\ FreeSlots(c) # {})
    <2>1. conn' = c /\ handle' = [handle EXCEPT ![h] = None] /\ sketch' = Idle
      BY <1>3 DEF Reserve
    <2>2. handle' = hd
      <3>1. [hd EXCEPT ![h] = None] = hd
        BY <1>1 DEF Pointers
      <3> QED BY <2>1, <3>1
    <2>3. Giving' = None /\ Freeing' = None /\ Waiting'
      BY <2>1 DEF Giving, Freeing, Idle, Waiting, SketchStates
    <2> QED BY <2>1, <2>2, <2>3 DEF IInv
  <1> QED BY <1>2, <1>3

LEMMA ConnectStep ==
  ASSUME IInv, NEW h \in Handles, Connect(h) PROVE IInv'
  <1>1. /\ handle[h] = None /\ sketch.at = "idle"
        /\ Reserve(h, conn) /\ UNCHANGED <<pcb, listening, linkUp>>
    BY DEF Connect
  <1>2. Pool(conn, pcb, handle, None, None)
    BY <1>1, NoneGiven DEF IInv
  <1> QED BY <1>1, <1>2, ReserveSteps

LEMMA FinishStopStep ==
  ASSUME IInv, FinishStop PROVE IInv'
  <1> DEFINE h == sketch.h
             s == handle[h]
             c1 == [conn EXCEPT ![s].state = "PEER_CLOSED"]
             c == Released(c1, s)
             hd == [handle EXCEPT ![h] = None]
  <1>1. sketch.at = "stop" /\ sketch \in SketchStates /\ UNCHANGED <<pcb, listening, linkUp>>
    BY DEF FinishStop, IInv, Waiting
  <1>2. h \in Handles /\ s # None /\ conn[s].pcb = None
    BY <1>1 DEF IInv, Waiting, SketchStates, Idle
  <1>3. s \in Slots /\ conn[s].refs # 0 /\ conn[s].claimed /\ conn[s].state # "FREE"
    BY <1>2, HandleHolds DEF IInv
  <1>4. Pool(conn, pcb, handle, None, None)
    BY <1>1, NoneGiven DEF IInv
  <1>5. conn \in Conns /\ pcb \in Blocks /\ handle \in Pointers /\ None \in SlotOrNone
        /\ Owned(conn, pcb) /\ conn[s] \in SlotRecords
    BY <1>3, <1>4 DEF Pool, Typed, SlotOrNone, Conns
  <1> DEFINE n == [conn[s] EXCEPT !.state = "PEER_CLOSED"]
  <1>6. /\ n \in SlotRecords /\ n.refs = conn[s].refs /\ n.claimed = conn[s].claimed
        /\ n.state = "PEER_CLOSED" /\ n.pcb = None /\ n.rx = conn[s].rx /\ n.off = conn[s].off
    BY <1>2, <1>5 DEF SlotRecords, ConnStates
  <1>7. c1 = Put(conn, s, n) /\ c1[s] = n
    BY <1>3, <1>5 DEF Put, Conns
  <1> HIDE DEF n, c1
  <1>8. Owned(c1, pcb)
    <2>1. n.pcb = conn[s].pcb /\ (n.state = "FREE" => conn[s].pcb = None)
      BY <1>2, <1>6
    <2> QED BY <1>3, <1>5, <1>6, <1>7, <2>1, HoldsOn
  <1>9. Pool(c1, pcb, handle, None, None)
    <2>1. /\ s # None /\ n.refs = conn[s].refs /\ n.state # "FREE" /\ (n.refs # 0 => n.claimed)
          /\ n.refs = 0 => ~n.claimed /\ n.port # 0 /\ n.pcb # None
      BY <1>2, <1>3, <1>6
    <2> HIDE DEF s
    <2> QED BY <1>3, <1>4, <1>5, <1>6, <1>7, <1>8, <2>1, SameRefs
  <1>10. hd = Put(handle, h, None) /\ hd[h] = None
         /\ \A g : [hd EXCEPT ![h] = g] = [handle EXCEPT ![h] = g]
    BY <1>2, <1>5 DEF Put, Pointers
  <1> DEFINE c3 == c
  <1>11. c3 = Released(c1, s) /\ (c1[s].refs = 1 => c1[s].pcb = None) /\ handle[h] = s
    BY <1>6, <1>7
  <1> HIDE DEF c, c3, hd
  <1>12. Pool(c3, pcb, hd, None, None)
    BY <1>2, <1>3, <1>9, <1>10, <1>11, ReleaseKeeps
  <1>13. c3 = c
    BY DEF c3
  <1>14. CASE sketch.dial
    <2>1. Reserve(h, c)
      BY <1>14 DEF FinishStop, c, c1
    <2> QED BY <1>1, <1>2, <1>10, <1>12, <1>13, <2>1, ReserveSteps
  <1>15. CASE ~sketch.dial
    <2>1. conn' = c /\ handle' = hd /\ sketch' = Idle
      BY <1>15 DEF FinishStop, c, c1, hd
    <2>2. Giving' = None /\ Freeing' = None /\ Waiting'
      BY <2>1 DEF Giving, Freeing, Idle, Waiting, SketchStates
    <2> QED BY <1>1, <1>12, <1>13, <2>1, <2>2 DEF IInv
  <1> QED BY <1>14, <1>15

LEMMA EndFlushStep ==
  ASSUME IInv, EndFlush PROVE IInv'
  <1> DEFINE h == sketch.h
             s == handle[h]
  <1>1. /\ sketch.at = "flush" /\ sketch \in SketchStates
        /\ sketch' = [sketch EXCEPT !.at = "stop"]
        /\ conn' = [conn EXCEPT ![s].pcb = None]
        /\ UNCHANGED <<handle, listening, linkUp>>
    BY DEF EndFlush, IInv, Waiting
  <1>2. h \in Handles /\ s # None /\ sketch.dial \in BOOLEAN
        /\ sketch' = [at |-> "stop", h |-> h, dial |-> sketch.dial]
    BY <1>1 DEF IInv, Waiting, SketchStates, Idle
  <1>3. s \in Slots /\ conn[s].refs # 0 /\ Pool(conn, pcb, handle, None, None)
        /\ conn \in Conns
    BY <1>1, <1>2, HandleHolds, NoneGiven DEF IInv, Pool, Typed
  <1>4. PICK k \in PcbRecords : k.cb = None /\ pcb' = Without(pcb, conn[s].pcb, k)
    <2>1. CASE conn[s].pcb = None
      BY <2>1, Blank DEF EndFlush, Without
    <2>2. CASE conn[s].pcb # None
      BY <2>2, CloseLeaves DEF EndFlush, Without, Put
    <2> QED BY <2>1, <2>2
  <1>5. conn' = Put(conn, s, [conn[s] EXCEPT !.pcb = None]) /\ conn'[s].pcb = None
    BY <1>1, <1>3 DEF Put, Conns, SlotRecords
  <1> HIDE DEF s
  <1>6. Pool(conn', pcb', handle, None, None)
    BY <1>3, <1>4, <1>5, CloseKeeps
  <1>7. Giving' = None /\ Freeing' = None
    BY <1>2 DEF Giving, Freeing
  <1>8. Waiting'
    <2>1. sketch' \in SketchStates /\ sketch'.at = "stop" /\ sketch'.h = h
      BY <1>2 DEF SketchStates
    <2>2. handle'[h] = s /\ handle'[h] # None
      BY <1>1, <1>2 DEF s
    <2> QED BY <1>5, <2>1, <2>2 DEF Waiting
  <1> QED BY <1>1, <1>6, <1>7, <1>8 DEF IInv

LEMMA DialStep ==
  ASSUME IInv, NEW p \in Pcbs, Dial(p) PROVE IInv'
  <1> DEFINE h == sketch.h
             s == handle[h]
  <1>1. /\ sketch.at = "new" /\ sketch \in SketchStates /\ pcb[p].st = "free"
        /\ sketch' = [sketch EXCEPT !.at = "wait"]
        /\ conn' = Put(conn, s, InstalledConn(conn[s], p))
        /\ pcb' = Put(pcb, p, InstalledPcb("syn", s))
        /\ UNCHANGED <<handle, listening, linkUp>>
    BY DEF Dial, IInv, Waiting, Put
  <1>2. h \in Handles /\ s # None /\ sketch' = [at |-> "wait", h |-> h]
        /\ conn[s].pcb = None /\ AvailableBytes(conn[s]) = 0
    BY <1>1 DEF IInv, Waiting, SketchStates, Idle
  <1>3. s \in Slots /\ conn[s].refs # 0 /\ Pool(conn, pcb, handle, None, None)
    BY <1>1, <1>2, HandleHolds, NoneGiven DEF IInv
  <1> HIDE DEF s
  <1>4. Pool(conn', pcb', handle, None, None)
    BY <1>1, <1>2, <1>3, InstallKeeps
  <1>5. Giving' = None /\ Freeing' = None
    BY <1>2 DEF Giving, Freeing
  <1>6. Waiting'
    <2>1. sketch' \in SketchStates /\ sketch'.at = "wait" /\ sketch'.h = h
      BY <1>2 DEF SketchStates
    <2> QED BY <1>1, <1>2, <2>1 DEF Waiting, s
  <1> QED BY <1>1, <1>4, <1>5, <1>6 DEF IInv

LEMMA FailedConnectSteps ==
  ASSUME IInv, DialFails \/ ConnectRefused PROVE IInv'
  <1>1. sketch.at \in {"new", "wait"} /\ sketch \in SketchStates
        /\ Detach(sketch.h, conn, None) /\ UNCHANGED <<listening, linkUp>>
    BY DEF DialFails, ConnectRefused, IInv, Waiting
  <1>2. sketch.h \in Handles
    BY <1>1 DEF SketchStates, Idle
  <1>3. Pool(conn, pcb, handle, None, None) /\ None \in SlotOrNone
    BY <1>1, NoneGiven DEF IInv, SlotOrNone
  <1> QED BY <1>1, <1>2, <1>3, DetachSteps

LEMMA TimesOutStep ==
  ASSUME IInv, ConnectTimesOut PROVE IInv'
  <1> DEFINE h == sketch.h
             s == handle[h]
             p == conn[s].pcb
             c == IF p = None THEN conn ELSE [conn EXCEPT ![s] = Errored(conn[s])]
  <1>1. /\ sketch.at = "wait" /\ sketch \in SketchStates /\ sketch' = Idle
        /\ conn' = Released(c, s)
        /\ pcb' = IF p = None THEN pcb ELSE [pcb EXCEPT ![p] = FreePcb]
        /\ handle' = Put(handle, h, None) /\ UNCHANGED <<listening, linkUp>>
    BY DEF ConnectTimesOut, IInv, Waiting, Put
  <1>2. h \in Handles /\ s # None
    BY <1>1 DEF IInv, Waiting, SketchStates, Idle
  <1>3. /\ s \in Slots /\ conn[s].refs # 0 /\ Pool(conn, pcb, handle, None, None)
        /\ conn \in Conns /\ p \in Pcbs \cup {None} /\ None \notin Pcbs
    <2>1. Pool(conn, pcb, handle, None, None)
      BY <1>1, NoneGiven DEF IInv
    <2>2. s \in Slots /\ conn[s].refs # 0
      BY <2>1, <1>2, HandleHolds
    <2>3. conn \in Conns /\ conn[s] \in SlotRecords
      BY <2>1, <2>2 DEF Pool, Typed, Conns
    <2>4. p \in Pcbs \cup {None} /\ None \notin Pcbs
      BY <2>3, PoolAssumption DEF SlotRecords
    <2> QED BY <2>1, <2>2, <2>3, <2>4
  <1> HIDE DEF s
  <1>4. Pool(c, pcb', handle, None, None) /\ c[s].pcb = None
    <2>1. CASE p = None
      BY <1>1, <1>3, <2>1
    <2>2. CASE p # None
      <3>1. Pool(c, pcb', handle, None, None)
        <4>1. c = [conn EXCEPT ![s] = Errored(conn[s])] /\ pcb' = [pcb EXCEPT ![p] = FreePcb]
              /\ p \in Pcbs
          BY <1>1, <1>3, <2>2
        <4> HIDE DEF c
        <4> QED BY <1>3, <4>1, ErrorKeeps
      <3>2. Errored(conn[s]).pcb = None
        BY <1>3 DEF Errored, Conns, SlotRecords
      <3>3. c[s].pcb = None
        BY <1>3, <2>2, <3>2 DEF Conns
      <3> QED BY <3>1, <3>3
    <2> QED BY <2>1, <2>2
  <1> HIDE DEF c, p
  <1>5. handle[h] = s
    BY DEF s
  <1>6. Pool(conn', pcb', handle', None, None)
    BY <1>1, <1>2, <1>3, <1>4, <1>5, ReleaseKeeps
  <1>7. Giving' = None /\ Freeing' = None /\ Waiting'
    BY <1>1 DEF Giving, Freeing, Idle, Waiting, SketchStates
  <1> QED BY <1>1, <1>6, <1>7 DEF IInv

LEMMA FinishReleaseStep ==
  ASSUME IInv, FinishRelease PROVE IInv'
  <1> DEFINE h == sketch.h
             r == sketch.slot
             g == sketch.give
  <1>1. /\ sketch.at = "release" /\ sketch \in SketchStates /\ handle[h] = None
        /\ conn' = Put(conn, r, FreeConn) /\ handle' = Put(handle, h, g)
        /\ sketch' = Idle /\ UNCHANGED <<pcb, listening, linkUp>>
    BY DEF FinishRelease, IInv, Waiting, Put
  <1>2. h \in Handles /\ r \in Slots
    BY <1>1 DEF SketchStates, Idle
  <1>3. Pool(conn, pcb, handle, g, r)
    BY <1>1 DEF IInv, Giving, Freeing
  <1> HIDE DEF g, r
  <1>4. Pool(conn', pcb, handle, g, None)
    BY <1>1, <1>2, <1>3, FreeKeeps
  <1>5. Pool(conn', pcb, handle', None, None)
    BY <1>1, <1>2, <1>4, GiveKeeps
  <1>6. Giving' = None /\ Freeing' = None /\ Waiting'
    BY <1>1 DEF Giving, Freeing, Idle, Waiting, SketchStates
  <1> QED BY <1>1, <1>5, <1>6 DEF IInv

\* Calls that change neither the pool nor a handle.
LEMMA QuietSteps ==
  ASSUME IInv,
         \/ \E port \in Ports : ServerBegin(port) \/ ServerEnd(port)
         \/ \E h \in Handles, dial \in BOOLEAN : Stop(h, dial)
         \/ Connects
  PROVE  IInv'
  <1>1. CASE \E port \in Ports : ServerBegin(port) \/ ServerEnd(port)
    <2>1. UNCHANGED <<conn, pcb, handle, sketch, linkUp>> /\ listening' \subseteq Ports
      BY <1>1 DEF ServerBegin, ServerEnd, IInv
    <2> QED BY <2>1 DEF IInv, Waiting, Giving, Freeing
  <1>2. CASE \E h \in Handles, dial \in BOOLEAN : Stop(h, dial)
    <2>1. PICK h \in Handles, dial \in BOOLEAN : Stop(h, dial)
      BY <1>2
    <2>2. /\ sketch.at = "idle" /\ handle[h] # None
          /\ sketch' = [at |-> "flush", h |-> h, dial |-> dial]
          /\ UNCHANGED <<conn, pcb, handle, listening, linkUp>>
      BY <2>1 DEF Stop
    <2>3. Giving' = None /\ Freeing' = None /\ Giving = None /\ Freeing = None
      BY <2>2 DEF Giving, Freeing
    <2>4. sketch' \in SketchStates /\ sketch'.at = "flush" /\ sketch'.h = h
      BY <2>2 DEF SketchStates
    <2>5. Waiting'
      BY <2>2, <2>4 DEF Waiting
    <2> QED BY <2>2, <2>3, <2>5 DEF IInv
  <1>3. CASE Connects
    <2>1. sketch.at = "wait" /\ sketch' = Idle /\ UNCHANGED <<conn, pcb, handle, listening, linkUp>>
      BY <1>3 DEF Connects
    <2>2. Giving' = None /\ Freeing' = None /\ Giving = None /\ Freeing = None /\ Waiting'
      BY <2>1 DEF Giving, Freeing, Idle, Waiting, SketchStates
    <2> QED BY <2>1, <2>2 DEF IInv
  <1> QED BY <1>1, <1>2, <1>3

-----------------------------------------------------------------------------
(* The invariant holds, and the properties with it.                          *)

LEMMA InitInv ==
  ASSUME Init PROVE IInv
  <1>1. /\ conn = [s \in Slots |-> FreeConn] /\ pcb = [p \in Pcbs |-> FreePcb]
        /\ handle = [h \in Handles |-> None] /\ sketch = Idle
    BY DEF Init
  <1>2. Giving = None /\ Freeing = None
    BY <1>1, NoneGiven DEF Idle
  <1>3. Typed(conn, pcb, handle, None, None)
    BY <1>1, Blank DEF Typed, Conns, Blocks, Pointers, SlotOrNone
  <1>4. Counted(conn, handle, None)
    <2> SUFFICES ASSUME NEW s \in Slots PROVE Count(handle, s) + Extra(None, s) = 0
      BY <1>1, Blank DEF Counted
    <2>1. {h \in Handles : handle[h] = s} = {} /\ Extra(None, s) = 0
      BY <1>1, PoolAssumption DEF Extra
    <2> QED BY <2>1, FS_EmptySet DEF Count
  <1>5. Reapable(conn, None) /\ Releasing(conn, None) /\ Owned(conn, pcb)
    BY <1>1, Blank DEF Reapable, Releasing, Owned
  <1>6. Waiting
    BY <1>1 DEF Waiting, SketchStates, Idle
  <1> QED BY <1>2, <1>3, <1>4, <1>5, <1>6 DEF IInv, Pool, Init

LEMMA NextInv ==
  ASSUME IInv, [Next]_vars PROVE IInv'
  <1>1. CASE UNCHANGED vars
    BY <1>1 DEF vars, IInv, Waiting, Giving, Freeing
  <1>2. CASE SketchCalls
    <2>1. ASSUME NEW h \in Handles, Connect(h) PROVE IInv'
      BY <2>1, ConnectStep
    <2>2. ASSUME NEW h \in Handles, NEW n \in 1..Window, Read(h, n) PROVE IInv'
      BY <2>2, ReadStep
    <2>3. ASSUME NEW h \in Handles,
                 \/ Drop(h)
                 \/ \E g \in Handles : Assign(h, g)
                 \/ \E port \in Ports : ServerAccept(h, port) \/ ServerAvailable(h, port)
          PROVE  IInv'
      BY <2>3, LettingSteps
    <2>4. CASE (\E h \in Handles : Write(h)) \/ (\E port \in Ports : ServerWrite(port))
      BY <2>4, WriteSteps
    <2>5. CASE \/ \E port \in Ports : ServerBegin(port) \/ ServerEnd(port)
               \/ \E h \in Handles, dial \in BOOLEAN : Stop(h, dial)
      BY <2>5, QuietSteps
    <2> QED BY <1>2, <2>1, <2>2, <2>3, <2>4, <2>5 DEF SketchCalls
  <1>3. CASE SketchReturns
    <2>1. ASSUME NEW p \in Pcbs, Dial(p) PROVE IInv'
      BY <2>1, DialStep
    <2> QED BY <1>3, <2>1, FinishReleaseStep, EndFlushStep, FinishStopStep, FailedConnectSteps,
              QuietSteps, TimesOutStep DEF SketchReturns
  <1>4. CASE ServicePass
    <2>1. ASSUME NEW p \in Pcbs, Connected(p) \/ Fin(p) \/ Sent(p) PROVE IInv'
      BY <2>1, CallbackSteps
    <2>2. ASSUME NEW p \in Pcbs, Reoffer(p) PROVE IInv'
      BY <2>2, ReofferStep
    <2>3. ASSUME NEW p \in Pcbs, Fail(p) \/ Poll(p) PROVE IInv'
      BY <2>3, FailSteps
    <2>4. ASSUME NEW p \in Pcbs, NEW port \in Ports, Accept(p, port) PROVE IInv'
      BY <2>4, AcceptStep
    <2>5. ASSUME NEW p \in Pcbs, NEW k \in 1..MaxDelivery, Deliver(p, k) PROVE IInv'
      BY <2>5, DeliverStep
    <2>6. CASE \E p \in Pcbs : ClosingEnds(p)
      BY <2>6, WriteSteps
    <2> QED BY <1>4, <2>1, <2>2, <2>3, <2>4, <2>5, <2>6, LinkSteps, TickStep DEF ServicePass
  <1> QED BY <1>1, <1>2, <1>3, <1>4 DEF Next

LEMMA SpecInv == Spec => []IInv
  <1> QED BY InitInv, NextInv, PTL DEF Spec

LEMMA TypesHold ==
  ASSUME IInv PROVE TypeOK
  <1>1. conn \in Conns /\ pcb \in Blocks /\ handle \in Pointers
        /\ Pool(conn, pcb, handle, Giving, Freeing)
    BY DEF IInv, Pool, Typed
  <1>2. Holders \in Nat
    BY PoolAssumption, FS_CardinalityType DEF Holders
  <1>3. \A s \in Slots : conn[s].refs \in 0..Holders
    BY <1>1, <1>2, CountFits
  <1> DEFINE Records == [state : ConnStates, pcb : Pcbs \cup {None}, refs : 0..Holders,
                         claimed : BOOLEAN, port : Ports \cup {0}, done : BOOLEAN,
                         ok : BOOLEAN, rx : 0..RxMax \cup 0..MaxDelivery,
                         off : 0..1, age : 0..StallAge]
  <1>4. \A s \in Slots : conn[s] \in Records
    BY <1>1, <1>3 DEF Conns, SlotRecords
  <1>5. conn \in [Slots -> Records]
    BY <1>1, <1>4 DEF Conns
  <1>6. /\ pcb \in [Pcbs -> [st : {"free", "syn", "open", "closing"}, cb : Slots \cup {None},
                             debit : 0..Window, refused : 0..MaxDelivery,
                             fin : BOOLEAN, unacked : BOOLEAN]]
        /\ handle \in [Handles -> Slots \cup {None}]
    BY <1>1 DEF Blocks, Pointers, PcbRecords, SlotOrNone
  <1> QED BY <1>5, <1>6 DEF TypeOK, IInv, Waiting

LEMMA ReferencesHold ==
  ASSUME IInv PROVE RefsMatchHandles
  <1> SUFFICES ASSUME NEW s \in Slots PROVE References(s) = Count(handle, s) + Extra(Giving, s)
    BY DEF RefsMatchHandles, IInv, Pool, Counted
  <1>1. (sketch.at = "release" /\ sketch.give = s) <=> Giving = s
    BY PoolAssumption DEF Giving
  <1> QED BY <1>1 DEF References, Count, Extra

LEMMA ReapableHolds ==
  ASSUME IInv PROVE EverySlotReapable
  <1> SUFFICES ASSUME NEW s \in Slots, s = Freeing
               PROVE  sketch.at = "release" /\ sketch.slot = s
    BY DEF EverySlotReapable, IInv, Pool, Reapable
  <1> QED BY PoolAssumption DEF Freeing

\* Every variable keeps its type: the counts fit their counters and no chain passes the cap, or
\* the one delivery that an empty chain takes (connRecv, addRef).
THEOREM PoolTypes == Spec => []TypeOK
  <1> QED BY SpecInv, TypesHold, PTL

\* Whatever is copied, assigned, stopped, evicted, aborted or left half released, the references
\* of a slot are the handles on it, none of them dangles, and no slot in use is out of reach of
\* everything that could free it (addRef, release, allocEvicting, connErr, connPoll).
THEOREM NoSlotLost == Spec => []SlotsAccounted
  <1>1. IInv => SlotsAccounted
    BY TypesHold, ReferencesHold, ReapableHolds DEF SlotsAccounted
  <1> QED BY SpecInv, <1>1, PTL

\* lwip's callbacks never reach a slot that is free or somebody else's, and no slot keeps a block
\* lwip has freed (installCallbacks, detachCallbacks, closeConn, abortAll).
THEOREM CallbacksMine == Spec => []CallbackOwnsSlot
  <1>1. IInv => CallbackOwnsSlot
    BY DEF IInv, Pool, Owned, CallbackOwnsSlot, Attached
  <1> QED BY SpecInv, <1>1, PTL

\* The receive window is down by exactly what the sketch can still read and what lwip holds back:
\* no byte is credited twice and none is forgotten (connRecv, consume).
THEOREM WindowExact == Spec => []WindowConserved
  <1>1. IInv => WindowConserved
    BY DEF IInv, Pool, Owned, WindowConserved
  <1> QED BY SpecInv, <1>1, PTL

=============================================================================
