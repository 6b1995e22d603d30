---------------------------- MODULE Iw416Proofs ----------------------------
(***************************************************************************)
(* Proofs about Iw416, for rings and batches of every size and any number  *)
(* of uploads, calls, events and faults.                                   *)
(***************************************************************************)
EXTENDS Iw416, SequenceTheorems, WellFoundedInduction, TLAPS

-----------------------------------------------------------------------------
(* The invariants.                                                           *)

Replies == [kind : {"reply"}, id : CmdIds \cup {"PS"}, seq : 0..(SeqMod - 1), for : 0..MaxCalls]

\* What each place of the driver has of its locals, and that a slot the snapshot still offers
\* holds its packet.
Places ==
  /\ pc \notin {"await", "fetch"} => cmd = NoCmd
  /\ pc \in {"idle", "drain", "sink", "post", "port"} => polls = 0
  /\ pc \in {"await", "monitor", "watch", "watchDrain", "watchPort"} => polls < Polls
  /\ pc \in {"await", "fetch"} => tries < Tries
  /\ pc \in {"idle", "await", "fetch", "monitor", "monitorTake", "watch"} => pass.st = {}
  /\ pc \in {"drain", "sink"} => \A p \in pass.bits \cap pass.lens : held[p] # 0
  /\ uploads \in 0..MaxUploads /\ calls \in 0..MaxCalls /\ events \in 0..MaxEvents
  /\ answer \in (0..MaxCalls) \X (0..MaxCalls)
  /\ cmd.id \in CmdIds \cup {"none"} /\ cmd.for \in 0..MaxCalls
  /\ todo \in Seq(Replies)

\* The bit of the command port goes with the packet: exactly one of the register, the
\* accumulator and a fetch under way knows of it.
PortBit ==
  /\ port # NoPacket <=> "CMD" \in hostInt \cup pend \/ pc = "fetch"
  /\ ~("CMD" \in hostInt /\ "CMD" \in pend)
  /\ pc = "fetch" => "CMD" \notin hostInt \cup pend
  /\ pc \in {"drain", "sink", "post", "port"} /\ "CMD" \in pass.st =>
       "CMD" \in pend /\ pass.cmdLen
  /\ pc \in {"watchDrain", "watchPort"} /\ "CMD" \in pass.st => "CMD" \in pend

\* An announced upload that waits in the ring has its bit on record.
UploadBit ==
  /\ \A n \in told : n <= uploads
  /\ \A p \in Ports : held[p] \in told => "UP" \in hostInt \cup pend

\* How far a slot lies from the host's position.
Off(p) == IF p >= rxPort THEN p - rxPort ELSE p - rxPort + NumPorts

\* The last c uploads are in the c slots from the host's position on, oldest first, and the
\* packets read are older.
RingHolds(c) ==
  /\ c <= NumPorts /\ c <= uploads
  /\ \A p \in Ports : held[p] = IF Off(p) < c THEN uploads - c + 1 + Off(p) ELSE 0
  /\ bitmap = {p \in Ports : Off(p) < c}
  /\ fwPort = IF rxPort + c < NumPorts THEN rxPort + c ELSE rxPort + c - NumPorts
  /\ \A i \in 1..Len(read) : read[i] <= uploads - c

\* What the snapshot still offers is the beginning of it.
SnapshotHolds(c) ==
  pc \in {"drain", "sink"} =>
    \E k \in 0..c : /\ pass.bits = {p \in Ports : Off(p) < k}
                    /\ pass.bits \subseteq pass.lens

RingInv == \E c \in Nat : RingHolds(c) /\ SnapshotHolds(c)

Rising == \A i \in 1..Len(read) - 1 : read[i] < read[i + 1]

IInv ==
  /\ TypeOK /\ Places
  /\ NoFault => PortBit /\ UploadBit /\ RingInv /\ Rising

\* Sequence numbers do not come round while a reply can be late.
NoWrap == MaxCalls + MaxEvents + 1 < SeqMod

Made(p) == p.kind = "reply" =>
             p.seq <= seq /\ (pc \in {"await", "fetch"} /\ p.seq = seq => p.for = cmd.for)

Errors == IF "error" \in faults THEN 1 ELSE 0
EventWaits == IF port.kind = "event" THEN 1 ELSE 0

\* Each number was used for a command, for an event's acknowledgement or for the one write
\* that failed; an event in the command port has not had its acknowledgement yet.
SeqInv ==
  /\ seq <= calls + events + Errors - EventWaits
  /\ Made(port) /\ \A i \in 1..Len(todo) : Made(todo[i])

-----------------------------------------------------------------------------
(* Least and greatest numbers, and the run that is read.                     *)

LEMMA LessThan == \A x, y \in Nat : y < x => <<y, x>> \in OpToRel(<, Nat)
  BY DEF OpToRel

\* A set of numbers has a least one, and a bounded one a greatest.
LEMMA LeastExists ==
  ASSUME NEW S, S \subseteq Nat, S # {}
  PROVE  \E x \in S : \A y \in S : x <= y
  <1>1. \E x \in S : \A y \in S : ~(<<y, x>> \in OpToRel(<, Nat))
    BY NatLessThanWellFounded, WFMin
  <1>2. PICK x \in S : \A y \in S : ~(<<y, x>> \in OpToRel(<, Nat))
    BY <1>1
  <1>3. ASSUME NEW y \in S PROVE x <= y
    <2>1. ~(y < x)
      BY <1>2, LessThan
    <2> QED BY <2>1
  <1> QED BY <1>3

LEMMA LeastOf ==
  ASSUME NEW S, S \subseteq Nat, S # {}
  PROVE  Min(S) \in S /\ \A y \in S : Min(S) <= y
  BY LeastExists DEF Min

LEMMA GreatestOf ==
  ASSUME NEW S, NEW n \in Nat, S \subseteq 0..n, S # {}
  PROVE  Max(S) \in S /\ \A y \in S : y <= Max(S)
  <1> DEFINE T == {n - x : x \in S}
  <1>1. T \subseteq Nat
    <2>1. \A x \in S : n - x \in Nat
      OBVIOUS
    <2> QED BY <2>1
  <1>2. T # {}
    OBVIOUS
  <1>3. PICK t \in T : \A u \in T : t <= u
    BY <1>1, <1>2, LeastExists
  <1>4. PICK x \in S : t = n - x
    OBVIOUS
  <1>5. \A y \in S : x >= y
    BY <1>3, <1>4
  <1> QED BY <1>5 DEF Max

\* readRingBatch(): where the run starts and ends, whatever is offered.
LEMMA RunIs ==
  ASSUME NEW offered, offered \subseteq Ports, rxPort \in Ports, NEW lens, NEW limit \in Nat \ {0}
  PROVE  LET a == StartAt(offered)
             k == RunFrom(offered, lens, limit)
         IN /\ a \in Ports /\ k \in 0..limit /\ a + k <= NumPorts
            /\ \A i \in 0..(k - 1) : a + i \in offered \cap lens
            /\ a \in offered \cap lens => k >= 1
  <1> DEFINE a == StartAt(offered)
             Fits(k) == /\ a + k <= NumPorts
                        /\ \A i \in 0..(k - 1) : a + i \in offered \cap lens
             S == {k \in 0..limit : Fits(k)}
             k == RunFrom(offered, lens, limit)
  <1>1. NumPorts \in Nat \ {0}
    BY ConstantsOK
  <1>2. a \in Ports
    <2>1. CASE rxPort \in offered \/ offered = {}
      BY <2>1 DEF StartAt
    <2>2. CASE rxPort \notin offered /\ offered # {}
      <3>1. offered \subseteq Nat
        BY <1>1 DEF Ports
      <3> QED BY <2>2, <3>1, LeastOf DEF StartAt
    <2> QED BY <2>1, <2>2
  <1>3. k = Max(S)
    BY DEF RunFrom
  <1> HIDE DEF a, k
  <1>4. a \in Nat /\ a < NumPorts
    BY <1>1, <1>2 DEF Ports
  <1>5. 0 \in S
    BY <1>1, <1>4
  <1>6. k \in S /\ \A y \in S : y <= k
    BY <1>3, <1>5, GreatestOf
  <1>7. a \in offered \cap lens => k >= 1
    <2> SUFFICES ASSUME a \in offered \cap lens PROVE k >= 1
      OBVIOUS
    <2>1. \A i \in 0..(1 - 1) : a + i \in offered \cap lens
      BY <1>4
    <2>2. 1 \in S
      BY <1>1, <1>4, <2>1
    <2> QED BY <1>6, <2>2
  <1> QED BY <1>2, <1>6, <1>7 DEF a, k

LEMMA ExhaustedIs ==
  ASSUME NEW offered, offered \subseteq Ports, rxPort \in Ports, NEW lens
  PROVE  /\ NothingToRead(offered, lens) <=> StartAt(offered) \notin offered \cap lens
         /\ \A limit \in Nat \ {0} :
              ~NothingToRead(offered, lens) => RunFrom(offered, lens, limit) >= 1
  <1> DEFINE a == StartAt(offered)
  <1>1. a \in Ports /\ a \in Nat
    <2>1. a \in Ports
      <3>1. 1 \in Nat \ {0}
        OBVIOUS
      <3> QED BY <3>1, RunIs
    <2> QED BY <2>1, ConstantsOK DEF Ports
  <1>2. ASSUME a \in offered \cap lens PROVE ~NothingToRead(offered, lens)
    BY <1>2, RunIs DEF NothingToRead
  <1>3. ASSUME ~NothingToRead(offered, lens) PROVE a \in offered \cap lens
    <2>1. RunFrom(offered, lens, 1) \in 1..1
      BY <1>3, RunIs DEF NothingToRead
    <2>2. a + 0 \in offered \cap lens
      <3>1. 0 \in 0..(RunFrom(offered, lens, 1) - 1)
        BY <2>1
      <3> QED BY <3>1, RunIs
    <2> QED BY <1>1, <2>2
  <1>4. ASSUME NEW limit \in Nat \ {0}, ~NothingToRead(offered, lens)
        PROVE  RunFrom(offered, lens, limit) >= 1
    BY <1>3, <1>4, RunIs
  <1> QED BY <1>2, <1>3, <1>4

-----------------------------------------------------------------------------
(* Types.                                                                    *)

\* What a run, read or lost, does to the slots.
LEMMA ReadRunTypes ==
  ASSUME TypeOK, uploads \in 0..MaxUploads, NEW offered, offered \subseteq Ports, NEW lens,
         NEW limit \in Nat \ {0}, \A p \in offered \cap lens : held[p] # 0,
         ReadRun(offered, lens, limit)
  PROVE  /\ bitmap' \subseteq Ports /\ held' \in [Ports -> 0..MaxUploads] /\ rxPort' \in Ports
         /\ read' \in Seq(Packets)
         /\ pass' = [pass EXCEPT !.bits = pass'.bits] /\ pass'.bits \subseteq pass.bits
         /\ \A p \in pass'.bits : p \in Ports => held'[p] = held[p]
  <1> DEFINE a == StartAt(offered)
             k == RunFrom(offered, lens, limit)
             slots == {a + i : i \in 0..(k - 1)}
  <1>1. NumPorts \in Nat \ {0} /\ MaxUploads \in Nat
    BY ConstantsOK
  <1>2. rxPort \in Ports
    BY DEF TypeOK
  <1>3. /\ a \in Ports /\ k \in 0..limit /\ a + k <= NumPorts
        /\ \A i \in 0..(k - 1) : a + i \in offered \cap lens
    BY <1>2, RunIs
  <1>4. /\ read' = read \o [i \in 1..k |-> held[a + i - 1]]
        /\ held' = [p \in Ports |-> IF p \in slots THEN 0 ELSE held[p]]
        /\ bitmap' = bitmap \ slots
        /\ pass' = [pass EXCEPT !.bits = @ \ slots]
        /\ rxPort' = (a + k) % NumPorts
    BY DEF ReadRun
  <1> HIDE DEF a, k
  <1>5. a \in Nat /\ k \in Nat
    BY <1>1, <1>3 DEF Ports
  <1>6. rxPort' \in Ports
    BY <1>1, <1>4, <1>5 DEF Ports
  <1>7. read' \in Seq(Packets)
    <2>1. \A i \in 1..k : held[a + i - 1] \in Packets
      <3> SUFFICES ASSUME NEW i \in 1..k PROVE held[a + i - 1] \in Packets
        OBVIOUS
      <3> DEFINE j == i - 1
      <3>1. j \in 0..(k - 1)
        BY <1>5
      <3>2. a + j \in offered \cap lens /\ a + j \in Ports
        BY <1>3, <3>1
      <3>3. held[a + j] \in 0..MaxUploads /\ held[a + j] # 0
        BY <3>2 DEF TypeOK
      <3>4. a + i - 1 = a + j
        BY <1>5
      <3> QED BY <1>1, <3>3, <3>4 DEF Packets
    <2>2. [i \in 1..k |-> held[a + i - 1]] \in Seq(Packets)
      BY <1>5, <2>1
    <2>3. read \in Seq(Packets)
      BY DEF TypeOK
    <2> QED BY <1>4, <2>2, <2>3
  <1>8. bitmap' \subseteq Ports /\ held' \in [Ports -> 0..MaxUploads]
    BY <1>1, <1>4 DEF TypeOK
  <1>9. pass'.bits = pass.bits \ slots /\ pass' = [pass EXCEPT !.bits = pass'.bits]
    BY <1>4 DEF TypeOK
  <1> QED BY <1>4, <1>6, <1>7, <1>8, <1>9

LEMMA RunFailsTypes ==
  ASSUME TypeOK, NEW offered, offered \subseteq Ports, NEW lens, NEW limit \in Nat \ {0},
         ReadRunFails(offered, lens, limit)
  PROVE  bitmap' \subseteq Ports /\ held' \in [Ports -> 0..MaxUploads] /\ rxPort' \in Ports
  <1>1. MaxUploads \in Nat /\ rxPort \in Ports
    BY ConstantsOK DEF TypeOK
  <1>2. rxPort' \in Ports
    BY <1>1, RunIs DEF ReadRunFails
  <1>3. \/ UNCHANGED <<held, bitmap>>
        \/ \E slots : /\ held' = [p \in Ports |-> IF p \in slots THEN 0 ELSE held[p]]
                      /\ bitmap' = bitmap \ slots
    BY DEF ReadRunFails
  <1> QED BY <1>1, <1>2, <1>3 DEF TypeOK

LEMMA ExhaustedTypes ==
  ASSUME TypeOK, NEW offered, offered \subseteq Ports, NEW lens, RingExhausted(offered, lens)
  PROVE  rxPort' \in Ports
  <1>1. rxPort \in Ports /\ 1 \in Nat \ {0}
    BY DEF TypeOK
  <1> QED BY <1>1, RunIs DEF RingExhausted

\* A step that leaves the ring and the snapshot of it alone.
Aside ==
  /\ UNCHANGED <<bitmap, held, fwPort, rxPort, read, told, uploads>>
  /\ pc' \in {"drain", "sink"} => pc \in {"drain", "sink"} /\ pass' = pass

LEMMA StepIs ==
  ASSUME [Next]_vars, ~Aside
  PROVE  \/ CardUploads \/ CardRestartsRing \/ (\E p \in Ports : CardOffersEmptySlot(p))
         \/ CardWithdraws \/ ServiceStarts \/ DrainRun \/ DrainFails \/ DrainDone
         \/ MonitorTakes \/ WatchDrainPacket \/ WatchDrained \/ Redownload
  <1>1. CardReplies \/ CardRaisesEvent \/ CardIsr => Aside
    BY DEF Aside, CardReplies, CardRaisesEvent, CardIsr, AnEvent, ring, host, count, card
  <1>2. ServiceQuiet \/ ServiceStartFails \/ SinkReturns \/ DrainVerified \/ DrainUnverified => Aside
    BY DEF Aside, ServiceQuiet, ServiceStartFails, SinkReturns, DrainVerified, DrainUnverified,
           ReadMpRegsFails, BusError, FaultOnly, ring, host, count, card
  <1>3. PortEmpty \/ PortTaken \/ PortFails => Aside
    BY DEF Aside, PortEmpty, PortTaken, PortFails, PassEnds, Return, BusError, FaultOnly, count,
           ring, card
  <1>4. SendReadsRegs \/ SendReadsRegsFails => Aside
    BY DEF Aside, SendReadsRegs, SendReadsRegsFails, ReadMpRegsFails, Call, BusError, FaultOnly,
           count, ring
  <1>5. CmdNotSent \/ AwaitFails \/ FetchFails \/ (\E id \in CmdIds : CmdSent(id)) => Aside
    BY DEF Aside, CmdNotSent, AwaitFails, FetchFails, CmdSent, ReadStatusFails, BusError, FaultOnly,
           Call, Return, count, ring, card
  <1>6. AwaitPoll => Aside
    BY DEF Aside, AwaitPoll, Return, count, ring
  <1>7. Fetched => Aside
    <2> SUFFICES ASSUME Fetched PROVE Aside
      OBVIOUS
    <2>1. pc' \in {"idle", "await"}
      BY DEF Fetched, Return
    <2> QED BY <2>1 DEF Aside, Fetched, ring, count
  <1>8. MonitorStarts \/ WatchStarts \/ MonitorPoll \/ ReaderFails => Aside
    BY DEF Aside, MonitorStarts, WatchStarts, CallStarts, MonitorPoll, ReaderFails, ReadStatusFails,
           BusError, FaultOnly, Call, Return, count, ring, card
  <1>9. WatchPoll \/ WatchPort => Aside
    BY DEF Aside, WatchPoll, WatchPort, Return, count, ring
  <1>10. UNCHANGED vars => Aside
    BY DEF Aside, vars, card, count
  <1> QED BY <1>1, <1>2, <1>3, <1>4, <1>5, <1>6, <1>7, <1>8, <1>9, <1>10
          DEF Next, Card, Driver, Failures, Calls

RingTypes ==
  /\ bitmap \subseteq Ports /\ held \in [Ports -> 0..MaxUploads] /\ fwPort \in Ports
  /\ rxPort \in Ports /\ read \in Seq(Packets) /\ told \subseteq Packets
  /\ uploads \in 0..MaxUploads
  /\ pc \in {"drain", "sink"} => \A p \in pass.bits \cap pass.lens : held[p] # 0

LEMMA RingTypesStep ==
  ASSUME TypeOK, Places, [Next]_vars
  PROVE  RingTypes'
  <1>0. RingTypes /\ NumPorts \in Nat \ {0} /\ AggrLimit \in Nat \ {0} /\ MaxUploads \in Nat
    BY ConstantsOK DEF TypeOK, Places, RingTypes
  <1>a. bitmap \subseteq Ports /\ pass.bits \subseteq Ports /\ 0 \in Ports
    BY <1>0 DEF TypeOK, Ports
  <1>b. \A p \in bitmap \cap Lens : held[p] # 0
    BY DEF Lens
  <1>1. CASE Aside
    BY <1>0, <1>1 DEF Aside, RingTypes
  <1>2. CASE CardUploads
    <2>1. (fwPort + 1) % NumPorts \in Ports
      <3>1. fwPort + 1 \in Nat
        BY <1>0 DEF RingTypes, Ports
      <3> QED BY <1>0, <3>1 DEF Ports
    <2>2. /\ uploads' = uploads + 1 /\ uploads' <= MaxUploads
          /\ held' = [held EXCEPT ![fwPort] = uploads + 1]
          /\ bitmap' = bitmap \cup {fwPort} /\ fwPort' = (fwPort + 1) % NumPorts
          /\ told' \subseteq told \cup {uploads + 1}
          /\ UNCHANGED <<pc, pass, rxPort, read>>
      BY <1>2 DEF CardUploads
    <2>3. uploads' \in 0..MaxUploads /\ uploads + 1 \in Packets
      BY <1>0, <2>2 DEF RingTypes, Packets
    <2>4. held' \in [Ports -> 0..MaxUploads]
      BY <1>0, <2>2, <2>3 DEF RingTypes, Packets
    <2>5. bitmap' \subseteq Ports /\ fwPort' \in Ports /\ told' \subseteq Packets
      BY <1>0, <2>1, <2>2, <2>3 DEF RingTypes
    <2>6. \A p \in Ports : held[p] # 0 => held'[p] # 0
      BY <1>0, <2>2, <2>3 DEF RingTypes, Packets
    <2>7. pc' \in {"drain", "sink"} => \A p \in pass'.bits \cap pass'.lens : held'[p] # 0
      BY <1>0, <1>a, <2>2, <2>6 DEF RingTypes
    <2> QED BY <1>0, <2>2, <2>3, <2>4, <2>5, <2>7 DEF RingTypes
  <1>3. CASE CardRestartsRing \/ (\E p \in Ports : CardOffersEmptySlot(p)) \/ CardWithdraws
    BY <1>0, <1>3, <1>a DEF CardRestartsRing, CardOffersEmptySlot, CardWithdraws, FaultOnly, RingTypes,
                            count
  <1>4. CASE ServiceStarts
    <2>1. /\ UNCHANGED <<bitmap, held, fwPort, rxPort, read, told, uploads>>
          /\ pass'.bits = bitmap /\ pass'.lens = Lens
      BY <1>4 DEF ServiceStarts, ring, count
    <2> QED BY <1>0, <1>b, <2>1 DEF RingTypes
  <1>5. CASE DrainRun
    <2>1. /\ UNCHANGED <<fwPort, told, uploads>> /\ ReadRun(pass.bits, pass.lens, AggrLimit)
          /\ \A p \in pass.bits \cap pass.lens : held[p] # 0
      BY <1>0, <1>5 DEF DrainRun, count, RingTypes
    <2>2. /\ bitmap' \subseteq Ports /\ held' \in [Ports -> 0..MaxUploads] /\ rxPort' \in Ports
          /\ read' \in Seq(Packets)
          /\ pass' = [pass EXCEPT !.bits = pass'.bits] /\ pass'.bits \subseteq pass.bits
          /\ \A p \in pass'.bits : p \in Ports => held'[p] = held[p]
      BY <1>0, <1>a, <2>1, ReadRunTypes DEF RingTypes
    <2>3. pass'.lens = pass.lens
      BY <2>2 DEF TypeOK
    <2>4. \A p \in pass'.bits \cap pass'.lens : held'[p] # 0
      BY <1>a, <2>1, <2>2, <2>3
    <2> QED BY <1>0, <2>1, <2>2, <2>4 DEF RingTypes
  <1>6. CASE DrainFails \/ DrainDone
    <2>1. /\ UNCHANGED <<fwPort, read, told, uploads>> /\ pc' = "post"
          /\ \/ ReadRunFails(pass.bits, pass.lens, AggrLimit)
             \/ UNCHANGED <<bitmap, held>> /\ RingExhausted(pass.bits, pass.lens)
      BY <1>6 DEF DrainFails, DrainDone, ReadRunFails, BusError, FaultOnly, count, card
    <2>2. bitmap' \subseteq Ports /\ held' \in [Ports -> 0..MaxUploads] /\ rxPort' \in Ports
      BY <1>0, <1>a, <2>1, RunFailsTypes, ExhaustedTypes DEF RingTypes
    <2> QED BY <1>0, <2>1, <2>2 DEF RingTypes
  <1>7. CASE MonitorTakes \/ WatchDrainPacket \/ WatchDrained
    <2>0. /\ UNCHANGED <<fwPort, told>> /\ pc' \notin {"drain", "sink"}
          /\ \/ ReadRun(bitmap, Lens, 1) /\ UNCHANGED uploads
             \/ ReadRunFails(bitmap, Lens, 1) /\ UNCHANGED <<read, uploads>>
             \/ RingExhausted(bitmap, Lens) /\ UNCHANGED <<bitmap, held, read, uploads>>
      BY <1>7 DEF MonitorTakes, WatchDrainPacket, WatchDrained, ReadRunFails, BusError, FaultOnly,
                  count, Return
    <2>1. /\ bitmap' \subseteq Ports /\ held' \in [Ports -> 0..MaxUploads] /\ rxPort' \in Ports
          /\ read' \in Seq(Packets) /\ uploads' = uploads
      <3>0. 1 \in Nat \ {0}
        OBVIOUS
      <3>1. CASE ReadRun(bitmap, Lens, 1) /\ UNCHANGED uploads
        BY <1>0, <1>a, <1>b, <3>0, <3>1, ReadRunTypes DEF RingTypes
      <3>2. CASE ReadRunFails(bitmap, Lens, 1) /\ UNCHANGED <<read, uploads>>
        BY <1>0, <1>a, <3>0, <3>2, RunFailsTypes DEF RingTypes
      <3>3. CASE RingExhausted(bitmap, Lens) /\ UNCHANGED <<bitmap, held, read, uploads>>
        BY <1>0, <1>a, <3>3, ExhaustedTypes DEF RingTypes
      <3> QED BY <2>0, <3>1, <3>2, <3>3
    <2> QED BY <1>0, <2>0, <2>1 DEF RingTypes
  <1>8. CASE Redownload
    <2>1. held' \in [Ports -> 0..MaxUploads]
      BY <1>0, <1>8 DEF Redownload
    <2> QED BY <1>0, <1>8, <1>a, <2>1 DEF Redownload, Call, RingTypes
  <1> QED BY <1>1, <1>2, <1>3, <1>4, <1>5, <1>6, <1>7, <1>8, StepIs

Passes == [st : SUBSET Serviced, bits : SUBSET Ports, lens : SUBSET Ports,
           cmdLen : BOOLEAN, fired : BOOLEAN]

LEMMA PassTypes ==
  ASSUME TypeOK, Places, [Next]_vars
  PROVE  pass' \in Passes /\ pend' \subseteq Serviced
  <1>0. pass \in Passes /\ pend \subseteq Serviced /\ bitmap \subseteq Ports /\ Lens \subseteq Ports
    BY DEF TypeOK, Passes, Lens
  <1>1. NoPass \in Passes
    BY DEF NoPass, Passes
  <1>2. CASE UNCHANGED <<pass, pend>>
    BY <1>0, <1>2
  <1>3. CASE ServiceStarts
    BY <1>0, <1>3 DEF ServiceStarts, ReadStatus, LatchIntBits, Passes, Fired, TypeOK
  <1>4. CASE ServiceStartFails \/ DrainVerified \/ DrainUnverified
    BY <1>0, <1>4 DEF ServiceStartFails, DrainVerified, DrainUnverified, ReadMpRegsFails, LatchIntBits
  <1>5. ASSUME NEW offered, NEW lens, NEW limit, ReadRun(offered, lens, limit), UNCHANGED pend
        PROVE  pass' \in Passes /\ pend' \subseteq Serviced
    BY <1>0, <1>5 DEF ReadRun, Passes
  <1>6. CASE DrainRun \/ DrainFails \/ DrainDone
    BY <1>2, <1>5, <1>6 DEF DrainRun, DrainFails, DrainDone
  <1>7. CASE MonitorTakes \/ WatchDrainPacket
    BY <1>2, <1>5, <1>7 DEF MonitorTakes, WatchDrainPacket
  <1>8. CASE WatchDrained
    BY <1>0, <1>8 DEF WatchDrained
  <1>9. CASE PortEmpty \/ PortTaken \/ PortFails \/ WatchPort
    BY <1>0, <1>1, <1>9 DEF PortEmpty, PortTaken, PortFails, WatchPort, PassEnds
  <1>10. CASE SendReadsRegs \/ SendReadsRegsFails
    BY <1>0, <1>10 DEF SendReadsRegs, SendReadsRegsFails, ReadStatus, ReadMpRegsFails, LatchIntBits
  <1>11. CASE AwaitPoll \/ MonitorPoll
    BY <1>0, <1>11 DEF AwaitPoll, MonitorPoll, ReadStatus, LatchIntBits
  <1>12. CASE ReaderFails
    BY <1>0, <1>1, <1>12 DEF ReaderFails, ReadStatusFails
  <1>13. CASE WatchPoll
    <2>1. pend' \subseteq Serviced /\ pass' = [NoPass EXCEPT !.st = pend']
      BY <1>0, <1>13 DEF WatchPoll, ReadStatus, LatchIntBits
    <2> QED BY <1>1, <2>1 DEF Passes
  <1>14. CASE Redownload
    BY <1>0, <1>14 DEF Redownload
  <1>15. CASE Card
    BY <1>2, <1>15 DEF Card, CardUploads, CardReplies, CardRaisesEvent, CardRestartsRing,
           CardOffersEmptySlot, CardWithdraws, CardIsr
  <1>16. CASE ServiceQuiet \/ SinkReturns \/ CmdNotSent \/ FetchFails \/ Fetched
              \/ (\E id \in CmdIds : CmdSent(id)) \/ MonitorStarts \/ WatchStarts
    BY <1>2, <1>16 DEF ServiceQuiet, SinkReturns, CmdNotSent, FetchFails, Fetched, CmdSent,
           MonitorStarts, WatchStarts, CallStarts
  <1>17. CASE AwaitFails
    BY <1>2, <1>17 DEF AwaitFails, ReadStatusFails
  <1>18. CASE UNCHANGED vars
    BY <1>2, <1>18 DEF vars
  <1> QED BY <1>3, <1>4, <1>6, <1>7, <1>8, <1>9, <1>10, <1>11, <1>12, <1>13, <1>14, <1>15, <1>16,
             <1>17, <1>18 DEF Next, Driver, Failures, Calls

PortTypes ==
  /\ hostInt \subseteq Bits /\ port \in PacketsSent /\ todo \in Seq(Replies)
  /\ seq \in 0..(SeqMod - 1) /\ answer \in (0..MaxCalls) \X (0..MaxCalls)
  /\ cmd.id \in CmdIds \cup {"none"} /\ cmd.for \in 0..MaxCalls
  /\ calls \in 0..MaxCalls /\ events \in 0..MaxEvents

LEMMA PortTypesStep ==
  ASSUME TypeOK, Places, [Next]_vars
  PROVE  PortTypes'
  <1>0. PortTypes /\ SeqMod \in Nat \ {0} /\ MaxCalls \in Nat /\ MaxEvents \in Nat
    BY ConstantsOK DEF TypeOK, Places, PortTypes
  <1>a. pend \subseteq Serviced /\ NoCmd.id = "none" /\ NoCmd.for = 0 /\ NoPacket \in PacketsSent
    BY <1>0 DEF TypeOK, NoCmd, NoPacket, Packet, PacketsSent
  <1>b. (seq + 1) % SeqMod \in 0..(SeqMod - 1)
    BY <1>0 DEF PortTypes
  <1>c. \A id \in CmdIds \cup {"PS"}, n \in 0..(SeqMod - 1), for \in 0..MaxCalls :
          Packet("reply", id, n, for) \in Replies
    BY DEF Packet, Replies
  <1>d. Replies \subseteq PacketsSent
    BY DEF Replies, PacketsSent
  <1>2. CASE UNCHANGED <<hostInt, port, todo, seq, answer, cmd, calls, events>>
    BY <1>0, <1>2 DEF PortTypes
  <1>3. CASE CardReplies
    <2>1. /\ port' = Head(todo) /\ todo' = Tail(todo) /\ hostInt' = hostInt \cup {"CMD"} /\ todo # <<>>
          /\ UNCHANGED <<seq, answer, cmd, calls, events>>
      BY <1>3 DEF CardReplies, Raise, host, count
    <2>2. Head(todo) \in PacketsSent /\ Tail(todo) \in Seq(Replies)
      BY <1>0, <1>d, <2>1 DEF PortTypes
    <2> QED BY <1>0, <2>1, <2>2 DEF PortTypes, Bits
  <1>4. CASE CardUploads
    BY <1>0, <1>4 DEF CardUploads, Raise, PortTypes, Bits, host
  <1>22. CASE CardRaisesEvent
    <2>1. Packet("event", "none", 0, 0) \in PacketsSent
      BY <1>0 DEF Packet, PacketsSent
    <2> QED BY <1>0, <1>22, <2>1 DEF CardRaisesEvent, Raise, AnEvent, PortTypes, Bits, host
  <1>5. CASE CardRestartsRing \/ (\E p \in Ports : CardOffersEmptySlot(p)) \/ CardWithdraws \/ CardIsr
    BY <1>2, <1>5 DEF CardRestartsRing, CardOffersEmptySlot, CardWithdraws, CardIsr, FaultOnly, host,
           count, card
  <1>6. CASE ServiceQuiet \/ DrainRun \/ DrainFails \/ DrainDone \/ SinkReturns
    BY <1>2, <1>6 DEF ServiceQuiet, DrainRun, DrainFails, DrainDone, SinkReturns, ReadRunFails,
           BusError, FaultOnly, host, count, card
  <1>7. CASE ServiceStarts \/ DrainVerified
    BY <1>0, <1>7 DEF ServiceStarts, DrainVerified, ReadStatus, host, count, PortTypes
  <1>8. CASE ServiceStartFails \/ DrainUnverified
    BY <1>0, <1>8 DEF ServiceStartFails, DrainUnverified, ReadMpRegsFails, BusError, FaultOnly, host,
           PortTypes
  <1>9. CASE PortEmpty \/ PortFails
    BY <1>0, <1>a, <1>9 DEF PortEmpty, PortFails, BusError, FaultOnly, host, count, PortTypes, card
  <1>10. CASE PortTaken
    <2>1. /\ port' = NoPacket /\ UNCHANGED <<answer, cmd, calls, events>>
          /\ \/ /\ seq' = (seq + 1) % SeqMod /\ hostInt' = hostInt \cup {"DN"}
                /\ todo' = Append(todo, Packet("reply", "PS", seq', 0))
             \/ UNCHANGED <<seq, todo, hostInt>>
      BY <1>10 DEF PortTaken, SleepConfirm, count
    <2>2. 0 \in 0..MaxCalls /\ seq' \in 0..(SeqMod - 1)
      BY <1>0, <1>b, <2>1 DEF PortTypes
    <2>3. Packet("reply", "PS", seq', 0) \in Replies
      BY <1>c, <2>2
    <2>4. todo' \in Seq(Replies)
      <3>1. todo \in Seq(Replies)
        BY <1>0 DEF PortTypes
      <3>2. todo' = todo \/ todo' = Append(todo, Packet("reply", "PS", seq', 0))
        BY <2>1
      <3> QED BY <3>1, <3>2, <2>3
    <2>5. hostInt' \subseteq Bits
      <3>1. hostInt \subseteq Bits /\ "DN" \in Bits
        BY <1>0 DEF PortTypes, Bits
      <3>2. hostInt' = hostInt \/ hostInt' = hostInt \cup {"DN"}
        BY <2>1
      <3> QED BY <3>1, <3>2
    <2>6. port' \in PacketsSent /\ seq' \in 0..(SeqMod - 1)
      BY <1>a, <2>1, <2>2
    <2>7. /\ answer' \in (0..MaxCalls) \X (0..MaxCalls) /\ cmd'.id \in CmdIds \cup {"none"}
          /\ cmd'.for \in 0..MaxCalls /\ calls' \in 0..MaxCalls /\ events' \in 0..MaxEvents
      <3>1. UNCHANGED <<answer, cmd, calls, events>>
        BY <2>1
      <3> QED BY <1>0, <3>1 DEF PortTypes
    <2> QED BY <2>4, <2>5, <2>6, <2>7 DEF PortTypes
  <1>11. CASE SendReadsRegs \/ SendReadsRegsFails
    BY <1>0, <1>11 DEF SendReadsRegs, SendReadsRegsFails, ReadStatus, ReadMpRegsFails, BusError,
           FaultOnly, Call, host, count, PortTypes
  <1>12. ASSUME NEW id \in CmdIds, CmdSent(id) PROVE PortTypes'
    <2>1. /\ calls < MaxCalls /\ calls' = calls + 1 /\ UNCHANGED <<port, answer, events>>
          /\ seq' = (seq + 1) % SeqMod /\ cmd' = [id |-> id, for |-> calls']
          /\ todo' = Append(todo, Packet("reply", id, seq', calls'))
          /\ hostInt' = hostInt \cup {"DN"}
      BY <1>12 DEF CmdSent, Call, Raise
    <2>2. calls' \in 0..MaxCalls
      BY <1>0, <2>1 DEF PortTypes
    <2>3. todo' \in Seq(Replies)
      BY <1>0, <1>b, <1>c, <2>1, <2>2 DEF PortTypes
    <2> QED BY <1>0, <1>b, <2>1, <2>2, <2>3 DEF PortTypes, Bits
  <1>13. CASE CmdNotSent
    BY <1>0, <1>b, <1>13 DEF CmdNotSent, BusError, FaultOnly, PortTypes, card
  <1>14. CASE AwaitPoll \/ AwaitFails
    BY <1>0, <1>a, <1>14 DEF AwaitPoll, AwaitFails, ReadStatusFails, BusError, FaultOnly, Settled, count,
           PortTypes
  <1>15. CASE Fetched
    <2>1. /\ port' = NoPacket /\ UNCHANGED <<hostInt, todo, seq, calls, events>>
          /\ UNCHANGED cmd \/ cmd' = NoCmd
          /\ UNCHANGED answer \/ answer' = <<cmd.for, port.for>>
      BY <1>15 DEF Fetched, Settled, count
    <2>2. port.for \in 0..MaxCalls
      BY <1>0 DEF PortTypes, PacketsSent
    <2> QED BY <1>0, <1>a, <2>1, <2>2 DEF PortTypes
  <1>16. CASE FetchFails
    BY <1>0, <1>a, <1>16 DEF FetchFails, BusError, FaultOnly, Settled, count, PortTypes
  <1>17. CASE MonitorStarts \/ WatchStarts
    BY <1>0, <1>17 DEF MonitorStarts, WatchStarts, CallStarts, Call, PortTypes, card
  <1>18. CASE MonitorPoll \/ ReaderFails \/ WatchPoll \/ WatchPort
    BY <1>0, <1>a, <1>18 DEF MonitorPoll, ReaderFails, WatchPoll, WatchPort, ReadStatus,
           ReadStatusFails, BusError, FaultOnly, host, count, PortTypes
  <1>19. CASE MonitorTakes \/ WatchDrainPacket \/ WatchDrained
    BY <1>2, <1>19 DEF MonitorTakes, WatchDrainPacket, WatchDrained, ReadRunFails, BusError, FaultOnly,
           host, count
  <1>20. CASE Redownload
    BY <1>0, <1>a, <1>20 DEF Redownload, Call, host, PortTypes
  <1>21. CASE UNCHANGED vars
    BY <1>2, <1>21 DEF vars, card, host, count
  <1> QED BY <1>3, <1>4, <1>5, <1>6, <1>7, <1>8, <1>9, <1>10, <1>11, <1>12, <1>13, <1>14, <1>15,
             <1>16, <1>17, <1>18, <1>19, <1>20, <1>21, <1>22 DEF Next, Card, Driver, Failures, Calls

PlaceTypes ==
  /\ pc \in {"idle", "drain", "sink", "post", "port", "await", "fetch", "monitor",
             "monitorTake", "watch", "watchDrain", "watchPort"}
  /\ polls \in 0..Polls /\ tries \in 0..Tries
  /\ pc \notin {"await", "fetch"} => cmd = NoCmd
  /\ pc \in {"idle", "drain", "sink", "post", "port"} => polls = 0
  /\ pc \in {"await", "monitor", "watch", "watchDrain", "watchPort"} => polls < Polls
  /\ pc \in {"await", "fetch"} => tries < Tries
  /\ pc \in {"idle", "await", "fetch", "monitor", "monitorTake", "watch"} => pass.st = {}

LEMMA PlaceTypesStep ==
  ASSUME TypeOK, Places, [Next]_vars
  PROVE  PlaceTypes'
  <1>0. PlaceTypes /\ Polls \in Nat \ {0} /\ Tries \in Nat \ {0} /\ NoPass.st = {} /\ pass \in Passes
    BY ConstantsOK DEF TypeOK, Places, PlaceTypes, NoPass, Passes
  <1>1. CASE UNCHANGED <<pc, polls, tries, cmd, pass>>
    BY <1>0, <1>1 DEF PlaceTypes
  <1>2. CASE Card \/ ServiceQuiet \/ ServiceStartFails \/ CmdNotSent \/ UNCHANGED vars
    BY <1>1, <1>2 DEF Card, CardUploads, CardReplies, CardRaisesEvent, CardRestartsRing,
           CardOffersEmptySlot, CardWithdraws, CardIsr, ServiceQuiet, ServiceStartFails, CmdNotSent,
           host, vars
  <1>3. CASE ServiceStarts \/ DrainFails \/ DrainDone \/ SinkReturns \/ DrainVerified \/ DrainUnverified
    BY <1>0, <1>3 DEF ServiceStarts, DrainFails, DrainDone, SinkReturns, DrainVerified,
           DrainUnverified, host, PlaceTypes
  <1>4. CASE DrainRun
    BY <1>0, <1>4 DEF DrainRun, ReadRun, host, PlaceTypes
  <1>5. CASE PortEmpty \/ PortTaken \/ PortFails
    BY <1>0, <1>5 DEF PortEmpty, PortTaken, PortFails, PassEnds, Return, host, PlaceTypes
  <1>6. CASE SendReadsRegs \/ SendReadsRegsFails
    BY <1>0, <1>6 DEF SendReadsRegs, SendReadsRegsFails, host, PlaceTypes
  <1>7. ASSUME NEW id \in CmdIds, CmdSent(id) PROVE PlaceTypes'
    BY <1>0, <1>7 DEF CmdSent, PlaceTypes
  <1>8. CASE AwaitPoll \/ AwaitFails \/ FetchFails
    BY <1>0, <1>8 DEF AwaitPoll, AwaitFails, FetchFails, Settled, Return, PlaceTypes
  <1>9. CASE Fetched
    <2>1. /\ pc = "fetch" /\ UNCHANGED pass
          /\ \/ pc' = "idle" /\ cmd' = NoCmd /\ polls' = 0 /\ tries' = 0
             \/ /\ tries + 1 < Tries /\ pc' = "await" /\ polls' = 0 /\ tries' = tries + 1
                /\ UNCHANGED cmd
      BY <1>9 DEF Fetched, Return, Settled
    <2> QED BY <1>0, <2>1 DEF PlaceTypes
  <1>10. CASE MonitorStarts \/ WatchStarts \/ MonitorPoll \/ ReaderFails
    BY <1>0, <1>10 DEF MonitorStarts, WatchStarts, CallStarts, MonitorPoll, ReaderFails, Return,
           PlaceTypes
  <1>11. CASE MonitorTakes
    <2>1. pass'.st = pass.st
      BY <1>0, <1>11 DEF MonitorTakes, ReadRun, Passes
    <2> QED BY <1>0, <1>11, <2>1 DEF MonitorTakes, Return, PlaceTypes
  <1>12. CASE WatchPoll \/ WatchDrained
    BY <1>0, <1>12 DEF WatchPoll, WatchDrained, host, PlaceTypes
  <1>13. CASE WatchDrainPacket
    BY <1>0, <1>13 DEF WatchDrainPacket, host, PlaceTypes
  <1>14. CASE WatchPort
    BY <1>0, <1>14 DEF WatchPort, Return, PlaceTypes
  <1>15. CASE Redownload
    BY <1>0, <1>15 DEF Redownload, host, PlaceTypes
  <1> QED BY <1>2, <1>3, <1>4, <1>5, <1>6, <1>7, <1>8, <1>9, <1>10, <1>11, <1>12, <1>13, <1>14,
             <1>15 DEF Next, Driver, Failures, Calls

Flags == {psEnabled, intMode, cint, armed} \subseteq BOOLEAN /\ quiet \in 0..NetPasses

LEMMA FlagsStep ==
  ASSUME TypeOK, [Next]_vars
  PROVE  Flags'
  <1>0. Flags /\ NetPasses \in Nat \ {0} /\ pass \in Passes
    BY ConstantsOK DEF TypeOK, Flags, Passes
  <1>1. /\ psEnabled \in BOOLEAN /\ intMode \in BOOLEAN /\ cint \in BOOLEAN /\ armed \in BOOLEAN
        /\ pass.fired \in BOOLEAN
    BY <1>0 DEF Flags, Passes
  <1>2. UNCHANGED quiet \/ quiet' = 0 \/ (quiet' = quiet + 1 /\ ~NetTick)
    <2>1. CASE Card
      BY <2>1 DEF Card, CardUploads, CardReplies, CardRaisesEvent, CardRestartsRing,
             CardOffersEmptySlot, CardWithdraws, CardIsr
    <2>2. CASE Driver
      BY <2>2 DEF Driver, ServiceQuiet, ServiceStarts, DrainRun, DrainDone, SinkReturns, DrainVerified,
             PortEmpty, PortTaken, AwaitPoll, Fetched, FetchFails, MonitorPoll, MonitorTakes,
             WatchPoll, WatchDrainPacket, WatchDrained, WatchPort
    <2>3. CASE Failures
      BY <2>3 DEF Failures, ServiceStartFails, DrainFails, DrainUnverified, PortFails,
             SendReadsRegsFails, CmdNotSent, AwaitFails, ReaderFails
    <2>4. CASE Calls
      BY <2>4 DEF Calls, CmdSent, SendReadsRegs, MonitorStarts, WatchStarts, CallStarts, Redownload
    <2> QED BY <2>1, <2>2, <2>3, <2>4 DEF Next, vars
  <1>3. psEnabled' \in BOOLEAN /\ intMode' \in BOOLEAN /\ cint' \in BOOLEAN /\ armed' \in BOOLEAN
    <2>0. UNCHANGED <<psEnabled, intMode, cint, armed>> =>
            psEnabled' \in BOOLEAN /\ intMode' \in BOOLEAN /\ cint' \in BOOLEAN /\ armed' \in BOOLEAN
      BY <1>1
    <2>1. CASE Card \/ UNCHANGED vars
      BY <1>1, <2>0, <2>1 DEF Card, CardUploads, CardReplies, CardRaisesEvent, CardRestartsRing,
             CardOffersEmptySlot, CardWithdraws, CardIsr, host, irq, vars
    <2>2. CASE ServiceQuiet \/ ServiceStarts \/ ServiceStartFails
      BY <1>1, <2>2 DEF ServiceQuiet, ServiceStarts, ServiceStartFails, TakeCardInt, Fired, host, irq
    <2>3. CASE PortEmpty \/ PortTaken \/ PortFails
      BY <1>1, <2>3 DEF PortEmpty, PortTaken, PortFails, PassEnds, host, irq
    <2>4. CASE DrainRun \/ DrainDone \/ SinkReturns \/ DrainVerified \/ DrainFails \/ DrainUnverified
      BY <2>0, <2>4 DEF DrainRun, DrainDone, SinkReturns, DrainVerified, DrainFails, DrainUnverified,
             host, irq
    <2>5. CASE Fetched
      BY <1>1, <2>5 DEF Fetched, irq
    <2>6. CASE AwaitPoll \/ FetchFails \/ MonitorPoll \/ MonitorTakes \/ WatchPoll \/ WatchDrainPacket
               \/ WatchDrained \/ WatchPort \/ AwaitFails \/ ReaderFails \/ CmdNotSent
               \/ SendReadsRegsFails
      BY <2>0, <2>6 DEF AwaitPoll, FetchFails, MonitorPoll, MonitorTakes, WatchPoll, WatchDrainPacket,
             WatchDrained, WatchPort, AwaitFails, ReaderFails, CmdNotSent, SendReadsRegsFails, host, irq
    <2>7. CASE Calls
      BY <2>0, <2>7 DEF Calls, CmdSent, SendReadsRegs, MonitorStarts, WatchStarts, CallStarts,
             Redownload, host, irq
    <2> QED BY <2>1, <2>2, <2>3, <2>4, <2>5, <2>6, <2>7 DEF Next, Driver, Failures
  <1> QED BY <1>0, <1>2, <1>3 DEF Flags, NetTick

LEMMA TypesStep ==
  ASSUME TypeOK, Places, [Next]_vars
  PROVE  TypeOK' /\ Places'
  <1>1. RingTypes' /\ PortTypes' /\ PlaceTypes' /\ Flags' /\ pass' \in Passes /\ pend' \subseteq Serviced
    BY RingTypesStep, PortTypesStep, PlaceTypesStep, FlagsStep, PassTypes
  <1>2. Places'
    BY <1>1 DEF Places, RingTypes, PortTypes, PlaceTypes
  <1>3. pc' = "idle" => cmd' = NoCmd /\ pass'.st = {} /\ polls' = 0
    BY <1>1 DEF PlaceTypes
  <1>5. todo' \in Seq(PacketsSent)
    <2>1. Replies \subseteq PacketsSent /\ todo' \in Seq(Replies)
      BY <1>1 DEF Replies, PacketsSent, PortTypes
    <2> QED BY <2>1
  <1>4. TypeOK'
    BY <1>1, <1>3, <1>5 DEF TypeOK, RingTypes, PortTypes, PlaceTypes, Flags, Passes
  <1> QED BY <1>2, <1>4

LEMMA TypesInit == Init => TypeOK /\ Places
  <1> SUFFICES ASSUME Init PROVE TypeOK /\ Places
    OBVIOUS
  <1>0. /\ NumPorts \in Nat \ {0} /\ Polls \in Nat \ {0} /\ Tries \in Nat \ {0}
        /\ SeqMod \in Nat \ {0} /\ NetPasses \in Nat \ {0} /\ MaxUploads \in Nat /\ MaxCalls \in Nat
        /\ MaxEvents \in Nat
    BY ConstantsOK
  <1>1. RingTypes
    BY <1>0 DEF Init, RingTypes, Ports, Packets
  <1>2. PortTypes
    BY <1>0 DEF Init, PortTypes, NoPacket, Packet, PacketsSent, NoCmd, Bits
  <1>3. PlaceTypes
    BY <1>0 DEF Init, PlaceTypes, NoPass
  <1>4. Flags /\ pass \in Passes /\ pend \subseteq Serviced
    <2>1. psEnabled \in BOOLEAN /\ intMode \in BOOLEAN /\ cint \in BOOLEAN /\ armed \in BOOLEAN
      BY DEF Init
    <2>2. quiet \in 0..NetPasses
      BY <1>0 DEF Init
    <2>3. pass \in Passes /\ pend \subseteq Serviced
      BY DEF Init, NoPass, Passes
    <2> QED BY <2>1, <2>2, <2>3 DEF Flags
  <1>7. todo \in Seq(PacketsSent)
    BY DEF Init
  <1>5. Places
    BY <1>1, <1>2, <1>3 DEF Places, RingTypes, PortTypes, PlaceTypes
  <1>6. TypeOK
    BY <1>7, <1>1, <1>2, <1>3, <1>4 DEF TypeOK, RingTypes, PortTypes, PlaceTypes, Flags, Passes
  <1> QED BY <1>5, <1>6

-----------------------------------------------------------------------------
(* The bits.                                                                 *)

LEMMA FaultsStay == [Next]_vars => faults \subseteq faults'
  <1>1. CASE Card
    BY <1>1 DEF Card, CardUploads, CardReplies, CardRaisesEvent, CardRestartsRing,
           CardOffersEmptySlot, CardWithdraws, CardIsr, AnEvent, FaultOnly, Fault, count
  <1>2. CASE Driver
    BY <1>2 DEF Driver, ServiceQuiet, ServiceStarts, DrainRun, DrainDone, SinkReturns, DrainVerified,
           PortEmpty, PortTaken, AwaitPoll, Fetched, FetchFails, MonitorPoll, MonitorTakes,
           WatchPoll, WatchDrainPacket, WatchDrained, WatchPort, ReadRunFails, BusError, FaultOnly,
           Fault, count
  <1>3. CASE Failures
    BY <1>3 DEF Failures, ServiceStartFails, DrainFails, DrainUnverified, PortFails,
           SendReadsRegsFails, CmdNotSent, AwaitFails, ReaderFails, ReadMpRegsFails,
           ReadStatusFails, ReadRunFails, BusError, FaultOnly, Fault
  <1>4. CASE Calls
    BY <1>4 DEF Calls, CmdSent, SendReadsRegs, MonitorStarts, WatchStarts, CallStarts, Redownload, Call,
           count
  <1> QED BY <1>1, <1>2, <1>3, <1>4 DEF Next, vars, count

\* While the bus works and the card keeps its ring, none of these steps is taken.
LEMMA NoFailure ==
  ASSUME NoFault'
  PROVE  /\ ~BusError /\ ~Failures /\ ~CardRestartsRing
         /\ \A p \in Ports : ~CardOffersEmptySlot(p)
         /\ \A offered, lens, limit : ~ReadRunFails(offered, lens, limit)
  <1>1. ~BusError /\ ~FaultOnly("restart") /\ ~FaultOnly("stale")
    BY DEF NoFault, BusError, FaultOnly, Fault
  <1> QED BY <1>1 DEF Failures, ServiceStartFails, DrainFails, DrainUnverified, PortFails,
           SendReadsRegsFails, CmdNotSent, AwaitFails, ReaderFails, ReadMpRegsFails,
           ReadStatusFails, ReadRunFails, CardRestartsRing, CardOffersEmptySlot

LEMMA PortBitStep ==
  ASSUME TypeOK, Places, PortBit, [Next]_vars, NoFault'
  PROVE  PortBit'
  <1>0. pend \subseteq Serviced /\ hostInt \subseteq Bits /\ pass \in Passes
    BY DEF TypeOK, Passes
  <1>a. ~BusError
    BY NoFailure
  <1>1. CASE UNCHANGED <<port, hostInt, pend, pc, pass>>
    BY <1>1 DEF PortBit
  <1>2. CASE CardUploads
    BY <1>2 DEF CardUploads, Raise, PortBit
  <1>3. CASE CardReplies
    <2>1. todo[1] \in Replies /\ port' = todo[1] /\ port = NoPacket
      BY <1>3 DEF CardReplies, Places
    <2>2. port' # NoPacket
      BY <2>1 DEF Replies, NoPacket, Packet
    <2> QED BY <1>3, <2>2 DEF CardReplies, Raise, PortBit
  <1>4. CASE CardRaisesEvent
    BY <1>4 DEF CardRaisesEvent, Raise, PortBit, NoPacket, Packet
  <1>5. CASE CardWithdraws \/ CardIsr \/ ServiceQuiet \/ UNCHANGED vars
    BY <1>1, <1>5 DEF CardWithdraws, CardIsr, ServiceQuiet, card, vars
  <1>6. CASE ServiceStarts
    BY <1>0, <1>6 DEF ServiceStarts, ReadStatus, LatchIntBits, PortBit, Serviced
  <1>7. CASE DrainRun
    BY <1>0, <1>7 DEF DrainRun, ReadRun, PortBit, Passes
  <1>8. CASE DrainDone \/ SinkReturns
    BY <1>0, <1>8 DEF DrainDone, SinkReturns, PortBit, card
  <1>9. CASE DrainVerified
    BY <1>0, <1>9 DEF DrainVerified, LatchIntBits, PortBit, Serviced
  <1>10. CASE PortEmpty \/ PortTaken
    BY <1>0, <1>10 DEF PortEmpty, PortTaken, PassEnds, Return, SleepConfirm, PortBit, card, NoPass
  <1>11. CASE SendReadsRegs
    BY <1>0, <1>11 DEF SendReadsRegs, ReadStatus, LatchIntBits, PortBit, Serviced
  <1>12. ASSUME NEW id \in CmdIds, CmdSent(id) PROVE PortBit'
    BY <1>0, <1>12 DEF CmdSent, Raise, PortBit
  <1>13. CASE AwaitPoll
    BY <1>0, <1>13 DEF AwaitPoll, LatchIntBits, Return, PortBit, Serviced
  <1>14. CASE Fetched
    <2>1. /\ pc = "fetch" /\ port' = NoPacket /\ pc' \in {"idle", "await"}
          /\ UNCHANGED <<hostInt, pend, pass>>
      BY <1>14 DEF Fetched, Return
    <2> QED BY <1>0, <2>1 DEF PortBit
  <1>15. CASE FetchFails
    BY <1>0, <1>a, <1>15 DEF FetchFails, Return, PortBit
  <1>16. CASE MonitorStarts \/ WatchStarts
    BY <1>0, <1>16 DEF MonitorStarts, WatchStarts, CallStarts, PortBit, card
  <1>17. CASE MonitorPoll \/ WatchPoll
    BY <1>0, <1>17 DEF MonitorPoll, WatchPoll, ReadStatus, LatchIntBits, Return, PortBit, Serviced,
           NoPass
  <1>18. CASE MonitorTakes
    BY <1>0, <1>18 DEF MonitorTakes, Return, PortBit
  <1>19. CASE WatchDrainPacket
    BY <1>0, <1>19 DEF WatchDrainPacket, ReadRun, PortBit, Passes
  <1>20. CASE WatchDrained
    BY <1>0, <1>20 DEF WatchDrained, PortBit
  <1>21. CASE WatchPort
    BY <1>0, <1>21 DEF WatchPort, Return, PortBit, NoPass
  <1>22. CASE Redownload
    BY <1>0, <1>22 DEF Redownload, PortBit
  <1> QED BY <1>2, <1>3, <1>4, <1>5, <1>6, <1>7, <1>8, <1>9, <1>10, <1>11, <1>12, <1>13, <1>14, <1>15,
             <1>16, <1>17, <1>18, <1>19, <1>20, <1>21, <1>22, NoFailure
          DEF Next, Card, Driver, Calls

-----------------------------------------------------------------------------
(* The ring.                                                                 *)

LEMMA Around ==
  ASSUME NEW x \in 0..NumPorts
  PROVE  x % NumPorts = IF x < NumPorts THEN x ELSE 0
  <1>1. NumPorts \in Nat \ {0}
    BY ConstantsOK
  <1> QED BY <1>1

\* Offsets: where they lie, and how they turn when the position moves on by k.
LEMMA OffIs ==
  ASSUME rxPort \in Ports
  PROVE  /\ \A p \in Ports : Off(p) \in 0..(NumPorts - 1)
         /\ \A p, q \in Ports : Off(p) = Off(q) => p = q
         /\ rxPort \in Ports /\ Off(rxPort) = 0
         /\ \A i \in 0..(NumPorts - 1) : rxPort + i < NumPorts => Off(rxPort + i) = i
  <1>1. NumPorts \in Nat \ {0}
    BY ConstantsOK
  <1> QED BY <1>1 DEF Off, Ports

LEMMA OffMoves ==
  ASSUME rxPort \in Ports, NEW k \in Nat, rxPort + k <= NumPorts, k <= NumPorts,
         rxPort' = (rxPort + k) % NumPorts
  PROVE  /\ rxPort' = IF rxPort + k < NumPorts THEN rxPort + k ELSE 0
         /\ \A p \in Ports : (Off(p))' = IF Off(p) >= k THEN Off(p) - k ELSE Off(p) - k + NumPorts
  <1>1. NumPorts \in Nat \ {0}
    BY ConstantsOK
  <1>2. rxPort + k \in 0..NumPorts
    BY <1>1 DEF Ports
  <1>3. rxPort' = IF rxPort + k < NumPorts THEN rxPort + k ELSE 0
    BY <1>2, Around
  <1> QED BY <1>1, <1>3 DEF Off, Ports

RingNumbers(c) ==
  /\ NumPorts \in Nat \ {0} /\ rxPort \in 0..(NumPorts - 1) /\ fwPort \in 0..(NumPorts - 1)
  /\ uploads \in Nat /\ c \in Nat /\ c <= NumPorts /\ c <= uploads

LEMMA RingFacts ==
  ASSUME TypeOK, Places, NEW c \in Nat, RingHolds(c)
  PROVE  /\ RingNumbers(c)
         /\ Lens = bitmap
         /\ c > 0 <=> rxPort \in bitmap
         /\ c = 0 => \A p \in Ports : held[p] = 0
  <1>1. RingNumbers(c)
    BY ConstantsOK DEF TypeOK, Places, RingHolds, RingNumbers, Ports
  <1>2. rxPort \in Ports /\ \A p \in Ports : Off(p) \in 0..(NumPorts - 1)
    BY OffIs DEF TypeOK
  <1>3. \A p \in Ports : held[p] = IF Off(p) < c THEN uploads - c + 1 + Off(p) ELSE 0
    BY DEF RingHolds
  <1>4. bitmap = {p \in Ports : Off(p) < c}
    BY DEF RingHolds
  <1>5. \A p \in Ports : held[p] # 0 <=> Off(p) < c
    BY <1>1, <1>2, <1>3 DEF RingNumbers
  <1>6. Lens = bitmap
    BY <1>4, <1>5 DEF Lens
  <1>7. c > 0 <=> rxPort \in bitmap
    BY <1>1, <1>2, <1>4, OffIs DEF RingNumbers
  <1> QED BY <1>1, <1>2, <1>3, <1>6, <1>7 DEF RingNumbers

\* What is offered is a beginning of the ring: there is nothing to read only if it is empty.
LEMMA NothingIs ==
  ASSUME rxPort \in Ports, NEW k \in Nat, NEW offered, offered = {p \in Ports : Off(p) < k}, NEW lens,
         offered \subseteq lens
  PROVE  /\ NothingToRead(offered, lens) <=> k = 0
         /\ StartAt(offered) = rxPort
  <1>1. rxPort \in offered <=> k > 0
    BY OffIs
  <1>2. k = 0 => offered = {}
    BY OffIs, ConstantsOK
  <1>3. StartAt(offered) = rxPort
    BY <1>1, <1>2 DEF StartAt
  <1>4. offered \subseteq Ports
    OBVIOUS
  <1>5. NothingToRead(offered, lens) <=> rxPort \notin offered \cap lens
    BY <1>3, <1>4, ExhaustedIs
  <1> QED BY <1>1, <1>3, <1>5

LEMMA Joined ==
  ASSUME NEW k \in Nat, NEW f, read \in Seq(Packets), read' = read \o [i \in 1..k |-> f[i]]
  PROVE  /\ Len(read') = Len(read) + k
         /\ \A i \in 1..Len(read) : read'[i] = read[i]
         /\ \A i \in 1..k : read'[Len(read) + i] = f[i]
  <1> DEFINE T == Packets \cup {f[i] : i \in 1..k}
             run == [i \in 1..k |-> f[i]]
  <1>1. read \in Seq(T)
    OBVIOUS
  <1>2. run \in Seq(T) /\ Len(run) = k
    <2>1. \A i \in 1..k : f[i] \in T
      OBVIOUS
    <2> HIDE DEF T
    <2>2. run \in [1..k -> T]
      BY <2>1
    <2> QED BY <2>2
  <1>3. \A i \in 1..k : run[i] = f[i]
    OBVIOUS
  <1>4. read' = read \o run
    OBVIOUS
  <1> HIDE DEF run, T
  <1> QED BY <1>1, <1>2, <1>3, <1>4

\* A run read from what is offered, the k0 oldest packets of the ring.
LEMMA RunReads ==
  ASSUME TypeOK, Places, NEW c \in Nat, RingHolds(c), Rising,
         NEW k0 \in 0..c, NEW offered, offered = {p \in Ports : Off(p) < k0},
         NEW lens, offered \subseteq lens, NEW limit \in Nat \ {0},
         ReadRun(offered, lens, limit), UNCHANGED <<fwPort, uploads>>
  PROVE  \E k \in 1..k0 :
           /\ RingHolds(c - k)' /\ Rising'
           /\ offered \ {p \in Ports : Off(p) < k} = {p \in Ports : (Off(p))' < k0 - k}
           /\ pass' = [pass EXCEPT !.bits = @ \ {p \in Ports : Off(p) < k}]
  <1>1. RingNumbers(c) /\ rxPort \in Ports /\ offered \subseteq Ports
    BY RingFacts DEF TypeOK
  <1>2. k0 \in Nat /\ k0 <= c
    BY <1>1 DEF RingNumbers
  <1>3. StartAt(offered) = rxPort /\ k0 # 0 /\ ~NothingToRead(offered, lens)
    BY <1>1, <1>2, NothingIs DEF ReadRun
  <1>a. PICK k \in 0..limit : k = RunFrom(offered, lens, limit)
    BY <1>1, RunIs
  <1> DEFINE slots == {rxPort + i : i \in 0..(k - 1)}
             Gone == {p \in Ports : Off(p) < k}
  <1>4. /\ k \in 0..limit /\ rxPort + k <= NumPorts /\ k >= 1
        /\ \A i \in 0..(k - 1) : rxPort + i \in offered
    BY <1>1, <1>3, <1>a, RunIs, ExhaustedIs
  <1>5. /\ read' = read \o [i \in 1..k |-> held[rxPort + i - 1]]
        /\ held' = [p \in Ports |-> IF p \in slots THEN 0 ELSE held[p]]
        /\ bitmap' = bitmap \ slots
        /\ pass' = [pass EXCEPT !.bits = @ \ slots]
        /\ rxPort' = (rxPort + k) % NumPorts
    BY <1>3, <1>a DEF ReadRun
  <1>6. k \in Nat /\ k \in 1..k0
    <2>1. k \in Nat /\ k - 1 \in 0..(k - 1)
      BY <1>4
    <2>2. rxPort + (k - 1) \in Ports /\ Off(rxPort + (k - 1)) < k0
      BY <1>4, <2>1
    <2>3. Off(rxPort + (k - 1)) = k - 1
      BY <1>1, <2>1, <2>2 DEF Off, RingNumbers, Ports
    <2> QED BY <1>2, <1>4, <2>1, <2>2, <2>3
  <1>7. slots = Gone
    <2>1. \A i \in 0..(k - 1) : rxPort + i \in Ports /\ Off(rxPort + i) < k
      BY <1>1, <1>4, <1>6 DEF Off, RingNumbers, Ports
    <2>2. ASSUME NEW p \in Ports, Off(p) < k PROVE p \in slots
      <3>1. p - rxPort \in 0..(k - 1) /\ p = rxPort + (p - rxPort)
        BY <1>1, <1>4, <1>6, <2>2 DEF Off, RingNumbers, Ports
      <3> QED BY <3>1
    <2> QED BY <2>1, <2>2
  <1>8. /\ rxPort' = IF rxPort + k < NumPorts THEN rxPort + k ELSE 0
        /\ \A p \in Ports : (Off(p))' = IF Off(p) >= k THEN Off(p) - k ELSE Off(p) - k + NumPorts
    BY <1>1, <1>4, <1>5, <1>6, OffMoves DEF RingNumbers
  <1>9. /\ \A p \in Ports : Off(p) \in 0..(NumPorts - 1)
        /\ \A p \in Ports : held[p] = IF Off(p) < c THEN uploads - c + 1 + Off(p) ELSE 0
        /\ bitmap = {p \in Ports : Off(p) < c}
        /\ fwPort = IF rxPort + c < NumPorts THEN rxPort + c ELSE rxPort + c - NumPorts
        /\ \A i \in 1..Len(read) : read[i] <= uploads - c
    BY <1>1, OffIs DEF RingHolds
  <1>10. c - k \in Nat /\ k <= c /\ k <= NumPorts
    BY <1>1, <1>2, <1>6 DEF RingNumbers
  \* The slots.
  <1>11. \A p \in Ports : held'[p] = IF (Off(p))' < c - k THEN uploads - (c - k) + 1 + (Off(p))' ELSE 0
    <2> SUFFICES ASSUME NEW p \in Ports
                 PROVE  held'[p] = IF (Off(p))' < c - k THEN uploads - (c - k) + 1 + (Off(p))' ELSE 0
      OBVIOUS
    <2>0. Off(p) \in 0..(NumPorts - 1) /\ held[p] = IF Off(p) < c THEN uploads - c + 1 + Off(p) ELSE 0
      BY <1>9
    <2>1. CASE Off(p) < k
      <3>1. held'[p] = 0
        BY <1>5, <1>7, <2>1
      <3>2. (Off(p))' = Off(p) - k + NumPorts
        BY <1>6, <1>8, <2>0, <2>1
      <3> QED BY <1>1, <1>6, <1>10, <2>0, <3>1, <3>2 DEF RingNumbers
    <2>2. CASE ~(Off(p) < k)
      <3>1. held'[p] = held[p]
        BY <1>5, <1>7, <2>2
      <3>2. (Off(p))' = Off(p) - k
        BY <1>1, <1>6, <1>8, <2>0, <2>2 DEF RingNumbers
      <3> QED BY <1>1, <1>6, <1>10, <2>0, <3>1, <3>2 DEF RingNumbers
    <2> QED BY <2>1, <2>2
  <1>12. ASSUME NEW n \in Nat, n <= NumPorts, k <= n
         PROVE  {p \in Ports : Off(p) < n} \ Gone = {p \in Ports : (Off(p))' < n - k}
    <2>1. ASSUME NEW p \in Ports PROVE (Off(p) < n /\ ~(Off(p) < k)) <=> (Off(p))' < n - k
      <3>1. Off(p) \in 0..(NumPorts - 1)
        BY <1>9
      <3> QED BY <1>1, <1>6, <1>8, <1>12, <3>1 DEF RingNumbers
    <2> QED BY <2>1
  <1>13. bitmap' = {p \in Ports : (Off(p))' < c - k}
    BY <1>1, <1>5, <1>7, <1>9, <1>10, <1>12 DEF RingNumbers
  <1>14. offered \ Gone = {p \in Ports : (Off(p))' < k0 - k}
    BY <1>1, <1>2, <1>6, <1>12 DEF RingNumbers
  <1>15. fwPort' = IF rxPort' + (c - k) < NumPorts THEN rxPort' + (c - k)
                                                   ELSE rxPort' + (c - k) - NumPorts
    BY <1>1, <1>4, <1>6, <1>8, <1>9, <1>10 DEF RingNumbers
  \* The packets read.
  <1>16. /\ read \in Seq(Packets) /\ Len(read) \in Nat
         /\ Len(read') = Len(read) + k
         /\ \A i \in 1..Len(read) : read'[i] = read[i] /\ read[i] \in Packets
         /\ \A i \in 1..k : read'[Len(read) + i] = held[rxPort + i - 1]
    <2>1. read \in Seq(Packets) /\ Len(read) \in Nat
      BY DEF TypeOK
    <2> DEFINE f == [i \in 1..k |-> held[rxPort + i - 1]]
    <2>2. \A i \in 1..k : f[i] = held[rxPort + i - 1]
      OBVIOUS
    <2>3. read' = read \o [i \in 1..k |-> f[i]]
      BY <1>5
    <2> HIDE DEF f
    <2>4. /\ Len(read') = Len(read) + k
          /\ \A i \in 1..Len(read) : read'[i] = read[i]
          /\ \A i \in 1..k : read'[Len(read) + i] = f[i]
      BY <1>6, <2>1, <2>3, Joined, Zenon
    <2>5. \A i \in 1..Len(read) : read[i] \in Packets
      BY <2>1
    <2> QED BY <2>1, <2>2, <2>4, <2>5, Zenon
  <1>17. \A i \in 1..k : read'[Len(read) + i] = uploads - c + i
    <2> SUFFICES ASSUME NEW i \in 1..k PROVE held[rxPort + i - 1] = uploads - c + i
      BY <1>16
    <2>1. i - 1 \in 0..(k - 1) /\ rxPort + (i - 1) = rxPort + i - 1 /\ i - 1 \in 0..(NumPorts - 1)
      BY <1>1, <1>6, <1>10 DEF RingNumbers
    <2>4. i \in Nat /\ i <= k /\ k <= c
      BY <1>6, <1>10
    <2>2. rxPort + i - 1 \in Ports
      BY <1>1, <1>4, <2>1
    <2>3. Off(rxPort + i - 1) = i - 1
      BY <1>1, <2>1, <2>2 DEF Off, Ports, RingNumbers
    <2>5. held[rxPort + i - 1] = uploads - c + 1 + (i - 1)
      BY <1>1, <1>9, <2>2, <2>3, <2>4 DEF RingNumbers
    <2> QED BY <1>1, <1>16, <2>4, <2>5 DEF RingNumbers
  <1>18. \A i \in 1..Len(read') : i > Len(read) => read'[i] = uploads - c + (i - Len(read))
    <2> SUFFICES ASSUME NEW i \in 1..Len(read'), i > Len(read)
                 PROVE  read'[i] = uploads - c + (i - Len(read))
      OBVIOUS
    <2>1. i - Len(read) \in 1..k /\ Len(read) + (i - Len(read)) = i
      BY <1>6, <1>16
    <2> QED BY <1>17, <2>1
  <1>19. \A i \in 1..Len(read') : i <= Len(read) => read'[i] = read[i] /\ read[i] \in Int /\ read[i] <= uploads - c
    BY <1>9, <1>16 DEF Packets
  <1>20. \A i \in 1..Len(read') : read'[i] <= uploads' - (c - k)
    <2> SUFFICES ASSUME NEW i \in 1..Len(read') PROVE read'[i] <= uploads - (c - k)
      OBVIOUS
    <2>0. i \in Nat /\ i <= Len(read) + k /\ i >= 1
      BY <1>6, <1>16
    <2>1. CASE i <= Len(read)
      BY <1>1, <1>6, <1>19, <2>1 DEF RingNumbers
    <2>2. CASE i > Len(read)
      BY <1>1, <1>6, <1>16, <1>18, <2>0, <2>2 DEF RingNumbers
    <2> QED BY <1>16, <2>0, <2>1, <2>2
  <1>21. Rising'
    <2> SUFFICES ASSUME NEW i \in 1..Len(read') - 1 PROVE read'[i] < read'[i + 1]
      BY DEF Rising
    <2>0. i \in Nat /\ i + 1 \in 1..Len(read') /\ i \in 1..Len(read') /\ i >= 1
      BY <1>6, <1>16
    <2>1. CASE i + 1 <= Len(read)
      <3>1. i \in 1..Len(read) - 1 /\ i <= Len(read)
        BY <1>16, <2>0, <2>1
      <3> QED BY <1>19, <2>0, <2>1, <3>1 DEF Rising
    <2>2. CASE i = Len(read)
      <3>1. read'[i] \in Int /\ read'[i] <= uploads - c
        BY <1>16, <1>19, <2>0, <2>2
      <3>2. read'[i + 1] = uploads - c + 1
        BY <1>16, <1>18, <2>0, <2>2
      <3> QED BY <1>1, <3>1, <3>2 DEF RingNumbers
    <2>3. CASE i > Len(read)
      <3>1. read'[i] = uploads - c + (i - Len(read)) /\ read'[i + 1] = uploads - c + (i + 1 - Len(read))
        BY <1>16, <1>18, <2>0, <2>3
      <3> QED BY <1>1, <1>16, <2>0, <3>1 DEF RingNumbers
    <2> QED BY <1>16, <2>0, <2>1, <2>2, <2>3
  <1>22. RingHolds(c - k)'
    <2>1. c - k <= NumPorts /\ c - k <= uploads'
      BY <1>1, <1>6, <1>10 DEF RingNumbers
    <2> QED BY <1>11, <1>13, <1>15, <1>20, <2>1 DEF RingHolds
  <1> QED BY <1>5, <1>6, <1>7, <1>14, <1>21, <1>22

\* An upload goes behind the others: the ring has room at the card's position.
LEMMA UploadKeepsRing ==
  ASSUME TypeOK, Places, UploadBit, NEW c \in Nat, RingHolds(c), SnapshotHolds(c), CardUploads
  PROVE  RingHolds(c + 1)' /\ SnapshotHolds(c + 1)' /\ UploadBit'
  <1>1. RingNumbers(c) /\ rxPort \in Ports /\ fwPort \in Ports
    BY RingFacts DEF TypeOK
  <1>2. /\ uploads' = uploads + 1 /\ held[fwPort] = 0
        /\ held' = [held EXCEPT ![fwPort] = uploads + 1]
        /\ bitmap' = bitmap \cup {fwPort} /\ fwPort' = (fwPort + 1) % NumPorts
        /\ UNCHANGED <<pc, pend, pass, rxPort, read>>
        /\ \/ hostInt' = hostInt \cup {"UP"} /\ told' = told \cup {uploads + 1}
           \/ UNCHANGED <<hostInt, told>>
    BY DEF CardUploads, Raise
  <1>3. /\ \A p \in Ports : Off(p) \in 0..(NumPorts - 1)
        /\ \A p \in Ports : held[p] = IF Off(p) < c THEN uploads - c + 1 + Off(p) ELSE 0
        /\ bitmap = {p \in Ports : Off(p) < c}
        /\ fwPort = IF rxPort + c < NumPorts THEN rxPort + c ELSE rxPort + c - NumPorts
        /\ \A i \in 1..Len(read) : read[i] <= uploads - c
        /\ \A p \in Ports : (Off(p))' = Off(p)
    BY <1>1, <1>2, OffIs DEF RingHolds, Off
  <1>4. c < NumPorts
    <2> SUFFICES ASSUME c = NumPorts PROVE FALSE
      BY <1>1 DEF RingNumbers
    <2>1. fwPort = rxPort /\ Off(fwPort) = 0
      BY <1>1, <1>3, OffIs DEF RingNumbers
    <2> QED BY <1>1, <1>2, <1>3, <2>1 DEF RingNumbers
  <1>5. Off(fwPort) = c
    BY <1>1, <1>3, <1>4 DEF Off, RingNumbers
  <1>6. \A p \in Ports : Off(p) = c => p = fwPort
    BY <1>1, <1>5, OffIs
  <1>7. \A p \in Ports : Off(p) < c + 1 <=> Off(p) < c \/ p = fwPort
    BY <1>1, <1>3, <1>5, <1>6 DEF RingNumbers
  <1>8. \A p \in Ports : held'[p] = IF p = fwPort THEN uploads + 1 ELSE held[p]
    BY <1>1, <1>2 DEF TypeOK
  <1>9. \A p \in Ports : held'[p] = IF (Off(p))' < c + 1 THEN uploads' - (c + 1) + 1 + (Off(p))' ELSE 0
    <2> SUFFICES ASSUME NEW p \in Ports
                 PROVE  held'[p] = IF (Off(p))' < c + 1 THEN uploads' - (c + 1) + 1 + (Off(p))' ELSE 0
      OBVIOUS
    <2>0. (Off(p))' = Off(p) /\ uploads' = uploads + 1
      BY <1>2, <1>3
    <2>1. Off(p) \in 0..(NumPorts - 1) /\ held[p] = IF Off(p) < c THEN uploads - c + 1 + Off(p) ELSE 0
      BY <1>3
    <2>2. CASE p = fwPort
      BY <1>1, <1>5, <1>8, <2>0, <2>1, <2>2 DEF RingNumbers
    <2>3. CASE p # fwPort
      BY <1>1, <1>6, <1>8, <2>0, <2>1, <2>3 DEF RingNumbers
    <2> QED BY <2>2, <2>3
  <1>10. bitmap' = {p \in Ports : (Off(p))' < c + 1}
    <2>1. bitmap' = {p \in Ports : Off(p) < c} \cup {fwPort}
      BY <1>2, <1>3
    <2>2. {p \in Ports : (Off(p))' < c + 1} = {p \in Ports : Off(p) < c + 1}
      BY <1>3
    <2>3. {p \in Ports : Off(p) < c + 1} = {p \in Ports : Off(p) < c} \cup {fwPort}
      BY <1>1, <1>7
    <2> QED BY <2>1, <2>2, <2>3
  <1>11. fwPort' = IF rxPort' + (c + 1) < NumPorts THEN rxPort' + (c + 1)
                                                   ELSE rxPort' + (c + 1) - NumPorts
    <2>1. fwPort + 1 \in 0..NumPorts
      BY <1>1 DEF RingNumbers
    <2>2. fwPort' = IF fwPort + 1 < NumPorts THEN fwPort + 1 ELSE 0
      BY <1>2, <2>1, Around
    <2> QED BY <1>1, <1>2, <1>3, <1>4, <2>2 DEF RingNumbers
  <1>12. \A i \in 1..Len(read') : read'[i] <= uploads' - (c + 1)
    <2>1. uploads' - (c + 1) = uploads - c
      BY <1>1, <1>2 DEF RingNumbers
    <2> QED BY <1>2, <1>3, <2>1
  <1>13. RingHolds(c + 1)'
    <2>1. c + 1 <= NumPorts /\ c + 1 <= uploads'
      BY <1>1, <1>2, <1>4 DEF RingNumbers
    <2> QED BY <1>9, <1>10, <1>11, <1>12, <2>1 DEF RingHolds
  <1>14. SnapshotHolds(c + 1)'
    <2> SUFFICES ASSUME pc \in {"drain", "sink"}
                 PROVE  \E k \in 0..(c + 1) : /\ pass'.bits = {p \in Ports : (Off(p))' < k}
                                              /\ pass'.bits \subseteq pass'.lens
      BY <1>2 DEF SnapshotHolds
    <2>1. PICK k \in 0..c : pass.bits = {p \in Ports : Off(p) < k} /\ pass.bits \subseteq pass.lens
      BY DEF SnapshotHolds
    <2>2. k \in 0..(c + 1)
      BY <1>1 DEF RingNumbers
    <2> QED BY <1>2, <1>3, <2>1, <2>2
  <1>15. \A n \in told' : n <= uploads'
    <2>1. \A n \in told : n \in Nat /\ n <= uploads
      BY ConstantsOK DEF UploadBit, TypeOK, Packets
    <2> QED BY <1>1, <1>2, <2>1 DEF RingNumbers
  <1>16. \A p \in Ports : held'[p] \in told' => "UP" \in hostInt' \cup pend'
    <2>1. uploads + 1 \notin told
      BY <1>1 DEF UploadBit, RingNumbers
    <2> QED BY <1>2, <1>8, <2>1 DEF UploadBit
  <1> QED BY <1>13, <1>14, <1>15, <1>16 DEF UploadBit

\* Steps that leave the slots and the host's position alone.
LEMMA StaysRing ==
  ASSUME NEW c \in Nat, RingHolds(c), UNCHANGED <<held, bitmap, fwPort, rxPort, read, uploads>>
  PROVE  RingHolds(c)' /\ \A p \in Ports : (Off(p))' = Off(p)
  BY DEF RingHolds, Off

LEMMA StaysSnapshot ==
  ASSUME NEW c \in Nat, SnapshotHolds(c), UNCHANGED rxPort,
         pc' \in {"drain", "sink"} => pc \in {"drain", "sink"} /\ pass' = pass
  PROVE  SnapshotHolds(c)'
  BY DEF SnapshotHolds, Off

\* Told of an upload or not, an empty ring needs no bit.
LEMMA NoneTold ==
  ASSUME TypeOK, \A p \in Ports : held[p] = 0
  PROVE  \A p \in Ports : held[p] \notin told
  BY DEF TypeOK, Packets

LEMMA RingInvStep ==
  ASSUME TypeOK, Places, UploadBit, RingInv, Rising, [Next]_vars, NoFault'
  PROVE  RingInv' /\ Rising'
  <1>0. PICK c \in Nat : RingHolds(c) /\ SnapshotHolds(c)
    BY DEF RingInv
  <1>a. /\ RingNumbers(c) /\ rxPort \in Ports /\ Lens = bitmap /\ bitmap = {p \in Ports : Off(p) < c}
        /\ c \in 0..c /\ pass \in Passes /\ AggrLimit \in Nat \ {0} /\ 1 \in Nat \ {0}
    <2>1. RingNumbers(c) /\ Lens = bitmap
      BY <1>0, RingFacts
    <2>2. rxPort \in Ports /\ pass \in Passes /\ AggrLimit \in Nat \ {0} /\ 1 \in Nat \ {0}
      <3>1. rxPort \in Ports /\ pass \in Passes
        BY DEF TypeOK, Passes
      <3>2. AggrLimit \in Nat \ {0}
        BY ConstantsOK
      <3> QED BY <3>1, <3>2
    <2>3. bitmap = {p \in Ports : Off(p) < c}
      BY <1>0 DEF RingHolds
    <2>4. c \in 0..c
      OBVIOUS
    <2> QED BY <2>1, <2>2, <2>3, <2>4
  \* The first packets of the ring go: what they leave is its rest.
  <1>b. ASSUME NEW k \in 0..c, RingHolds(c - k)', SnapshotHolds(c - k)' PROVE RingInv'
    <2>1. c - k \in Nat
      OBVIOUS
    <2> QED BY <1>b, <2>1 DEF RingInv
  <1>1. CASE Aside
    BY <1>0, <1>1, StaysRing, StaysSnapshot DEF Aside, RingInv, Rising
  <1>2. CASE CardUploads
    <2>1. c + 1 \in Nat /\ RingHolds(c + 1)' /\ SnapshotHolds(c + 1)'
      BY <1>0, <1>2, UploadKeepsRing
    <2>2. Rising'
      BY <1>2 DEF CardUploads, Rising
    <2> QED BY <2>1, <2>2 DEF RingInv
  <1>3. CASE CardWithdraws
    <2>1. \E p \in bitmap : held[p] = 0
      BY <1>3 DEF CardWithdraws
    <2> QED BY <1>a, <2>1 DEF Lens
  <1>4. CASE ServiceStarts
    <2>1. /\ UNCHANGED <<held, bitmap, fwPort, rxPort, read, uploads>>
          /\ pass'.bits = bitmap /\ pass'.lens = Lens
      BY <1>4 DEF ServiceStarts, ring, count
    <2>2. RingHolds(c)' /\ \A p \in Ports : (Off(p))' = Off(p)
      BY <1>0, <2>1, StaysRing
    <2>3. pass'.bits = {p \in Ports : (Off(p))' < c} /\ pass'.bits \subseteq pass'.lens
      BY <1>a, <2>1, <2>2
    <2>4. SnapshotHolds(c)'
      BY <1>a, <2>3 DEF SnapshotHolds
    <2> QED BY <2>1, <2>2, <2>4 DEF RingInv, Rising
  <1>5. CASE DrainRun
    <2>1. PICK k0 \in 0..c : pass.bits = {p \in Ports : Off(p) < k0} /\ pass.bits \subseteq pass.lens
      BY <1>0, <1>5 DEF SnapshotHolds, DrainRun
    <2>2. ReadRun(pass.bits, pass.lens, AggrLimit) /\ UNCHANGED <<fwPort, uploads>>
      BY <1>5 DEF DrainRun, count
    <2>3. PICK k \in 1..k0 : /\ RingHolds(c - k)' /\ Rising'
                             /\ pass.bits \ {p \in Ports : Off(p) < k} = {p \in Ports : (Off(p))' < k0 - k}
                             /\ pass' = [pass EXCEPT !.bits = @ \ {p \in Ports : Off(p) < k}]
      BY <1>0, <1>a, <2>1, <2>2, RunReads
    <2>4. /\ pass'.bits = {p \in Ports : (Off(p))' < k0 - k} /\ pass'.bits \subseteq pass.bits
          /\ pass'.lens = pass.lens
      BY <1>a, <2>3 DEF Passes
    <2>5. k0 - k \in 0..(c - k) /\ k \in 0..c
      BY <1>a
    <2>6. SnapshotHolds(c - k)'
      BY <2>1, <2>4, <2>5 DEF SnapshotHolds
    <2> QED BY <1>b, <2>3, <2>5, <2>6
  <1>6. CASE DrainDone
    <2>1. PICK k0 \in 0..c : pass.bits = {p \in Ports : Off(p) < k0} /\ pass.bits \subseteq pass.lens
      BY <1>0, <1>6 DEF SnapshotHolds, DrainDone
    <2>2. /\ UNCHANGED <<held, bitmap, fwPort, read, uploads>> /\ pc' = "post"
          /\ rxPort' = StartAt(pass.bits)
      BY <1>6 DEF DrainDone, card, count, RingExhausted
    <2>3. k0 \in Nat
      OBVIOUS
    <2>4. rxPort' = rxPort
      BY <1>a, <2>1, <2>2, <2>3, NothingIs
    <2> QED BY <1>0, <2>2, <2>4, StaysRing, StaysSnapshot DEF RingInv, Rising
  <1>7. CASE MonitorTakes \/ WatchDrainPacket \/ WatchDrained
    <2>0. /\ UNCHANGED <<fwPort, uploads>> /\ pc' \notin {"drain", "sink"}
          /\ \/ ReadRun(bitmap, Lens, 1)
             \/ RingExhausted(bitmap, Lens) /\ UNCHANGED <<bitmap, held, read>>
      BY <1>7, NoFailure DEF MonitorTakes, WatchDrainPacket, WatchDrained, count, Return
    <2>s. ASSUME NEW n \in Nat PROVE SnapshotHolds(n)'
      BY <2>0 DEF SnapshotHolds
    <2>1. CASE ReadRun(bitmap, Lens, 1)
      <3>1. PICK k \in 1..c : RingHolds(c - k)' /\ Rising'
        BY <1>0, <1>a, <2>0, <2>1, RunReads
      <3>2. k \in 0..c /\ c - k \in Nat
        OBVIOUS
      <3> QED BY <1>b, <2>s, <3>1, <3>2
    <2>2. CASE RingExhausted(bitmap, Lens) /\ UNCHANGED <<bitmap, held, read>>
      <3>1. rxPort' = rxPort
        BY <1>a, <2>2, NothingIs DEF RingExhausted
      <3>2. RingHolds(c)'
        BY <1>0, <2>0, <2>2, <3>1, StaysRing
      <3> QED BY <2>s, <2>2, <3>2 DEF RingInv, Rising
    <2> QED BY <2>0, <2>1, <2>2
  <1>8. CASE Redownload
    <2>1. /\ bitmap' = {} /\ held' = [p \in Ports |-> 0] /\ fwPort' = 0 /\ rxPort' = 0
          /\ UNCHANGED <<pc, read, uploads>> /\ pc = "idle"
      BY <1>8 DEF Redownload, Call
    <2>2. \A p \in Ports : (Off(p))' >= 0
      BY <1>a, <2>1 DEF Off, Ports, RingNumbers
    <2>3. \A i \in 1..Len(read') : read'[i] <= uploads'
      <3>1. \A i \in 1..Len(read) : read[i] <= uploads - c
        BY <1>0 DEF RingHolds
      <3>2. \A i \in 1..Len(read) : read[i] \in Packets
        BY DEF TypeOK
      <3>3. \A i \in 1..Len(read) : read[i] \in Int
        BY <3>2 DEF Packets
      <3> QED BY <1>a, <2>1, <3>1, <3>3 DEF RingNumbers
    <2>4. RingHolds(0)'
      <3>1. \A p \in Ports : ~((Off(p))' < 0) /\ held'[p] = 0
        <4>1. \A p \in Ports : (Off(p))' \in Int
          BY <1>a, <2>1 DEF Off, Ports, RingNumbers
        <4> QED BY <2>1, <2>2, <4>1
      <3>2. uploads' - 0 = uploads' /\ 0 <= NumPorts /\ 0 <= uploads' /\ 0 < NumPorts
        BY <1>a, <2>1 DEF RingNumbers
      <3>3. fwPort' = IF rxPort' + 0 < NumPorts THEN rxPort' + 0 ELSE rxPort' + 0 - NumPorts
        BY <2>1, <3>2
      <3>4. bitmap' = {p \in Ports : (Off(p))' < 0}
        BY <2>1, <3>1
      <3> QED BY <2>3, <3>1, <3>2, <3>3, <3>4 DEF RingHolds
    <2>5. SnapshotHolds(0)'
      BY <2>1 DEF SnapshotHolds
    <2> QED BY <2>1, <2>4, <2>5 DEF RingInv, Rising
  <1> QED BY <1>1, <1>2, <1>3, <1>4, <1>5, <1>6, <1>7, <1>8, StepIs, NoFailure DEF DrainFails

\* The bit of an upload leaves the record only when the service of the ring is over.
LEMMA UpBitStays ==
  ASSUME TypeOK, [Next]_vars, NoFault', "UP" \in hostInt \cup pend
  PROVE  "UP" \in hostInt' \cup pend' \/ (DrainVerified /\ Quiet) \/ WatchDrained \/ Redownload
  <1>0. pass.st \subseteq Serviced
    BY DEF TypeOK
  <1>1. CASE Card \/ UNCHANGED vars
    BY <1>1 DEF Card, CardUploads, CardReplies, CardRaisesEvent, CardRestartsRing, CardOffersEmptySlot,
           CardWithdraws, CardIsr, Raise, vars, card
  <1>2. CASE ServiceQuiet \/ DrainRun \/ DrainDone \/ SinkReturns \/ FetchFails \/ MonitorTakes
             \/ WatchDrainPacket \/ Fetched \/ MonitorStarts \/ WatchStarts
    BY <1>2 DEF ServiceQuiet, DrainRun, DrainDone, SinkReturns, FetchFails, MonitorTakes,
           WatchDrainPacket, Fetched, MonitorStarts, WatchStarts, CallStarts, card
  <1>3. CASE ServiceStarts \/ SendReadsRegs \/ MonitorPoll \/ WatchPoll
    BY <1>3 DEF ServiceStarts, SendReadsRegs, MonitorPoll, WatchPoll, ReadStatus, LatchIntBits, Serviced
  <1>4. CASE DrainVerified /\ ~Quiet
    BY <1>4 DEF DrainVerified, LatchIntBits, Serviced
  <1>5. CASE PortEmpty \/ PortTaken \/ WatchPort
    BY <1>5 DEF PortEmpty, PortTaken, WatchPort, SleepConfirm, card
  <1>6. CASE AwaitPoll
    BY <1>6 DEF AwaitPoll, LatchIntBits, Serviced
  <1>7. CASE \E id \in CmdIds : CmdSent(id)
    BY <1>7 DEF CmdSent, Raise
  <1> QED BY <1>1, <1>2, <1>3, <1>4, <1>5, <1>6, <1>7, NoFailure DEF Next, Driver, Calls

LEMMA UploadBitStep ==
  ASSUME TypeOK, Places, UploadBit, RingInv, [Next]_vars, NoFault'
  PROVE  UploadBit'
  <1>0. PICK c \in Nat : RingHolds(c) /\ SnapshotHolds(c)
    BY DEF RingInv
  <1>a. /\ c > 0 <=> rxPort \in bitmap
        /\ c = 0 => \A p \in Ports : held[p] \notin told
    BY <1>0, RingFacts, NoneTold
  <1>1. CASE CardUploads
    BY <1>0, <1>1, UploadKeepsRing
  <1>2. CASE Redownload
    <2>1. /\ held' = [p \in Ports |-> 0] /\ UNCHANGED <<told, uploads>>
      BY <1>2 DEF Redownload, Call
    <2>2. 0 \notin told
      BY DEF TypeOK, Packets
    <2> QED BY <2>1, <2>2 DEF UploadBit
  <1>3. ASSUME ~CardUploads, ~Redownload
        PROVE  /\ UNCHANGED <<told, uploads>>
               /\ \A p \in Ports : held'[p] = held[p] \/ held'[p] = 0
    <2>1. CASE Aside \/ CardWithdraws \/ ServiceStarts \/ DrainDone
      BY <2>1 DEF Aside, CardWithdraws, ServiceStarts, DrainDone, ring, card, count
    <2>2. CASE DrainRun \/ MonitorTakes \/ WatchDrainPacket \/ WatchDrained
      <3>1. /\ UNCHANGED <<told, uploads>>
            /\ UNCHANGED held \/ \E offered, lens, limit : ReadRun(offered, lens, limit)
        BY <2>2, NoFailure DEF DrainRun, MonitorTakes, WatchDrainPacket, WatchDrained, count
      <3>2. ASSUME NEW offered, NEW lens, NEW limit, ReadRun(offered, lens, limit)
            PROVE  \A p \in Ports : held'[p] = held[p] \/ held'[p] = 0
        BY <3>2 DEF ReadRun
      <3> QED BY <3>1, <3>2
    <2> QED BY <1>3, <2>1, <2>2, StepIs, NoFailure DEF DrainFails
  <1>4. CASE ~CardUploads /\ ~Redownload
    <2>1. 0 \notin told
      BY DEF TypeOK, Packets
    <2>2. ASSUME NEW p \in Ports, held'[p] \in told' PROVE "UP" \in hostInt' \cup pend'
      <3>1. held[p] \in told /\ "UP" \in hostInt \cup pend /\ c # 0
        BY <1>3, <1>4, <1>a, <2>1, <2>2 DEF UploadBit
      <3>2. CASE "UP" \in hostInt' \cup pend'
        BY <3>2
      <3>3. CASE DrainVerified /\ Quiet
        BY <1>a, <3>1, <3>3 DEF Quiet
      <3>4. CASE WatchDrained
        <4>1. NothingToRead(bitmap, Lens)
          BY <3>4, NoFailure DEF WatchDrained, RingExhausted
        <4>2. rxPort \in Ports /\ bitmap = {q \in Ports : Off(q) < c} /\ bitmap \subseteq Lens
          BY <1>0, RingFacts DEF TypeOK, RingHolds
        <4>3. c = 0
          BY <4>1, <4>2, NothingIs
        <4> QED BY <3>1, <4>3
      <3> QED BY <1>4, <3>1, <3>2, <3>3, <3>4, UpBitStays
    <2> QED BY <1>3, <1>4, <2>2 DEF UploadBit
  <1> QED BY <1>1, <1>2, <1>4

-----------------------------------------------------------------------------
(* The theorems.                                                             *)

LEMMA InvInit == Init => IInv
  <1> SUFFICES ASSUME Init PROVE IInv
    OBVIOUS
  <1>1. TypeOK /\ Places
    BY TypesInit
  <1>2. NumPorts \in Nat \ {0} /\ fwPort = 0 /\ rxPort = 0 /\ uploads = 0 /\ Len(read) = 0
    BY ConstantsOK DEF Init
  <1>3. PortBit
    BY DEF Init, PortBit, NoPass
  <1>4. UploadBit
    BY DEF Init, UploadBit
  <1>5. RingHolds(0)
    <2>1. \A p \in Ports : ~(Off(p) < 0)
      BY <1>2 DEF Off, Ports
    <2>2. \A p \in Ports : held[p] = 0
      BY DEF Init
    <2>3. bitmap = {p \in Ports : Off(p) < 0}
      BY <2>1 DEF Init
    <2>4. \A i \in 1..Len(read) : read[i] <= uploads - 0
      BY <1>2
    <2> QED BY <1>2, <2>1, <2>2, <2>3, <2>4 DEF RingHolds
  <1>6. RingInv
    <2>1. 0 \in Nat /\ SnapshotHolds(0)
      BY DEF Init, SnapshotHolds
    <2> QED BY <1>5, <2>1 DEF RingInv
  <1>7. Rising
    BY <1>2 DEF Rising
  <1> QED BY <1>1, <1>3, <1>4, <1>6, <1>7 DEF IInv

LEMMA InvStep == IInv /\ [Next]_vars => IInv'
  <1> SUFFICES ASSUME IInv, [Next]_vars PROVE IInv'
    OBVIOUS
  <1>1. TypeOK /\ Places /\ TypeOK' /\ Places'
    BY TypesStep DEF IInv
  <1>2. ASSUME NoFault' PROVE PortBit' /\ UploadBit' /\ RingInv' /\ Rising'
    <2>1. NoFault
      BY <1>2, FaultsStay DEF NoFault
    <2>2. PortBit /\ UploadBit /\ RingInv /\ Rising
      BY <2>1 DEF IInv
    <2> QED BY <1>1, <1>2, <2>2, PortBitStep, UploadBitStep, RingInvStep
  <1> QED BY <1>1, <1>2 DEF IInv

LEMMA InvAlways == Spec => []IInv
  BY InvInit, InvStep, PTL DEF Spec

\* In every state, whatever fails and whatever the card offers, the driver's and the card's
\* state have their types, and a finished pass or wait leaves its locals behind clean.
THEOREM DriverTypes == Spec => []TypeOK
  <1>1. IInv => TypeOK
    BY DEF IInv
  <1> QED BY <1>1, InvAlways, PTL

\* m_intPending's rule: while the bus works and the firmware keeps its ring, an announced upload
\* that waits in the ring and a packet in the command port are on record, in the register or in
\* the accumulator, whichever of the six readers emptied the register, and in whatever order.
THEOREM BitsKept == Spec => []NothingForgotten
  <1>1. IInv => NothingForgotten
    BY DEF IInv, NothingForgotten, UploadBit, PortBit
  <1> QED BY <1>1, InvAlways, PTL

\* readRingBatch(): over any number of wraps of the ring, with uploads between the snapshot, the
\* runs and the other readers, frames are handed up in the order they were received, each once.
THEOREM FramesRise == Spec => []FramesInOrder
  <1>1. IInv => FramesInOrder
    BY DEF IInv, FramesInOrder, Rising
  <1> QED BY <1>1, InvAlways, PTL

\* readHostResp(): a wait that is given up leaves no packet in the command port.
THEOREM NoReplyMissed == Spec => WaitSeesReply
  <1>1. IInv /\ [Next]_vars => (NoFault' /\ pc = "await" /\ pc' = "idle" => port = NoPacket)
    <2> SUFFICES ASSUME IInv, [Next]_vars, NoFault', pc = "await", pc' = "idle"
                 PROVE  port = NoPacket
      OBVIOUS
    <2>1. PortBit /\ pend \subseteq Serviced
      <3>1. NoFault
        BY FaultsStay DEF NoFault
      <3> QED BY <3>1 DEF IInv, TypeOK
    <2>2. AwaitPoll
      <3>1. ~Card
        BY DEF Card, CardUploads, CardReplies, CardRaisesEvent, CardRestartsRing, CardOffersEmptySlot,
               CardWithdraws, CardIsr
      <3>2. ~Calls
        BY DEF Calls, CmdSent, SendReadsRegs, MonitorStarts, WatchStarts, CallStarts, Redownload
      <3>3. Driver => AwaitPoll
        BY DEF Driver, ServiceQuiet, ServiceStarts, DrainRun, DrainDone, SinkReturns, DrainVerified,
               PortEmpty, PortTaken, Fetched, FetchFails, MonitorPoll, MonitorTakes, WatchPoll,
               WatchDrainPacket, WatchDrained, WatchPort
      <3> QED BY <3>1, <3>2, <3>3, NoFailure DEF Next, vars
    <2>3. "CMD" \notin hostInt \cup pend
      BY <2>2 DEF AwaitPoll, LatchIntBits, Serviced
    <2> QED BY <2>1, <2>3 DEF PortBit
  <1>2. IInv /\ [Next]_vars => [NoFault' /\ pc = "await" /\ pc' = "idle" => port = NoPacket]_vars
    BY <1>1
  <1> QED BY <1>2, InvAlways, PTL DEF Spec, WaitSeesReply

-----------------------------------------------------------------------------
(* Sequence numbers.                                                         *)

\* The other steps: no number is used, and no reply made.
Unnumbered ==
  /\ UNCHANGED seq /\ calls <= calls' /\ events <= events'
  /\ port' = port \/ port' = NoPacket
  /\ todo' = todo \/ todo' = <<>>
  /\ pc' \in {"await", "fetch"} => pc \in {"await", "fetch"} /\ UNCHANGED cmd
  /\ answer' = answer

LEMMA NumberedSteps ==
  ASSUME TypeOK, Places, [Next]_vars, ~Unnumbered
  PROVE  \/ CardReplies \/ CardRaisesEvent \/ PortTaken \/ CmdNotSent \/ Fetched
         \/ \E id \in CmdIds : CmdSent(id)
  <1>0. calls \in Nat /\ events \in Nat /\ calls <= calls + 1 /\ calls <= calls /\ events <= events
    BY ConstantsOK DEF Places
  <1>1. CASE Card \/ UNCHANGED vars
    BY <1>0, <1>1 DEF Unnumbered, Card, CardUploads, CardRestartsRing, CardOffersEmptySlot,
           CardWithdraws, CardIsr, FaultOnly, host, count, card, vars
  <1>2. CASE ServiceQuiet \/ ServiceStarts \/ DrainRun \/ DrainDone \/ SinkReturns \/ DrainVerified
    BY <1>0, <1>2 DEF Unnumbered, ServiceQuiet, ServiceStarts, DrainRun, DrainDone, SinkReturns,
           DrainVerified, host, count, card
  <1>3. CASE ServiceStartFails \/ DrainFails \/ DrainUnverified
    BY <1>0, <1>3 DEF Unnumbered, ServiceStartFails, DrainFails, DrainUnverified, ReadMpRegsFails,
           ReadRunFails, BusError, FaultOnly, host, card
  <1>4. CASE PortEmpty \/ PortFails
    BY <1>0, <1>4 DEF Unnumbered, PortEmpty, PortFails, PassEnds, Return, BusError, FaultOnly, host,
           count, card
  <1>5. CASE AwaitPoll \/ AwaitFails \/ FetchFails
    BY <1>0, <1>5 DEF Unnumbered, AwaitPoll, AwaitFails, FetchFails, Return, ReadStatusFails, BusError,
           FaultOnly, count
  <1>6. CASE SendReadsRegs \/ SendReadsRegsFails
    BY <1>0, <1>6 DEF Unnumbered, SendReadsRegs, SendReadsRegsFails, ReadMpRegsFails, BusError,
           FaultOnly, Call, host, count
  <1>7. CASE MonitorStarts \/ WatchStarts \/ Redownload
    BY <1>0, <1>7 DEF Unnumbered, MonitorStarts, WatchStarts, CallStarts, Redownload, Call, host, card
  <1>8. CASE MonitorPoll \/ ReaderFails \/ WatchPoll \/ WatchPort
    BY <1>0, <1>8 DEF Unnumbered, MonitorPoll, ReaderFails, WatchPoll, WatchPort, Return,
           ReadStatusFails, BusError, FaultOnly, host, count
  <1>9. CASE MonitorTakes \/ WatchDrainPacket \/ WatchDrained
    BY <1>0, <1>9 DEF Unnumbered, MonitorTakes, WatchDrainPacket, WatchDrained, ReadRunFails, Return,
           BusError, FaultOnly, host, count
  <1> QED BY <1>1, <1>2, <1>3, <1>4, <1>5, <1>6, <1>7, <1>8, <1>9
          DEF Next, Card, Driver, Failures, Calls

SeqNumbers ==
  /\ SeqMod \in Nat \ {0} /\ seq \in 0..(SeqMod - 1) /\ calls \in 0..MaxCalls /\ events \in 0..MaxEvents
  /\ MaxCalls \in Nat /\ MaxEvents \in Nat /\ Errors \in {0, 1} /\ EventWaits \in {0, 1}

\* A number that is used is a new one.
LEMMA SeqNext ==
  ASSUME NoWrap, SeqNumbers, seq + 1 <= MaxCalls + MaxEvents + 1
  PROVE  (seq + 1) % SeqMod = seq + 1
  <1>1. seq + 1 \in 0..(SeqMod - 1)
    BY DEF NoWrap, SeqNumbers
  <1> QED BY <1>1 DEF SeqNumbers

\* What was made for an earlier number, when the number moves on or no wait begins.
LEMMA MadeStays ==
  ASSUME SeqNumbers, NEW p, p.seq \in Nat, Made(p),
         \/ seq' = seq + 1
         \/ UNCHANGED seq /\ (pc' \in {"await", "fetch"} => pc \in {"await", "fetch"} /\ UNCHANGED cmd)
  PROVE  p.kind = "reply" => p.seq <= seq' /\ (pc' \in {"await", "fetch"} /\ p.seq = seq' => p.for = cmd'.for)
  BY DEF Made, SeqNumbers

LEMMA SeqInvStep ==
  ASSUME NoWrap, TypeOK, Places, TypeOK', Places', SeqInv, ReplyIsMine, [Next]_vars
  PROVE  SeqInv' /\ ReplyIsMine'
  <1>1. SeqNumbers /\ SeqNumbers'
    BY ConstantsOK DEF SeqNumbers, TypeOK, Places, Errors, EventWaits
  <1>e. /\ seq \in Int /\ calls \in Int /\ events \in Int /\ Errors \in Int /\ EventWaits \in Int
        /\ seq' \in Int /\ calls' \in Int /\ events' \in Int /\ Errors' \in Int /\ EventWaits' \in Int
    BY <1>1 DEF SeqNumbers
  <1>2. /\ port \in PacketsSent /\ Len(todo) \in Nat
        /\ \A i \in 1..Len(todo) : todo[i] \in Replies
    <2>1. todo \in Seq(Replies) /\ port \in PacketsSent
      BY DEF TypeOK, Places
    <2> QED BY <2>1
  <1>a. /\ \A p \in PacketsSent : p.seq \in Nat
        /\ \A p \in Replies : p.seq \in Nat /\ p.kind = "reply"
    BY <1>1 DEF PacketsSent, Replies, SeqNumbers
  <1>3. Errors <= Errors'
    BY FaultsStay DEF Errors
  <1>b. seq <= calls + events + Errors - EventWaits /\ Made(port) /\ \A i \in 1..Len(todo) : Made(todo[i])
    BY DEF SeqInv
  <1>c. Made(NoPacket)'
    BY DEF Made, NoPacket, Packet
  <1>d. NoPacket.kind = "none"
    BY DEF NoPacket, Packet
  <1>4. CASE Unnumbered
    <2>1. EventWaits' <= EventWaits
      BY <1>d, <1>4 DEF Unnumbered, EventWaits
    <2>2. seq' = seq /\ calls <= calls' /\ events <= events' /\ answer' = answer
      BY <1>4 DEF Unnumbered
    <2>3. seq' <= calls' + events' + Errors' - EventWaits'
      <3>1. seq <= calls + events + Errors - EventWaits
        BY <1>b
      <3>2. calls <= calls' /\ events <= events' /\ seq' = seq
        BY <2>2
      <3>3. \A s, c, e, r, w, c1, e1, r1, w1 \in Int :
              s <= c + e + r - w /\ c <= c1 /\ e <= e1 /\ r <= r1 /\ w1 <= w => s <= c1 + e1 + r1 - w1
        OBVIOUS
      <3>4. seq <= calls' + events' + Errors' - EventWaits'
        BY <1>e, <1>3, <2>1, <3>1, <3>2, <3>3, Zenon
      <3> QED BY <3>2, <3>4, Zenon
    <2>4. ASSUME NEW p, p.seq \in Nat, Made(p) PROVE Made(p)'
      BY <1>1, <1>4, <2>4, MadeStays DEF Made, Unnumbered
    <2>5. Made(port)'
      <3>1. CASE port' = port
        <4>1. \A p : p = port => Made(p)'
          BY <1>2, <1>a, <1>b, <2>4
        <4> QED BY <3>1, <4>1 DEF Made
      <3>2. CASE port' = NoPacket
        BY <1>c, <3>2 DEF Made
      <3> QED BY <1>4, <3>1, <3>2 DEF Unnumbered
    <2>6. \A i \in 1..Len(todo') : Made(todo[i])'
      <3>1. CASE todo' = todo
        <4>1. \A i \in 1..Len(todo) : Made(todo[i]) /\ todo[i].seq \in Nat
          BY <1>2, <1>a, <1>b
        <4>2. \A p : p.seq \in Nat /\ Made(p) => Made(p)'
          BY <2>4
        <4> QED BY <3>1, <4>1, <4>2 DEF Made
      <3>2. CASE todo' = <<>>
        BY <3>2
      <3> QED BY <1>4, <3>1, <3>2 DEF Unnumbered
    <2> QED BY <2>2, <2>3, <2>5, <2>6 DEF SeqInv, ReplyIsMine
  \* The parts that the other steps share.
  <1>f. /\ \A p : p.seq \in Nat /\ Made(p) /\ (seq' = seq + 1 \/ (UNCHANGED seq /\ pc' \notin {"await", "fetch"})
                                               \/ UNCHANGED <<seq, cmd, pc>>) => Made(p)'
        /\ \A i \in 1..Len(todo) : todo[i].seq \in Nat /\ Made(todo[i])
        /\ port.seq \in Nat /\ Made(port)
    <2>1. ASSUME NEW p, p.seq \in Nat, Made(p),
                 \/ seq' = seq + 1
                 \/ UNCHANGED seq /\ pc' \notin {"await", "fetch"}
                 \/ UNCHANGED <<seq, cmd, pc>>
          PROVE  Made(p)'
      BY <1>1, <2>1, MadeStays DEF Made
    <2> QED BY <1>2, <1>a, <1>b, <2>1
  <1>g. seq <= calls + events + Errors - EventWaits
    BY <1>b
  <1>5. CASE CardReplies
    <2>1. /\ UNCHANGED <<seq, cmd, pc, calls, events, faults, answer>> /\ port = NoPacket
          /\ todo # <<>> /\ port' = Head(todo) /\ todo' = Tail(todo)
      BY <1>5 DEF CardReplies, host, count
    <2>2. 1 \in 1..Len(todo) /\ port' = todo[1]
      BY <1>2, <2>1 DEF Places
    <2>3. EventWaits = 0 /\ EventWaits' = 0
      <3>1. port'.kind = "reply"
        BY <1>2, <1>a, <2>2
      <3> QED BY <1>d, <2>1, <3>1 DEF EventWaits
    <2>4. \A p : p = todo[1] => Made(p)'
      BY <1>f, <2>1, <2>2
    <2>5. Made(port)'
      BY <2>2, <2>4 DEF Made
    <2>6. \A i \in 1..Len(todo') : i + 1 \in 1..Len(todo) /\ todo'[i] = todo[i + 1]
      BY <2>1 DEF Places
    <2>7. \A i \in 1..Len(todo') : Made(todo[i])'
      <3>1. \A i \in 1..Len(todo) : \A p : p = todo[i] => Made(p)'
        BY <1>f, <2>1
      <3> QED BY <2>6, <3>1 DEF Made
    <2>8. seq' <= calls' + events' + Errors' - EventWaits'
      <3>1. Errors' = Errors
        BY <2>1 DEF Errors
      <3> QED BY <1>g, <2>1, <2>3, <3>1, Zenon
    <2> QED BY <2>1, <2>5, <2>7, <2>8 DEF SeqInv, ReplyIsMine
  <1>6. CASE CardRaisesEvent
    <2>1. /\ UNCHANGED <<seq, cmd, pc, calls, faults, answer, todo>> /\ port = NoPacket
          /\ port' = Packet("event", "none", 0, 0) /\ events' = events + 1
      BY <1>6 DEF CardRaisesEvent, AnEvent, host
    <2>2. EventWaits = 0 /\ EventWaits' = 1 /\ Made(port)'
      BY <1>d, <2>1 DEF EventWaits, Packet, Made
    <2>3. \A i \in 1..Len(todo') : Made(todo[i])'
      <3>1. \A i \in 1..Len(todo) : \A p : p = todo[i] => Made(p)'
        BY <1>f, <2>1
      <3> QED BY <2>1, <3>1 DEF Made
    <2>4. seq' <= calls' + events' + Errors' - EventWaits'
      <3>1. Errors' = Errors
        BY <2>1 DEF Errors
      <3>2. \A s, c, e, r \in Int : s <= c + e + r - 0 => s <= c + (e + 1) + r - 1
        OBVIOUS
      <3>3. seq <= calls + events + Errors - 0
        BY <1>g, <2>2, Zenon
      <3>4. seq <= calls + (events + 1) + Errors - 1
        BY <1>e, <3>2, <3>3, Zenon
      <3> QED BY <2>1, <2>2, <3>1, <3>4, Zenon
    <2> QED BY <2>1, <2>2, <2>3, <2>4 DEF SeqInv, ReplyIsMine
  <1>7. CASE CmdNotSent
    <2>1. /\ seq' = (seq + 1) % SeqMod /\ UNCHANGED <<cmd, pc, calls, events, answer, todo, port>>
          /\ "error" \notin faults /\ "error" \in faults'
      BY <1>7 DEF CmdNotSent, BusError, FaultOnly, Fault, card
    <2>2. Errors = 0 /\ Errors' = 1 /\ EventWaits' = EventWaits
      BY <2>1 DEF Errors, EventWaits
    <2>3. seq <= calls + events + 0 - EventWaits
      BY <1>g, <2>2, Zenon
    <2>4. seq + 1 <= MaxCalls + MaxEvents + 1 /\ seq + 1 <= calls + events + 1 - EventWaits
      <3>1. EventWaits >= 0 /\ calls <= MaxCalls /\ events <= MaxEvents /\ MaxCalls \in Int /\ MaxEvents \in Int
        BY <1>1 DEF SeqNumbers
      <3> QED BY <1>e, <2>3, <3>1
    <2>5. seq' = seq + 1
      BY <1>1, <2>1, <2>4, SeqNext
    <2>6. seq' <= calls' + events' + Errors' - EventWaits'
      BY <2>1, <2>2, <2>4, <2>5, Zenon
    <2>7. Made(port)' /\ \A i \in 1..Len(todo') : Made(todo[i])'
      <3>1. \A p : p = port => Made(p)'
        BY <1>f, <2>5
      <3>2. \A i \in 1..Len(todo) : \A p : p = todo[i] => Made(p)'
        BY <1>f, <2>5
      <3> QED BY <2>1, <3>1, <3>2 DEF Made
    <2> QED BY <2>1, <2>6, <2>7 DEF SeqInv, ReplyIsMine
  <1>8. CASE PortTaken
    <2>1. /\ UNCHANGED <<cmd, calls, events, faults, answer>> /\ port' = NoPacket /\ pc' = "idle"
          /\ \/ /\ port.kind = "event" /\ seq' = (seq + 1) % SeqMod
                /\ todo' = Append(todo, Packet("reply", "PS", seq', 0))
             \/ UNCHANGED <<seq, todo>>
      BY <1>8 DEF PortTaken, PassEnds, Return, SleepConfirm, count
    <2>2. EventWaits' = 0 /\ Errors' = Errors /\ Made(port)'
      BY <1>c, <1>d, <2>1 DEF EventWaits, Errors, Made
    <2>3. CASE UNCHANGED <<seq, todo>>
      <3>1. seq' <= calls' + events' + Errors' - EventWaits'
        <4>1. EventWaits >= 0
          BY <1>1 DEF SeqNumbers
        <4>2. \A s, c, e, r, w \in Int : s <= c + e + r - w /\ w >= 0 => s <= c + e + r - 0
          OBVIOUS
        <4>3. seq <= calls + events + Errors - 0
          BY <1>e, <1>g, <4>1, <4>2, Zenon
        <4> QED BY <2>1, <2>2, <2>3, <4>3, Zenon
      <3>2. \A i \in 1..Len(todo) : \A p : p = todo[i] => Made(p)'
        BY <1>f, <2>1, <2>3
      <3>3. \A i \in 1..Len(todo') : Made(todo[i])'
        BY <2>3, <3>2 DEF Made
      <3> QED BY <2>1, <2>2, <3>1, <3>3 DEF SeqInv, ReplyIsMine
    <2>4. CASE /\ port.kind = "event" /\ seq' = (seq + 1) % SeqMod
               /\ todo' = Append(todo, Packet("reply", "PS", seq', 0))
      <3>1. EventWaits = 1
        BY <2>4 DEF EventWaits
      <3>2. seq + 1 <= calls + events + Errors - 0
        <4>1. seq <= calls + events + Errors - 1
          BY <1>g, <3>1, Zenon
        <4> QED BY <1>e, <4>1
      <3>3. seq + 1 <= MaxCalls + MaxEvents + 1
        <4>1. Errors <= 1 /\ calls <= MaxCalls /\ events <= MaxEvents /\ MaxCalls \in Int /\ MaxEvents \in Int
          BY <1>1 DEF SeqNumbers
        <4> QED BY <1>e, <3>2, <4>1
      <3>4. seq' = seq + 1
        BY <1>1, <2>4, <3>3, SeqNext
      <3>5. seq' <= calls' + events' + Errors' - EventWaits'
        BY <2>1, <2>2, <3>2, <3>4, Zenon
      <3>6. \A i \in 1..Len(todo) : \A p : p = todo[i] => Made(p)'
        BY <1>f, <3>4
      <3>7. /\ Len(todo') = Len(todo) + 1 /\ \A i \in 1..Len(todo) : todo'[i] = todo[i]
            /\ todo'[Len(todo) + 1] = Packet("reply", "PS", seq', 0)
        BY <2>4 DEF Places
      <3>8. \A p : p = Packet("reply", "PS", seq', 0) => Made(p)'
        BY <1>e, <2>1 DEF Made, Packet
      <3>9. \A i \in 1..Len(todo') : i \in 1..Len(todo) \/ i = Len(todo) + 1
        BY <1>2, <3>7
      <3>10. \A i \in 1..Len(todo') : Made(todo[i])'
        BY <3>6, <3>7, <3>8, <3>9 DEF Made
      <3> QED BY <2>1, <2>2, <3>5, <3>10 DEF SeqInv, ReplyIsMine
    <2> QED BY <2>1, <2>3, <2>4
  <1>9. CASE Fetched
    <2>1. /\ UNCHANGED <<seq, calls, events, faults, todo>> /\ port' = NoPacket
          /\ \/ pc' = "idle"
             \/ pc' = "await" /\ pc = "fetch" /\ UNCHANGED cmd
          /\ \/ UNCHANGED answer
             \/ IsAnswer(port) /\ pc = "fetch" /\ answer' = <<cmd.for, port.for>>
      BY <1>9 DEF Fetched, Return, count
    <2>2. ReplyIsMine'
      BY <1>b, <2>1 DEF ReplyIsMine, IsAnswer, Made
    <2>3. EventWaits' = 0 /\ Errors' = Errors /\ Made(port)'
      BY <1>c, <1>d, <2>1 DEF EventWaits, Errors, Made
    <2>4. seq' <= calls' + events' + Errors' - EventWaits'
      <3>1. EventWaits >= 0
        BY <1>1 DEF SeqNumbers
      <3>2. \A s, c, e, r, w \in Int : s <= c + e + r - w /\ w >= 0 => s <= c + e + r - 0
        OBVIOUS
      <3>3. seq <= calls + events + Errors - 0
        BY <1>e, <1>g, <3>1, <3>2, Zenon
      <3> QED BY <2>1, <2>3, <3>3, Zenon
    <2>5. ASSUME NEW p, p.seq \in Nat, Made(p) PROVE Made(p)'
      BY <1>1, <2>1, <2>5, MadeStays DEF Made
    <2>6. \A i \in 1..Len(todo') : Made(todo[i])'
      <3>1. \A i \in 1..Len(todo) : \A p : p = todo[i] => Made(p)'
        BY <1>f, <2>5
      <3> QED BY <2>1, <3>1 DEF Made
    <2> QED BY <2>2, <2>3, <2>4, <2>6 DEF SeqInv
  <1>10. ASSUME NEW id \in CmdIds, CmdSent(id) PROVE SeqInv' /\ ReplyIsMine'
    <2>1. /\ calls < MaxCalls /\ calls' = calls + 1 /\ UNCHANGED <<port, events, faults, answer>>
          /\ seq' = (seq + 1) % SeqMod /\ cmd' = [id |-> id, for |-> calls']
          /\ todo' = Append(todo, Packet("reply", id, seq', calls'))
      BY <1>10 DEF CmdSent, Call
    <2>2. EventWaits' = EventWaits /\ Errors' = Errors
      BY <2>1 DEF EventWaits, Errors
    <2>3. seq + 1 <= (calls + 1) + events + Errors - EventWaits
      BY <1>e, <1>g
    <2>4. seq + 1 <= MaxCalls + MaxEvents + 1
      <3>1. /\ Errors <= 1 /\ EventWaits >= 0 /\ events <= MaxEvents
            /\ MaxCalls \in Int /\ MaxEvents \in Int
        BY <1>1 DEF SeqNumbers
      <3> QED BY <1>e, <2>1, <2>3, <3>1
    <2>5. seq' = seq + 1
      BY <1>1, <2>1, <2>4, SeqNext
    <2>6. seq' <= calls' + events' + Errors' - EventWaits'
      BY <2>1, <2>2, <2>3, <2>5, Zenon
    <2>7. (\A p : p = port => Made(p)') /\ \A i \in 1..Len(todo) : \A p : p = todo[i] => Made(p)'
      BY <1>f, <2>5
    <2>8. /\ Len(todo') = Len(todo) + 1 /\ \A i \in 1..Len(todo) : todo'[i] = todo[i]
          /\ todo'[Len(todo) + 1] = Packet("reply", id, seq', calls')
      BY <2>1 DEF Places
    <2>9. \A p : p = Packet("reply", id, seq', calls') => Made(p)'
      BY <1>e, <2>1 DEF Made, Packet
    <2>10. \A i \in 1..Len(todo') : i \in 1..Len(todo) \/ i = Len(todo) + 1
      BY <1>2, <2>8
    <2>11. \A i \in 1..Len(todo') : Made(todo[i])'
      BY <2>7, <2>8, <2>9, <2>10 DEF Made
    <2>12. Made(port)'
      BY <2>1, <2>7 DEF Made
    <2> QED BY <2>1, <2>6, <2>11, <2>12 DEF SeqInv, ReplyIsMine
  <1> QED BY <1>4, <1>5, <1>6, <1>7, <1>8, <1>9, <1>10, NumberedSteps

\* waitCmdResp(): the reply that counts as a command's answer was made for that command, with
\* replies as late as they like and acknowledgements of sleep confirmations between them, as long
\* as the calls and events are fewer than the sequence numbers: a reply as late as 256 commands
\* would be taken for another's.
THEOREM RepliesMine == NoWrap => (Spec => []ReplyIsMine)
  <1> SUFFICES ASSUME NoWrap PROVE Spec => []ReplyIsMine
    OBVIOUS
  <1>1. Init => SeqInv /\ ReplyIsMine
    BY DEF Init, SeqInv, ReplyIsMine, Errors, EventWaits, Made, NoPacket, Packet
  <1>2. IInv /\ IInv' /\ SeqInv /\ ReplyIsMine /\ [Next]_vars => (SeqInv /\ ReplyIsMine)'
    BY SeqInvStep DEF IInv
  <1> QED BY <1>1, <1>2, InvAlways, PTL DEF Spec

=============================================================================
