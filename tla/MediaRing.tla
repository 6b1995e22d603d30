----------------------------- MODULE MediaRing ------------------------------
(***************************************************************************)
(* MediaPacketizer: the ring of SBC frames between the audio interrupt,    *)
(* which pushes and drops the oldest frame of a full ring, and the main    *)
(* loop, which gathers a packet of frames, sends it and moves the read     *)
(* index.  Both write m_rd.  The interrupt may run between any two steps   *)
(* of drain(); push() itself is not interrupted.  Frames are numbered in   *)
(* the order they are pushed; all have the length the packet size was      *)
(* computed from.                                                          *)
(***************************************************************************)
EXTENDS Integers, FiniteSets, Sequences

CONSTANTS
  RING,       \* slots of the ring, one of which stays empty
  PerPkt,     \* m_perPkt: frames that fit a packet
  MaxFrames   \* bound: frames the interrupt pushes

ASSUME RingAssumption ==
  /\ RING \in Nat /\ RING >= 2
  /\ PerPkt \in Nat \ {0} /\ MaxFrames \in Nat

\* begin() caps m_perPkt at 8, and RING is 65.
ASSUME BatchAssumption == PerPkt < RING

VARIABLES
  wr, rd,     \* m_wr and m_rd
  buf,        \* m_buf: the frame in each slot, 0 if none yet
  pushed,     \* m_frames: the newest frame
  drops,      \* m_drops
  pc,         \* the next step of drain(); "idle" is its loop test, or outside it
  rd0, cur,   \* drain()'s locals: where it started to gather, its next slot
  pkt,        \* the frames gathered
  sent        \* every frame the sink took, in order

drainVars == <<pc, rd0, cur, pkt, sent>>
vars == <<wr, rd, buf, pushed, drops, pc, rd0, cur, pkt, sent>>

Slots == 0..RING - 1

Init ==
  /\ wr = 0 /\ rd = 0 /\ buf = [s \in Slots |-> 0]
  /\ pushed = 0 /\ drops = 0
  /\ pc = "idle" /\ rd0 = 0 /\ cur = 0 /\ pkt = <<>> /\ sent = <<>>

Succ(i) == (i + 1) % RING

\* count(): the frames queued.
Count == (wr - rd) % RING
Full  == Succ(wr) = rd

\* Mutant: the commit overwrites a concurrent drop.
MutantAdvanceClobbers(c, start, n) == (start + n) % RING

\* advanceRd(): forward to start + n, unless the interrupt is already past it.
AdvanceRd(c, start, n) ==
  IF (c - start) % RING >= n THEN c ELSE (start + n) % RING

\* push(), in the audio interrupt.
Push ==
  /\ pushed < MaxFrames
  /\ rd' = IF Full THEN Succ(rd) ELSE rd
  /\ drops' = IF Full THEN drops + 1 ELSE drops
  /\ buf' = [buf EXCEPT ![wr] = pushed + 1]
  /\ wr' = Succ(wr)
  /\ pushed' = pushed + 1
  /\ UNCHANGED drainVars

\* Mutant: a packet is only started when it can be filled.
MutantStartFull ==
  /\ pc = "idle" /\ Count >= PerPkt
  /\ pc' = "gather" /\ rd0' = rd /\ cur' = rd /\ pkt' = <<>>
  /\ UNCHANGED <<wr, rd, buf, pushed, drops, sent>>

\* drain(): frames are queued; a packet is started at the read index.
StartPacket ==
  /\ pc = "idle" /\ wr # rd
  /\ pc' = "gather" /\ rd0' = rd /\ cur' = rd /\ pkt' = <<>>
  /\ UNCHANGED <<wr, rd, buf, pushed, drops, sent>>

\* One frame is copied into the packet.
Gather ==
  /\ pc = "gather" /\ Len(pkt) < PerPkt /\ cur # wr
  /\ pkt' = Append(pkt, buf[cur])
  /\ cur' = Succ(cur)
  /\ UNCHANGED <<wr, rd, buf, pushed, drops, pc, rd0, sent>>

\* The packet is full or the ring is read out; drain() gives up on an empty packet.
Gathered ==
  /\ pc = "gather" /\ (Len(pkt) = PerPkt \/ cur = wr)
  /\ pc' = IF pkt = <<>> THEN "idle" ELSE "send"
  /\ UNCHANGED <<wr, rd, buf, pushed, drops, rd0, cur, pkt, sent>>

\* The sink takes the packet ...
Send ==
  /\ pc = "send"
  /\ sent' = sent \o pkt
  /\ pc' = "commit"
  /\ UNCHANGED <<wr, rd, buf, pushed, drops, rd0, cur, pkt>>

\* Mutant: a refused packet is committed all the same.
MutantRefusedCommits ==
  /\ pc = "send"
  /\ pc' = "commit"
  /\ UNCHANGED <<wr, rd, buf, pushed, drops, rd0, cur, pkt, sent>>

\* ... or refuses it, and the frames stay queued for the next drain().
Refuse ==
  /\ pc = "send"
  /\ pc' = "idle"
  /\ UNCHANGED <<wr, rd, buf, pushed, drops, rd0, cur, pkt, sent>>

\* The commit, with interrupts off.
Commit ==
  /\ pc = "commit"
  /\ rd' = AdvanceRd(rd, rd0, Len(pkt))
  /\ pc' = "idle"
  /\ UNCHANGED <<wr, buf, pushed, drops, rd0, cur, pkt, sent>>

Drain == StartPacket \/ Gather \/ Gathered \/ Send \/ Refuse \/ Commit
Next == Push \/ Drain

Spec == Init /\ [][Next]_vars

\* The main loop keeps calling drain(), and the sink takes a packet now and then.
FairSpec ==
  /\ Spec
  /\ WF_vars(StartPacket) /\ WF_vars(Gather) /\ WF_vars(Gathered) /\ WF_vars(Commit)
  /\ SF_vars(Send)

-----------------------------------------------------------------------------
\* The indices stay in the ring, a packet never exceeds its size.
TypeOK ==
  /\ wr \in Slots /\ rd \in Slots /\ rd0 \in Slots /\ cur \in Slots
  /\ buf \in [Slots -> 0..MaxFrames]
  /\ pushed \in 0..MaxFrames /\ drops \in 0..MaxFrames
  /\ pc \in {"idle", "gather", "send", "commit"}
  /\ pkt \in Seq(1..MaxFrames) /\ Len(pkt) <= PerPkt
  /\ sent \in Seq(1..MaxFrames)

\* The frames in the ring.
Queued == {buf[(rd + i) % RING] : i \in 0..Count - 1}

\* drops() is an upper bound of the frames the peer never gets: a frame that is
\* neither queued nor sent was counted when it was dropped.  (This holds even if drain()
\* stalls for a full lap of the ring, where advanceRd cannot tell how far rd has moved.)
LossesCounted ==
  Cardinality((1..pushed) \ (Queued \cup {sent[i] : i \in 1..Len(sent)})) <= drops

\* While nothing is dropped, the sink gets every frame once and in order.
InOrderWithoutDrops ==
  drops = 0 => \A i \in 1..Len(sent) : sent[i] = i

\* drain(): when the music stops and the sink takes packets, the ring empties.
RingEmpties == <>[](wr = rd)
=============================================================================
