------------------------------- MODULE Iw416 -------------------------------
(***************************************************************************)
(* The receive half of the IW416 Wi-Fi driver (src/iw416/Iw416.cpp): how   *)
(* one single-threaded host and a card that never waits for it share the   *)
(* clear-on-read interrupt register, the ring of upload slots and the      *)
(* one-packet command port.                                                *)
(*                                                                         *)
(* Six paths read HOST_INT_STATUS: the service pass (before and after its  *)
(* drain), the wait for a command's reply, the wait of a data send, the    *)
(* monitor read and the connect watcher.  A read takes the bits out of the *)
(* card, and the firmware never raises a bit twice for the same packet, so *)
(* each path leaves what it does not service in m_intPending for another.  *)
(* A step of the model lies between two accesses to the card, because the  *)
(* card may act there.                                                     *)
(***************************************************************************)
EXTENDS Integers, Sequences, FiniteSets, FiniteSetsExt

CONSTANTS
  NumPorts,     \* MAX_DATA_PORTS: slots of the upload ring (32 in the driver)
  AggrLimit,    \* AGGR_PKT_LIMIT, or 1 with aggregation off
  Polls,        \* reads of HOST_INT_STATUS before a wait times out
  Tries,        \* packets waitCmdResp() looks at (4)
  SeqMod,       \* sequence numbers (256)
  NetPasses,    \* RX_BITMAP_CHECK_PASSES (64)
  CmdIds,       \* command ids; "PS" is CMD_PS_MODE_ENH
  MaxUploads, MaxCalls, MaxEvents, MaxFaults    \* bounds on what happens

ASSUME ConstantsOK ==
  /\ {NumPorts, AggrLimit, Polls, Tries, SeqMod, NetPasses} \subseteq Nat \ {0}
  /\ {MaxUploads, MaxCalls, MaxEvents, MaxFaults} \subseteq Nat

Ports == 0..(NumPorts - 1)
Packets == 1..MaxUploads

\* HOST_INT_UP_LD, CMD_PORT_UPLD and HOST_INT_DN_LD.
Bits == {"UP", "CMD", "DN"}
Serviced == {"UP", "CMD"}

VARIABLES
  \* The card.
  bitmap,     \* RD_BITMAP: the slots it offers
  held,       \* the packet in each slot, 0 if none (its RD_LEN is then 0)
  fwPort,     \* the slot of its next upload
  hostInt,    \* HOST_INT_STATUS
  port,       \* the packet in the command port
  todo,       \* commands received and not answered yet
  \* The host.
  pc,         \* where the driver is between two accesses to the card
  pend,       \* m_intPending
  rxPort,     \* m_rxPort
  quiet,      \* m_svcQuietPasses
  pass,       \* the service pass's locals: st, the register snapshot mp, ...
  seq,        \* m_seq and m_lastSentSeq
  cmd,        \* the command being waited for
  polls, tries,
  psEnabled,  \* m_psEnabled
  intMode, cint, armed,   \* m_intMode; SdioHost's m_cardIntFlag, m_cardIntArmed
  \* What happened.
  read,       \* the packets read out of the ring, in the order they were read
  told,       \* the packets whose upload raised HOST_INT_UP_LD
  answer,     \* the last reply accepted: for which command, made for which
  uploads, calls, events,   \* how many there were
  faults      \* what has gone wrong, each once at most

card == <<bitmap, held, fwPort, hostInt, port, todo>>
ring == <<bitmap, held, fwPort>>
host == <<cmd, polls, tries, seq, psEnabled, answer>>
irq == <<intMode, cint, armed>>
count == <<uploads, calls, events, faults>>
vars == <<card, pc, pend, rxPort, quiet, pass, host, irq, read, told, count>>

Packet(kind, id, n, for) == [kind |-> kind, id |-> id, seq |-> n, for |-> for]
NoPacket == Packet("none", "none", 0, 0)
NoCmd == [id |-> "none", for |-> 0]
NoPass == [st |-> {}, bits |-> {}, lens |-> {}, cmdLen |-> FALSE, fired |-> FALSE]

\* A call into the driver, an event of the firmware, something that goes wrong.
Call == calls < MaxCalls /\ calls' = calls + 1 /\ UNCHANGED <<uploads, events, faults>>
AnEvent == events < MaxEvents /\ events' = events + 1 /\ UNCHANGED <<uploads, calls, faults>>
Fault(kind) == /\ kind \notin faults /\ Cardinality(faults) < MaxFaults
               /\ faults' = faults \cup {kind}
FaultOnly(kind) == Fault(kind) /\ UNCHANGED <<uploads, calls, events>>
\* An SDIO command that fails: time-out, or a CRC error on the answer.
BusError == FaultOnly("error")

Init ==
  /\ bitmap = {} /\ held = [p \in Ports |-> 0] /\ fwPort = 0
  /\ hostInt = {} /\ port = NoPacket /\ todo = <<>>
  /\ pc = "idle" /\ pend = {} /\ rxPort = 0 /\ quiet = 0 /\ pass = NoPass
  /\ seq = 0 /\ cmd = NoCmd /\ polls = 0 /\ tries = 0 /\ psEnabled \in BOOLEAN
  /\ intMode \in BOOLEAN /\ cint = FALSE /\ armed = intMode
  /\ read = <<>> /\ told = {} /\ answer = <<0, 0>>
  /\ uploads = 0 /\ calls = 0 /\ events = 0 /\ faults = {}

-----------------------------------------------------------------------------
(* The card.  It is external: what it may do is taken from what the driver   *)
(* defends against.                                                          *)

Raise(b) == hostInt' = hostInt \cup {b}

\* A data packet goes into the next slot of the ring, once that is empty.  The
\* firmware has been seen to offer one without raising the interrupt.
CardUploads ==
  /\ held[fwPort] = 0
  /\ LET n == uploads + 1 IN
     /\ n <= MaxUploads
     /\ uploads' = n
     /\ held' = [held EXCEPT ![fwPort] = n]
     /\ bitmap' = bitmap \cup {fwPort}
     /\ fwPort' = (fwPort + 1) % NumPorts
     /\ \/ /\ Raise("UP")
           /\ told' = told \cup {n}
           /\ UNCHANGED faults
        \/ Fault("silent") /\ UNCHANGED <<hostInt, told>>
  /\ UNCHANGED <<calls, events, port, todo, pc, pend, rxPort, quiet, pass, host, irq, read>>

\* Commands are answered in order; the command port holds one packet.
CardReplies ==
  /\ todo # <<>> /\ port = NoPacket
  /\ port' = Head(todo) /\ todo' = Tail(todo)
  /\ Raise("CMD")
  /\ UNCHANGED <<ring, pc, pend, rxPort, quiet, pass, host, irq, read, told, count>>

CardRaisesEvent ==
  /\ port = NoPacket
  /\ port' = Packet("event", "none", 0, 0)
  /\ Raise("CMD")
  /\ AnEvent
  /\ UNCHANGED <<ring, todo, pc, pend, rxPort, quiet, pass, host, irq, read, told>>

\* The firmware starts its ring over under a host that keeps its position, as a
\* reconnection without a download may do.
CardRestartsRing ==
  /\ fwPort # 0 /\ held = [p \in Ports |-> 0]
  /\ fwPort' = 0
  /\ FaultOnly("restart")
  /\ UNCHANGED <<bitmap, held, hostInt, port, todo, pc, pend, rxPort, quiet, pass,
                 host, irq, read, told>>

\* A slot that holds nothing is offered, for a while.
CardOffersEmptySlot(p) ==
  /\ held[p] = 0 /\ p \notin bitmap
  /\ bitmap' = bitmap \cup {p}
  /\ FaultOnly("stale")
  /\ UNCHANGED <<held, fwPort, hostInt, port, todo, pc, pend, rxPort, quiet, pass,
                 host, irq, read, told>>

CardWithdraws ==
  /\ \E p \in bitmap : held[p] = 0
  /\ bitmap' = {p \in bitmap : held[p] # 0}
  /\ UNCHANGED <<held, fwPort, hostInt, port, todo, pc, pend, rxPort, quiet, pass,
                 host, irq, read, told, count>>

\* DAT1 is a level: while a cause stands and signalling is armed, the interrupt
\* handler runs, masks it and leaves a flag (SdioHost::cardIsr).
CardIsr ==
  /\ armed /\ hostInt # {}
  /\ cint' = TRUE /\ armed' = FALSE
  /\ UNCHANGED <<card, pc, pend, rxPort, quiet, pass, host, intMode, read, told, count>>

-----------------------------------------------------------------------------
(* Reading HOST_INT_STATUS.                                                  *)

\* latchIntBits(): the bits anybody services are kept until they are serviced.
LatchIntBits(bits) == pend \cup (bits \cap Serviced)

\* A successful read empties the register and keeps its bits.
ReadStatus == /\ pend' = LatchIntBits(hostInt)
              /\ hostInt' = {}

\* readMpRegs() assumes the worst of a read that failed: the card may have given
\* the bits away already.
ReadMpRegsFails == /\ BusError
                   /\ pend' = LatchIntBits(Serviced)
                   /\ hostInt' \in {hostInt, {}}

\* The CMD52 of the other readers returns the error and keeps nothing.
ReadStatusFails == /\ BusError
                   /\ hostInt' \in {hostInt, {}}
                   /\ UNCHANGED pend

-----------------------------------------------------------------------------
(* Reading the ring.                                                         *)

\* MUTANT: always the lowest slot offered.
MutantStartAtLowest(offered) == IF offered = {} THEN rxPort ELSE Min(offered)

\* MUTANT: never resynchronised.
MutantStartAtOwn(offered) == rxPort

\* readRingBatch(): the host's own slot if it is offered, else the lowest slot
\* offered (the ring is resynchronised).
StartAt(offered) ==
  IF rxPort \in offered \/ offered = {} THEN rxPort ELSE Min(offered)

\* The run of consecutive slots from there that are offered and have a length:
\* it ends at the top of the ring and at the limit.
RunFrom(offered, lens, limit) ==
  LET start == StartAt(offered)
      Fits(k) == /\ start + k <= NumPorts
                 /\ \A i \in 0..(k - 1) : start + i \in offered \cap lens
  IN  Max({k \in 0..limit : Fits(k)})

\* No slot is offered, or the one to start with has no length yet.
NothingToRead(offered, lens) == RunFrom(offered, lens, 1) = 0

\* An empty ring leaves the position; a slot without a length has moved it.
RingExhausted(offered, lens) ==
  /\ NothingToRead(offered, lens)
  /\ rxPort' = StartAt(offered)

\* One CMD53 for the run: the card clears the slots it has given away.
ReadRun(offered, lens, limit) ==
  /\ ~NothingToRead(offered, lens)
  /\ LET start == StartAt(offered)
         k == RunFrom(offered, lens, limit)
         slots == {start + i : i \in 0..(k - 1)}
     IN /\ read' = read \o [i \in 1..k |-> held[start + i - 1]]
        /\ held' = [p \in Ports |-> IF p \in slots THEN 0 ELSE held[p]]
        /\ bitmap' = bitmap \ slots
        /\ pass' = [pass EXCEPT !.bits = @ \ slots]
        /\ rxPort' = (start + k) % NumPorts

\* The CMD53 failed: the position stays, whether or not the card has sent them.
ReadRunFails(offered, lens, limit) ==
  /\ ~NothingToRead(offered, lens)
  /\ BusError
  /\ rxPort' = StartAt(offered)
  /\ \/ UNCHANGED <<held, bitmap>>
     \/ LET slots == {rxPort' + i : i \in 0..(RunFrom(offered, lens, limit) - 1)}
        IN /\ held' = [p \in Ports |-> IF p \in slots THEN 0 ELSE held[p]]
           /\ bitmap' = bitmap \ slots

\* The length registers are per slot and zero for a slot that holds nothing.
Lens == {p \in Ports : held[p] # 0}

-----------------------------------------------------------------------------
(* One service pass: serviceLink() with waitMs = 0.                          *)

Return == pc' = "idle"
Fired == intMode /\ cint
NetTick == quiet + 1 >= NetPasses
\* takeCardInt(), and armCardInt() on a pass that was not asked for.
TakeCardInt == /\ cint' = (cint /\ ~intMode)
               /\ armed' = (armed \/ (intMode /\ ~Fired))

\* In interrupt mode a pass nobody asked for does not touch the bus.
ServiceQuiet ==
  /\ pc = "idle"
  /\ intMode /\ ~Fired /\ ~NetTick /\ pend = {}
  /\ TakeCardInt
  /\ quiet' = quiet + 1
  /\ UNCHANGED <<card, pc, pend, rxPort, pass, host, intMode, read, told, count>>

\* The safety net: a slot that is offered is evidence only at the host's own
\* position, or if the slot a resynchronisation would go to has a length.
NetEvidence ==
  \/ rxPort \in bitmap
  \/ bitmap # {} /\ Min(bitmap) \in Lens

\* The pass starts with one snapshot of the card's registers.
ServiceStarts ==
  /\ pc = "idle"
  /\ ~intMode \/ Fired \/ NetTick \/ pend # {}
  /\ TakeCardInt
  /\ ReadStatus
  /\ pass' = [st |-> pend', bits |-> bitmap, lens |-> Lens,
              cmdLen |-> port # NoPacket, fired |-> Fired]
  /\ LET drain == "UP" \in pend' \/ (NetTick /\ NetEvidence) IN
     /\ quiet' = IF drain \/ NetTick THEN 0 ELSE quiet + 1
     /\ pc' = IF drain THEN "drain" ELSE "port"
  /\ UNCHANGED <<ring, port, todo, rxPort, host, intMode, read, told, count>>

ServiceStartFails ==
  /\ pc = "idle"
  /\ ~intMode \/ Fired \/ NetTick \/ pend # {}
  /\ TakeCardInt
  /\ ReadMpRegsFails
  /\ UNCHANGED <<ring, port, todo, pc, rxPort, quiet, pass, host, intMode, read, told>>

\* The drain goes on, run by run, until the snapshot offers nothing more.
DrainRun ==
  /\ pc = "drain"
  /\ ReadRun(pass.bits, pass.lens, AggrLimit)
  /\ pc' = "sink"
  /\ UNCHANGED <<fwPort, hostInt, port, todo, pend, quiet, host, irq, told, count>>

DrainFails ==
  /\ pc = "drain"
  /\ ReadRunFails(pass.bits, pass.lens, AggrLimit)
  /\ pc' = "post"
  /\ UNCHANGED <<fwPort, hostInt, port, todo, pend, quiet, pass, host, irq, read, told>>

DrainDone ==
  /\ pc = "drain"
  /\ RingExhausted(pass.bits, pass.lens)
  /\ pc' = "post"
  /\ UNCHANGED <<card, pend, quiet, pass, host, irq, read, told, count>>

\* The frames of the run have been handed up; the stack may have answered one,
\* and that send reads the registers (SendReadsRegs below).
SinkReturns ==
  /\ pc = "sink"
  /\ pc' = "drain"
  /\ UNCHANGED <<card, pend, rxPort, quiet, pass, host, irq, read, told, count>>

\* MUTANT: the upload is served whatever the second read says.
MutantDrainVerified ==
  /\ pc = "post"
  /\ hostInt' = {}
  /\ pend' = LatchIntBits(hostInt) \ (pass.st \cap {"UP"})
  /\ pc' = "port"
  /\ UNCHANGED <<ring, port, todo, rxPort, quiet, pass, host, irq, read, told, count>>

\* After the drain the registers are read again: the upload is served only if
\* none was announced meanwhile and none waits at the ring's position.
Quiet == "UP" \notin hostInt /\ rxPort \notin bitmap
DrainVerified ==
  /\ pc = "post"
  /\ hostInt' = {}
  /\ pend' = LatchIntBits(hostInt) \ (IF Quiet THEN pass.st \cap {"UP"} ELSE {})
  /\ pc' = "port"
  /\ UNCHANGED <<ring, port, todo, rxPort, quiet, pass, host, irq, read, told, count>>

DrainUnverified ==
  /\ pc = "post"
  /\ ReadMpRegsFails
  /\ pc' = "port"
  /\ UNCHANGED <<ring, port, todo, rxPort, quiet, pass, host, irq, read, told>>

\* The pass is over: signalling is armed again if this pass was asked for.
PassEnds ==
  /\ Return
  /\ pass' = NoPass
  /\ armed' = (armed \/ (intMode /\ pass.fired))

\* No packet in the command port, or none whose length was in the snapshot.
PortEmpty ==
  /\ pc = "port"
  /\ "CMD" \notin pass.st \/ ~pass.cmdLen
  /\ pend' = pend \ (pass.st \cap {"CMD"})
  /\ PassEnds
  /\ UNCHANGED <<card, rxPort, quiet, host, intMode, cint, read, told, count>>

\* sendSleepConfirm(): a host command nobody waits for; its acknowledgement has
\* the id of CMD_PS_MODE_ENH and comes back through the command port.
SleepConfirm ==
  /\ seq' = (seq + 1) % SeqMod
  /\ todo' = Append(todo, Packet("reply", "PS", seq', 0))
  /\ hostInt' = hostInt \cup {"DN"}

\* The packet is taken.  A reply nobody waits for is dropped; an event may ask for
\* leave to sleep, which is given.
PortTaken ==
  /\ pc = "port"
  /\ "CMD" \in pass.st /\ pass.cmdLen
  /\ pend' = pend \ {"CMD"}
  /\ port' = NoPacket
  /\ \/ port.kind = "event" /\ psEnabled /\ SleepConfirm
     \/ UNCHANGED <<seq, todo, hostInt>>
  /\ PassEnds
  /\ UNCHANGED <<ring, rxPort, quiet, cmd, polls, tries, psEnabled, answer, intMode,
                 cint, read, told, count>>

\* A read that fails loses the packet: the command port has no ring.
PortFails ==
  /\ pc = "port"
  /\ "CMD" \in pass.st /\ pass.cmdLen
  /\ BusError
  /\ pend' = pend \ {"CMD"}
  /\ port' = NoPacket
  /\ PassEnds
  /\ UNCHANGED <<ring, hostInt, todo, rxPort, quiet, host, intMode, cint, read, told>>

\* sendDataFrameBss() waits for a transmit slot on the same registers, called by
\* the application or by the stack out of the drain.
SendReadsRegs ==
  /\ \/ pc = "idle" /\ Call /\ UNCHANGED pc
     \/ pc = "sink" /\ pc' = "drain" /\ UNCHANGED count
  /\ ReadStatus
  /\ UNCHANGED <<ring, port, todo, rxPort, quiet, pass, host, irq, read, told>>

SendReadsRegsFails ==
  /\ pc \in {"idle", "sink"}
  /\ ReadMpRegsFails
  /\ pc' = IF pc = "sink" THEN "drain" ELSE "idle"
  /\ UNCHANGED <<ring, port, todo, rxPort, quiet, pass, host, irq, read, told>>

-----------------------------------------------------------------------------
(* A host command: sendHostCmdBss(), waitCmdResp(), readHostResp().          *)

CmdSent(id) ==
  /\ pc = "idle"
  /\ Call
  /\ seq' = (seq + 1) % SeqMod
  /\ cmd' = [id |-> id, for |-> calls']
  /\ todo' = Append(todo, Packet("reply", id, seq', calls'))
  /\ Raise("DN")
  /\ polls' = 0 /\ tries' = 0
  /\ pc' = "await"
  /\ UNCHANGED <<ring, port, pend, rxPort, quiet, pass, psEnabled, answer, irq, read, told>>

\* The write failed, and the caller gives up at once.
CmdNotSent ==
  /\ pc = "idle"
  /\ BusError
  /\ seq' = (seq + 1) % SeqMod
  /\ UNCHANGED <<card, pc, pend, rxPort, quiet, pass, cmd, polls, tries, psEnabled,
                 answer, irq, read, told>>

Settled == cmd' = NoCmd /\ polls' = 0 /\ tries' = 0

\* MUTANT: the wait goes by what its own read returned.
MutantAwaitPoll ==
  /\ pc = "await"
  /\ hostInt' = {}
  /\ pend' = LatchIntBits(hostInt) \ (hostInt \cap {"CMD"})
  /\ IF "CMD" \in hostInt
     THEN pc' = "fetch" /\ UNCHANGED <<cmd, polls, tries>>
     ELSE IF polls + 1 < Polls
          THEN polls' = polls + 1 /\ UNCHANGED <<pc, cmd, tries>>
          ELSE Return /\ Settled
  /\ UNCHANGED <<ring, port, todo, rxPort, quiet, pass, seq, psEnabled, answer, irq,
                 read, told, count>>

\* One turn of readHostResp()'s loop: the flag of the command port is taken from
\* the accumulator, whoever read it out of the card.
AwaitPoll ==
  /\ pc = "await"
  /\ hostInt' = {}
  /\ IF "CMD" \in LatchIntBits(hostInt)
     THEN /\ pend' = LatchIntBits(hostInt) \ {"CMD"}
          /\ pc' = "fetch"
          /\ UNCHANGED <<cmd, polls, tries>>
     ELSE /\ pend' = LatchIntBits(hostInt)
          /\ IF polls + 1 < Polls
             THEN polls' = polls + 1 /\ UNCHANGED <<pc, cmd, tries>>
             ELSE Return /\ Settled
  /\ UNCHANGED <<ring, port, todo, rxPort, quiet, pass, seq, psEnabled, answer, irq,
                 read, told, count>>

AwaitFails ==
  /\ pc = "await"
  /\ ReadStatusFails
  /\ Return /\ Settled
  /\ UNCHANGED <<ring, port, todo, rxPort, quiet, pass, seq, psEnabled, answer, irq, read, told>>

\* MUTANT: the answer is known by its command id alone.
MutantIsAnswer(p) == p.kind = "reply" /\ p.id = cmd.id

\* waitCmdResp(): the answer has the command's id and its sequence number.
IsAnswer(p) == /\ p.kind = "reply"
               /\ p.id = cmd.id
               /\ p.seq = seq

Fetched ==
  /\ pc = "fetch" /\ port # NoPacket
  /\ port' = NoPacket
  /\ CASE IsAnswer(port) ->
            /\ answer' = <<cmd.for, port.for>>
            /\ psEnabled' = (psEnabled \/ cmd.id = "PS")
            /\ Return /\ Settled
       [] ~IsAnswer(port) /\ tries + 1 < Tries ->
            /\ pc' = "await" /\ polls' = 0 /\ tries' = tries + 1
            /\ UNCHANGED <<cmd, answer, psEnabled>>
       [] OTHER -> Return /\ Settled /\ UNCHANGED <<answer, psEnabled>>
  /\ UNCHANGED <<ring, hostInt, todo, pend, rxPort, quiet, pass, seq, irq, read, told, count>>

\* No length is published (BAD_CIS), or the read fails and loses the packet.
FetchFails ==
  /\ pc = "fetch"
  /\ IF port = NoPacket THEN UNCHANGED <<port, count>> ELSE BusError /\ port' = NoPacket
  /\ Return /\ Settled
  /\ UNCHANGED <<ring, hostInt, todo, pend, rxPort, quiet, pass, seq, psEnabled, answer,
                 irq, read, told>>

-----------------------------------------------------------------------------
(* The monitor read (readDataPacket) and the connect watcher (watchConnect). *)

CallStarts(where) ==
  /\ pc = "idle"
  /\ Call
  /\ pc' = where /\ polls' = 0
  /\ UNCHANGED <<card, pend, rxPort, quiet, pass, cmd, tries, seq, psEnabled, answer,
                 irq, read, told>>

MonitorStarts == CallStarts("monitor")
WatchStarts == CallStarts("watch")

\* The one reader that goes by its own sample: it reads one packet and serves
\* no condition to the end.
MonitorPoll ==
  /\ pc = "monitor"
  /\ ReadStatus
  /\ IF "UP" \in hostInt
     THEN pc' = "monitorTake" /\ UNCHANGED polls
     ELSE IF polls + 1 < Polls THEN polls' = polls + 1 /\ UNCHANGED pc
                               ELSE Return /\ polls' = 0
  /\ UNCHANGED <<ring, port, todo, rxPort, quiet, pass, cmd, tries, seq, psEnabled,
                 answer, irq, read, told, count>>

ReaderFails ==
  /\ pc \in {"monitor", "watch"}
  /\ ReadStatusFails
  /\ Return /\ polls' = 0 /\ pass' = NoPass
  /\ UNCHANGED <<ring, port, todo, rxPort, quiet, cmd, tries, seq, psEnabled, answer,
                 irq, read, told>>

MonitorTakes ==
  /\ pc = "monitorTake"
  /\ \/ ReadRun(bitmap, Lens, 1) /\ UNCHANGED count
     \/ RingExhausted(bitmap, Lens) /\ UNCHANGED <<held, bitmap, pass, read, count>>
     \/ ReadRunFails(bitmap, Lens, 1) /\ UNCHANGED <<pass, read>>
  /\ Return /\ polls' = 0
  /\ UNCHANGED <<fwPort, hostInt, port, todo, pend, quiet, cmd, tries, seq, psEnabled,
                 answer, irq, told>>

\* The watcher serves what the accumulator holds, as the service pass does.
WatchPoll ==
  /\ pc = "watch"
  /\ ReadStatus
  /\ pass' = [NoPass EXCEPT !.st = pend']
  /\ pc' = IF "UP" \in pend' THEN "watchDrain" ELSE "watchPort"
  /\ UNCHANGED <<ring, port, todo, rxPort, quiet, host, irq, read, told, count>>

WatchDrainPacket ==
  /\ pc = "watchDrain"
  /\ ReadRun(bitmap, Lens, 1)
  /\ UNCHANGED <<fwPort, hostInt, port, todo, pc, pend, quiet, host, irq, told, count>>

\* Drained to exhaustion, or a read failed: the condition counts as served.
WatchDrained ==
  /\ pc = "watchDrain"
  /\ \/ RingExhausted(bitmap, Lens) /\ UNCHANGED <<held, bitmap, count>>
     \/ ReadRunFails(bitmap, Lens, 1)
  /\ pend' = pend \ {"UP"}
  /\ pc' = "watchPort"
  /\ UNCHANGED <<fwPort, hostInt, port, todo, quiet, pass, host, irq, read, told>>

\* One look at the command port; the window is over, or a connection that was
\* dropped again has been seen.
WatchPort ==
  /\ pc = "watchPort"
  /\ LET look == "CMD" \in pass.st
         over == polls + 1 = Polls
     IN /\ pend' = IF look THEN pend \ {"CMD"} ELSE pend
        /\ port' = IF look THEN NoPacket ELSE port
        /\ pass' = NoPass
        /\ \/ ~over /\ pc' = "watch" /\ polls' = polls + 1
           \/ over /\ Return /\ polls' = 0
           \/ look /\ port.kind = "event" /\ Return /\ polls' = 0
  /\ UNCHANGED <<ring, hostInt, todo, rxPort, quiet, cmd, tries, seq, psEnabled, answer,
                 irq, read, told, count>>

-----------------------------------------------------------------------------
(* Recovery: downloadFirmware() starts the card and the host's position over. *)

Redownload ==
  /\ pc = "idle"
  /\ Call
  /\ bitmap' = {} /\ held' = [p \in Ports |-> 0] /\ fwPort' = 0
  /\ hostInt' = {} /\ port' = NoPacket /\ todo' = <<>>
  /\ rxPort' = 0 /\ pend' = {} /\ quiet' = 0
  /\ UNCHANGED <<pc, pass, host, irq, read, told>>

-----------------------------------------------------------------------------
Card ==
  \/ CardUploads \/ CardReplies \/ CardRaisesEvent
  \/ CardRestartsRing \/ \E p \in Ports : CardOffersEmptySlot(p)
  \/ CardWithdraws \/ CardIsr

\* What the driver does by itself once it has been called, and the call every
\* turn of the application's loop makes.
Driver ==
  \/ ServiceQuiet \/ ServiceStarts \/ DrainRun \/ DrainDone \/ SinkReturns
  \/ DrainVerified \/ PortEmpty \/ PortTaken
  \/ AwaitPoll \/ Fetched \/ FetchFails
  \/ MonitorPoll \/ MonitorTakes
  \/ WatchPoll \/ WatchDrainPacket \/ WatchDrained \/ WatchPort

Failures ==
  \/ ServiceStartFails \/ DrainFails \/ DrainUnverified \/ PortFails
  \/ SendReadsRegsFails \/ CmdNotSent \/ AwaitFails \/ ReaderFails

Calls ==
  \/ \E id \in CmdIds : CmdSent(id)
  \/ SendReadsRegs \/ MonitorStarts \/ WatchStarts \/ Redownload

Next == Card \/ Driver \/ Failures \/ Calls

Spec == Init /\ [][Next]_vars

\* Each turn of the application's loop polls the interface, and a call once made
\* runs to its end.  Of the card nothing is assumed but that a slot it offers in
\* error is withdrawn; not even that DAT1 ever fires.
FairSpec == Spec /\ WF_vars(Driver) /\ WF_vars(CardWithdraws)

-----------------------------------------------------------------------------
(* Properties.                                                               *)

PacketsSent == [kind : {"none", "reply", "event"}, id : CmdIds \cup {"none", "PS"},
                seq : 0..(SeqMod - 1), for : 0..MaxCalls]

\* Types, and the locals a finished pass or wait leaves behind.
TypeOK ==
  /\ bitmap \subseteq Ports /\ held \in [Ports -> 0..MaxUploads] /\ fwPort \in Ports
  /\ hostInt \subseteq Bits /\ port \in PacketsSent /\ todo \in Seq(PacketsSent)
  /\ pc \in {"idle", "drain", "sink", "post", "port", "await", "fetch", "monitor",
             "monitorTake", "watch", "watchDrain", "watchPort"}
  /\ pend \subseteq Serviced /\ rxPort \in Ports /\ quiet \in 0..NetPasses
  /\ pass \in [st : SUBSET Serviced, bits : SUBSET Ports, lens : SUBSET Ports,
               cmdLen : BOOLEAN, fired : BOOLEAN]
  /\ seq \in 0..(SeqMod - 1) /\ polls \in 0..Polls /\ tries \in 0..Tries
  /\ {psEnabled, intMode, cint, armed} \subseteq BOOLEAN
  /\ read \in Seq(Packets) /\ told \subseteq Packets
  /\ pc = "idle" => cmd = NoCmd /\ pass.st = {} /\ polls = 0

NoFault == faults \subseteq {"silent"}

\* m_intPending's rule (Iw416.h:1250): six readers empty a register the card never
\* fills again for the same packet, and none of them may lose what another has to
\* serve.  While the bus works and the firmware keeps its ring, an upload that was
\* announced and a packet in the command port are always on record, in the card or
\* in the accumulator, whatever the readers' order.
NothingForgotten ==
  TypeOK /\ (NoFault =>
    /\ \A p \in Ports : held[p] \in told => "UP" \in hostInt \cup pend
    /\ port # NoPacket => "CMD" \in hostInt \cup pend \/ pc = "fetch")

\* A reply counts as the answer of the command it was made for: not a late reply to
\* an earlier command with the same id, nor the firmware's acknowledgement of a sleep
\* confirmation nobody waited for (Iw416.cpp:402).
ReplyIsMine == answer[1] = answer[2]

\* Frames go up in the order the firmware received them, each once, however uploads
\* fall between the snapshots, the runs and the different readers of the ring.
\* (A ring restarted under the host, a slot offered in error or a read that failed
\* half way can turn the order round.)
FramesInOrder ==
  NoFault => \A i \in 1..(Len(read) - 1) : read[i] < read[i + 1]

\* readHostResp() does not time out on a reply that is already there: taken out of the
\* register by another reader or not, it is found before the wait is given up.
WaitSeesReply ==
  [][NoFault' /\ pc = "await" /\ pc' = "idle" => port = NoPacket]_vars

\* Every upload is read in the end, also one the firmware never announced, one at a
\* slot the host's position has lost touch with, and one whose interrupt went down
\* with a failing read, in interrupt mode even on a board whose DAT1 never fires.
UploadsRead ==
  \A n \in Packets : (\E p \in Ports : held[p] = n) ~> (\A p \in Ports : held[p] # n)

=============================================================================
