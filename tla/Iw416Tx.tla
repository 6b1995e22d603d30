------------------------------ MODULE Iw416Tx ------------------------------
(***************************************************************************)
(* The transmit half of the IW416 Wi-Fi driver (src/iw416/Iw416.cpp) under *)
(* the lwip interface that polls it (src/lwip/Iw416Netif.cpp): frames are  *)
(* staged into a batch, each at the next port of the download ring, and a  *)
(* batch is written as one command; host commands and the card's power     *)
(* save go through the same bus.                                           *)
(*                                                                         *)
(* The host is one thread.  A step lies between two accesses to the card,  *)
(* which frees ports, raises events and falls asleep in between.           *)
(***************************************************************************)
EXTENDS Integers, Sequences

CONSTANTS
  NumPorts,     \* MAX_DATA_PORTS
  PktLimit,     \* AGGR_PKT_LIMIT
  MaxFrames, MaxCmds, MaxEvents, MaxErrors      \* bounds on what happens

ASSUME ConstantsOK ==
  /\ {NumPorts, PktLimit} \subseteq Nat \ {0}
  /\ {MaxFrames, MaxCmds, MaxEvents, MaxErrors} \subseteq Nat

Ports == 0..(NumPorts - 1)

VARIABLES
  \* The card.
  free,       \* WR_BITMAP: the ports it can take a frame in
  power,      \* "awake", "leaving" (its sleep is confirmed) or "asleep"
  powerUp,    \* HOST_POWER_UP is set
  cardPs,     \* power save is on
  events,     \* what goes through the command port, in order
  todo,       \* the command being worked on
  wire,       \* the frames it has received
  \* The host.
  pc, ret,    \* where the driver is, and where it goes after a flush
  cmd,        \* the host command at hand
  caller,     \* who sends: "idle" for the application, "drain" for the stack
  frame,      \* the frame being sent
  txPort,     \* m_txPort
  batch, start,           \* the frames staged, m_txAggrStart
  aggr,       \* m_txAggr
  psEnabled, psState,
  accepted,   \* the frames sendDataFrame() has taken
  frames, cmds, raised, errors  \* how many there were

card == <<free, power, powerUp, cardPs, events, todo, wire>>
ps == <<psEnabled, psState>>
ring == <<txPort, batch, start>>
sending == <<caller, frame, frames, accepted>>
count == <<cmds, raised, errors>>
vars == <<card, pc, ret, cmd, sending, ring, aggr, ps, count>>

Init ==
  /\ free = Ports /\ power = "awake" /\ powerUp = FALSE /\ cardPs = FALSE
  /\ events = <<>> /\ todo = "none" /\ wire = <<>>
  /\ pc = "idle" /\ ret = "idle" /\ cmd = "none" /\ caller = "idle" /\ frame = 0
  /\ txPort = 0 /\ batch = <<>> /\ start = 0 /\ aggr \in BOOLEAN
  /\ psEnabled = FALSE /\ psState = "AWAKE"
  /\ accepted = <<>> /\ frames = 0 /\ cmds = 0 /\ raised = 0 /\ errors = 0

\* An SDIO command that fails.
BusError == errors < MaxErrors /\ errors' = errors + 1 /\ UNCHANGED <<cmds, raised>>

-----------------------------------------------------------------------------
(* The card, as the driver's comments and defences describe it.              *)

HostAsIs == <<pc, ret, cmd, sending, ring, aggr, ps>>
AnEvent(e) == /\ raised < MaxEvents /\ raised' = raised + 1
              /\ events' = Append(events, e)
              /\ UNCHANGED <<cmds, errors>>

\* A frame has been transmitted and its port is published again.
CardFrees(p) ==
  /\ p \notin free
  /\ free' = free \cup {p}
  /\ UNCHANGED <<power, powerUp, cardPs, events, todo, wire, HostAsIs, count>>

\* The association is idle: the card asks for leave to sleep.  The command port holds
\* one packet, and a request is not raised behind another that is still to be read; nor
\* is it repeated while the host is answering it (an idle period is longer than that).
CardAsks ==
  /\ cardPs /\ power = "awake" /\ events = <<>> /\ cmd # "confirm"
  /\ AnEvent("SLEEP")
  /\ UNCHANGED <<free, power, powerUp, cardPs, todo, wire, HostAsIs>>

CardSleeps ==
  /\ power = "leaving" /\ ~powerUp
  /\ power' = "asleep"
  /\ UNCHANGED <<free, powerUp, cardPs, events, todo, wire, HostAsIs, count>>

\* By itself, for a beacon that announces traffic.
CardWakes ==
  /\ power # "awake"
  /\ AnEvent("AWAKE")
  /\ power' = "awake"
  /\ UNCHANGED <<free, powerUp, cardPs, todo, wire, HostAsIs>>

\* Deauthenticated: power save ends with the association, and so does a request for it.
CardDrops ==
  /\ power = "awake" /\ events = <<>>
  /\ AnEvent("DROP")
  /\ cardPs' = FALSE
  /\ todo' = IF todo = "PSon" THEN "other" ELSE todo
  /\ UNCHANGED <<free, power, powerUp, wire, HostAsIs>>

CardAnswers ==
  /\ todo # "none"
  /\ events' = Append(events, IF pc = "await" THEN "REPLY" ELSE "ACK")
  /\ cardPs' = (todo = "PSon" \/ (cardPs /\ todo # "PSoff"))
  /\ todo' = "none"
  /\ UNCHANGED <<free, power, powerUp, wire, HostAsIs, count>>

-----------------------------------------------------------------------------
(* The batch.                                                                *)

\* flushTx(): nothing staged, nothing written.
GoFlush(next) == /\ pc' = IF batch = <<>> THEN next ELSE "flush"
                 /\ ret' = next

\* The batch is one run of ports, and is reset before it is written: its ports are
\* used up whether or not the write succeeds.  Only a frame still waiting to be
\* staged gives up on a failure.
Slots == {start + i : i \in 0..(Len(batch) - 1)}
Written == wire' = wire \o batch /\ free' = free \ Slots

\* MUTANT: a batch whose write failed is kept and written again.
MutantFlushTx ==
  /\ pc = "flush"
  /\ \/ Written /\ pc' = ret /\ batch' = <<>> /\ start' = 0 /\ UNCHANGED count
     \/ /\ BusError
        /\ Written \/ UNCHANGED <<wire, free>>
        /\ pc' = IF ret = "wait" THEN caller ELSE ret
        /\ UNCHANGED <<batch, start>>
  /\ UNCHANGED <<power, powerUp, cardPs, events, todo, ret, cmd, sending, txPort, aggr, ps>>

FlushTx ==
  /\ pc = "flush"
  /\ batch' = <<>> /\ start' = 0
  /\ \/ Written /\ pc' = ret /\ UNCHANGED count
     \/ /\ BusError
        /\ Written \/ UNCHANGED <<wire, free>>
        /\ pc' = IF ret = "wait" THEN caller ELSE ret
  /\ UNCHANGED <<power, powerUp, cardPs, events, todo, ret, cmd, sending, txPort, aggr, ps>>

\* wakeCardIfSleeping(): the power-up register, and a delay that covers the waking.
\* The status of the write is not looked at.
WakeCardIfSleeping ==
  IF psEnabled /\ psState = "SLEEPING"
  THEN /\ psState' = "AWAKE"
       /\ \/ /\ powerUp' = TRUE /\ power' = "awake"
             /\ events' = IF power = "awake" THEN events ELSE Append(events, "AWAKE")
             /\ UNCHANGED errors
          \/ /\ errors < MaxErrors /\ errors' = errors + 1
             /\ UNCHANGED <<powerUp, power, events>>
  ELSE UNCHANGED <<psState, powerUp, power, events, errors>>

-----------------------------------------------------------------------------
(* sendDataFrameBss(), called by the application or by the stack out of the  *)
(* drain.                                                                    *)

\* A batch that is full, has no room for this frame or has reached the end of the
\* ring goes out first.
Send ==
  /\ pc \in {"idle", "drain"} /\ frames < MaxFrames
  /\ caller' = pc /\ frame' = frames + 1 /\ frames' = frames + 1
  /\ WakeCardIfSleeping
  /\ \/ /\ batch # <<>> => Len(batch) < PktLimit /\ txPort # 0
        /\ pc' = "wait" /\ ret' = "wait"
     \/ GoFlush("wait")
  /\ UNCHANGED <<free, cardPs, todo, wire, cmd, ring, aggr, psEnabled, accepted, cmds, raised>>

\* MUTANT: the wait takes whatever port is free.
MutantStage ==
  /\ pc = "wait" /\ free # {}
  /\ batch' = Append(batch, frame)
  /\ start' = IF batch = <<>> THEN txPort ELSE start
  /\ txPort' = (txPort + 1) % NumPorts
  /\ accepted' = Append(accepted, frame)
  /\ pc' = IF ~aggr \/ Len(batch') >= PktLimit \/ txPort' = 0 THEN "flush" ELSE caller
  /\ ret' = caller
  /\ UNCHANGED <<card, cmd, caller, frame, frames, aggr, ps, count>>

\* The host's own port is free: the frame is staged there, and the batch goes out
\* when it is complete.
Stage ==
  /\ pc = "wait" /\ txPort \in free
  /\ batch' = Append(batch, frame)
  /\ start' = IF batch = <<>> THEN txPort ELSE start
  /\ txPort' = (txPort + 1) % NumPorts
  /\ accepted' = Append(accepted, frame)
  /\ pc' = IF ~aggr \/ Len(batch') >= PktLimit \/ txPort' = 0 THEN "flush" ELSE caller
  /\ ret' = caller
  /\ UNCHANGED <<card, cmd, caller, frame, frames, aggr, ps, count>>

\* It is not: what is staged goes out rather than wait with it.
WaitFlushes ==
  /\ pc = "wait" /\ txPort \notin free /\ batch # <<>>
  /\ GoFlush("wait")
  /\ UNCHANGED <<card, cmd, sending, ring, aggr, ps, count>>

WaitTimesOut ==
  /\ pc = "wait" /\ txPort \notin free /\ batch = <<>>
  /\ pc' = caller
  /\ UNCHANGED <<card, cmd, ret, sending, ring, aggr, ps, count>>

WaitFails ==
  /\ pc = "wait"
  /\ BusError
  /\ pc' = caller
  /\ UNCHANGED <<card, cmd, ret, sending, ring, aggr, ps>>

-----------------------------------------------------------------------------
(* iw416NetifPoll(): flush, one service pass, flush.                         *)

Poll ==
  /\ pc = "idle"
  /\ GoFlush("pass")
  /\ UNCHANGED <<card, cmd, sending, ring, aggr, ps, count>>

Pass ==
  /\ pc = "pass"
  /\ \/ pc' = "drain" /\ UNCHANGED <<ret, count>>
     \/ BusError /\ GoFlush("idle")
  /\ UNCHANGED <<card, cmd, sending, ring, aggr, ps>>

DrainEnds ==
  /\ pc = "drain"
  /\ pc' = "port"
  /\ UNCHANGED <<card, cmd, ret, sending, ring, aggr, ps, count>>

\* MUTANT: one flush in a poll is enough.
MutantNoEvent ==
  /\ pc = "port"
  /\ pc' = "idle"
  /\ UNCHANGED <<card, ret, cmd, sending, ring, aggr, ps, count>>

\* Nothing in the command port, or nothing this pass knows of.
NoEvent ==
  /\ pc = "port"
  /\ GoFlush("idle")
  /\ UNCHANGED <<card, cmd, sending, ring, aggr, ps, count>>

\* An event that asks for nothing, or a reply nobody waits for; a read that fails
\* loses the packet.  Once awake, the card gets its power-up register back.
Event ==
  /\ pc = "port" /\ events # <<>>
  /\ events' = Tail(events)
  /\ LET e == Head(events) IN
     \/ /\ e # "SLEEP" \/ ~psEnabled
        /\ psState' = IF e \in {"AWAKE", "DROP"} THEN "AWAKE" ELSE psState
        /\ powerUp' = (powerUp /\ e # "AWAKE")
        /\ UNCHANGED count
     \/ BusError /\ UNCHANGED <<psState, powerUp>>
  /\ GoFlush("idle")
  /\ UNCHANGED <<free, power, cardPs, todo, wire, cmd, sending, ring, aggr, psEnabled>>

\* The card asks for leave to sleep.
SleepEvent ==
  /\ pc = "port" /\ events # <<>> /\ Head(events) = "SLEEP" /\ psEnabled
  /\ events' = Tail(events)
  /\ pc' = "hostcmd" /\ cmd' = "confirm"
  /\ UNCHANGED <<free, power, powerUp, cardPs, todo, wire, ret, sending, ring, aggr, ps, count>>

\* sendSleepConfirm(): the card acknowledges, and then sleeps.
Confirmed == IF cardPs THEN power' = "leaving" /\ events' = Append(events, "ACK")
                       ELSE UNCHANGED <<power, events>>
SendSleepConfirm ==
  /\ pc = "confirm"
  /\ \/ Confirmed /\ psState' = "SLEEPING" /\ UNCHANGED count
     \/ /\ BusError
        /\ Confirmed \/ UNCHANGED <<power, events>>
        /\ UNCHANGED psState
  /\ cmd' = "none"
  /\ GoFlush("idle")
  /\ UNCHANGED <<free, powerUp, cardPs, todo, wire, sending, ring, aggr, psEnabled>>

-----------------------------------------------------------------------------
(* Host commands: sendHostCmdBss(), waitCmdResp(), setIeeePs().              *)

\* Of the commands only the two that switch power save are told apart.  The card
\* has worked off the one before.
Command(c) ==
  /\ pc = "idle" /\ todo = "none"
  /\ cmds < MaxCmds /\ cmds' = cmds + 1
  /\ pc' = "hostcmd" /\ cmd' = c
  /\ UNCHANGED <<card, ret, sending, ring, aggr, ps, raised, errors>>

\* MUTANT: the command does not wait for the staged frames.
MutantSendHostCmd ==
  /\ pc = "hostcmd"
  /\ WakeCardIfSleeping
  /\ pc' = IF cmd = "confirm" THEN "confirm" ELSE "write"
  /\ UNCHANGED <<free, cardPs, todo, wire, cmd, ret, sending, ring, aggr, psEnabled, cmds, raised>>

\* The card is woken first and then given the frames that are staged: a command may
\* keep the host for seconds.
SendHostCmd ==
  /\ pc = "hostcmd"
  /\ WakeCardIfSleeping
  /\ GoFlush(IF cmd = "confirm" THEN "confirm" ELSE "write")
  /\ UNCHANGED <<free, cardPs, todo, wire, cmd, sending, ring, aggr, psEnabled, cmds, raised>>

WriteCommand ==
  /\ pc = "write"
  /\ \/ todo' = cmd /\ pc' = "await" /\ UNCHANGED <<cmd, count>>
     \/ /\ BusError
        /\ todo' \in {todo, cmd}
        /\ pc' = "idle" /\ cmd' = "none"
  /\ UNCHANGED <<free, power, powerUp, cardPs, events, wire, ret, sending, ring, aggr, ps>>

\* Whatever else comes through the command port meanwhile is read and dropped.
AwaitReads ==
  /\ pc = "await" /\ events # <<>>
  /\ events' = Tail(events)
  /\ IF Head(events) = "REPLY"
     THEN /\ pc' = "idle" /\ cmd' = "none"
          /\ psEnabled' = (cmd = "PSon" \/ (psEnabled /\ cmd # "PSoff"))
          /\ psState' = IF cmd \in {"PSon", "PSoff"} THEN "AWAKE" ELSE psState
     ELSE UNCHANGED <<pc, cmd, ps>>
  /\ UNCHANGED <<free, power, powerUp, cardPs, todo, wire, ret, sending, ring, aggr, count>>

\* Time-out, or a fourth packet that was not the answer: the reply, if it comes, is
\* one nobody waits for.
AwaitGivesUp ==
  /\ pc = "await"
  /\ events' = [i \in DOMAIN events |-> IF events[i] = "REPLY" THEN "ACK" ELSE events[i]]
  /\ pc' = "idle" /\ cmd' = "none"
  /\ UNCHANGED <<free, power, powerUp, cardPs, todo, wire, ret, sending, ring, aggr, ps, count>>

-----------------------------------------------------------------------------
\* downloadFirmware(): a new firmware starts its ring at port 0, and what was staged
\* for the old one is dropped.
Redownload ==
  /\ pc = "idle" /\ cmds < MaxCmds /\ cmds' = cmds + 1
  /\ free' = Ports /\ power' = "awake" /\ powerUp' = FALSE /\ cardPs' = FALSE
  /\ events' = <<>> /\ todo' = "none"
  /\ txPort' = 0 /\ batch' = <<>> /\ start' = 0
  /\ accepted' = wire
  /\ UNCHANGED <<wire, pc, ret, cmd, caller, frame, frames, aggr, ps, raised, errors>>

-----------------------------------------------------------------------------
Card ==
  \/ \E p \in Ports : CardFrees(p)
  \/ CardAsks \/ CardSleeps \/ CardWakes \/ CardDrops \/ CardAnswers

Driver ==
  \/ FlushTx \/ Stage \/ WaitFlushes \/ WaitTimesOut \/ WaitFails
  \/ Poll \/ Pass \/ DrainEnds \/ NoEvent \/ Event \/ SleepEvent \/ SendSleepConfirm
  \/ SendHostCmd \/ WriteCommand \/ AwaitReads \/ AwaitGivesUp

Calls == Send \/ Redownload \/ \E c \in {"PSon", "PSoff", "other"} : Command(c)

Next == Card \/ Driver \/ Calls

Spec == Init /\ [][Next]_vars

-----------------------------------------------------------------------------
(* Properties.                                                               *)

TypeOK ==
  /\ free \subseteq Ports /\ power \in {"awake", "leaving", "asleep"}
  /\ powerUp \in BOOLEAN /\ cardPs \in BOOLEAN /\ aggr \in BOOLEAN /\ psEnabled \in BOOLEAN
  /\ events \in Seq({"SLEEP", "AWAKE", "DROP", "REPLY", "ACK"})
  /\ {todo, cmd} \subseteq {"none", "PSon", "PSoff", "other", "confirm"}
  /\ pc \in {"idle", "flush", "wait", "pass", "drain", "port", "hostcmd", "confirm",
             "write", "await"}
  /\ ret \in {"idle", "wait", "pass", "drain", "confirm", "write"}
  /\ caller \in {"idle", "drain"} /\ frame \in Nat /\ errors \in Nat
  /\ txPort \in Ports /\ batch \in Seq(Nat) /\ start \in Ports
  /\ psState \in {"AWAKE", "SLEEPING"}

\* The staged frames are one run of ports that does not go round the end of the ring,
\* is no longer than a command can carry, ends where the host will stage next, and that
\* the card can take: through time-outs, failed writes, a flush in the middle of a wait
\* and a new firmware (Iw416.cpp:1651, 1729, 1749).
BatchFitsRing ==
  batch # <<>> =>
    /\ start + Len(batch) <= NumPorts /\ Len(batch) <= PktLimit
    /\ txPort = (start + Len(batch)) % NumPorts
    /\ Slots \subseteq free

\* Frames reach the card in the order they were accepted, none twice, whatever the
\* failures; and while the bus works, what it has received and what is staged are
\* exactly the frames sendDataFrame() has taken.
SentInOrder ==
  /\ \A i \in 1..(Len(wire) - 1) : wire[i] < wire[i + 1]
  /\ errors = 0 => wire \o batch = accepted

\* Neither frames nor a command are written to a card that sleeps or has leave to:
\* the confirmation, the wake-up and frames staged during the same pass keep their
\* order (Iw416.cpp:262).  A failed wake-up or confirmation can break this.
NoWriteAsleep ==
  errors = 0 /\ pc \in {"flush", "write", "confirm"} => power = "awake"

\* A staged frame is not held back: a poll that returns has written it, and so has
\* every host command before it is sent, for the wait that follows may be long
\* (Iw416Netif.cpp:23, Iw416.cpp:256).
NothingHeldBack ==
  [][/\ pc \in {"pass", "port", "confirm", "flush"} /\ pc' = "idle" => batch' = <<>>
     /\ pc' \in {"write", "confirm"} => batch' = <<>>]_vars
=============================================================================
