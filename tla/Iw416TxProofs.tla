---------------------------- MODULE Iw416TxProofs ----------------------------
(***************************************************************************)
(* Proofs about Iw416Tx, for every size of the ring and of a batch and any *)
(* number of frames, commands, events and failures: a batch always fits    *)
(* the ring, frames go out once and in order, and no staged frame is left  *)
(* behind.                                                                 *)
(***************************************************************************)
EXTENDS Iw416Tx, SequenceTheorems, TLAPS

-----------------------------------------------------------------------------
(* The batch and the ring.                                                   *)

\* The types this needs.
Shape ==
  /\ txPort \in Ports /\ start \in Ports
  /\ batch \in Seq(Nat) /\ wire \in Seq(Nat) /\ accepted \in Seq(Nat)
  /\ frame \in Nat /\ frames \in Nat /\ frame = frames
  /\ caller \in {"idle", "drain"}
  /\ errors \in Nat

\* A frame that waits for its port may be staged where the batch stops: the batch is neither
\* full nor at the end of the ring.
MayStage == pc = "wait" /\ batch # <<>> => Len(batch) < PktLimit /\ txPort # 0

IInv == Shape /\ BatchFitsRing /\ MayStage

LEMMA InitIInv == Init => IInv
  <1> SUFFICES ASSUME Init PROVE IInv
    OBVIOUS
  <1>1. 0 \in Ports /\ <<>> \in Seq(Nat)
    BY ConstantsOK DEF Ports
  <1> QED BY <1>1 DEF Init, IInv, Shape, BatchFitsRing, MayStage

\* The next port of the ring is the next number, or 0.
LEMMA NextPort ==
  ASSUME NEW p \in Ports
  PROVE  /\ (p + 1) % NumPorts \in Ports
         /\ p + 1 < NumPorts => (p + 1) % NumPorts = p + 1
         /\ (p + 1) % NumPorts = 0 => p + 1 = NumPorts
  <1>1. p \in Nat /\ p + 1 \in Nat /\ p + 1 <= NumPorts /\ NumPorts \in Nat \ {0}
    BY ConstantsOK DEF Ports
  <1>2. CASE p + 1 = NumPorts
    <2>1. (p + 1) % NumPorts = 0
      BY <1>1, <1>2
    <2> QED BY <1>1, <1>2, <2>1 DEF Ports
  <1>3. CASE p + 1 < NumPorts
    <2>1. (p + 1) % NumPorts = p + 1
      BY <1>1, <1>3
    <2> QED BY <1>1, <1>3, <2>1 DEF Ports
  <1> QED BY <1>1, <1>2, <1>3

\* sendDataFrameBss(): the frame extends the run of ports, and the host stops where the ring
\* ends or the batch is full.
LEMMA StageFits ==
  ASSUME IInv, Stage
  PROVE  Shape' /\ BatchFitsRing' /\ MayStage'
  <1>1. /\ NumPorts \in Nat \ {0} /\ PktLimit \in Nat \ {0}
        /\ txPort \in Nat /\ txPort < NumPorts /\ start \in Nat
    BY ConstantsOK DEF IInv, Shape, Ports
  <1>2. /\ batch' \in Seq(Nat) /\ Len(batch') = Len(batch) + 1 /\ Len(batch) \in Nat
        /\ batch' # <<>> /\ accepted' \in Seq(Nat)
    BY DEF Stage, IInv, Shape
  <1>3. Shape'
    <2>1. txPort' \in Ports
      BY NextPort DEF Stage, IInv, Shape
    <2>2. start' \in Ports
      BY DEF Stage, IInv, Shape
    <2> QED BY <1>2, <2>1, <2>2 DEF Stage, IInv, Shape, card, count
  <1>4. MayStage'
    BY DEF Stage, IInv, Shape, MayStage
  <1>5. CASE batch = <<>>
    <2>1. start' = txPort /\ Len(batch') = 1
      BY <1>2, <1>5 DEF Stage
    <2>2. Slots' = {txPort}
      BY <1>1, <2>1 DEF Slots
    <2>3. Slots' \subseteq free'
      BY <2>2 DEF Stage, card
    <2> QED BY <1>1, <1>3, <1>4, <2>1, <2>3 DEF Stage, BatchFitsRing
  <1>6. CASE batch # <<>>
    <2>1. /\ start + Len(batch) <= NumPorts /\ txPort = (start + Len(batch)) % NumPorts
          /\ Slots \subseteq free /\ Len(batch) < PktLimit /\ txPort # 0 /\ start' = start
      BY <1>6 DEF Stage, IInv, BatchFitsRing, MayStage
    <2> DEFINE end == start + Len(batch)
    <2>2. end \in Nat /\ end <= NumPorts /\ txPort = end % NumPorts
      BY <1>1, <1>2, <2>1
    <2>3. end < NumPorts
      <3> HIDE DEF end
      <3>1. end = NumPorts => end % NumPorts = 0
        BY <1>1, <2>2
      <3> QED BY <1>1, <2>1, <2>2, <3>1
    <2>4. txPort = end
      <3> HIDE DEF end
      <3>1. end % NumPorts = end
        BY <1>1, <2>2, <2>3
      <3> QED BY <2>2, <3>1
    <2>5. Slots' = Slots \cup {txPort}
      <3>1. \A i \in Nat : i \in 0..(Len(batch') - 1) <=> i \in 0..(Len(batch) - 1) \/ i = Len(batch)
        BY <1>2
      <3> QED BY <1>2, <2>1, <2>4, <3>1 DEF Slots
    <2>6. Slots' \subseteq free'
      BY <2>1, <2>5 DEF Stage, card
    <2>7. txPort' = (start' + Len(batch')) % NumPorts
      <3>1. start' + Len(batch') = txPort + 1
        BY <1>1, <1>2, <2>1, <2>4
      <3> QED BY <3>1 DEF Stage
    <2>8. start' + Len(batch') <= NumPorts /\ Len(batch') <= PktLimit
      BY <1>1, <1>2, <2>1, <2>3
    <2> QED BY <1>3, <1>4, <2>6, <2>7, <2>8 DEF BatchFitsRing
  <1> QED BY <1>3, <1>4, <1>5, <1>6

\* The other steps leave the batch alone: the card only frees ports, and no one but a frame
\* being sent waits for one.
Waiting == pc = "wait" \/ (pc = "flush" /\ ret = "wait")
Aside ==
  /\ UNCHANGED <<wire, txPort, batch, start, caller, frame, frames, accepted>>
  /\ free \subseteq free' /\ errors' \in {errors, errors + 1}
  /\ Waiting' => Waiting
  /\ pc' = "wait" => pc = "wait"

LEMMA OthersAside ==
  ASSUME IInv, [Next]_vars, ~Send, ~Stage, ~FlushTx, ~Redownload
  PROVE  Aside
  <1> USE DEF Aside, Waiting, card, ps, ring, sending, count, HostAsIs
  <1>1. ASSUME NEW p \in Ports, CardFrees(p) PROVE Aside
    BY <1>1 DEF CardFrees
  <1>2. CASE CardAsks \/ CardSleeps \/ CardWakes \/ CardDrops \/ CardAnswers
    BY <1>2 DEF CardAsks, CardSleeps, CardWakes, CardDrops, CardAnswers, AnEvent
  <1>3. CASE WaitFlushes
    BY <1>3 DEF WaitFlushes, GoFlush
  <1>4. CASE WaitTimesOut \/ WaitFails
    BY <1>4 DEF WaitTimesOut, WaitFails, BusError, IInv, Shape
  <1>5. CASE Poll \/ Pass \/ DrainEnds \/ NoEvent
    BY <1>5 DEF Poll, Pass, DrainEnds, NoEvent, GoFlush, BusError
  <1>6. CASE Event
    BY <1>6 DEF Event, GoFlush, BusError
  <1>7. CASE SleepEvent \/ SendSleepConfirm
    BY <1>7 DEF SleepEvent, SendSleepConfirm, GoFlush, BusError
  <1>8. CASE SendHostCmd
    BY <1>8 DEF SendHostCmd, WakeCardIfSleeping, GoFlush
  <1>9. CASE WriteCommand \/ AwaitReads \/ AwaitGivesUp
    BY <1>9 DEF WriteCommand, AwaitReads, AwaitGivesUp, BusError
  <1>10. ASSUME NEW c \in {"PSon", "PSoff", "other"}, Command(c) PROVE Aside
    BY <1>10 DEF Command
  <1>11. CASE UNCHANGED vars
    BY <1>11 DEF vars
  <1> QED BY <1>1, <1>2, <1>3, <1>4, <1>5, <1>6, <1>7, <1>8, <1>9, <1>10, <1>11
          DEF Next, Card, Driver, Calls

\* flushTx() leaves nothing staged, and after a new firmware nothing is.
LEMMA Emptied ==
  ASSUME IInv, FlushTx \/ Redownload
  PROVE  Shape' /\ batch' = <<>>
  <1>1. CASE FlushTx
    <2>1. wire' \in Seq(Nat)
      BY <1>1, ConcatProperties DEF FlushTx, Written, IInv, Shape
    <2>2. errors' \in {errors, errors + 1}
      BY <1>1 DEF FlushTx, BusError, count
    <2>3. 0 \in Ports /\ <<>> \in Seq(Nat)
      BY ConstantsOK DEF Ports
    <2> QED BY <1>1, <2>1, <2>2, <2>3 DEF FlushTx, IInv, Shape, sending
  <1>2. CASE Redownload
    <2>1. 0 \in Ports /\ <<>> \in Seq(Nat)
      BY ConstantsOK DEF Ports
    <2> QED BY <1>2, <2>1 DEF Redownload, IInv, Shape
  <1> QED BY <1>1, <1>2

LEMMA SendKeeps ==
  ASSUME IInv, Send
  PROVE  /\ Shape' /\ MayStage'
         /\ UNCHANGED <<free, wire, batch, start, txPort, accepted>>
         /\ frame' = frame + 1 /\ errors' \in {errors, errors + 1}
  <1>1. errors' \in {errors, errors + 1}
    BY DEF Send, WakeCardIfSleeping
  <1>2. Shape'
    BY <1>1 DEF Send, ring, IInv, Shape
  <1>3. MayStage'
    BY DEF Send, ring, GoFlush, MayStage
  <1> QED BY <1>1, <1>2, <1>3 DEF Send, ring, IInv, Shape

LEMMA IInvStep == IInv /\ [Next]_vars => IInv'
  <1> SUFFICES ASSUME IInv, [Next]_vars PROVE IInv'
    OBVIOUS
  <1>1. CASE Stage
    BY <1>1, StageFits DEF IInv
  <1>2. CASE FlushTx \/ Redownload
    BY <1>2, Emptied DEF IInv, BatchFitsRing, MayStage
  <1>3. CASE Send
    <2>1. BatchFitsRing'
      BY <1>3, SendKeeps DEF IInv, BatchFitsRing, Slots
    <2> QED BY <1>3, <2>1, SendKeeps DEF IInv
  <1>4. CASE ~Send /\ ~Stage /\ ~FlushTx /\ ~Redownload
    <2>1. Aside
      BY <1>4, OthersAside
    <2>2. Shape' /\ MayStage'
      BY <2>1 DEF Aside, IInv, Shape, MayStage
    <2>3. BatchFitsRing'
      BY <2>1 DEF Aside, IInv, BatchFitsRing, Slots
    <2> QED BY <2>2, <2>3 DEF IInv
  <1> QED BY <1>1, <1>2, <1>3, <1>4

LEMMA IInvAlways == Spec => []IInv
  BY InitIInv, IInvStep, PTL DEF Spec

\* The staged frames always fit the ring and the command, and their ports are free: however
\* flushes, time-outs, failures and new firmware fall (sendDataFrameBss, flushTx).
THEOREM BatchAlwaysFits == Spec => []BatchFitsRing
  <1>1. IInv => BatchFitsRing
    BY DEF IInv
  <1> QED BY <1>1, IInvAlways, PTL

-----------------------------------------------------------------------------
(* The order of the frames.                                                  *)

\* What the card has and what is staged for it, and the numbers in it.
Line == wire \o batch
Rising(q) == \A i, j \in 1..Len(q) : i < j => q[i] < q[j]
Below(q, n) == \A i \in 1..Len(q) : q[i] < n

\* The frame that waits is not staged yet, and while the bus works nothing is lost.
OrderInv ==
  /\ Rising(Line) /\ Below(Line, frame + 1)
  /\ Waiting => Below(Line, frame)
  /\ errors = 0 => Line = accepted

LEMMA LineIsSeq ==
  ASSUME Shape
  PROVE  Line \in Seq(Nat)
  BY ConcatProperties DEF Shape, Line

\* Staging a frame puts it behind all others.
LEMMA StageOrdered ==
  ASSUME IInv, OrderInv, Stage
  PROVE  OrderInv'
  <1>1. Shape /\ Shape'
    BY StageFits DEF IInv
  <1>2. Line \in Seq(Nat) /\ frame \in Nat /\ Below(Line, frame)
    BY <1>1, LineIsSeq DEF OrderInv, Waiting, Stage, Shape
  <1>3. Line' = Append(Line, frame)
    <2>1. batch \in Seq(Nat) /\ wire \in Seq(Nat)
      BY <1>1 DEF Shape
    <2>2. wire \o Append(batch, frame) = Append(wire \o batch, frame)
      BY <2>1, <1>2
    <2> QED BY <2>2 DEF Stage, card, Line
  <1> DEFINE q == Line
  <1>4. /\ Len(Append(q, frame)) = Len(q) + 1 /\ Len(q) \in Nat
        /\ \A i \in 1..Len(q) : Append(q, frame)[i] = q[i]
        /\ Append(q, frame)[Len(q) + 1] = frame
        /\ \A i \in 1..Len(q) : q[i] \in Nat
    BY <1>2
  <1>5. Rising(q)
    BY DEF OrderInv
  <1>6. Rising(Append(q, frame)) /\ Below(Append(q, frame), frame + 1)
    <2> HIDE DEF q
    <2>1. \A i \in 1..Len(q) + 1 : i \in 1..Len(q) \/ i = Len(q) + 1
      BY <1>4
    <2> QED BY <1>2, <1>4, <1>5, <2>1 DEF Rising, Below, q
  <1>7. frame' = frame /\ errors' = errors /\ ~Waiting'
    BY <1>1 DEF Stage, count, Waiting, Shape
  <1>8. errors' = 0 => Line' = accepted'
    BY <1>3, <1>7 DEF OrderInv, Stage
  <1> QED BY <1>3, <1>6, <1>7, <1>8 DEF OrderInv

\* A batch that is written, and one that is dropped.
LEMMA EmptiedOrdered ==
  ASSUME IInv, OrderInv, FlushTx \/ Redownload
  PROVE  OrderInv'
  <1>1. Shape /\ Shape' /\ batch' = <<>>
    BY Emptied DEF IInv
  <1>2. Line' = wire'
    <2>1. wire' \in Seq(Nat)
      BY <1>1 DEF Shape
    <2> QED BY <1>1, <2>1, ConcatEmptySeq DEF Line
  <1>3. wire' = Line \/ wire' = wire
    BY DEF FlushTx, Written, Redownload, Line
  <1>4. Rising(wire') /\ Below(wire', frame + 1) /\ (Waiting => Below(wire', frame))
    <2>1. CASE wire' = Line
      BY <2>1 DEF OrderInv
    <2>2. CASE wire' = wire
      <3>1. /\ Len(wire) \in Nat /\ Len(Line) \in Nat /\ Len(wire) <= Len(Line)
            /\ \A i \in 1..Len(wire) : Line[i] = wire[i]
        <4>1. wire \in Seq(Nat) /\ batch \in Seq(Nat)
          BY <1>1 DEF Shape
        <4>2. /\ Len(Line) = Len(wire) + Len(batch)
              /\ \A i \in 1..Len(wire) + Len(batch) :
                   Line[i] = IF i <= Len(wire) THEN wire[i] ELSE batch[i - Len(wire)]
          BY <4>1, ConcatProperties DEF Line
        <4> QED BY <4>1, <4>2
      <3> QED BY <2>2, <3>1 DEF OrderInv, Rising, Below
    <2> QED BY <1>3, <2>1, <2>2
  <1>5. frame' = frame /\ (Waiting' => Waiting)
    BY <1>1 DEF FlushTx, Redownload, sending, Waiting, Shape
  <1>6. errors' = 0 => Line' = accepted'
    <2>1. CASE FlushTx
      <3>1. accepted' = accepted
        BY <2>1 DEF FlushTx, sending
      <3>2. errors' = 0 => errors = 0 /\ wire' = Line
        BY <1>1, <2>1 DEF FlushTx, Written, Line, count, BusError, Shape
      <3> QED BY <1>2, <3>1, <3>2 DEF OrderInv
    <2>2. CASE Redownload
      BY <1>2, <2>2 DEF Redownload
    <2> QED BY <2>1, <2>2
  <1> QED BY <1>2, <1>4, <1>5, <1>6 DEF OrderInv

LEMMA OrderStep == IInv /\ OrderInv /\ [Next]_vars => OrderInv'
  <1> SUFFICES ASSUME IInv, OrderInv, [Next]_vars PROVE OrderInv'
    OBVIOUS
  <1>1. CASE Stage
    BY <1>1, StageOrdered
  <1>2. CASE FlushTx \/ Redownload
    BY <1>2, EmptiedOrdered
  <1>3. CASE Send
    <2>1. /\ Line' = Line /\ accepted' = accepted /\ frame' = frame + 1
          /\ errors' \in {errors, errors + 1} /\ errors \in Nat /\ frame \in Nat
          /\ Line \in Seq(Nat)
      BY <1>3, SendKeeps, LineIsSeq DEF Line, IInv, Shape
    <2>2. Below(Line, frame') /\ Below(Line, frame' + 1)
      BY <2>1 DEF OrderInv, Below
    <2>3. errors' = 0 => errors = 0
      BY <2>1
    <2> QED BY <2>1, <2>2, <2>3 DEF OrderInv
  <1>4. CASE ~Send /\ ~Stage /\ ~FlushTx /\ ~Redownload
    <2>1. Aside /\ errors \in Nat
      BY <1>4, OthersAside DEF IInv, Shape
    <2>2. Line' = Line /\ frame' = frame /\ accepted' = accepted /\ (Waiting' => Waiting)
      BY <2>1 DEF Aside, Line
    <2>3. errors' = 0 => errors = 0
      BY <2>1 DEF Aside
    <2> QED BY <2>2, <2>3 DEF OrderInv
  <1> QED BY <1>1, <1>2, <1>3, <1>4

LEMMA OrderInit == Init => OrderInv
  <1> SUFFICES ASSUME Init PROVE OrderInv
    OBVIOUS
  <1>1. Line = <<>>
    BY DEF Init, Line
  <1> QED BY <1>1 DEF Init, OrderInv, Rising, Below, Waiting

\* Frames reach the card in the order they were taken, none twice; and while no access fails,
\* none is missing (flushTx writes a batch at most once).
THEOREM FramesSentInOrder == Spec => []SentInOrder
  <1>1. IInv /\ OrderInv => SentInOrder
    <2> SUFFICES ASSUME IInv, OrderInv PROVE SentInOrder
      OBVIOUS
    <2>1. wire \in Seq(Nat) /\ batch \in Seq(Nat)
      BY DEF IInv, Shape
    <2>2. /\ Len(Line) = Len(wire) + Len(batch)
          /\ \A i \in 1..Len(wire) + Len(batch) :
               Line[i] = IF i <= Len(wire) THEN wire[i] ELSE batch[i - Len(wire)]
      BY <2>1, ConcatProperties DEF Line
    <2>3. ASSUME NEW i \in 1..(Len(wire) - 1) PROVE wire[i] < wire[i + 1]
      <3>1. i \in 1..Len(Line) /\ i + 1 \in 1..Len(Line) /\ i < i + 1
        BY <2>1, <2>2
      <3>2. Line[i] = wire[i] /\ Line[i + 1] = wire[i + 1]
        BY <2>1, <2>2
      <3> QED BY <3>1, <3>2 DEF OrderInv, Rising
    <2> QED BY <2>3 DEF SentInOrder, OrderInv, Line
  <1> QED BY <1>1, IInvAlways, OrderInit, OrderStep, PTL DEF Spec

-----------------------------------------------------------------------------
(* Nothing is held back.                                                     *)

\* A command is written only when nothing is staged.
Committed == pc \in {"write", "confirm"} => batch = <<>>
Released ==
  /\ pc \in {"pass", "port", "confirm", "flush"} /\ pc' = "idle" => batch' = <<>>
  /\ pc' \in {"write", "confirm"} => batch' = <<>>

LEMMA EveryStepReleases ==
  ASSUME IInv, Committed, [Next]_vars
  PROVE  Released
  <1> USE DEF Released
  <1>1. CASE Stage
    BY <1>1 DEF Stage, IInv, Shape
  <1>2. CASE FlushTx \/ Redownload
    BY <1>2, Emptied
  <1>3. CASE Send
    BY <1>3 DEF Send, GoFlush
  <1>4. CASE Card \/ UNCHANGED vars
    <2>1. pc' = pc /\ batch' = batch
      BY <1>4 DEF Card, CardFrees, CardAsks, CardSleeps, CardWakes, CardDrops, CardAnswers, AnEvent,
                  HostAsIs, ring, vars
    <2> QED BY <2>1 DEF Committed
  <1>5. CASE WaitFlushes \/ WaitTimesOut \/ WaitFails
    BY <1>5 DEF WaitFlushes, WaitTimesOut, WaitFails, GoFlush, IInv, Shape
  <1>6. CASE Poll \/ Pass \/ DrainEnds \/ NoEvent
    BY <1>6 DEF Poll, Pass, DrainEnds, NoEvent, GoFlush, ring
  <1>7. CASE Event \/ SleepEvent \/ SendSleepConfirm
    BY <1>7 DEF Event, SleepEvent, SendSleepConfirm, GoFlush, ring
  <1>8. CASE SendHostCmd
    BY <1>8 DEF SendHostCmd, GoFlush, ring
  <1>9. CASE WriteCommand \/ AwaitReads \/ AwaitGivesUp
    BY <1>9 DEF WriteCommand, AwaitReads, AwaitGivesUp
  <1>10. CASE \E c \in {"PSon", "PSoff", "other"} : Command(c)
    BY <1>10 DEF Command
  <1> QED BY <1>1, <1>2, <1>3, <1>4, <1>5, <1>6, <1>7, <1>8, <1>9, <1>10 DEF Next, Driver, Calls

LEMMA CommittedStep == IInv /\ Committed /\ [Next]_vars => Committed'
  BY EveryStepReleases DEF Released, Committed

\* A poll that returns and a command about to be written leave no staged frame behind
\* (iw416NetifPoll's two flushes, sendHostCmdBss's one).
THEOREM NothingIsHeldBack == Spec => NothingHeldBack
  <1>1. Init => Committed
    BY DEF Init, Committed
  <1>2. IInv /\ Committed /\ [Next]_vars => Committed'
    BY CommittedStep
  <1>3. IInv /\ Committed /\ [Next]_vars =>
          [/\ pc \in {"pass", "port", "confirm", "flush"} /\ pc' = "idle" => batch' = <<>>
           /\ pc' \in {"write", "confirm"} => batch' = <<>>]_vars
    BY EveryStepReleases DEF Released
  <1> QED BY <1>1, <1>2, <1>3, IInvAlways, PTL DEF Spec, NothingHeldBack

-----------------------------------------------------------------------------
(* Power save.                                                               *)

Kinds == {"SLEEP", "AWAKE", "DROP", "REPLY", "ACK"}
Raised == {events[i] : i \in 1..Len(events)}
Behind == {events[i] : i \in 2..Len(events)}

LEMMA QueueGrows ==
  ASSUME events \in Seq(Kinds), NEW e \in Kinds, events' = Append(events, e)
  PROVE  /\ events' \in Seq(Kinds) /\ Raised' = Raised \cup {e}
         /\ events # <<>> => Head(events') = Head(events) /\ Behind' = Behind \cup {e}
         /\ events = <<>> => Raised = {} /\ Behind' = {} /\ Head(events') = e
  <1>1. /\ events' \in Seq(Kinds) /\ Len(events') = Len(events) + 1 /\ Len(events) \in Nat
        /\ \A i \in 1..Len(events) : events'[i] = events[i]
        /\ events'[Len(events) + 1] = e
    OBVIOUS
  <1>2. \A i : i \in 1..Len(events') <=> i \in 1..Len(events) \/ i = Len(events) + 1
    BY <1>1
  <1>3. Raised' = Raised \cup {e}
    BY <1>1, <1>2 DEF Raised
  <1>4. CASE events # <<>>
    <2>1. Len(events) >= 1
      BY <1>1, <1>4
    <2>2. \A i : i \in 2..Len(events') <=> i \in 2..Len(events) \/ i = Len(events) + 1
      BY <1>1, <2>1
    <2>3. \A i \in 2..Len(events) : events'[i] = events[i]
      BY <1>1
    <2>4. Behind' = Behind \cup {e}
      BY <1>1, <2>2, <2>3 DEF Behind
    <2>5. Head(events') = Head(events)
      BY <1>1, <2>1
    <2> QED BY <1>1, <1>3, <1>4, <2>4, <2>5
  <1>5. CASE events = <<>>
    <2>1. Len(events) = 0
      BY <1>5
    <2>2. Raised = {} /\ Behind' = {}
      BY <1>1, <2>1 DEF Raised, Behind
    <2>3. Head(events') = e
      BY <1>1, <2>1
    <2> QED BY <1>1, <1>3, <1>5, <2>2, <2>3
  <1> QED BY <1>4, <1>5

LEMMA QueueShrinks ==
  ASSUME events \in Seq(Kinds), events # <<>>, events' = Tail(events)
  PROVE  /\ events' \in Seq(Kinds) /\ Head(events) \in Kinds
         /\ Raised' = Behind /\ Behind \subseteq Raised /\ Head(events) \in Raised
         /\ Behind' \subseteq Behind
  <1>1. /\ events' \in Seq(Kinds) /\ Len(events') = Len(events) - 1 /\ Len(events) \in Nat \ {0}
        /\ \A i \in 1..Len(events') : events'[i] = events[i + 1]
        /\ Head(events) = events[1] /\ events[1] \in Kinds
    OBVIOUS
  <1>2. Raised' = Behind
    <2>1. \A i \in 1..Len(events') : i + 1 \in 2..Len(events)
      BY <1>1
    <2>2. \A i \in 2..Len(events) : i - 1 \in 1..Len(events') /\ events'[i - 1] = events[i]
      BY <1>1
    <2> DEFINE l == Len(events)
               t == Len(events')
    <2>3. \A i \in 1..t : i + 1 \in 2..l /\ events'[i] = events[i + 1]
      BY <1>1, <2>1
    <2>4. Raised' = {events'[i] : i \in 1..t} /\ Behind = {events[i] : i \in 2..l}
      BY DEF Raised, Behind
    <2> HIDE DEF l, t
    <2>5. {events'[i] : i \in 1..t} \subseteq {events[i] : i \in 2..l}
      BY <2>3
    <2>6. {events[i] : i \in 2..l} \subseteq {events'[i] : i \in 1..t}
      BY <2>2 DEF l, t
    <2> QED BY <2>4, <2>5, <2>6
  <1>3. Behind \subseteq Raised
    BY <1>1 DEF Raised, Behind
  <1>4. Head(events) \in Raised
    BY <1>1 DEF Raised
  <1>5. Behind' \subseteq Behind
    <2>1. Behind' \subseteq Raised'
      BY <1>1 DEF Raised, Behind
    <2> QED BY <1>2, <2>1
  <1> QED BY <1>1, <1>2, <1>3, <1>4, <1>5

\* Where the driver is when it confirms the card's sleep.
Confirming == pc = "hostcmd" \/ pc = "confirm" \/ (pc = "flush" /\ ret = "confirm")

\* Host and card agree about power while no access has failed: a card that sleeps is known to,
\* nothing is staged for it or under way to it, and no event is left that would make the host
\* think otherwise; a request to sleep is the first thing in the command port; and while the
\* host confirms one, nothing can cross it but the end of the association.
Asleep ==
  /\ psEnabled /\ psState = "SLEEPING" /\ batch = <<>>
  /\ Raised \cap {"SLEEP", "AWAKE", "DROP"} = {}
  /\ pc \in {"idle", "pass", "drain", "port", "hostcmd"}
  /\ cmd # "confirm"
Asked == power = "awake" /\ Head(events) = "SLEEP" /\ Behind \subseteq {"REPLY", "ACK"}
Confirms ==
  /\ psEnabled /\ Confirming
  /\ Raised \cap {"SLEEP", "AWAKE"} = {}
  /\ "DROP" \in Raised => ~cardPs /\ todo # "PSon"

PowerInv ==
  /\ events \in Seq(Kinds)
  /\ errors = 0 =>
       /\ power # "awake" => Asleep
       /\ "SLEEP" \in Raised => Asked
       /\ cmd = "confirm" => Confirms
       /\ pc = "confirm" => cmd = "confirm"
       /\ (pc = "flush" /\ ret = "confirm") => cmd = "confirm"

LEMMA SameQueue ==
  ASSUME events' = events
  PROVE  Raised' = Raised /\ Behind' = Behind /\ Head(events') = Head(events)
  BY DEF Raised, Behind

\* A reply nobody waits for any more counts as an acknowledgement.
LEMMA RepliesDropped ==
  ASSUME PowerInv, AwaitGivesUp
  PROVE  /\ events' \in Seq(Kinds) /\ Raised' \subseteq Raised \cup {"ACK"}
         /\ Behind' \subseteq Behind \cup {"ACK"}
         /\ "SLEEP" \in Raised' /\ Head(events) = "SLEEP" => Head(events') = "SLEEP"
  <1>1. /\ events \in Seq(Kinds) /\ DOMAIN events = 1..Len(events) /\ Len(events) \in Nat
        /\ \A i \in 1..Len(events) : events[i] \in Kinds
    BY DEF PowerInv
  <1>2. /\ events' \in Seq(Kinds) /\ Len(events') = Len(events)
        /\ \A i \in 1..Len(events) : events'[i] = IF events[i] = "REPLY" THEN "ACK" ELSE events[i]
    <2>1. events' = [i \in 1..Len(events) |-> IF events[i] = "REPLY" THEN "ACK" ELSE events[i]]
      BY <1>1 DEF AwaitGivesUp
    <2>2. \A i \in 1..Len(events) : (IF events[i] = "REPLY" THEN "ACK" ELSE events[i]) \in Kinds
      BY <1>1 DEF Kinds
    <2> QED BY <1>1, <2>1, <2>2
  <1>3. Raised' \subseteq Raised \cup {"ACK"} /\ Behind' \subseteq Behind \cup {"ACK"}
    BY <1>1, <1>2 DEF Raised, Behind
  <1>4. ASSUME "SLEEP" \in Raised', Head(events) = "SLEEP" PROVE Head(events') = "SLEEP"
    <2>1. Len(events) >= 1
      BY <1>1, <1>2, <1>4 DEF Raised
    <2>2. Head(events) = events[1] /\ Head(events') = events'[1] /\ 1 \in 1..Len(events)
      BY <1>1, <1>2, <2>1
    <2> QED BY <1>2, <1>4, <2>2
  <1> QED BY <1>2, <1>3, <1>4

\* Steps that put nothing into the command port and take nothing out of it.
LEMMA QuietPower ==
  ASSUME IInv, Committed, PowerInv, errors = 0,
         events' = events, cardPs' = cardPs, cmd' = cmd,
         power' = "awake" \/ (power' # "awake" /\ power # "awake" /\ UNCHANGED <<psEnabled, psState, batch>>
                              /\ pc' \in {"idle", "pass", "drain", "port", "hostcmd"}),
         power = "awake" => power' = "awake",
         cmd = "confirm" => Confirming' /\ psEnabled' = psEnabled /\ todo' = todo,
         pc' = "confirm" \/ (pc' = "flush" /\ ret' = "confirm") => cmd = "confirm"
  PROVE  PowerInv'
  <1>1. Raised' = Raised /\ Behind' = Behind /\ Head(events') = Head(events)
    BY SameQueue
  <1>2. events' \in Seq(Kinds)
    BY DEF PowerInv
  <1>3. power' # "awake" => Asleep'
    BY <1>1 DEF PowerInv, Asleep
  <1>4. "SLEEP" \in Raised' => Asked'
    BY <1>1 DEF PowerInv, Asked
  <1>5. cmd' = "confirm" => Confirms'
    BY <1>1 DEF PowerInv, Confirms
  <1> QED BY <1>2, <1>3, <1>4, <1>5 DEF PowerInv

LEMMA NoErrorYet ==
  ASSUME IInv, [Next]_vars, errors' = 0
  PROVE  errors = 0 /\ ~BusError
  <1>1. errors \in Nat
    BY DEF IInv, Shape
  <1>2. ~BusError
    BY <1>1 DEF BusError
  <1>3. errors' \in {errors, errors + 1}
    <2>1. CASE Send
      BY <2>1, SendKeeps
    <2>2. CASE Stage \/ Redownload
      BY <2>2 DEF Stage, Redownload, count
    <2>3. CASE FlushTx
      BY <2>3 DEF FlushTx, BusError, count
    <2>4. CASE ~Send /\ ~Stage /\ ~FlushTx /\ ~Redownload
      BY <2>4, OthersAside DEF Aside
    <2> QED BY <2>1, <2>2, <2>3, <2>4
  <1> QED BY <1>1, <1>2, <1>3

\* Every step leaves packets of the five kinds in the command port.
LEMMA QueueTyped ==
  ASSUME IInv, PowerInv, [Next]_vars
  PROVE  events' \in Seq(Kinds)
  <1>1. events \in Seq(Kinds)
    BY DEF PowerInv
  <1>2. \A e \in Kinds : events' = Append(events, e) => events' \in Seq(Kinds)
    BY <1>1, QueueGrows
  <1>3. events # <<>> /\ events' = Tail(events) => events' \in Seq(Kinds)
    BY <1>1, QueueShrinks
  <1>4. CASE Card
    BY <1>1, <1>2, <1>4 DEF Card, CardFrees, CardAsks, CardSleeps, CardWakes, CardDrops, CardAnswers,
                            AnEvent, Kinds
  <1>5. CASE Send \/ SendHostCmd
    BY <1>1, <1>2, <1>5 DEF Send, SendHostCmd, WakeCardIfSleeping, Kinds
  <1>6. CASE SendSleepConfirm
    BY <1>1, <1>2, <1>6 DEF SendSleepConfirm, Confirmed, Kinds
  <1>7. CASE Event \/ SleepEvent \/ AwaitReads
    BY <1>3, <1>7 DEF Event, SleepEvent, AwaitReads
  <1>8. CASE AwaitGivesUp
    BY <1>8, RepliesDropped
  <1>9. CASE Redownload
    BY <1>9 DEF Redownload
  <1>10. CASE FlushTx \/ Stage \/ WaitFlushes \/ WaitTimesOut \/ WaitFails \/ Poll \/ Pass \/ DrainEnds
              \/ NoEvent \/ WriteCommand
    BY <1>1, <1>10 DEF FlushTx, Stage, WaitFlushes, WaitTimesOut, WaitFails, Poll, Pass, DrainEnds,
                       NoEvent, WriteCommand, card
  <1>11. CASE (\E c \in {"PSon", "PSoff", "other"} : Command(c)) \/ UNCHANGED vars
    BY <1>1, <1>11 DEF Command, vars, card
  <1> QED BY <1>4, <1>5, <1>6, <1>7, <1>8, <1>9, <1>10, <1>11 DEF Next, Driver, Calls

\* While the driver moves staged frames about, the card is awake or there are none.
LEMMA BatchPower ==
  ASSUME IInv, Committed, PowerInv, errors = 0, ~BusError,
         FlushTx \/ Stage \/ WaitFlushes \/ WaitTimesOut \/ WaitFails \/ Poll \/ Pass \/ DrainEnds
         \/ NoEvent \/ WriteCommand
         \/ (\E c \in {"PSon", "PSoff", "other"} : Command(c))
         \/ UNCHANGED vars
  PROVE  PowerInv'
  <1> DEFINE Quiet ==
        /\ events' = events /\ cardPs' = cardPs /\ cmd' = cmd
        /\ power' = "awake" \/ (power' # "awake" /\ power # "awake" /\ UNCHANGED <<psEnabled, psState, batch>>
                                 /\ pc' \in {"idle", "pass", "drain", "port", "hostcmd"})
        /\ power = "awake" => power' = "awake"
        /\ cmd = "confirm" => Confirming' /\ psEnabled' = psEnabled /\ todo' = todo
        /\ pc' = "confirm" \/ (pc' = "flush" /\ ret' = "confirm") => cmd = "confirm"
  <1>0. /\ power # "awake" => batch = <<>> /\ pc \in {"idle", "pass", "drain", "port", "hostcmd"}
        /\ cmd = "confirm" => Confirming
        /\ pc = "confirm" \/ (pc = "flush" /\ ret = "confirm") => cmd = "confirm"
        /\ caller \in {"idle", "drain"}
    BY DEF PowerInv, Asleep, Confirms, IInv, Shape
  <1> USE DEF card, ps, ring, sending, count, Confirming
  <1>1. CASE FlushTx
    <2>1. Quiet
      BY <1>0, <1>1 DEF FlushTx
    <2> QED BY <2>1, QuietPower
  <1>2. CASE Stage \/ WaitFlushes \/ WaitTimesOut
    <2>1. Quiet
      BY <1>0, <1>2 DEF Stage, WaitFlushes, WaitTimesOut, GoFlush
    <2> QED BY <2>1, QuietPower
  <1>3. CASE Poll \/ Pass \/ DrainEnds \/ NoEvent
    <2>1. Quiet
      BY <1>0, <1>3 DEF Poll, Pass, DrainEnds, NoEvent, GoFlush
    <2> QED BY <2>1, QuietPower
  <1>4. CASE WriteCommand
    <2>1. Quiet
      BY <1>0, <1>4 DEF WriteCommand
    <2> QED BY <2>1, QuietPower
  <1>5. ASSUME NEW c \in {"PSon", "PSoff", "other"}, Command(c) PROVE PowerInv'
    <2>1. Raised' = Raised /\ Behind' = Behind /\ Head(events') = Head(events) /\ events' = events
      BY <1>5, SameQueue DEF Command
    <2>2. cmd' # "confirm" /\ pc' = "hostcmd"
      BY <1>5 DEF Command
    <2>3. UNCHANGED <<power, psEnabled, psState, batch>>
      BY <1>5 DEF Command
    <2>4. power' # "awake" => Asleep'
      BY <2>1, <2>2, <2>3 DEF PowerInv, Asleep
    <2>5. "SLEEP" \in Raised' => Asked'
      BY <2>1, <2>3 DEF PowerInv, Asked
    <2>6. events' \in Seq(Kinds)
      BY <2>1 DEF PowerInv
    <2> QED BY <2>2, <2>4, <2>5, <2>6 DEF PowerInv
  <1>6. CASE WaitFails
    BY <1>6 DEF WaitFails
  <1>7. CASE UNCHANGED vars
    <2>1. Quiet
      BY <1>0, <1>7 DEF vars
    <2> QED BY <2>1, QuietPower
  <1> QED BY <1>1, <1>2, <1>3, <1>4, <1>5, <1>6, <1>7

\* What the card does by itself.
LEMMA CardPower ==
  ASSUME IInv, Committed, PowerInv, errors = 0, Card
  PROVE  PowerInv'
  <1> USE DEF HostAsIs, sending, ring, ps, count
  <1>1. ASSUME NEW p \in Ports, CardFrees(p) PROVE PowerInv'
    <2>1. UNCHANGED <<events, cardPs, cmd, power, psEnabled, psState, batch, pc, ret, todo>>
      BY <1>1 DEF CardFrees
    <2> QED BY <2>1, QuietPower DEF PowerInv, Asleep, Confirms, Confirming
  <1>2. CASE CardSleeps
    <2>1. UNCHANGED <<events, cardPs, cmd, psEnabled, psState, batch, pc, ret, todo>>
          /\ power = "leaving" /\ power' = "asleep"
      BY <1>2 DEF CardSleeps
    <2> QED BY <2>1, QuietPower DEF PowerInv, Asleep, Confirms, Confirming
  <1>3. CASE CardAsks
    <2>1. /\ events' = Append(events, "SLEEP") /\ events = <<>> /\ "SLEEP" \in Kinds
          /\ UNCHANGED <<cmd, power, pc, ret>> /\ power = "awake" /\ cmd # "confirm"
      BY <1>3 DEF CardAsks, AnEvent, Kinds
    <2>2. events' \in Seq(Kinds) /\ Head(events') = "SLEEP" /\ Behind' = {}
      BY <2>1, QueueGrows DEF PowerInv
    <2> QED BY <2>1, <2>2 DEF PowerInv, Asked
  <1>4. CASE CardWakes
    <2>1. /\ events' = Append(events, "AWAKE") /\ "AWAKE" \in Kinds /\ power # "awake" /\ power' = "awake"
          /\ UNCHANGED <<cmd, pc, ret>>
      BY <1>4 DEF CardWakes, AnEvent, Kinds
    <2>2. events' \in Seq(Kinds) /\ Raised' = Raised \cup {"AWAKE"}
      BY <2>1, QueueGrows DEF PowerInv
    <2>3. "SLEEP" \notin Raised' /\ cmd # "confirm"
      BY <2>1, <2>2 DEF PowerInv, Asleep
    <2> QED BY <2>1, <2>2, <2>3 DEF PowerInv
  <1>5. CASE CardDrops
    <2>1. /\ events' = Append(events, "DROP") /\ events = <<>> /\ "DROP" \in Kinds /\ power = "awake"
          /\ UNCHANGED <<cmd, pc, ret, power, psEnabled>> /\ ~cardPs' /\ todo' # "PSon"
      BY <1>5 DEF CardDrops, AnEvent, Kinds
    <2>2. events' \in Seq(Kinds) /\ Raised' = {"DROP"}
      BY <2>1, QueueGrows DEF PowerInv
    <2>3. cmd = "confirm" => Confirms'
      BY <2>1, <2>2 DEF PowerInv, Confirms, Confirming
    <2> QED BY <2>1, <2>2, <2>3 DEF PowerInv
  <1>6. CASE CardAnswers
    <2>1. PICK e \in {"REPLY", "ACK"} : events' = Append(events, e)
      BY <1>6 DEF CardAnswers
    <2>2. /\ UNCHANGED <<cmd, power, pc, ret, psEnabled, psState, batch>> /\ todo' = "none"
          /\ ~cardPs /\ todo # "PSon" => ~cardPs'
      BY <1>6 DEF CardAnswers
    <2>3. /\ events' \in Seq(Kinds) /\ Raised' = Raised \cup {e}
          /\ events # <<>> => Head(events') = Head(events) /\ Behind' = Behind \cup {e}
          /\ events = <<>> => Raised = {}
      BY <2>1, QueueGrows DEF PowerInv, Kinds
    <2>4. power' # "awake" => Asleep'
      BY <2>2, <2>3 DEF PowerInv, Asleep
    <2>5. "SLEEP" \in Raised' => Asked'
      BY <2>2, <2>3 DEF PowerInv, Asked
    <2>6. cmd' = "confirm" => Confirms'
      BY <2>2, <2>3 DEF PowerInv, Confirms, Confirming
    <2> QED BY <2>2, <2>3, <2>4, <2>5, <2>6 DEF PowerInv
  <1> QED BY <1>1, <1>2, <1>3, <1>4, <1>5, <1>6 DEF Card

\* The wake-up that a send or a command begins with.
LEMMA WakePower ==
  ASSUME IInv, PowerInv, errors = 0, ~BusError, WakeCardIfSleeping, UNCHANGED <<cmds, raised>>
  PROVE  /\ power' = "awake"
         /\ power = "awake" => events' = events
         /\ power # "awake" => "SLEEP" \notin Raised'
  <1>1. power # "awake" => Asleep
    BY DEF PowerInv
  <1>2. ASSUME power # "awake"
        PROVE  power' = "awake" /\ events' = Append(events, "AWAKE") /\ "AWAKE" \in Kinds
    BY <1>1, <1>2 DEF Asleep, WakeCardIfSleeping, BusError, Kinds
  <1>3. ASSUME power = "awake" PROVE power' = "awake" /\ events' = events
    BY <1>3 DEF WakeCardIfSleeping
  <1>4. ASSUME power # "awake" PROVE "SLEEP" \notin Raised'
    <2>1. Raised' = Raised \cup {"AWAKE"}
      BY <1>2, <1>4, QueueGrows DEF PowerInv
    <2> QED BY <1>1, <1>4, <2>1 DEF Asleep
  <1> QED BY <1>2, <1>3, <1>4

LEMMA WakingPower ==
  ASSUME IInv, PowerInv, [Next]_vars, errors = 0, ~BusError, Send \/ SendHostCmd
  PROVE  PowerInv'
  <1>1. WakeCardIfSleeping /\ UNCHANGED <<cmds, raised, cmd, psEnabled, cardPs, todo>>
    BY DEF Send, SendHostCmd
  <1>2. power' = "awake" /\ events' \in Seq(Kinds)
    BY <1>1, WakePower, QueueTyped
  <1>3. "SLEEP" \in Raised' => Asked'
    <2>1. CASE power = "awake"
      BY <1>1, <1>2, <2>1, WakePower, SameQueue DEF PowerInv, Asked
    <2>2. CASE power # "awake"
      BY <1>1, <2>2, WakePower
    <2> QED BY <2>1, <2>2
  <1>4. CASE Send
    <2>1. cmd' # "confirm"
      BY <1>4, <1>1 DEF Send, PowerInv, Confirms, Confirming
    <2>2. pc' # "confirm" /\ ~(pc' = "flush" /\ ret' = "confirm")
      BY <1>4 DEF Send, GoFlush
    <2> QED BY <1>2, <1>3, <2>1, <2>2 DEF PowerInv
  <1>5. CASE SendHostCmd
    <2>1. CASE cmd = "confirm"
      <3>1. Confirms /\ power = "awake"
        BY <2>1 DEF PowerInv, Asleep
      <3>2. Raised' = Raised
        BY <1>1, <3>1, WakePower, SameQueue
      <3>3. Confirming'
        BY <1>5, <2>1 DEF SendHostCmd, GoFlush, Confirming
      <3>4. Confirms'
        BY <1>1, <3>1, <3>2, <3>3 DEF Confirms
      <3> QED BY <1>1, <1>2, <1>3, <2>1, <3>4 DEF PowerInv
    <2>2. CASE cmd # "confirm"
      <3>1. pc' # "confirm" /\ ~(pc' = "flush" /\ ret' = "confirm")
        BY <1>5, <2>2 DEF SendHostCmd, GoFlush
      <3> QED BY <1>1, <1>2, <1>3, <2>2, <3>1 DEF PowerInv
    <2> QED BY <2>1, <2>2
  <1> QED BY <1>4, <1>5

\* What is taken out of the command port.
LEMMA ReadPower ==
  ASSUME IInv, PowerInv, [Next]_vars, errors = 0, ~BusError, Event \/ SleepEvent \/ AwaitReads
  PROVE  PowerInv'
  <1> USE DEF ring
  <1>1. /\ events # <<>> /\ events' = Tail(events) /\ power' = power
        /\ events \in Seq(Kinds) /\ events' \in Seq(Kinds)
    BY QueueTyped DEF Event, SleepEvent, AwaitReads, PowerInv
  <1>2. /\ Raised' = Behind /\ Behind \subseteq Raised /\ Head(events) \in Raised
        /\ Head(events) \in Kinds
    BY <1>1, QueueShrinks
  <1>3. "SLEEP" \notin Raised'
    BY <1>2 DEF PowerInv, Asked
  <1>4. CASE Event
    <2>1. cmd # "confirm" /\ cmd' = cmd
      BY <1>4 DEF Event, PowerInv, Confirms, Confirming
    <2>2. pc' # "confirm" /\ ~(pc' = "flush" /\ ret' = "confirm")
      BY <1>4 DEF Event, GoFlush
    <2>3. ASSUME power # "awake" PROVE Asleep'
      <3>1. Asleep
        BY <2>3 DEF PowerInv
      <3>2. psState' = psState
        BY <1>2, <1>4, <3>1 DEF Event, Asleep
      <3>3. pc' = "idle" /\ batch' = batch /\ psEnabled' = psEnabled
        BY <1>4, <3>1 DEF Event, GoFlush, Asleep
      <3> QED BY <1>2, <2>1, <3>1, <3>2, <3>3 DEF Asleep
    <2> QED BY <1>1, <1>3, <2>1, <2>2, <2>3 DEF PowerInv
  <1>5. CASE SleepEvent
    <2>1. "SLEEP" \in Raised /\ psEnabled /\ psEnabled' = psEnabled /\ pc' = "hostcmd"
      BY <1>2, <1>5 DEF SleepEvent, ps
    <2>2. power' = "awake" /\ Raised' \subseteq {"REPLY", "ACK"}
      BY <1>1, <1>2, <2>1 DEF PowerInv, Asked
    <2>3. Confirms'
      BY <2>1, <2>2 DEF Confirms, Confirming
    <2> QED BY <1>1, <1>3, <2>1, <2>2, <2>3 DEF PowerInv
  <1>6. CASE AwaitReads
    <2>1. power = "awake" /\ cmd # "confirm"
      BY <1>6 DEF AwaitReads, PowerInv, Asleep, Confirms, Confirming
    <2>2. cmd' # "confirm" /\ pc' \in {"idle", "await"}
      BY <1>6, <2>1 DEF AwaitReads
    <2> QED BY <1>1, <1>3, <2>1, <2>2 DEF PowerInv
  <1> QED BY <1>4, <1>5, <1>6

\* sendSleepConfirm(): from here on host and card both know that it sleeps.
LEMMA ConfirmPower ==
  ASSUME IInv, Committed, PowerInv, [Next]_vars, errors = 0, ~BusError, SendSleepConfirm
  PROVE  PowerInv'
  <1> USE DEF ring
  <1>1. power = "awake" /\ cmd = "confirm" /\ batch = <<>> /\ pc = "confirm"
    BY DEF SendSleepConfirm, PowerInv, Asleep, Committed
  <1>2. Confirms /\ events \in Seq(Kinds) /\ events' \in Seq(Kinds)
    BY <1>1, QueueTyped DEF PowerInv
  <1>3. cmd' = "none" /\ pc' = "idle" /\ batch' = <<>> /\ psState' = "SLEEPING" /\ psEnabled'
    BY <1>1, <1>2 DEF SendSleepConfirm, GoFlush, Confirms
  <1>4. CASE cardPs
    <2>1. power' = "leaving" /\ events' = Append(events, "ACK") /\ "ACK" \in Kinds
      BY <1>4 DEF SendSleepConfirm, Confirmed, Kinds
    <2>2. Raised' = Raised \cup {"ACK"}
      BY <1>2, <2>1, QueueGrows
    <2>3. Asleep' /\ "SLEEP" \notin Raised'
      BY <1>2, <1>3, <1>4, <2>2 DEF Confirms, Asleep
    <2> QED BY <1>2, <1>3, <2>3 DEF PowerInv
  <1>5. CASE ~cardPs
    <2>1. power' = "awake" /\ events' = events
      BY <1>1, <1>5 DEF SendSleepConfirm, Confirmed
    <2>2. "SLEEP" \notin Raised'
      BY <1>2, <2>1, SameQueue DEF Confirms
    <2> QED BY <1>2, <1>3, <2>1, <2>2 DEF PowerInv
  <1> QED BY <1>4, <1>5

LEMMA OtherPower ==
  ASSUME IInv, PowerInv, [Next]_vars, errors = 0, ~BusError, AwaitGivesUp \/ Redownload
  PROVE  PowerInv'
  <1>1. events' \in Seq(Kinds)
    BY QueueTyped
  <1>2. CASE AwaitGivesUp
    <2>1. power = "awake" /\ power' = power /\ cmd' = "none" /\ pc' = "idle"
      BY <1>2 DEF AwaitGivesUp, PowerInv, Asleep
    <2>2. ASSUME "SLEEP" \in Raised' PROVE Asked'
      <3>1. Asked
        BY <1>2, <2>2, RepliesDropped DEF PowerInv
      <3> QED BY <1>2, <2>1, <2>2, <3>1, RepliesDropped DEF Asked
    <2> QED BY <1>1, <2>1, <2>2 DEF PowerInv
  <1>3. CASE Redownload
    <2>1. power' = "awake" /\ cmd' = cmd /\ pc' = "idle" /\ events' = <<>>
      BY <1>3 DEF Redownload
    <2>2. cmd # "confirm"
      BY <1>3 DEF Redownload, PowerInv, Confirms, Confirming
    <2>3. Raised' = {}
      BY <2>1 DEF Raised
    <2> QED BY <1>1, <2>1, <2>2, <2>3 DEF PowerInv
  <1> QED BY <1>2, <1>3

LEMMA PowerStep == IInv /\ Committed /\ PowerInv /\ [Next]_vars => PowerInv'
  <1> SUFFICES ASSUME IInv, Committed, PowerInv, [Next]_vars PROVE PowerInv'
    OBVIOUS
  <1>1. CASE errors' # 0
    BY <1>1, QueueTyped DEF PowerInv
  <1>2. CASE errors' = 0
    <2>1. errors = 0 /\ ~BusError
      BY <1>2, NoErrorYet
    <2>2. CASE Card
      BY <2>1, <2>2, CardPower
    <2>3. CASE FlushTx \/ Stage \/ WaitFlushes \/ WaitTimesOut \/ WaitFails \/ Poll \/ Pass \/ DrainEnds
               \/ NoEvent \/ WriteCommand
               \/ (\E c \in {"PSon", "PSoff", "other"} : Command(c))
               \/ UNCHANGED vars
      BY <2>1, <2>3, BatchPower
    <2>4. CASE Send \/ SendHostCmd
      BY <2>1, <2>4, WakingPower
    <2>5. CASE Event \/ SleepEvent \/ AwaitReads
      BY <2>1, <2>5, ReadPower
    <2>6. CASE SendSleepConfirm
      BY <2>1, <2>6, ConfirmPower
    <2>7. CASE AwaitGivesUp \/ Redownload
      BY <2>1, <2>7, OtherPower
    <2> QED BY <2>2, <2>3, <2>4, <2>5, <2>6, <2>7 DEF Next, Driver, Calls
  <1> QED BY <1>1, <1>2

LEMMA PowerInit == Init => Committed /\ PowerInv
  <1> SUFFICES ASSUME Init PROVE Committed /\ PowerInv
    OBVIOUS
  <1>1. Raised = {} /\ events \in Seq(Kinds)
    BY DEF Init, Raised
  <1> QED BY <1>1 DEF Init, Committed, PowerInv

\* While no access has failed, neither a batch nor a command nor a confirmation is written to
\* a card that sleeps or has leave to: the confirmation, the wake-up and the frames staged in
\* the same pass cannot cross (sendHostCmdBss, wakeCardIfSleeping, sendSleepConfirm).
THEOREM NothingWrittenAsleep == Spec => []NoWriteAsleep
  <1>1. Init => Committed /\ PowerInv
    BY PowerInit
  <1>2. PowerInv => NoWriteAsleep
    BY DEF PowerInv, Asleep, NoWriteAsleep
  <1> QED BY <1>1, <1>2, IInvAlways, CommittedStep, PowerStep, PTL DEF Spec

-----------------------------------------------------------------------------
(* Types.                                                                    *)

LEMMA TypeStep == IInv /\ PowerInv /\ TypeOK /\ [Next]_vars => TypeOK'
  <1> SUFFICES ASSUME IInv, PowerInv, TypeOK, [Next]_vars PROVE TypeOK'
    OBVIOUS
  <1> DEFINE Rest ==
        /\ free \subseteq Ports /\ power \in {"awake", "leaving", "asleep"}
        /\ powerUp \in BOOLEAN /\ cardPs \in BOOLEAN /\ aggr \in BOOLEAN /\ psEnabled \in BOOLEAN
        /\ {todo, cmd} \subseteq {"none", "PSon", "PSoff", "other", "confirm"}
        /\ pc \in {"idle", "flush", "wait", "pass", "drain", "port", "hostcmd", "confirm",
                   "write", "await"}
        /\ ret \in {"idle", "wait", "pass", "drain", "confirm", "write"}
        /\ psState \in {"AWAKE", "SLEEPING"}
  <1>0. Rest /\ caller \in {"idle", "drain"}
    BY DEF TypeOK
  <1> USE DEF card, ps, ring, sending, count, HostAsIs, AnEvent, GoFlush, BusError
  <1>1. events' \in Seq({"SLEEP", "AWAKE", "DROP", "REPLY", "ACK"})
    BY QueueTyped DEF Kinds
  <1>2. IInv'
    BY IInvStep
  <1>3. Rest'
    <2>1. ASSUME NEW p \in Ports, CardFrees(p) PROVE Rest'
      BY <1>0, <2>1 DEF CardFrees
    <2>2. CASE CardAsks \/ CardSleeps \/ CardWakes \/ CardDrops \/ CardAnswers
      BY <1>0, <2>2 DEF CardAsks, CardSleeps, CardWakes, CardDrops, CardAnswers
    <2>3. CASE FlushTx
      BY <1>0, <2>3 DEF FlushTx, Written
    <2>4. CASE Stage \/ WaitFlushes \/ WaitTimesOut \/ WaitFails
      BY <1>0, <2>4 DEF Stage, WaitFlushes, WaitTimesOut, WaitFails
    <2>5. CASE Poll \/ Pass \/ DrainEnds \/ NoEvent
      BY <1>0, <2>5 DEF Poll, Pass, DrainEnds, NoEvent
    <2>6. CASE Event
      BY <1>0, <2>6 DEF Event
    <2>7. CASE SleepEvent \/ SendSleepConfirm
      BY <1>0, <2>7 DEF SleepEvent, SendSleepConfirm, Confirmed
    <2>8. CASE Send \/ SendHostCmd
      BY <1>0, <2>8 DEF Send, SendHostCmd, WakeCardIfSleeping
    <2>9. CASE WriteCommand \/ AwaitReads \/ AwaitGivesUp
      BY <1>0, <2>9 DEF WriteCommand, AwaitReads, AwaitGivesUp
    <2>10. CASE Redownload
      BY <1>0, <2>10 DEF Redownload
    <2>11. ASSUME NEW c \in {"PSon", "PSoff", "other"}, Command(c) PROVE Rest'
      BY <1>0, <2>11 DEF Command
    <2>12. CASE UNCHANGED vars
      BY <1>0, <2>12 DEF vars
    <2> QED BY <2>1, <2>2, <2>3, <2>4, <2>5, <2>6, <2>7, <2>8, <2>9, <2>10, <2>11, <2>12
            DEF Next, Card, Driver, Calls
  <1> QED BY <1>1, <1>2, <1>3 DEF IInv, Shape, TypeOK

\* Every variable keeps its type, for every size of the ring and of a batch.
THEOREM TypeCorrect == Spec => []TypeOK
  <1>1. Init => TypeOK
    <2> SUFFICES ASSUME Init PROVE TypeOK
      OBVIOUS
    <2>1. 0 \in Ports /\ <<>> \in Seq(Nat)
      BY ConstantsOK DEF Ports
    <2>2. events \in Seq({"SLEEP", "AWAKE", "DROP", "REPLY", "ACK"})
      BY DEF Init
    <2>3. aggr \in BOOLEAN /\ powerUp \in BOOLEAN /\ cardPs \in BOOLEAN /\ psEnabled \in BOOLEAN
      BY DEF Init
    <2> QED BY <2>1, <2>2, <2>3 DEF Init, TypeOK
  <1>2. Init => Committed /\ PowerInv
    BY PowerInit
  <1> QED BY <1>1, <1>2, TypeStep, IInvAlways, CommittedStep, PowerStep, PTL DEF Spec
=============================================================================
