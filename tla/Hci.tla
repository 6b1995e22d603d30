--------------------------------- MODULE Hci ---------------------------------
(***************************************************************************)
(* The host side of an HCI link over H4: a bounded command queue that      *)
(* honours the controller's command credits, ages and times commands out,  *)
(* and recovers from a framing fault by discarding bytes until the line is *)
(* idle.  hci/Hci.cpp, hci/Hci.h.                                          *)
(*                                                                         *)
(* The class runs on one thread, but its callbacks run in the middle of    *)
(* service(): a completion or an event handler may submit() while the      *)
(* drain loop is half way through the bytes, and the millisecond clock     *)
(* moves meanwhile.  So service() is cut where a callback or the clock can *)
(* come in: the control variable pc is what the enclosing service() will   *)
(* do next, and depth counts the callbacks open on the stack.              *)
(*                                                                         *)
(* A millisecond stamp of the code is represented by its AGE (the clock    *)
(* minus the stamp), saturated at MaxAge, so time is unbounded.            *)
(***************************************************************************)
EXTENDS Integers, Sequences

CONSTANTS
  Opcodes,      \* opcodes the host sends (values other than NOP)
  NOP,          \* opcode 0x0000: a Command Complete that only carries credits
  QueueDepth,   \* QUEUE_DEPTH, 4 in the code
  IdleResync,   \* IDLE_RESYNC_MS, 50 in the code
  Timeouts,     \* values m_timeoutMs takes (setCommandTimeout, run)
  DefaultTimeout, \* its value after begin(), 1000 ms in the code
  CreditMax,    \* 0xFF: the largest value of the uint8_t m_ncmd
  Grants,       \* Num_HCI_Command_Packets values the controller sends
  MaxDrain,     \* longest time one drain loop takes, callbacks included
  MaxAge,       \* saturation of ages
  MaxCmds,      \* bound: commands ever submitted
  MaxLine       \* bound: units waiting in the receive ring

ASSUME QueueAssumption   == QueueDepth \in Nat \ {0} /\ MaxCmds \in Nat /\ MaxLine \in Nat
ASSUME CreditAssumption  == CreditMax \in Nat \ {0} /\ Grants \subseteq 0..CreditMax
ASSUME TimeAssumption    ==
  /\ IdleResync \in Nat \ {0} /\ MaxDrain \in Nat /\ MaxAge \in Nat
  /\ IdleResync <= MaxAge /\ MaxDrain <= MaxAge
  /\ Timeouts \subseteq 1..MaxAge /\ DefaultTimeout \in Timeouts
ASSUME OpcodeAssumption  == NOP \notin Opcodes

VARIABLES
  queue,        \* m_q, m_qHead, m_qCount: commands waiting, the head possibly in flight
  inflight,     \* m_inflight
  inflightOp,   \* m_inflightOpcode
  sentAge,      \* age of m_sentAt
  ncmd,         \* m_ncmd: command credits
  timeout,      \* m_timeoutMs
  resync,       \* m_resync
  byteAge,      \* age of m_lastByteAt
  pc,           \* what the enclosing service() does next
  lag,          \* age of the `now` service() captured before its drain loop
  depth,        \* callbacks open on the stack
  run,          \* the command a run() in progress waits for (0: none), its saved timeout
  line,         \* units received and not yet read
  outstanding,  \* commands the controller holds and has not answered
  nextId,       \* history: the number of the next command
  outcome,      \* history: how each command finished
  sent,         \* history: commands written to the wire, with their opcodes
  answer,       \* history: whose reply a command was completed with (0: none)
  lastGrant,    \* history: the credits named by the last reply read
  quiet         \* history: time since the last unit arrived on the line

hostVars == <<queue, inflight, inflightOp, sentAge, ncmd, timeout, resync, byteAge>>
ctlVars  == <<pc, lag, depth, run>>
envVars  == <<line, outstanding>>
histVars == <<nextId, outcome, sent, answer, lastGrant, quiet>>
vars == <<hostVars, ctlVars, envVars, histVars>>

Cmds     == 1..MaxCmds
Ages     == 0..MaxAge
Failures == {"TIMEOUT", "FRAMING", "NCMD_STARVED"}
\* "REPLIED" is OK or STATUS: the status byte of the reply is not modelled.
Outcomes == {"none", "REPLIED", "DROPPED"} \cup Failures

\* What the receive ring holds, one unit per parsed packet.  "reply" is a Command
\* Complete or Command Status; "event" is any other event or an ACL packet, which
\* goes to a callback; "noise" is a byte the H4 parser rejects.
Reply(o, i, g) == [t |-> "reply", op |-> o, id |-> i, grant |-> g]
Event == [t |-> "event", op |-> NOP, id |-> 0, grant |-> 0]
Noise == [t |-> "noise", op |-> NOP, id |-> 0, grant |-> 0]
Units == [t : {"reply", "event", "noise"}, op : Opcodes \cup {NOP}, id : 0..MaxCmds,
          grant : 0..CreditMax]

Older(a) == IF a < MaxAge THEN a + 1 ELSE a
Head1    == Head(queue)

Init ==
  /\ queue = <<>> /\ inflight = FALSE /\ inflightOp = NOP /\ sentAge = 0
  /\ ncmd = 1 /\ timeout = DefaultTimeout /\ resync = FALSE /\ byteAge = 0
  /\ pc = "out" /\ lag = 0 /\ depth = 0 /\ run = [id |-> 0, saved |-> DefaultTimeout]
  /\ line = <<>> /\ outstanding = {}
  /\ nextId = 1 /\ outcome = [c \in Cmds |-> "none"] /\ sent = {}
  /\ answer = [c \in Cmds |-> 0] /\ lastGrant = 1 /\ quiet = 0

-----------------------------------------------------------------------------
(* The private helpers.  Each is an action that sets the variables it names *)
(* from the intermediate values its caller has computed.  A definition      *)
(* named Mutant... is a plausible bug that replaces the definition below it *)
(* to show that a property notices.                                         *)

MutantFinishNewest(q, e, by) ==
  /\ queue' = SubSeq(q, 1, Len(q) - 1)
  /\ inflight' = FALSE
  /\ outcome' = [outcome EXCEPT ![q[Len(q)].id] = e]
  /\ answer' = [answer EXCEPT ![q[Len(q)].id] = by]
  /\ depth' = depth + 1
  /\ UNCHANGED <<inflightOp, sentAge, sent, outstanding>>

\* finish(e, r): pop the head of q, clear m_inflight, open the done callback.
\* `by' is the command the reply answers, 0 when there is no reply.
Finish(q, e, by) ==
  /\ queue' = Tail(q)
  /\ inflight' = FALSE
  /\ outcome' = [outcome EXCEPT ![Head(q).id] = e]
  /\ answer' = [answer EXCEPT ![Head(q).id] = by]
  /\ depth' = depth + 1
  /\ UNCHANGED <<inflightOp, sentAge, sent, outstanding>>

CanWrite(rs) == ncmd > 0 /\ ~rs

\* dispatch() writes the head command, spending a credit.
WriteHead(q) ==
  /\ queue' = q
  /\ inflight' = TRUE /\ inflightOp' = Head(q).op /\ sentAge' = 0
  /\ ncmd' = ncmd - 1
  /\ sent' = sent \cup {[id |-> Head(q).id, op |-> Head(q).op]}
  /\ outstanding' = outstanding \cup {[id |-> Head(q).id, op |-> Head(q).op]}
  /\ UNCHANGED <<outcome, answer, depth>>

\* Why an aged head could not be sent: the resync is tested before the credits.
AgedReason(rs) == IF ~rs /\ ncmd = 0 THEN "NCMD_STARVED" ELSE "FRAMING"

MutantDispatchNoAging(q, rs) ==
  IF ~inflight /\ q # <<>> /\ CanWrite(rs)
  THEN WriteHead(q)
  ELSE queue' = q /\ UNCHANGED <<inflight, inflightOp, sentAge, ncmd, sent, outstanding, outcome, answer, depth>>

\* dispatch() with queue contents q and resync flag rs.
Dispatch(q, rs) ==
  IF inflight \/ q = <<>>
  THEN queue' = q /\ UNCHANGED <<inflight, inflightOp, sentAge, ncmd, sent, outstanding, outcome, answer, depth>>
  ELSE \/ /\ CanWrite(rs)
          /\ WriteHead(q)
       \/ /\ ~CanWrite(rs) /\ Head(q).age >= timeout
          /\ Finish(q, AgedReason(rs), 0) /\ UNCHANGED ncmd
       \/ /\ ~CanWrite(rs) /\ Head(q).age < timeout
          /\ queue' = q
          /\ UNCHANGED <<inflight, inflightOp, sentAge, ncmd, sent, outstanding, outcome, answer, depth>>

MutantNoRefund(n) == n

\* The credit an abandoned command spent is given back; m_ncmd is a uint8_t.
Refund(n) == IF n < CreditMax THEN n + 1 ELSE n

-----------------------------------------------------------------------------
(* The public operations.  User code runs outside service() when no callback *)
(* is open, or inside a callback.                                            *)

AtTop     == pc = "out" /\ depth = 0
RunIsDone == run.id # 0 /\ outcome[run.id] # "none"
UserRuns  == depth > 0 \/ (pc = "out" /\ run.id = 0)

\* The body of submit() once there is room.
Enqueue(op) ==
  /\ Len(queue) < QueueDepth
  /\ nextId \in Cmds
  /\ nextId' = nextId + 1
  /\ Dispatch(Append(queue, [id |-> nextId, op |-> op, age |-> 0]), resync)

\* submit(): refused when the queue is full (then nothing but a counter changes).
Submit(op) ==
  /\ UserRuns
  /\ Enqueue(op)
  /\ UNCHANGED <<timeout, resync, byteAge, pc, lag, run, line, lastGrant, quiet>>

\* run(): refused when busy; takes its own timeout until the command is done.
RunStart(op, t) ==
  /\ AtTop /\ run.id = 0
  /\ queue = <<>> /\ ~inflight
  /\ run' = [id |-> nextId, saved |-> timeout]
  /\ nextId \in Cmds /\ nextId' = nextId + 1
  /\ timeout' = t
  /\ Dispatch(<<[id |-> nextId, op |-> op, age |-> 0]>>, resync)
  /\ UNCHANGED <<resync, byteAge, pc, lag, line, lastGrant, quiet>>

RunReturn ==
  /\ AtTop /\ RunIsDone
  /\ timeout' = run.saved
  /\ run' = [run EXCEPT !.id = 0]
  /\ UNCHANGED <<queue, inflight, inflightOp, sentAge, ncmd, resync, byteAge,
                 pc, lag, depth, envVars, histVars>>

SetCommandTimeout(t) ==
  /\ AtTop /\ run.id = 0
  /\ timeout' = t
  /\ UNCHANGED <<queue, inflight, inflightOp, sentAge, ncmd, resync, byteAge,
                 ctlVars, envVars, histVars>>

\* reclaimCredit(): at most one credit, only from zero.
ReclaimCredit ==
  /\ UserRuns
  /\ ncmd = 0 /\ ncmd' = 1
  /\ UNCHANGED <<queue, inflight, inflightOp, sentAge, timeout, resync, byteAge,
                 ctlVars, envVars, histVars>>

\* begin(): per-link state starts afresh.  Commands still queued vanish without their
\* done callback, and what the controller holds or has sent is not forgotten by it.
Begin ==
  /\ AtTop /\ run.id = 0
  /\ queue' = <<>> /\ inflight' = FALSE /\ inflightOp' = NOP /\ sentAge' = 0
  /\ ncmd' = 1 /\ timeout' = DefaultTimeout /\ resync' = FALSE /\ byteAge' = 0
  /\ outcome' = [c \in Cmds |-> IF \E i \in 1..Len(queue) : queue[i].id = c
                                THEN "DROPPED" ELSE outcome[c]]
  /\ lastGrant' = 1
  /\ UNCHANGED <<ctlVars, envVars, nextId, sent, answer, quiet>>

\* A done, event or ACL callback returns to the code that called it.
CallbackReturn ==
  /\ depth > 0
  /\ depth' = depth - 1
  /\ UNCHANGED <<hostVars, pc, lag, run, envVars, histVars>>

-----------------------------------------------------------------------------
(* service(), cut at its callbacks.                                          *)

ServiceStart ==
  /\ AtTop /\ ~RunIsDone
  /\ pc' = "drain" /\ lag' = 0
  /\ UNCHANGED <<hostVars, depth, run, envVars, histVars>>

Draining(kind) == pc = "drain" /\ depth = 0 /\ line # <<>> /\ Head(line).t = kind

MutantDiscardUnstamped ==
  /\ pc = "drain" /\ depth = 0 /\ line # <<>> /\ resync
  /\ line' = Tail(line)
  /\ UNCHANGED <<hostVars, ctlVars, outstanding, histVars>>

\* Bytes read while resynchronising are stamped and thrown away.
Discard ==
  /\ pc = "drain" /\ depth = 0 /\ line # <<>> /\ resync
  /\ line' = Tail(line) /\ byteAge' = lag
  /\ UNCHANGED <<queue, inflight, inflightOp, sentAge, ncmd, timeout, resync,
                 ctlVars, outstanding, histVars>>

MutantAnswersUnsent(u) == queue # <<>> /\ u.op = Head1.op

MutantAnswersAnyOpcode(u) == inflight

\* Only a reply to the opcode in flight completes a command.
Answers(u) == inflight /\ u.op = inflightOp

\* onPacket, Command Complete / Command Status: the grant is assigned before the
\* opcode is looked at.
ReadReply ==
  /\ Draining("reply") /\ ~resync
  /\ LET u == Head(line) IN
       /\ ncmd' = u.grant /\ lastGrant' = u.grant
       /\ IF Answers(u)
          THEN Finish(queue, "REPLIED", u.id)
          ELSE UNCHANGED <<queue, inflight, inflightOp, sentAge, sent, outstanding,
                           outcome, answer, depth>>
  /\ line' = Tail(line) /\ byteAge' = lag
  /\ UNCHANGED <<timeout, resync, pc, lag, run, nextId, quiet>>

\* onPacket, any other event and ACL data: straight to the registered callback.
ReadEvent ==
  /\ Draining("event") /\ ~resync
  /\ depth' = depth + 1
  /\ line' = Tail(line) /\ byteAge' = lag
  /\ UNCHANGED <<queue, inflight, inflightOp, sentAge, ncmd, timeout, resync,
                 pc, lag, run, outstanding, histVars>>

\* onFault: start the resync, fail the command in flight, give its credit back.
ReadNoise ==
  /\ Draining("noise") /\ ~resync
  /\ resync' = TRUE
  /\ IF inflight
     THEN ncmd' = Refund(ncmd) /\ Finish(queue, "FRAMING", 0)
     ELSE UNCHANGED <<queue, inflight, inflightOp, sentAge, ncmd, sent, outstanding,
                      outcome, answer, depth>>
  /\ line' = Tail(line) /\ byteAge' = lag
  /\ UNCHANGED <<timeout, pc, lag, run, nextId, lastGrant, quiet>>

MutantTimedOutStaleClock ==
  inflight /\ (sentAge < lag \/ sentAge - lag >= timeout)

\* The checks after the drain use a fresh clock.
StillResync == resync /\ byteAge < IdleResync
TimedOut    == inflight /\ sentAge >= timeout

DrainEnd ==
  /\ pc = "drain" /\ depth = 0 /\ line = <<>>
  /\ resync' = StillResync
  /\ IF TimedOut
     THEN /\ ncmd' = Refund(ncmd) /\ Finish(queue, "TIMEOUT", 0)
          /\ pc' = "tail"
     ELSE Dispatch(queue, StillResync) /\ pc' = "out"
  /\ lag' = 0
  /\ UNCHANGED <<timeout, byteAge, run, line, nextId, lastGrant, quiet>>

\* The dispatch() that ends a pass in which a command timed out.
ServiceTail ==
  /\ pc = "tail" /\ depth = 0
  /\ Dispatch(queue, resync)
  /\ pc' = "out"
  /\ UNCHANGED <<timeout, resync, byteAge, lag, run, line, nextId, lastGrant, quiet>>

-----------------------------------------------------------------------------
(* The clock and, external to src/, the controller and the serial line.      *)

\* In the drain loop time passes while a callback runs or bytes are being read.
Tick ==
  /\ pc = "drain" => lag < MaxDrain /\ (depth > 0 \/ line # <<>>)
  /\ queue' = [i \in DOMAIN queue |-> [queue[i] EXCEPT !.age = Older(@)]]
  /\ sentAge' = IF inflight THEN Older(sentAge) ELSE sentAge
  /\ byteAge' = IF resync THEN Older(byteAge) ELSE byteAge
  /\ lag' = IF pc = "drain" THEN lag + 1 ELSE lag
  /\ quiet' = Older(quiet)
  /\ UNCHANGED <<inflight, inflightOp, ncmd, timeout, resync, pc, depth, run,
                 envVars, nextId, outcome, sent, answer, lastGrant>>

\* A unit takes at least one tick of the clock on the line, so a drain loop that lasts
\* at most MaxDrain reads at most that many units more than it found.
Receive(u) ==
  /\ Len(line) < MaxLine /\ quiet > 0
  /\ line' = Append(line, u)
  /\ quiet' = 0
  /\ UNCHANGED <<hostVars, ctlVars, nextId, outcome, sent, answer, lastGrant>>

\* The controller answers a command it holds, in any order, granting any credit count.
\* It need never answer: a command or a reply lost on the line is one never answered, a
\* reply damaged on the line is noise.
ControllerReplies ==
  \E c \in outstanding, g \in Grants :
    /\ Receive(Reply(c.op, c.id, g))
    /\ outstanding' = outstanding \ {c}

\* A Command Complete for opcode 0 returns credits and answers nothing.
ControllerGrants ==
  \E g \in Grants : Receive(Reply(NOP, 0, g)) /\ UNCHANGED outstanding

ControllerEvent == Receive(Event) /\ UNCHANGED outstanding

LineNoise == Receive(Noise) /\ UNCHANGED outstanding

-----------------------------------------------------------------------------
User ==
  \/ \E op \in Opcodes : Submit(op)
  \/ \E op \in Opcodes, t \in Timeouts : RunStart(op, t)
  \/ RunReturn
  \/ \E t \in Timeouts : SetCommandTimeout(t)
  \/ ReclaimCredit
  \/ Begin
  \/ CallbackReturn

Service ==
  \/ ServiceStart \/ Discard \/ ReadReply \/ ReadEvent \/ ReadNoise
  \/ DrainEnd \/ ServiceTail

Environment ==
  \/ Tick \/ ControllerReplies \/ ControllerGrants \/ ControllerEvent
  \/ LineNoise

Next == User \/ Service \/ Environment

Spec == Init /\ [][Next]_vars

\* The sketch's loop calls service() for ever, callbacks return, time passes, run()
\* returns, and the drain loop reads what there is.  Nothing is assumed of the controller
\* or the line.  Tick is strongly fair because the clock does not wait for passes to end.
Fairness ==
  /\ WF_vars(ServiceStart) /\ WF_vars(Discard \/ ReadReply \/ ReadEvent \/ ReadNoise)
  /\ WF_vars(DrainEnd) /\ WF_vars(ServiceTail)
  /\ WF_vars(CallbackReturn) /\ WF_vars(RunReturn) /\ SF_vars(Tick)

FairSpec == Spec /\ Fairness

-----------------------------------------------------------------------------
(* Properties.                                                               *)

Command == [id : Cmds, op : Opcodes, age : Ages]
OnWire  == [id : Cmds, op : Opcodes]

\* Types of every variable; the queue never exceeds m_q's QUEUE_DEPTH entries.
TypeOK ==
  /\ queue \in Seq(Command) /\ Len(queue) <= QueueDepth
  /\ inflight \in BOOLEAN /\ inflightOp \in Opcodes \cup {NOP} /\ sentAge \in Ages
  /\ ncmd \in 0..CreditMax /\ timeout \in Timeouts /\ resync \in BOOLEAN /\ byteAge \in Ages
  /\ pc \in {"out", "drain", "tail"} /\ lag \in 0..MaxDrain /\ depth \in Nat
  /\ run \in [id : 0..MaxCmds, saved : Timeouts]
  /\ line \in Seq(Units)
  /\ outstanding \subseteq OnWire
  /\ nextId \in 1..(MaxCmds + 1) /\ outcome \in [Cmds -> Outcomes]
  /\ sent \subseteq OnWire /\ answer \in [Cmds -> 0..MaxCmds]
  /\ lastGrant \in 0..CreditMax /\ quiet \in Ages

Written(c) == \E s \in sent : s.id = c

\* Commands finish exactly once and in the order they were submitted, whatever the
\* callbacks, faults and timeouts do: the queue holds the last Len(queue) numbers in
\* order, and exactly the earlier ones have an outcome.  (finish, submit.)
CompletionOrder ==
  /\ \A i \in 1..Len(queue) : queue[i].id = nextId - Len(queue) + i - 1
  /\ \A c \in Cmds : outcome[c] # "none" <=> c < nextId - Len(queue)

\* Of the commands waiting, only the head can be on the wire, and it is exactly when
\* a command is in flight; its opcode is the one replies are matched against.
InflightIsHead ==
  /\ inflight => queue # <<>> /\ inflightOp = Head1.op
  /\ \A i \in 1..Len(queue) : Written(queue[i].id) <=> (i = 1 /\ inflight)

\* An outcome tells the truth about the wire: a command reported answered or timed
\* out was written, one reported starved of credit never was.  (dispatch, service.)
OutcomeHonest ==
  \A c \in Cmds :
    /\ outcome[c] \in {"REPLIED", "TIMEOUT"} => Written(c)
    /\ outcome[c] = "NCMD_STARVED" => ~Written(c)

InFlightCount == IF inflight THEN 1 ELSE 0

\* Every credit is accounted for: what the controller last granted is either still
\* held or spent on the command in flight, so an abandoned command can never leave
\* the count stuck low; and the host is over by at most one, or at most at two when it
\* reclaimed a credit while a command was in flight.  (Hci.cpp:107-129, 201-221.)
CreditConserved ==
  /\ ncmd + InFlightCount >= lastGrant
  /\ \/ ncmd + InFlightCount <= lastGrant + 1
     \/ ncmd + InFlightCount <= 2

\* A command fails NCMD_STARVED only when the controller's last word was a grant of
\* zero: retries against a silent controller all reach the wire.  (Hci.cpp:114-123.)
StarvedMeansZeroGrant ==
  [][\A c \in Cmds : outcome'[c] = "NCMD_STARVED" /\ outcome[c] # "NCMD_STARVED"
       => lastGrant = 0]_vars

\* TIMEOUT is reported only for the command in flight and only after a full timeout
\* has passed since it was written, however long the drain took.  (Hci.cpp:95-106.)
TimeoutIsReal ==
  [][\A c \in Cmds : outcome'[c] = "TIMEOUT" /\ outcome[c] # "TIMEOUT"
       => Head1.id = c /\ inflight /\ sentAge >= timeout]_vars

\* A resync ends only when the line has really been silent for IDLE_RESYNC_MS, less
\* at most the length of one pass, because bytes are stamped with the clock read at
\* its start.  (service, onFault.)
ResyncNeedsQuiet ==
  [][resync /\ ~resync' /\ ~Begin => quiet + MaxDrain >= IdleResync]_vars

Abandoned == {"TIMEOUT", "FRAMING", "DROPPED"}

\* A reply is credited to another command than the one it answers only as Hci.h:84-93
\* admits: the command answered is older, has the same opcode, and the confusion goes
\* back to a command of that opcode that was given up on.  (It can cascade: the retry's
\* own reply is then taken by the next command with that opcode.)
StaleReplyOnlyForRetry ==
  \A c \in Cmds :
    answer[c] \notin {0, c} =>
      /\ answer[c] < c
      /\ \E x, y, z \in sent :
           /\ x.id <= y.id /\ y.id = answer[c] /\ z.id = c
           /\ x.op = y.op /\ y.op = z.op
           /\ outcome[x.id] \in Abandoned

\* Every command submitted is eventually finished, whatever the controller and the
\* line do: no reply, no credit, noise.
EveryCommandFinishes == \A c \in Cmds : (nextId > c) ~> (outcome[c] # "none")
=============================================================================
