------------------------------ MODULE HciProofs ------------------------------
(***************************************************************************)
(* Proofs about Hci, for every queue depth, timeout, credit width and      *)
(* controller: types, the order and uniqueness of completions, honesty of  *)
(* outcomes, credit accounting, what NCMD_STARVED means, when a resync     *)
(* ends, and whose reply may finish a command.                             *)
(***************************************************************************)
EXTENDS Hci, SequenceTheorems, TLAPS

\* A saturated age stays an age.
LEMMA OlderAge == \A a \in Ages : Older(a) \in Ages
  BY TimeAssumption DEF Older, Ages

\* A refunded credit count is at least as large, at most one larger, and fits the byte.
LEMMA RefundCredit ==
  ASSUME NEW n \in 0..CreditMax
  PROVE  /\ Refund(n) \in 0..CreditMax
         /\ Refund(n) = n + 1 \/ (Refund(n) = n /\ n = CreditMax)
  BY CreditAssumption DEF Refund

-----------------------------------------------------------------------------
(* Types.                                                                    *)

\* finish() keeps every variable it touches well typed.
LEMMA FinishTypes ==
  ASSUME TypeOK, NEW q \in Seq(Command), q # <<>>, Len(q) <= QueueDepth,
         NEW e \in Outcomes, NEW by \in 0..MaxCmds, Finish(q, e, by)
  PROVE  /\ queue' \in Seq(Command) /\ Len(queue') <= QueueDepth
         /\ inflight' \in BOOLEAN /\ inflightOp' \in Opcodes \cup {NOP} /\ sentAge' \in Ages
         /\ outcome' \in [Cmds -> Outcomes] /\ answer' \in [Cmds -> 0..MaxCmds]
         /\ depth' \in Nat /\ sent' \subseteq OnWire /\ outstanding' \subseteq OnWire
  <1>1. Tail(q) \in Seq(Command) /\ Len(Tail(q)) = Len(q) - 1 /\ Len(q) \in Nat
    BY HeadTailProperties, LenProperties
  <1>2. queue' \in Seq(Command) /\ Len(queue') <= QueueDepth
    BY <1>1, QueueAssumption DEF Finish
  <1>3. outcome' \in [Cmds -> Outcomes]
    BY DEF Finish, TypeOK
  <1>4. answer' \in [Cmds -> 0..MaxCmds]
    BY DEF Finish, TypeOK
  <1>5. inflight' \in BOOLEAN /\ inflightOp' \in Opcodes \cup {NOP} /\ sentAge' \in Ages
    BY DEF Finish, TypeOK
  <1>6. depth' \in Nat /\ sent' \subseteq OnWire /\ outstanding' \subseteq OnWire
    BY DEF Finish, TypeOK
  <1>7. QED
    BY <1>2, <1>3, <1>4, <1>5, <1>6

\* dispatch() keeps every variable it touches well typed.
LEMMA DispatchTypes ==
  ASSUME TypeOK, NEW q \in Seq(Command), Len(q) <= QueueDepth,
         NEW rs \in BOOLEAN, Dispatch(q, rs)
  PROVE  /\ queue' \in Seq(Command) /\ Len(queue') <= QueueDepth
         /\ inflight' \in BOOLEAN /\ inflightOp' \in Opcodes \cup {NOP} /\ sentAge' \in Ages
         /\ ncmd' \in 0..CreditMax
         /\ outcome' \in [Cmds -> Outcomes] /\ answer' \in [Cmds -> 0..MaxCmds]
         /\ depth' \in Nat /\ sent' \subseteq OnWire /\ outstanding' \subseteq OnWire
  <1>1. CASE inflight \/ q = <<>>
    BY <1>1 DEF Dispatch, TypeOK
  <1>2. CASE ~(inflight \/ q = <<>>) /\ CanWrite(rs) /\ WriteHead(q)
    <2>1. Head(q) \in Command
      BY <1>2, HeadTailProperties
    <2>2. Head(q).op \in Opcodes /\ Head(q).id \in Cmds
      BY <2>1 DEF Command
    <2>3. ncmd - 1 \in 0..CreditMax /\ 0 \in Ages
      BY <1>2, CreditAssumption, TimeAssumption DEF CanWrite, TypeOK, Ages
    <2>4. QED
      BY <1>2, <2>2, <2>3 DEF WriteHead, TypeOK, OnWire
  <1>3. CASE ~(inflight \/ q = <<>>) /\ Finish(q, AgedReason(rs), 0) /\ UNCHANGED ncmd
    <2>1. AgedReason(rs) \in Outcomes /\ 0 \in 0..MaxCmds
      BY QueueAssumption DEF AgedReason, Outcomes, Failures
    <2>2. QED
      BY <1>3, <2>1, FinishTypes DEF TypeOK
  <1>4. CASE ~(inflight \/ q = <<>>) /\ queue' = q /\ UNCHANGED <<inflight, inflightOp,
               sentAge, ncmd, sent, outstanding, outcome, answer, depth>>
    BY <1>4 DEF TypeOK
  <1>5. QED
    BY <1>1, <1>2, <1>3, <1>4 DEF Dispatch

\* The command submit() appends is well typed.
LEMMA AppendTypes ==
  ASSUME TypeOK, nextId \in Cmds, NEW op \in Opcodes, Len(queue) < QueueDepth
  PROVE  LET q == Append(queue, [id |-> nextId, op |-> op, age |-> 0])
         IN  q \in Seq(Command) /\ Len(q) <= QueueDepth
  <1>1. [id |-> nextId, op |-> op, age |-> 0] \in Command
    BY TimeAssumption DEF Command, Ages
  <1>2. queue \in Seq(Command) /\ Len(queue) \in Nat
    BY LenProperties DEF TypeOK
  <1>3. QED
    BY <1>1, <1>2, AppendProperties, QueueAssumption

\* A unit taken from the line leaves a line of units.
LEMMA TailOfLine ==
  ASSUME TypeOK, line # <<>>
  PROVE  Tail(line) \in Seq(Units) /\ Head(line) \in Units
  BY HeadTailProperties DEF TypeOK

\* Types are preserved by every step, given that what is in flight is queued.
LEMMA TypeStep == TypeOK /\ (inflight => queue # <<>>) /\ [Next]_vars => TypeOK'
  <1> SUFFICES ASSUME TypeOK, inflight => queue # <<>>, [Next]_vars PROVE TypeOK'
    OBVIOUS
  <1> USE DEF hostVars, ctlVars, envVars, histVars
  <1>1. ASSUME NEW op \in Opcodes, Submit(op) PROVE TypeOK'
    <2>1. Dispatch(Append(queue, [id |-> nextId, op |-> op, age |-> 0]), resync)
          /\ nextId \in Cmds /\ nextId' = nextId + 1 /\ Len(queue) < QueueDepth
      BY <1>1 DEF Submit, Enqueue
    <2>2. nextId' \in 1..(MaxCmds + 1)
      BY <2>1, QueueAssumption DEF Cmds
    <2>3. QED
      BY <1>1, <2>1, <2>2, AppendTypes, DispatchTypes DEF Submit, TypeOK
  <1>2. ASSUME NEW op \in Opcodes, NEW t \in Timeouts, RunStart(op, t) PROVE TypeOK'
    <2> DEFINE q == <<[id |-> nextId, op |-> op, age |-> 0]>>
    <2>1. Dispatch(q, resync) /\ nextId \in Cmds /\ nextId' = nextId + 1
      BY <1>2 DEF RunStart
    <2>2. q \in Seq(Command) /\ Len(q) <= QueueDepth
      BY <2>1, TimeAssumption, QueueAssumption DEF Command, Ages
    <2>3. nextId' \in 1..(MaxCmds + 1) /\ nextId \in 0..MaxCmds
      BY <2>1, QueueAssumption DEF Cmds
    <2>4. run' \in [id : 0..MaxCmds, saved : Timeouts]
      BY <1>2, <2>3 DEF RunStart, TypeOK
    <2>5. timeout' \in Timeouts
      BY <1>2 DEF RunStart
    <2> HIDE DEF q
    <2>6. QED
      BY <1>2, <2>1, <2>2, <2>3, <2>4, <2>5, DispatchTypes DEF RunStart, TypeOK
  <1>3. ASSUME RunReturn PROVE TypeOK'
    <2>1. run' \in [id : 0..MaxCmds, saved : Timeouts]
      BY <1>3, QueueAssumption DEF RunReturn, TypeOK
    <2>2. run.saved \in Timeouts
      BY DEF TypeOK
    <2>3. QED
      BY <1>3, <2>1, <2>2 DEF RunReturn, TypeOK
  <1>4. ASSUME NEW t \in Timeouts, SetCommandTimeout(t) PROVE TypeOK'
    BY <1>4 DEF SetCommandTimeout, TypeOK
  <1>5. ASSUME ReclaimCredit PROVE TypeOK'
    BY <1>5, CreditAssumption DEF ReclaimCredit, TypeOK
  <1>6. ASSUME Begin PROVE TypeOK'
    <2>1. outcome' \in [Cmds -> Outcomes]
      BY <1>6 DEF Begin, TypeOK, Outcomes
    <2>2. queue' \in Seq(Command) /\ Len(queue') <= QueueDepth
      BY <1>6, QueueAssumption DEF Begin
    <2>3. ncmd' \in 0..CreditMax /\ lastGrant' \in 0..CreditMax /\ 0 \in Ages
          /\ timeout' \in Timeouts
      BY <1>6, CreditAssumption, TimeAssumption DEF Begin, Ages
    <2>4. QED
      BY <1>6, <2>1, <2>2, <2>3 DEF Begin, TypeOK
  <1>7. ASSUME CallbackReturn PROVE TypeOK'
    BY <1>7 DEF CallbackReturn, TypeOK
  <1>8. ASSUME ServiceStart PROVE TypeOK'
    BY <1>8, TimeAssumption DEF ServiceStart, TypeOK
  <1>9. lag \in Ages
    BY TimeAssumption DEF TypeOK, Ages
  <1>10. ASSUME Discard PROVE TypeOK'
    BY <1>9, <1>10, TailOfLine DEF Discard, TypeOK
  <1>11. ASSUME ReadReply PROVE TypeOK'
    <2> DEFINE u == Head(line)
    <2>1. line # <<>> /\ line' = Tail(line) /\ byteAge' = lag /\ ncmd' = u.grant /\ lastGrant' = u.grant
      BY <1>11 DEF ReadReply, Draining
    <2>2. line' \in Seq(Units) /\ u.grant \in 0..CreditMax /\ u.id \in 0..MaxCmds
      BY <2>1, TailOfLine DEF Units
    <2>3. CASE Answers(u)
      <3>1. Finish(queue, "REPLIED", u.id) /\ queue \in Seq(Command) /\ Len(queue) <= QueueDepth
        BY <1>11, <2>3 DEF ReadReply, TypeOK
      <3>2. queue # <<>>
        BY <2>3 DEF Answers
      <3>3. QED
        BY <1>9, <1>11, <2>1, <2>2, <3>1, <3>2, FinishTypes DEF ReadReply, TypeOK, Outcomes
    <2>4. CASE ~Answers(u)
      BY <1>9, <1>11, <2>1, <2>2, <2>4 DEF ReadReply, TypeOK
    <2>5. QED
      BY <2>3, <2>4
  <1>12. ASSUME ReadEvent PROVE TypeOK'
    BY <1>9, <1>12, TailOfLine DEF ReadEvent, Draining, TypeOK
  <1>13. ASSUME ReadNoise PROVE TypeOK'
    <2>1. line' \in Seq(Units)
      BY <1>13, TailOfLine DEF ReadNoise, Draining
    <2>2. CASE inflight
      <3>1. Finish(queue, "FRAMING", 0) /\ queue # <<>> /\ ncmd' = Refund(ncmd)
        BY <1>13, <2>2 DEF ReadNoise
      <3>2. ncmd' \in 0..CreditMax /\ "FRAMING" \in Outcomes /\ 0 \in 0..MaxCmds
        BY <3>1, RefundCredit, QueueAssumption DEF TypeOK, Outcomes, Failures
      <3>3. QED
        BY <1>9, <1>13, <2>1, <3>1, <3>2, FinishTypes DEF ReadNoise, TypeOK
    <2>3. CASE ~inflight
      BY <1>9, <1>13, <2>1, <2>3 DEF ReadNoise, TypeOK
    <2>4. QED
      BY <2>2, <2>3
  <1>14. ASSUME DrainEnd PROVE TypeOK'
    <2>1. StillResync \in BOOLEAN /\ 0 \in 0..MaxDrain
      BY TimeAssumption DEF StillResync, TypeOK
    <2>2. CASE TimedOut
      <3>1. Finish(queue, "TIMEOUT", 0) /\ queue # <<>> /\ ncmd' = Refund(ncmd)
        BY <1>14, <2>2 DEF DrainEnd, TimedOut
      <3>2. ncmd' \in 0..CreditMax /\ "TIMEOUT" \in Outcomes /\ 0 \in 0..MaxCmds
        BY <3>1, RefundCredit, QueueAssumption DEF TypeOK, Outcomes, Failures
      <3>3. QED
        BY <1>14, <2>1, <2>2, <3>1, <3>2, FinishTypes DEF DrainEnd, TypeOK
    <2>3. CASE ~TimedOut
      <3>1. Dispatch(queue, StillResync) /\ pc' = "out"
        BY <1>14, <2>3 DEF DrainEnd
      <3>2. QED
        BY <1>14, <2>1, <3>1, DispatchTypes DEF DrainEnd, TypeOK
    <2>4. QED
      BY <2>2, <2>3
  <1>15. ASSUME ServiceTail PROVE TypeOK'
    BY <1>15, DispatchTypes DEF ServiceTail, TypeOK
  <1>16. ASSUME Tick PROVE TypeOK'
    <2>1. queue' \in Seq(Command) /\ Len(queue') = Len(queue)
      <3>1. \A i \in 1..Len(queue) : [queue[i] EXCEPT !.age = Older(@)] \in Command
        <4> SUFFICES ASSUME NEW i \in 1..Len(queue)
                     PROVE  [queue[i] EXCEPT !.age = Older(@)] \in Command
          OBVIOUS
        <4>1. queue[i] \in Command
          BY ElementOfSeq DEF TypeOK
        <4>2. Older(queue[i].age) \in Ages
          BY <4>1, OlderAge DEF Command
        <4>3. QED
          BY <4>1, <4>2 DEF Command
      <3>2. queue' = [i \in 1..Len(queue) |-> [queue[i] EXCEPT !.age = Older(@)]]
            /\ Len(queue) \in Nat
        BY <1>16, LenProperties DEF Tick, TypeOK
      <3>3. QED
        BY <3>1, <3>2, IsASeq
    <2>2. lag' \in 0..MaxDrain
      BY <1>16, TimeAssumption DEF Tick, TypeOK
    <2>3. sentAge' \in Ages /\ byteAge' \in Ages /\ quiet' \in Ages
      BY <1>16, OlderAge DEF Tick, TypeOK
    <2>4. QED
      BY <1>16, <2>1, <2>2, <2>3 DEF Tick, TypeOK
  <1>17. ASSUME NEW u \in Units, Receive(u), outstanding' \subseteq outstanding PROVE TypeOK'
    <2>1. line' \in Seq(Units) /\ 0 \in Ages
      BY <1>17, AppendProperties, TimeAssumption DEF Receive, TypeOK, Ages
    <2>2. QED
      BY <1>17, <2>1 DEF Receive, TypeOK
  <1>18. \A i \in 0..MaxCmds, g \in 0..CreditMax, o \in Opcodes \cup {NOP} :
           Reply(o, i, g) \in Units
    BY QueueAssumption, CreditAssumption DEF Reply, Units
  <1>19. ASSUME ControllerReplies PROVE TypeOK'
    <2>1. PICK c \in outstanding, g \in Grants :
            Receive(Reply(c.op, c.id, g)) /\ outstanding' = outstanding \ {c}
      BY <1>19 DEF ControllerReplies
    <2>2. c.op \in Opcodes /\ c.id \in 0..MaxCmds /\ g \in 0..CreditMax
      BY CreditAssumption, QueueAssumption DEF TypeOK, OnWire, Cmds
    <2>3. QED
      BY <1>17, <1>18, <2>1, <2>2
  <1>20. ASSUME ControllerGrants PROVE TypeOK'
    <2>1. PICK g \in Grants : Receive(Reply(NOP, 0, g)) /\ UNCHANGED outstanding
      BY <1>20 DEF ControllerGrants
    <2>2. g \in 0..CreditMax /\ 0 \in 0..MaxCmds
      BY CreditAssumption, QueueAssumption
    <2>3. QED
      BY <1>17, <1>18, <2>1, <2>2
  <1>21. Event \in Units /\ Noise \in Units
    BY QueueAssumption, CreditAssumption DEF Event, Noise, Units
  <1>22. ASSUME ControllerEvent \/ LineNoise PROVE TypeOK'
    BY <1>17, <1>21, <1>22 DEF ControllerEvent, LineNoise
  <1>23. CASE UNCHANGED vars
    BY <1>23 DEF vars, TypeOK
  <1>24. QED
    BY <1>1, <1>2, <1>3, <1>4, <1>5, <1>6, <1>7, <1>8, <1>10, <1>11, <1>12, <1>13, <1>14,
       <1>15, <1>16, <1>19, <1>20, <1>22, <1>23
       DEF Next, User, Service, Environment

-----------------------------------------------------------------------------
(* Order of completions and truth of outcomes.  dispatch() and finish() run  *)
(* on intermediate values (a queue the caller has just appended to), so the  *)
(* two invariants are stated for those values as well.                       *)

Ordered(q, n, out) ==
  /\ \A i \in 1..Len(q) : q[i].id = n - Len(q) + i - 1
  /\ \A c \in Cmds : out[c] # "none" <=> c < n - Len(q)

HeadOnWire(q, inf, op, snt) ==
  /\ inf => q # <<>> /\ op = Head(q).op
  /\ \A i \in 1..Len(q) : (\E s \in snt : s.id = q[i].id) <=> (i = 1 /\ inf)

\* Everything written was submitted: without it a new number could already be on the wire.
SentIsPast == \A s \in sent : s.id < nextId

\* The inductive invariant.  InflightIsHead is needed by CompletionOrder (a reply finishes
\* the head), and SentIsPast by InflightIsHead.
QueueInv == TypeOK /\ CompletionOrder /\ InflightIsHead /\ OutcomeHonest /\ SentIsPast

LEMMA QueueInvParts ==
  /\ CompletionOrder <=> Ordered(queue, nextId, outcome)
  /\ InflightIsHead <=> HeadOnWire(queue, inflight, inflightOp, sent)
  BY DEF CompletionOrder, Ordered, InflightIsHead, HeadOnWire, Written, Head1

\* Popping the head of an ordered queue and giving it an outcome keeps the order; the
\* rest of the queue is off the wire, and the outcome is honest if the caller's is.
LEMMA FinishInv ==
  ASSUME TypeOK, OutcomeHonest, NEW n \in 1..(MaxCmds + 1),
         NEW q \in Seq(Command), q # <<>>,
         Ordered(q, n, outcome), HeadOnWire(q, inflight, inflightOp, sent),
         NEW e \in Outcomes \ {"none"}, NEW by, Finish(q, e, by),
         e \in {"REPLIED", "TIMEOUT"} => inflight, e = "NCMD_STARVED" => ~inflight
  PROVE  /\ Ordered(queue', n, outcome')
         /\ HeadOnWire(queue', inflight', inflightOp', sent')
         /\ OutcomeHonest'
         /\ sent' = sent
  <1> DEFINE h == Head(q).id
  <1>1. /\ Len(q) \in Nat \ {0} /\ Len(queue') = Len(q) - 1
        /\ \A i \in 1..Len(queue') : queue'[i] = q[i + 1] /\ i + 1 \in 2..Len(q)
    BY HeadTailProperties, LenProperties DEF Finish
  <1>2. Head(q) = q[1] /\ Head(q) \in Command /\ h \in Cmds /\ h = n - Len(q)
    <2>1. Head(q) = q[1] /\ Head(q) \in Command
      BY <1>1, HeadTailProperties, ElementOfSeq
    <2>2. q[1].id = n - Len(q) + 1 - 1
      BY <1>1 DEF Ordered
    <2>3. QED
      BY <1>1, <2>1, <2>2, QueueAssumption DEF Command
  <1>3. outcome' = [outcome EXCEPT ![h] = e] /\ outcome' \in [Cmds -> Outcomes]
    BY <1>2 DEF Finish, TypeOK
  <1>4. \A i \in 1..Len(queue') : queue'[i].id = n - Len(queue') + i - 1
    <2> SUFFICES ASSUME NEW i \in 1..Len(queue')
                 PROVE  queue'[i].id = n - Len(queue') + i - 1
      OBVIOUS
    <2>1. q[i + 1].id = n - Len(q) + (i + 1) - 1
      BY <1>1 DEF Ordered
    <2>2. QED
      BY <1>1, <2>1, QueueAssumption
  <1>5. \A c \in Cmds : outcome'[c] # "none" <=> c < n - Len(queue')
    <2> SUFFICES ASSUME NEW c \in Cmds
                 PROVE  outcome'[c] # "none" <=> c < n - Len(queue')
      OBVIOUS
    <2>1. outcome[c] # "none" <=> c < n - Len(q)
      BY DEF Ordered
    <2>2. outcome'[c] = IF c = h THEN e ELSE outcome[c]
      BY <1>3 DEF TypeOK
    <2>3. n - Len(queue') = n - Len(q) + 1
      BY <1>1, QueueAssumption
    <2>4. QED
      BY <1>1, <1>2, <2>1, <2>2, <2>3, QueueAssumption DEF Cmds
  <1>6. HeadOnWire(queue', inflight', inflightOp', sent')
    <2>1. inflight' = FALSE /\ sent' = sent
      BY DEF Finish
    <2>2. \A i \in 1..Len(queue') : ~ \E s \in sent : s.id = queue'[i].id
      BY <1>1 DEF HeadOnWire
    <2>3. QED
      BY <2>1, <2>2 DEF HeadOnWire
  <1>7. OutcomeHonest'
    <2>1. (\E s \in sent : s.id = h) <=> inflight
      BY <1>1, <1>2 DEF HeadOnWire
    <2>2. sent' = sent
      BY DEF Finish
    <2>3. \A c \in Cmds : outcome'[c] = IF c = h THEN e ELSE outcome[c]
      BY <1>3 DEF TypeOK
    <2>4. QED
      BY <2>1, <2>2, <2>3 DEF OutcomeHonest, Written
  <1>8. QED
    BY <1>4, <1>5, <1>6, <1>7 DEF Ordered, Finish

\* dispatch() keeps the order, the wire and the outcomes, and conserves credit.
LEMMA DispatchInv ==
  ASSUME TypeOK, OutcomeHonest, NEW n \in 1..(MaxCmds + 1),
         NEW q \in Seq(Command), \A s \in sent : s.id < n,
         Ordered(q, n, outcome), HeadOnWire(q, inflight, inflightOp, sent),
         NEW rs \in BOOLEAN, Dispatch(q, rs)
  PROVE  /\ Ordered(queue', n, outcome')
         /\ HeadOnWire(queue', inflight', inflightOp', sent')
         /\ OutcomeHonest'
         /\ \A s \in sent' : s.id < n
         /\ ncmd' + InFlightCount' = ncmd + InFlightCount
  <1>1. CASE /\ queue' = q
             /\ UNCHANGED <<inflight, inflightOp, sentAge, ncmd, sent, outstanding,
                            outcome, answer, depth>>
    BY <1>1 DEF OutcomeHonest, Written, InFlightCount
  <1>2. CASE ~inflight /\ q # <<>> /\ CanWrite(rs) /\ WriteHead(q)
    <2>1. /\ Len(q) \in Nat \ {0} /\ Head(q) = q[1] /\ Head(q) \in Command
          /\ \A i \in 1..Len(q) : q[i] \in Command
      BY <1>2, HeadTailProperties, LenProperties, ElementOfSeq
    <2>2. \A i \in 1..Len(q) : q[i].id = n - Len(q) + i - 1 /\ q[i].id < n
      BY <2>1, QueueAssumption DEF Ordered
    <2>3. /\ queue' = q /\ inflight' = TRUE /\ inflightOp' = Head(q).op /\ outcome' = outcome
          /\ sent' = sent \cup {[id |-> q[1].id, op |-> q[1].op]}
          /\ ncmd' = ncmd - 1
      BY <1>2, <2>1 DEF WriteHead
    <2>4. \A i \in 1..Len(q) : (\E s \in sent' : s.id = q[i].id) <=> i = 1
      <3> SUFFICES ASSUME NEW i \in 1..Len(q)
                   PROVE  (\E s \in sent' : s.id = q[i].id) <=> i = 1
        OBVIOUS
      <3>1. ~ \E s \in sent : s.id = q[i].id
        BY <1>2 DEF HeadOnWire
      <3>2. q[i].id = q[1].id <=> i = 1
        <4>1. q[i].id = n - Len(q) + i - 1 /\ q[1].id = n - Len(q)
          BY <2>1, <2>2, QueueAssumption
        <4>2. QED
          BY <2>1, <4>1, QueueAssumption
      <3>3. (\E s \in sent' : s.id = q[i].id) <=> q[1].id = q[i].id
        <4> DEFINE w == [id |-> q[1].id, op |-> q[1].op]
        <4>1. w.id = q[1].id /\ sent' = sent \cup {w}
          BY <2>3
        <4> HIDE DEF w
        <4>2. QED
          BY <3>1, <4>1
      <3>4. QED
        BY <3>2, <3>3
    <2>5. OutcomeHonest'
      <3>1. outcome[q[1].id] = "none" /\ q[1].id \in Cmds
        BY <2>1, <2>2, QueueAssumption DEF Ordered, Command
      <3>2. \A c \in Cmds : c # q[1].id => (Written(c)' <=> Written(c))
        BY <2>3 DEF Written
      <3>3. QED
        BY <2>3, <3>1, <3>2 DEF OutcomeHonest
    <2>6. ncmd' + InFlightCount' = ncmd + InFlightCount
      BY <1>2, <2>3, CreditAssumption DEF InFlightCount, TypeOK
    <2>7. \A s \in sent' : s.id < n
      BY <2>1, <2>2, <2>3
    <2>8. QED
      BY <1>2, <2>3, <2>4, <2>5, <2>6, <2>7 DEF Ordered, HeadOnWire
  <1>3. CASE ~inflight /\ q # <<>> /\ Finish(q, AgedReason(rs), 0) /\ UNCHANGED ncmd
    <2>1. AgedReason(rs) \in Outcomes \ {"none"} /\ AgedReason(rs) \notin {"REPLIED", "TIMEOUT"}
      BY DEF AgedReason, Outcomes, Failures
    <2>2. ncmd' + InFlightCount' = ncmd + InFlightCount
      BY <1>3 DEF InFlightCount, Finish
    <2>3. QED
      BY <1>3, <2>1, <2>2, FinishInv
  <1>4. QED
    BY <1>1, <1>2, <1>3 DEF Dispatch

\* A command appended behind an ordered queue is ordered and not on the wire.
LEMMA AppendInv ==
  ASSUME QueueInv, NEW op \in Opcodes, nextId \in Cmds, Len(queue) < QueueDepth
  PROVE  LET q == Append(queue, [id |-> nextId, op |-> op, age |-> 0])
         IN  /\ q \in Seq(Command) /\ nextId + 1 \in 1..(MaxCmds + 1)
             /\ \A s \in sent : s.id < nextId + 1
             /\ Ordered(q, nextId + 1, outcome)
             /\ HeadOnWire(q, inflight, inflightOp, sent)
  <1>0. /\ TypeOK /\ SentIsPast
        /\ Ordered(queue, nextId, outcome) /\ HeadOnWire(queue, inflight, inflightOp, sent)
    BY QueueInvParts DEF QueueInv
  <1> DEFINE x == [id |-> nextId, op |-> op, age |-> 0]
             q == Append(queue, x)
  <1>1. q \in Seq(Command)
    BY <1>0, AppendTypes
  <1>2. /\ Len(queue) \in Nat /\ Len(q) = Len(queue) + 1 /\ q[Len(q)] = x
        /\ \A i \in 1..Len(queue) : q[i] = queue[i]
    BY <1>0, AppendProperties, LenProperties DEF TypeOK
  <1>3. nextId \in Nat \ {0} /\ nextId + 1 \in 1..(MaxCmds + 1) /\ x.id = nextId /\ x.op = op
    BY <1>0, QueueAssumption DEF Cmds
  <1>4. \A s \in sent : s.id < nextId + 1 /\ s.id # nextId
    BY <1>0, <1>3, QueueAssumption DEF SentIsPast, TypeOK, OnWire, Cmds
  <1> HIDE DEF x, q
  <1>5. Ordered(q, nextId + 1, outcome)
    <2>1. ASSUME NEW i \in 1..Len(q) PROVE q[i].id = (nextId + 1) - Len(q) + i - 1
      <3>1. CASE i \in 1..Len(queue)
        BY <1>0, <1>2, <1>3, <3>1 DEF Ordered
      <3>2. CASE i = Len(q)
        <4>1. q[i].id = nextId
          BY <1>2, <1>3, <3>2
        <4>2. i \in Int /\ Len(q) \in Int /\ nextId \in Int /\ i = Len(q)
          BY <1>2, <1>3, <3>2
        <4>3. (nextId + 1) - Len(q) + i - 1 = nextId
          BY <4>2
        <4> QED BY <4>1, <4>3
      <3>3. QED
        BY <1>0, <1>2, <3>1, <3>2
    <2>2. (nextId + 1) - Len(q) = nextId - Len(queue)
      BY <1>0, <1>2, <1>3
    <2>3. QED
      BY <1>0, <2>1, <2>2 DEF Ordered
  <1>6. HeadOnWire(q, inflight, inflightOp, sent)
    <2>1. inflight => q # <<>> /\ inflightOp = Head(q).op
      <3> SUFFICES ASSUME inflight PROVE q # <<>> /\ inflightOp = Head(q).op
        OBVIOUS
      <3>1. queue # <<>> /\ inflightOp = Head(queue).op /\ queue \in Seq(Command)
        BY <1>0 DEF HeadOnWire, TypeOK
      <3>2. q # <<>> /\ Head(queue) = queue[1] /\ Head(q) = q[1] /\ 1 \in 1..Len(queue)
        BY <1>0, <1>1, <1>2, <3>1, HeadTailProperties, LenProperties, EmptySeq
      <3>3. QED
        BY <1>0, <1>2, <3>1, <3>2
    <2>2. ASSUME NEW i \in 1..Len(q)
          PROVE  (\E s \in sent : s.id = q[i].id) <=> (i = 1 /\ inflight)
      <3>1. CASE i \in 1..Len(queue)
        BY <1>0, <1>2, <3>1 DEF HeadOnWire
      <3>2. CASE i = Len(q)
        <4>1. ~ \E s \in sent : s.id = q[i].id
          BY <1>0, <1>2, <1>3, <1>4, <3>2
        <4>2. i = 1 => queue = <<>>
          BY <1>0, <1>2, <3>2, EmptySeq, LenProperties DEF TypeOK
        <4>3. QED
          BY <1>0, <4>1, <4>2 DEF HeadOnWire
      <3>3. QED
        BY <1>0, <1>2, <3>1, <3>2
    <2>3. QED
      BY <1>0, <2>1, <2>2 DEF HeadOnWire
  <1>7. QED
    BY <1>0, <1>1, <1>3, <1>4, <1>5, <1>6 DEF q, x

\* Each action keeps the queue invariant.
LEMMA QueueStep == QueueInv /\ [Next]_vars => QueueInv'
  <1> SUFFICES ASSUME QueueInv, [Next]_vars PROVE QueueInv'
    OBVIOUS
  <1> USE DEF hostVars, ctlVars, envVars, histVars
  <1>a. /\ TypeOK /\ OutcomeHonest /\ SentIsPast
        /\ Ordered(queue, nextId, outcome) /\ HeadOnWire(queue, inflight, inflightOp, sent)
    BY QueueInvParts DEF QueueInv
  <1>t. TypeOK'
    BY TypeStep DEF QueueInv, InflightIsHead
  <1>b. SUFFICES Ordered(queue, nextId, outcome)' /\ HeadOnWire(queue, inflight, inflightOp, sent)'
                 /\ OutcomeHonest' /\ SentIsPast'
    BY <1>t, QueueInvParts DEF QueueInv, CompletionOrder, Ordered, InflightIsHead, HeadOnWire,
       Written, Head1
  <1> DEFINE Goal == /\ Ordered(queue, nextId, outcome)'
                     /\ HeadOnWire(queue, inflight, inflightOp, sent)'
                     /\ OutcomeHonest' /\ SentIsPast'
  <1>0. queue \in Seq(Command) /\ nextId \in 1..(MaxCmds + 1) /\ resync \in BOOLEAN
        /\ \A s \in sent : s.id < nextId
    BY <1>a DEF TypeOK, SentIsPast
  \* The two ways an action goes through the helpers.
  <1>1. ASSUME NEW rs \in BOOLEAN, Dispatch(queue, rs), nextId' = nextId PROVE Goal
    <2>1. /\ Ordered(queue', nextId, outcome') /\ HeadOnWire(queue', inflight', inflightOp', sent')
          /\ OutcomeHonest' /\ \A s \in sent' : s.id < nextId
      BY <1>a, <1>0, <1>1, DispatchInv
    <2>2. Ordered(queue, nextId, outcome)'
      BY <2>1, <1>1 DEF Ordered
    <2>3. HeadOnWire(queue, inflight, inflightOp, sent)'
      BY <2>1 DEF HeadOnWire
    <2>4. SentIsPast'
      BY <2>1, <1>1 DEF SentIsPast
    <2> QED BY <2>1, <2>2, <2>3, <2>4
  <1>2. ASSUME inflight, NEW e \in {"REPLIED", "TIMEOUT", "FRAMING"}, NEW by, Finish(queue, e, by),
               nextId' = nextId
        PROVE  Goal
    <2>1. e \in Outcomes \ {"none"} /\ queue # <<>> /\ e # "NCMD_STARVED"
      BY <1>a, <1>2 DEF Outcomes, Failures, HeadOnWire
    <2>2. QED
      BY <1>a, <1>0, <1>2, <2>1, FinishInv DEF Ordered, HeadOnWire, SentIsPast
  <1>3. ASSUME UNCHANGED <<queue, inflight, inflightOp, sent, outcome, nextId>> PROVE Goal
    BY <1>a, <1>3 DEF Ordered, HeadOnWire, OutcomeHonest, Written, SentIsPast
  <1>4. ASSUME NEW op \in Opcodes, Submit(op) PROVE Goal
    <2> DEFINE q == Append(queue, [id |-> nextId, op |-> op, age |-> 0])
    <2>1. nextId \in Cmds /\ Len(queue) < QueueDepth /\ nextId' = nextId + 1 /\ Dispatch(q, resync)
      BY <1>4 DEF Submit, Enqueue
    <2>2. /\ q \in Seq(Command) /\ nextId + 1 \in 1..(MaxCmds + 1)
          /\ \A s \in sent : s.id < nextId + 1
          /\ Ordered(q, nextId + 1, outcome) /\ HeadOnWire(q, inflight, inflightOp, sent)
      BY <2>1, AppendInv
    <2> HIDE DEF q
    <2>3. /\ Ordered(queue', nextId + 1, outcome')
          /\ HeadOnWire(queue', inflight', inflightOp', sent')
          /\ OutcomeHonest' /\ \A s \in sent' : s.id < nextId + 1
      BY <1>a, <1>0, <2>1, <2>2, DispatchInv
    <2>4. QED
      BY <2>1, <2>3 DEF Ordered, HeadOnWire, SentIsPast
  <1>5. ASSUME NEW op \in Opcodes, NEW t \in Timeouts, RunStart(op, t) PROVE Goal
    <2> DEFINE x == [id |-> nextId, op |-> op, age |-> 0]
               q == Append(queue, x)
    <2>1. /\ nextId \in Cmds /\ Len(queue) < QueueDepth /\ nextId' = nextId + 1
          /\ Dispatch(<<x>>, resync) /\ queue = <<>>
      BY <1>5, QueueAssumption DEF RunStart
    <2>2. q = <<x>>
      BY <2>1
    <2>3. /\ q \in Seq(Command) /\ nextId + 1 \in 1..(MaxCmds + 1)
          /\ \A s \in sent : s.id < nextId + 1
          /\ Ordered(q, nextId + 1, outcome) /\ HeadOnWire(q, inflight, inflightOp, sent)
      BY <2>1, AppendInv
    <2> HIDE DEF q, x
    <2>4. /\ Ordered(queue', nextId + 1, outcome')
          /\ HeadOnWire(queue', inflight', inflightOp', sent')
          /\ OutcomeHonest' /\ \A s \in sent' : s.id < nextId + 1
      BY <1>a, <1>0, <2>1, <2>2, <2>3, DispatchInv
    <2>5. QED
      BY <2>1, <2>4 DEF Ordered, HeadOnWire, SentIsPast
  <1>6. ASSUME Begin PROVE Goal
    <2>1. queue' = <<>> /\ inflight' = FALSE /\ sent' = sent /\ nextId' = nextId /\ Len(queue') = 0
      BY <1>6 DEF Begin
    <2>2. \A c \in Cmds : outcome'[c] = IF \E i \in 1..Len(queue) : queue[i].id = c
                                        THEN "DROPPED" ELSE outcome[c]
      BY <1>6 DEF Begin
    <2>3. \A c \in Cmds : c < nextId /\ ~(c < nextId - Len(queue))
             => \E i \in 1..Len(queue) : queue[i].id = c
      <3> SUFFICES ASSUME NEW c \in Cmds, c < nextId, ~(c < nextId - Len(queue))
                   PROVE  \E i \in 1..Len(queue) : queue[i].id = c
        OBVIOUS
      <3>1. Len(queue) \in Nat /\ nextId \in Nat
        BY <1>0, LenProperties, QueueAssumption
      <3>2. c - nextId + Len(queue) + 1 \in 1..Len(queue)
        BY <3>1 DEF Cmds
      <3>3. queue[c - nextId + Len(queue) + 1].id = c
        BY <1>a, <3>1, <3>2 DEF Ordered, Cmds
      <3>4. QED
        BY <3>2, <3>3
    <2>4. \A i \in 1..Len(queue) : queue[i].id < nextId
      BY <1>a, <1>0, LenProperties, QueueAssumption DEF Ordered
    <2>5. Ordered(queue', nextId', outcome')
      <3>1. ASSUME NEW c \in Cmds PROVE outcome'[c] # "none" <=> c < nextId
        <4>1. outcome[c] # "none" <=> c < nextId - Len(queue)
          BY <1>a DEF Ordered
        <4>2. Len(queue) \in Nat /\ nextId \in Nat
          BY <1>0, LenProperties, QueueAssumption
        <4>3. QED
          BY <2>2, <2>3, <2>4, <4>1, <4>2 DEF Cmds
      <3>2. QED
        BY <1>0, <2>1, <3>1, QueueAssumption DEF Ordered
    <2>6. OutcomeHonest'
      BY <1>a, <2>1, <2>2 DEF OutcomeHonest, Written
    <2>7. QED
      BY <1>a, <2>1, <2>5, <2>6 DEF Ordered, HeadOnWire, SentIsPast
  <1>7. ASSUME ReadReply PROVE Goal
    BY <1>2, <1>3, <1>7 DEF ReadReply, Answers
  <1>8. ASSUME ReadNoise PROVE Goal
    BY <1>2, <1>3, <1>8 DEF ReadNoise
  <1>9. ASSUME DrainEnd PROVE Goal
    <2>1. StillResync \in BOOLEAN
      BY <1>0 DEF StillResync
    <2>2. QED
      BY <1>1, <1>2, <1>9, <2>1 DEF DrainEnd, TimedOut
  <1>10. ASSUME ServiceTail PROVE Goal
    BY <1>0, <1>1, <1>10 DEF ServiceTail
  <1>11. ASSUME Tick PROVE Goal
    <2>1. UNCHANGED <<inflight, inflightOp, sent, outcome, nextId>>
      BY <1>11 DEF Tick
    <2>2. /\ Len(queue) \in Nat /\ Len(queue') = Len(queue)
          /\ \A i \in 1..Len(queue) : queue'[i].id = queue[i].id /\ queue'[i].op = queue[i].op
      <3>1. queue' = [i \in 1..Len(queue) |-> [queue[i] EXCEPT !.age = Older(@)]]
            /\ Len(queue) \in Nat /\ queue' \in Seq(Command)
        BY <1>t, <1>0, <1>11, LenProperties DEF Tick, TypeOK
      <3>2. \A i \in 1..Len(queue) : queue[i] \in Command
        BY <1>0, ElementOfSeq
      <3>3. Len(queue') = Len(queue)
        BY <3>1, LenProperties
      <3>4. QED
        BY <3>1, <3>2, <3>3 DEF Command
    <2>3. queue # <<>> => queue' # <<>> /\ Head(queue').op = Head(queue).op
      BY <1>0, <1>t, <2>2, HeadTailProperties, LenProperties, EmptySeq DEF TypeOK
    <2>4. QED
      BY <1>a, <2>1, <2>2, <2>3 DEF Ordered, HeadOnWire, OutcomeHonest, Written, SentIsPast
  <1>12. CASE UNCHANGED vars
    BY <1>3, <1>12 DEF vars
  <1>13. ASSUME RunReturn \/ (\E t \in Timeouts : SetCommandTimeout(t)) \/ ReclaimCredit
                \/ CallbackReturn \/ ServiceStart \/ Discard \/ ReadEvent
         PROVE  Goal
    BY <1>3, <1>13 DEF RunReturn, SetCommandTimeout, ReclaimCredit, CallbackReturn, ServiceStart,
       Discard, ReadEvent
  <1>14. ASSUME ControllerReplies \/ ControllerGrants \/ ControllerEvent \/ LineNoise PROVE Goal
    BY <1>3, <1>14 DEF ControllerReplies, ControllerGrants, ControllerEvent, LineNoise, Receive
  <1>15. QED
    BY <1>4, <1>5, <1>6, <1>7, <1>8, <1>9, <1>10, <1>11, <1>12, <1>13, <1>14
       DEF Next, User, Service, Environment

-----------------------------------------------------------------------------
(* Credits.                                                                  *)

\* finish() of a command in flight, after its credit was refunded.
LEMMA RefundConserves ==
  ASSUME TypeOK, CreditConserved, inflight, NEW q, NEW e, NEW by, Finish(q, e, by),
         ncmd' = Refund(ncmd), lastGrant' = lastGrant
  PROVE  CreditConserved'
  <1>1. inflight' = FALSE /\ ncmd \in 0..CreditMax /\ lastGrant \in 0..CreditMax
    BY DEF Finish, TypeOK
  <1>2. ncmd' \in 0..CreditMax /\ (ncmd' = ncmd + 1 \/ (ncmd' = ncmd /\ ncmd = CreditMax))
    BY <1>1, RefundCredit
  <1>3. QED
    BY <1>1, <1>2, CreditAssumption DEF CreditConserved, InFlightCount

LEMMA CreditStep == QueueInv /\ CreditConserved /\ [Next]_vars => CreditConserved'
  <1> SUFFICES ASSUME QueueInv, CreditConserved, [Next]_vars PROVE CreditConserved'
    OBVIOUS
  <1> USE DEF hostVars, ctlVars, envVars, histVars
  <1>0. /\ TypeOK /\ OutcomeHonest /\ SentIsPast
        /\ Ordered(queue, nextId, outcome) /\ HeadOnWire(queue, inflight, inflightOp, sent)
        /\ queue \in Seq(Command) /\ nextId \in 1..(MaxCmds + 1) /\ resync \in BOOLEAN
        /\ ncmd \in 0..CreditMax /\ lastGrant \in 0..CreditMax
    BY QueueInvParts DEF QueueInv, TypeOK
  <1>1. ASSUME NEW q \in Seq(Command), NEW n \in 1..(MaxCmds + 1), \A s \in sent : s.id < n,
               Ordered(q, n, outcome), HeadOnWire(q, inflight, inflightOp, sent),
               NEW rs \in BOOLEAN, Dispatch(q, rs), lastGrant' = lastGrant
        PROVE  CreditConserved'
    <2>1. ncmd' + InFlightCount' = ncmd + InFlightCount
      BY <1>0, <1>1, DispatchInv
    <2>2. QED
      BY <1>1, <2>1 DEF CreditConserved
  <1>2. ASSUME NEW rs \in BOOLEAN, Dispatch(queue, rs), lastGrant' = lastGrant
        PROVE  CreditConserved'
    BY <1>0, <1>1, <1>2 DEF SentIsPast
  <1>3. ASSUME UNCHANGED <<ncmd, inflight, lastGrant>> PROVE CreditConserved'
    BY <1>3 DEF CreditConserved, InFlightCount
  <1>4. ASSUME NEW op \in Opcodes, Submit(op) PROVE CreditConserved'
    <2> DEFINE q == Append(queue, [id |-> nextId, op |-> op, age |-> 0])
    <2>1. /\ nextId \in Cmds /\ Len(queue) < QueueDepth
          /\ Dispatch(q, resync) /\ lastGrant' = lastGrant
      BY <1>4 DEF Submit, Enqueue
    <2>2. /\ q \in Seq(Command) /\ nextId + 1 \in 1..(MaxCmds + 1)
          /\ \A s \in sent : s.id < nextId + 1
          /\ Ordered(q, nextId + 1, outcome) /\ HeadOnWire(q, inflight, inflightOp, sent)
      BY <2>1, AppendInv
    <2> HIDE DEF q
    <2>3. QED
      BY <1>0, <1>1, <2>1, <2>2
  <1>5. ASSUME NEW op \in Opcodes, NEW t \in Timeouts, RunStart(op, t) PROVE CreditConserved'
    <2> DEFINE x == [id |-> nextId, op |-> op, age |-> 0]
               q == Append(queue, x)
    <2>1. /\ nextId \in Cmds /\ Len(queue) < QueueDepth
          /\ Dispatch(<<x>>, resync) /\ queue = <<>> /\ lastGrant' = lastGrant
      BY <1>5, QueueAssumption DEF RunStart
    <2>2. q = <<x>>
      BY <2>1
    <2>3. /\ q \in Seq(Command) /\ nextId + 1 \in 1..(MaxCmds + 1)
          /\ \A s \in sent : s.id < nextId + 1
          /\ Ordered(q, nextId + 1, outcome) /\ HeadOnWire(q, inflight, inflightOp, sent)
      BY <2>1, AppendInv
    <2> HIDE DEF q, x
    <2>4. QED
      BY <1>0, <1>1, <2>1, <2>2, <2>3
  <1>6. ASSUME Begin PROVE CreditConserved'
    BY <1>6 DEF Begin, CreditConserved, InFlightCount
  <1>7. ASSUME ReadReply PROVE CreditConserved'
    <2>1. ncmd' = lastGrant' /\ lastGrant' \in 0..CreditMax
      <3>1. Head(line).grant \in 0..CreditMax
        BY <1>0, <1>7, TailOfLine DEF ReadReply, Draining, Units
      <3>2. QED
        BY <1>7, <3>1 DEF ReadReply
    <2>2. lastGrant' \in Nat
      BY <2>1, CreditAssumption
    <2>3. InFlightCount' = 0 \/ InFlightCount' = 1
      BY DEF InFlightCount
    <2>4. ncmd' + InFlightCount' >= lastGrant' /\ ncmd' + InFlightCount' <= lastGrant' + 1
      BY <2>1, <2>2, <2>3
    <2>5. QED
      BY <2>4 DEF CreditConserved
  <1>8. ASSUME ReadNoise PROVE CreditConserved'
    BY <1>0, <1>3, <1>8, RefundConserves DEF ReadNoise
  <1>9. ASSUME DrainEnd PROVE CreditConserved'
    <2>1. StillResync \in BOOLEAN
      BY <1>0 DEF StillResync
    <2>2. QED
      BY <1>0, <1>2, <1>9, <2>1, RefundConserves DEF DrainEnd, TimedOut
  <1>10. ASSUME ServiceTail PROVE CreditConserved'
    BY <1>0, <1>2, <1>10 DEF ServiceTail
  <1>11. ASSUME ReclaimCredit PROVE CreditConserved'
    BY <1>0, <1>11 DEF ReclaimCredit, CreditConserved, InFlightCount
  <1>12. CASE UNCHANGED vars
    BY <1>3, <1>12 DEF vars
  <1>13. ASSUME RunReturn \/ (\E t \in Timeouts : SetCommandTimeout(t)) \/ CallbackReturn
                \/ ServiceStart \/ Discard \/ ReadEvent \/ Tick
         PROVE  CreditConserved'
    BY <1>3, <1>13 DEF RunReturn, SetCommandTimeout, CallbackReturn, ServiceStart, Discard,
       ReadEvent, Tick
  <1>14. ASSUME ControllerReplies \/ ControllerGrants \/ ControllerEvent \/ LineNoise
         PROVE  CreditConserved'
    BY <1>3, <1>14 DEF ControllerReplies, ControllerGrants, ControllerEvent, LineNoise, Receive
  <1>15. QED
    BY <1>4, <1>5, <1>6, <1>7, <1>8, <1>9, <1>10, <1>11, <1>12, <1>13, <1>14
       DEF Next, User, Service, Environment

-----------------------------------------------------------------------------
(* The theorems.                                                             *)

\* The host invariant at start.
LEMMA InitInv == Init => QueueInv /\ CreditConserved
  <1> SUFFICES ASSUME Init PROVE QueueInv /\ CreditConserved
    OBVIOUS
  <1>1. TypeOK
    <2>1. queue \in Seq(Command) /\ Len(queue) <= QueueDepth /\ line \in Seq(Units)
      BY QueueAssumption DEF Init
    <2>2. 0 \in Ages /\ 0 \in 0..MaxDrain /\ DefaultTimeout \in Timeouts
      BY TimeAssumption DEF Ages
    <2>3. run \in [id : 0..MaxCmds, saved : Timeouts] /\ 1 \in 1..(MaxCmds + 1) /\ 0 \in 0..MaxCmds
      BY <2>2, QueueAssumption DEF Init
    <2>4. outcome \in [Cmds -> Outcomes] /\ answer \in [Cmds -> 0..MaxCmds]
      BY <2>3 DEF Init, Outcomes
    <2>5. 1 \in 0..CreditMax
      BY CreditAssumption
    <2>6. QED
      BY <2>1, <2>2, <2>3, <2>4, <2>5 DEF Init, TypeOK
  <1>2. Len(queue) = 0 /\ nextId = 1
    BY DEF Init
  <1>3. CompletionOrder /\ InflightIsHead /\ OutcomeHonest /\ SentIsPast /\ CreditConserved
    BY <1>2 DEF Init, CompletionOrder, InflightIsHead, OutcomeHonest, SentIsPast, Cmds,
       CreditConserved, InFlightCount
  <1>4. QED
    BY <1>1, <1>3 DEF QueueInv

LEMMA HostInvariant == Spec => [](QueueInv /\ CreditConserved)
  <1>1. QueueInv /\ CreditConserved /\ [Next]_vars => (QueueInv /\ CreditConserved)'
    BY QueueStep, CreditStep
  <1>2. QED
    BY <1>1, InitInv, PTL DEF Spec

\* The command queue of Hci is well typed and never holds more than QUEUE_DEPTH commands.
THEOREM TypeCorrect == Spec => []TypeOK
  <1>1. QueueInv => TypeOK
    BY DEF QueueInv
  <1>2. QED
    BY <1>1, HostInvariant, PTL

\* Whatever callbacks submit, and whatever the line and the controller do, commands finish
\* exactly once and in the order of submission.  (submit, dispatch, finish.)
THEOREM CompletionsInOrder == Spec => []CompletionOrder
  <1>1. QueueInv => CompletionOrder
    BY DEF QueueInv
  <1>2. QED
    BY <1>1, HostInvariant, PTL

\* An outcome never lies about whether the command reached the wire.
THEOREM OutcomesHonest == Spec => []OutcomeHonest
  <1>1. QueueInv => OutcomeHonest
    BY DEF QueueInv
  <1>2. QED
    BY <1>1, HostInvariant, PTL

\* No credit is lost: what the controller granted last is held or in use.
THEOREM CreditsConserved == Spec => []CreditConserved
  BY HostInvariant, PTL

-----------------------------------------------------------------------------
(* What an outcome says about the step that reports it.                      *)

\* finish() and dispatch() report an outcome for the head of the queue only.
LEMMA FinishOutcome ==
  ASSUME TypeOK, NEW q, NEW e, NEW by, Finish(q, e, by), NEW c \in Cmds,
         outcome'[c] # outcome[c]
  PROVE  outcome'[c] = e /\ Head(q).id = c
  BY DEF Finish, TypeOK

LEMMA DispatchOutcome ==
  ASSUME TypeOK, CreditConserved, NEW q, NEW rs, Dispatch(q, rs), NEW c \in Cmds,
         outcome'[c] # outcome[c]
  PROVE  outcome'[c] = "FRAMING" \/ (outcome'[c] = "NCMD_STARVED" /\ lastGrant = 0)
  <1>1. ~inflight /\ Finish(q, AgedReason(rs), 0)
    BY DEF Dispatch, WriteHead
  <1>2. outcome'[c] = AgedReason(rs)
    BY <1>1, FinishOutcome
  <1>3. ~rs /\ ncmd = 0 => lastGrant = 0
    BY <1>1, CreditAssumption DEF CreditConserved, InFlightCount, TypeOK
  <1>4. QED
    BY <1>2, <1>3 DEF AgedReason

\* Which action changes an outcome, and to what.
LEMMA StepOutcome ==
  ASSUME QueueInv, CreditConserved, [Next]_vars, NEW c \in Cmds, outcome'[c] # outcome[c]
  PROVE  \/ outcome'[c] \in {"FRAMING", "REPLIED", "DROPPED"}
         \/ outcome'[c] = "NCMD_STARVED" /\ lastGrant = 0
         \/ outcome'[c] = "TIMEOUT" /\ TimedOut /\ Head1.id = c
  <1> USE DEF hostVars, ctlVars, envVars, histVars
  <1>0. TypeOK
    BY DEF QueueInv
  <1>1. CASE \E q, rs : Dispatch(q, rs)
    BY <1>0, <1>1, DispatchOutcome
  <1>2. CASE Begin
    BY <1>2 DEF Begin
  <1>3. CASE ReadReply
    BY <1>0, <1>3, FinishOutcome DEF ReadReply
  <1>4. CASE ReadNoise
    BY <1>0, <1>4, FinishOutcome DEF ReadNoise
  <1>5. CASE DrainEnd
    BY <1>0, <1>1, <1>5, FinishOutcome DEF DrainEnd, Head1
  <1>6. CASE ServiceTail
    BY <1>1, <1>6 DEF ServiceTail
  <1>7. CASE \E op \in Opcodes : Submit(op) \/ \E t \in Timeouts : RunStart(op, t)
    BY <1>1, <1>7 DEF Submit, Enqueue, RunStart
  <1>8. CASE outcome' = outcome
    BY <1>8
  <1>9. ASSUME RunReturn \/ (\E t \in Timeouts : SetCommandTimeout(t)) \/ ReclaimCredit
               \/ CallbackReturn \/ ServiceStart \/ Discard \/ ReadEvent \/ Tick
               \/ UNCHANGED vars
        PROVE  outcome' = outcome
    BY <1>9 DEF RunReturn, SetCommandTimeout, ReclaimCredit, CallbackReturn, ServiceStart,
       Discard, ReadEvent, Tick, vars
  <1>10. ASSUME ControllerReplies \/ ControllerGrants \/ ControllerEvent \/ LineNoise
         PROVE  outcome' = outcome
    BY <1>10 DEF ControllerReplies, ControllerGrants, ControllerEvent, LineNoise, Receive
  <1>11. QED
    BY <1>2, <1>3, <1>4, <1>5, <1>6, <1>7, <1>8, <1>9, <1>10
       DEF Next, User, Service, Environment

\* NCMD_STARVED is the controller's doing: it is reported only when its last word was zero.
THEOREM StarvationIsTheControllers == Spec => StarvedMeansZeroGrant
  <1>1. QueueInv /\ CreditConserved /\ [Next]_vars
          => [\A c \in Cmds : outcome'[c] = "NCMD_STARVED" /\ outcome[c] # "NCMD_STARVED"
                => lastGrant = 0]_vars
    BY StepOutcome
  <1>2. QED
    BY <1>1, HostInvariant, PTL DEF Spec, StarvedMeansZeroGrant

\* TIMEOUT is reported only for the command in flight, a full timeout after it was written.
THEOREM TimeoutsAreReal == Spec => TimeoutIsReal
  <1>1. QueueInv /\ CreditConserved /\ [Next]_vars
          => [\A c \in Cmds : outcome'[c] = "TIMEOUT" /\ outcome[c] # "TIMEOUT"
                => Head1.id = c /\ inflight /\ sentAge >= timeout]_vars
    BY StepOutcome DEF TimedOut
  <1>2. QED
    BY <1>1, HostInvariant, PTL DEF Spec, TimeoutIsReal

-----------------------------------------------------------------------------
(* How quiet the line is when a resync ends.                                 *)

\* Once the ring is empty the stamp of the last byte is at most MaxDrain older than the
\* byte: what a byte read late in a pass loses by being stamped with the pass's start.
StampInv == line = <<>> => byteAge <= quiet + MaxDrain

LEMMA StampStep == TypeOK /\ StampInv /\ [Next]_vars => StampInv'
  <1> SUFFICES ASSUME TypeOK, StampInv, [Next]_vars PROVE StampInv'
    OBVIOUS
  <1> USE DEF hostVars, ctlVars, envVars, histVars
  <1>0. /\ lag \in 0..MaxDrain /\ quiet \in 0..MaxAge /\ byteAge \in 0..MaxAge
        /\ MaxAge \in Nat /\ MaxDrain \in Nat
    BY TimeAssumption DEF TypeOK, Ages
  <1>1. ASSUME byteAge' = lag, quiet' = quiet PROVE StampInv'
    BY <1>0, <1>1 DEF StampInv
  <1>2. ASSUME line' = line, byteAge' = byteAge, quiet' = quiet PROVE StampInv'
    BY <1>2 DEF StampInv
  <1>3. CASE Discard \/ ReadReply \/ ReadEvent \/ ReadNoise
    BY <1>1, <1>3 DEF Discard, ReadReply, ReadEvent, ReadNoise
  <1>4. CASE Tick
    BY <1>0, <1>4 DEF Tick, Older, StampInv
  <1>5. CASE Begin
    BY <1>0, <1>5 DEF Begin, StampInv
  <1>6. CASE ControllerReplies \/ ControllerGrants \/ ControllerEvent \/ LineNoise
    <2>1. PICK u : Receive(u)
      BY <1>6 DEF ControllerReplies, ControllerGrants, ControllerEvent, LineNoise
    <2>2. line' = Append(line, u) /\ line \in Seq(Units)
      BY <2>1 DEF Receive, TypeOK
    <2>3. line' # <<>>
      BY <2>2
    <2>4. QED
      BY <2>3 DEF StampInv
  <1>7. CASE UNCHANGED vars
    BY <1>2, <1>7 DEF vars
  <1>8. CASE \E op \in Opcodes : Submit(op) \/ \E t \in Timeouts : RunStart(op, t)
    BY <1>2, <1>8 DEF Submit, RunStart
  <1>9. CASE RunReturn \/ (\E t \in Timeouts : SetCommandTimeout(t)) \/ ReclaimCredit
             \/ CallbackReturn \/ ServiceStart \/ DrainEnd \/ ServiceTail
    BY <1>2, <1>9 DEF RunReturn, SetCommandTimeout, ReclaimCredit, CallbackReturn, ServiceStart,
       DrainEnd, ServiceTail
  <1>10. QED
    BY <1>3, <1>4, <1>5, <1>6, <1>7, <1>8, <1>9 DEF Next, User, Service, Environment

\* A resync that began with a fault ends only after IDLE_RESYNC_MS of silence on the line,
\* less at most the longest pass.
THEOREM ResyncEndsInQuiet == Spec => ResyncNeedsQuiet
  <1>1. Init => StampInv
    BY TimeAssumption DEF Init, StampInv
  <1>2. Spec => [](TypeOK /\ StampInv)
    BY <1>1, StampStep, TypeCorrect, PTL DEF Spec
  <1>3. TypeOK /\ StampInv /\ [Next]_vars
          => [resync /\ ~resync' /\ ~Begin => quiet + MaxDrain >= IdleResync]_vars
    <2> SUFFICES ASSUME TypeOK, StampInv, Next, resync, ~resync', ~Begin
                 PROVE  quiet + MaxDrain >= IdleResync
      BY DEF vars
    <2> USE DEF hostVars, ctlVars, envVars, histVars
    <2>1. CASE DrainEnd
      <3>1. ~StillResync /\ line = <<>>
        BY <2>1 DEF DrainEnd
      <3>2. ~(byteAge < IdleResync)
        BY <3>1 DEF StillResync
      <3>3. byteAge <= quiet + MaxDrain
        BY <3>1 DEF StampInv
      <3>4. QED
        BY <3>2, <3>3, TimeAssumption DEF TypeOK, Ages
    <2>2. CASE Service /\ ~DrainEnd
      BY <2>2 DEF Service, ServiceStart, Discard, ReadReply, ReadEvent, ReadNoise, ServiceTail
    <2>3. CASE User
      <3>1. ASSUME NEW op \in Opcodes, Submit(op) PROVE resync' = resync
        BY <3>1 DEF Submit
      <3>2. ASSUME NEW op \in Opcodes, NEW t \in Timeouts, RunStart(op, t) PROVE resync' = resync
        BY <3>2 DEF RunStart
      <3>3. CASE RunReturn \/ (\E t \in Timeouts : SetCommandTimeout(t)) \/ ReclaimCredit
                 \/ CallbackReturn
        BY <3>3 DEF RunReturn, SetCommandTimeout, ReclaimCredit, CallbackReturn
      <3>4. QED
        BY <2>3, <3>1, <3>2, <3>3 DEF User
    <2>4. CASE Environment
      BY <2>4 DEF Environment, Tick, ControllerReplies, ControllerGrants, ControllerEvent,
         LineNoise, Receive
    <2>5. QED
      BY <2>1, <2>2, <2>3, <2>4 DEF Next
  <1>4. QED
    BY <1>2, <1>3, PTL DEF Spec, ResyncNeedsQuiet

-----------------------------------------------------------------------------
(* Whose reply finishes a command.                                           *)

\* A command with this opcode, no younger than i, was given up on.
GivenUp(i, o) == \E x \in sent : x.id <= i /\ x.op = o /\ outcome[x.id] \in Abandoned

\* A reply to command i may still come: i is in flight, or a command of its opcode that is
\* no younger was given up on.
Excused(i, o) == outcome[i] = "none" \/ GivenUp(i, o)

\* A number stands for one command, on the wire and in the queue q.
SentOnce == \A x, y \in sent : x.id = y.id => x = y
QueuedAsSent(q) == \A i \in 1..Len(q), s \in sent : s.id = q[i].id => s.op = q[i].op

\* Each command written is answered at most once.
AnsweredOnce ==
  /\ \A j, k \in 1..Len(line) : line[j].id = line[k].id /\ line[j].id # 0 => j = k
  /\ \A c \in outstanding, k \in 1..Len(line) : line[k].id # c.id

\* What is on the line answers a command that was written, or opcode 0.
RepliesToSent ==
  /\ outstanding \subseteq sent
  /\ \A k \in 1..Len(line) :
       IF line[k].id = 0 THEN line[k].op = NOP
                         ELSE [id |-> line[k].id, op |-> line[k].op] \in sent

LateOnlyAfterGivingUp ==
  /\ \A c \in outstanding : Excused(c.id, c.op)
  /\ \A k \in 1..Len(line) : line[k].id # 0 => Excused(line[k].id, line[k].op)

\* The inductive invariant of StaleReplyOnlyForRetry: without AnsweredOnce a command could
\* be answered again after it was finished, without LateOnlyAfterGivingUp a reply whose
\* command was finished by another reply would have no excuse.
ReplyInv ==
  /\ SentOnce /\ QueuedAsSent(queue) /\ AnsweredOnce /\ RepliesToSent /\ LateOnlyAfterGivingUp
  /\ StaleReplyOnlyForRetry

\* Commands given up on stay given up on while outcomes are only ever filled in.
LEMMA ExcuseLasts ==
  ASSUME sent \subseteq OnWire, sent \subseteq sent',
         \A d \in Cmds : outcome[d] # "none" => outcome'[d] = outcome[d]
  PROVE  /\ \A i, o : GivenUp(i, o) => GivenUp(i, o)'
         /\ StaleReplyOnlyForRetry /\ answer' = answer => StaleReplyOnlyForRetry'
  <1>1. \A x \in sent : x.id \in Cmds
    BY DEF OnWire
  <1>2. \A x \in sent : outcome[x.id] \in Abandoned => x \in sent' /\ outcome'[x.id] \in Abandoned
    BY <1>1 DEF Abandoned
  <1>3. \A i, o : GivenUp(i, o) => GivenUp(i, o)'
    BY <1>2 DEF GivenUp
  <1>4. ASSUME StaleReplyOnlyForRetry, answer' = answer PROVE StaleReplyOnlyForRetry'
    <2> SUFFICES ASSUME NEW c \in Cmds, answer[c] \notin {0, c}
                 PROVE  /\ answer[c] < c
                        /\ \E x, y, z \in sent' :
                             /\ x.id <= y.id /\ y.id = answer[c] /\ z.id = c
                             /\ x.op = y.op /\ y.op = z.op
                             /\ outcome'[x.id] \in Abandoned
      BY <1>4 DEF StaleReplyOnlyForRetry
    <2>1. answer[c] < c
      BY <1>4 DEF StaleReplyOnlyForRetry
    <2>2. PICK x, y, z \in sent : /\ x.id <= y.id /\ y.id = answer[c] /\ z.id = c
                                  /\ x.op = y.op /\ y.op = z.op
                                  /\ outcome[x.id] \in Abandoned
      BY <1>4 DEF StaleReplyOnlyForRetry
    <2>3. x \in sent' /\ y \in sent' /\ z \in sent' /\ outcome'[x.id] \in Abandoned
      BY <1>2, <2>2
    <2> QED BY <2>1, <2>2, <2>3
  <1> QED BY <1>3, <1>4

\* The head of an ordered queue has no outcome yet, and what was written is no younger.
LEMMA HeadIsYoungest ==
  ASSUME TypeOK, NEW n \in 1..(MaxCmds + 1), \A s \in sent : s.id < n,
         NEW q \in Seq(Command), q # <<>>,
         Ordered(q, n, outcome), HeadOnWire(q, inflight, inflightOp, sent)
  PROVE  /\ Head(q) = q[1] /\ 1 \in 1..Len(q) /\ Head(q) \in Command
         /\ outcome[Head(q).id] = "none"
         /\ \A s \in sent : s.id <= Head(q).id
         /\ ~inflight => \A s \in sent : s.id # Head(q).id
  <1>1. Len(q) \in Nat \ {0} /\ 1 \in 1..Len(q)
    BY LenProperties, EmptySeq
  <1>2. Head(q) = q[1] /\ Head(q) \in Command
    BY <1>1, HeadTailProperties, ElementOfSeq
  <1>3. Head(q).id \in Cmds /\ n \in Nat
    BY <1>2, QueueAssumption DEF Command
  <1>4. Head(q).id = n - Len(q)
    BY <1>1, <1>2, <1>3 DEF Ordered
  <1>5. outcome[Head(q).id] = "none"
    BY <1>1, <1>3, <1>4 DEF Ordered, Cmds
  <1>6. ~inflight => \A s \in sent : s.id # Head(q).id
    BY <1>1, <1>2 DEF HeadOnWire
  <1>7. ASSUME NEW s \in sent PROVE s.id <= Head(q).id
    <2>1. s.id \in Nat /\ s.id < n
      BY QueueAssumption DEF TypeOK, OnWire, Cmds
    <2> SUFFICES ASSUME s.id > Head(q).id PROVE FALSE
      BY <1>3, <2>1 DEF Cmds
    <2>2. s.id - Head(q).id + 1 \in 2..Len(q)
      BY <1>1, <1>3, <1>4, <2>1 DEF Cmds
    <2>3. PICK i \in 2..Len(q) : i = s.id - Head(q).id + 1
      BY <2>2
    <2>4. q[i].id = n - Len(q) + i - 1 /\ i \in 1..Len(q)
      BY <1>1, <2>3 DEF Ordered
    <2>5. q[i].id = s.id
      BY <1>1, <1>3, <1>4, <2>1, <2>3, <2>4 DEF Cmds
    <2> QED BY <2>3, <2>4, <2>5 DEF HeadOnWire
  <1> QED BY <1>1, <1>2, <1>5, <1>6, <1>7

\* The line as it was, or without the unit that was read.
LineRead == line' = line \/ (line # <<>> /\ line' = Tail(line))

LEMMA LineShifts ==
  ASSUME TypeOK, LineRead
  PROVE  \E d \in {0, 1} : /\ \A k \in 1..Len(line') : k + d \in 1..Len(line) /\ line'[k] = line[k + d]
                           /\ line' # line => d = 1
  <1>1. CASE line' = line
    <2>1. \A k \in 1..Len(line') : k + 0 \in 1..Len(line) /\ line'[k] = line[k + 0]
      BY <1>1, LenProperties DEF TypeOK
    <2> QED BY <1>1, <2>1
  <1>2. CASE line # <<>> /\ line' = Tail(line)
    <2>1. Len(line) \in Nat /\ Len(line') = Len(line) - 1
          /\ \A k \in 1..Len(line') : line'[k] = line[k + 1]
      BY <1>2, HeadTailProperties, LenProperties DEF TypeOK
    <2>2. \A k \in 1..Len(line') : k + 1 \in 1..Len(line) /\ line'[k] = line[k + 1]
      BY <2>1
    <2> QED BY <2>2
  <1> QED BY <1>1, <1>2 DEF LineRead

\* No reply to d is still to come once the line has been read.
NotAwaited(d) ==
  /\ \A c \in outstanding : c.id # d
  /\ \A k \in 1..Len(line') : line'[k].id # d

\* A step that reads the line and finishes commands keeps the replies to come excused, if the
\* commands it finishes are given up on, or answered for good, or of an opcode that has been
\* given up on before.
LEMMA RepliesKept ==
  ASSUME TypeOK, SentOnce, AnsweredOnce, RepliesToSent, LateOnlyAfterGivingUp, LineRead,
         outstanding' = outstanding, sent' = sent,
         \A d \in Cmds : outcome[d] # "none" => outcome'[d] = outcome[d],
         \A d \in Cmds : outcome'[d] # outcome[d] =>
           outcome'[d] \in Abandoned \/ NotAwaited(d)
             \/ \A s \in sent : s.id = d => GivenUp(d, s.op)
  PROVE  SentOnce' /\ AnsweredOnce' /\ RepliesToSent' /\ LateOnlyAfterGivingUp'
  <1>1. PICK d \in {0, 1} : \A k \in 1..Len(line') : k + d \in 1..Len(line) /\ line'[k] = line[k + d]
    BY LineShifts
  <1>2. \A i, o : GivenUp(i, o) => GivenUp(i, o)'
    BY ExcuseLasts DEF TypeOK
  <1>3. ASSUME NEW s \in sent, Excused(s.id, s.op), ~NotAwaited(s.id) PROVE Excused(s.id, s.op)'
    <2>1. CASE GivenUp(s.id, s.op)
      BY <1>2, <2>1 DEF Excused
    <2>2. CASE outcome'[s.id] = "none"
      BY <2>2 DEF Excused
    <2>3. CASE outcome[s.id] = "none" /\ outcome'[s.id] # "none"
      <3>1. s.id \in Cmds
        BY DEF TypeOK, OnWire
      <3>2. outcome'[s.id] \in Abandoned \/ GivenUp(s.id, s.op)
        BY <1>3, <2>3, <3>1
      <3>3. s.id <= s.id
        BY <3>1, QueueAssumption DEF Cmds
      <3>4. CASE outcome'[s.id] \in Abandoned
        BY <3>3, <3>4 DEF GivenUp, Excused
      <3> QED BY <2>1, <3>2, <3>4
    <2> QED BY <1>3, <2>1, <2>2, <2>3 DEF Excused
  <1>4. SentOnce'
    BY DEF SentOnce
  <1>5. AnsweredOnce'
    <2>1. \A j, k \in 1..Len(line') : line'[j].id = line'[k].id /\ line'[j].id # 0 => j = k
      BY <1>1 DEF AnsweredOnce
    <2>2. \A c \in outstanding', k \in 1..Len(line') : line'[k].id # c.id
      BY <1>1 DEF AnsweredOnce
    <2> QED BY <2>1, <2>2 DEF AnsweredOnce
  <1>6. RepliesToSent'
    <2>1. outstanding' \subseteq sent'
      BY DEF RepliesToSent
    <2>2. \A k \in 1..Len(line') :
            IF line'[k].id = 0 THEN line'[k].op = NOP
                               ELSE [id |-> line'[k].id, op |-> line'[k].op] \in sent'
      BY <1>1 DEF RepliesToSent
    <2> QED BY <2>1, <2>2 DEF RepliesToSent
  <1>7. LateOnlyAfterGivingUp'
    <2>1. ASSUME NEW c \in outstanding' PROVE Excused(c.id, c.op)'
      <3>1. c \in sent /\ Excused(c.id, c.op) /\ ~NotAwaited(c.id)
        BY <2>1 DEF RepliesToSent, LateOnlyAfterGivingUp, NotAwaited
      <3> QED BY <1>3, <3>1
    <2>2. ASSUME NEW k \in 1..Len(line'), NEW i, NEW o, i = line'[k].id, o = line'[k].op, i # 0
          PROVE  Excused(i, o)'
      <3> DEFINE s == [id |-> i, op |-> o]
      <3>1. k + d \in 1..Len(line) /\ line'[k] = line[k + d]
        BY <1>1
      <3>2. s \in sent /\ s.id = i /\ s.op = o /\ Excused(s.id, s.op) /\ ~NotAwaited(s.id)
        BY <2>2, <3>1 DEF RepliesToSent, LateOnlyAfterGivingUp, NotAwaited
      <3> HIDE DEF s
      <3>3. Excused(s.id, s.op)'
        BY <1>3, <3>2
      <3> QED BY <3>2, <3>3
    <2>3. \A k \in 1..Len(line') : line'[k].id # 0 =>
            outcome'[line'[k].id] = "none" \/ \E x \in sent' :
               x.id <= line'[k].id /\ x.op = line'[k].op /\ outcome'[x.id] \in Abandoned
      BY <2>2 DEF Excused, GivenUp
    <2> QED BY <2>1, <2>3 DEF LateOnlyAfterGivingUp, Excused, GivenUp
  <1> QED BY <1>4, <1>5, <1>6, <1>7

\* A command finished without a reply.
LEMMA FinishReplies ==
  ASSUME TypeOK, ReplyInv, NEW n \in 1..(MaxCmds + 1), \A s \in sent : s.id < n,
         NEW q \in Seq(Command), q # <<>>, QueuedAsSent(q),
         Ordered(q, n, outcome), HeadOnWire(q, inflight, inflightOp, sent),
         NEW e, inflight => e \in Abandoned, Finish(q, e, 0), LineRead
  PROVE  ReplyInv'
  <1> DEFINE h == Head(q).id
  <1>1. /\ outcome[h] = "none" /\ h \in Cmds
        /\ ~inflight => \A s \in sent : s.id # h
    BY HeadIsYoungest DEF Command
  <1>2. /\ queue' = Tail(q) /\ sent' = sent /\ outstanding' = outstanding
        /\ outcome' = [outcome EXCEPT ![h] = e] /\ answer' = [answer EXCEPT ![h] = 0]
    BY DEF Finish
  <1> HIDE DEF h
  <1>3. \A d \in Cmds : outcome'[d] = IF d = h THEN e ELSE outcome[d]
    BY <1>1, <1>2 DEF TypeOK
  <1>4. \A d \in Cmds : answer'[d] = IF d = h THEN 0 ELSE answer[d]
    BY <1>1, <1>2 DEF TypeOK
  <1>5. \A d \in Cmds : outcome[d] # "none" => outcome'[d] = outcome[d]
    BY <1>1, <1>3
  <1>6. \A d \in Cmds : outcome'[d] # outcome[d] =>
           outcome'[d] \in Abandoned \/ NotAwaited(d)
             \/ \A s \in sent : s.id = d => GivenUp(d, s.op)
    BY <1>1, <1>3
  <1>7. SentOnce' /\ AnsweredOnce' /\ RepliesToSent' /\ LateOnlyAfterGivingUp'
    BY <1>2, <1>5, <1>6, RepliesKept DEF ReplyInv
  <1>8. StaleReplyOnlyForRetry'
    <2>1. \A x \in sent : outcome[x.id] \in Abandoned => outcome'[x.id] \in Abandoned
      <3>1. \A x \in sent : x.id \in Cmds
        BY DEF TypeOK, OnWire
      <3> QED BY <1>5, <3>1 DEF Abandoned
    <2> QED BY <1>2, <1>4, <2>1 DEF StaleReplyOnlyForRetry, ReplyInv
  <1>9. QueuedAsSent(queue)'
    <2>1. Len(q) \in Nat \ {0} /\ Len(queue') = Len(q) - 1
          /\ \A i \in 1..Len(queue') : queue'[i] = q[i + 1]
      BY <1>2, HeadTailProperties, LenProperties
    <2>2. \A i \in 1..Len(queue') : i + 1 \in 1..Len(q)
      BY <2>1
    <2> QED BY <1>2, <2>1, <2>2 DEF QueuedAsSent
  <1> QED BY <1>7, <1>8, <1>9 DEF ReplyInv

\* A command finished by a reply, its own or a late one.
LEMMA AnswerReplies ==
  ASSUME QueueInv, ReplyInv, line # <<>>, Answers(Head(line)),
         Finish(queue, "REPLIED", Head(line).id), line' = Tail(line)
  PROVE  ReplyInv'
  <1> DEFINE u == Head(line)
             h == Head(queue).id
  <1>1. /\ TypeOK /\ inflight /\ queue # <<>> /\ u.op = Head(queue).op /\ queue \in Seq(Command)
        /\ nextId \in 1..(MaxCmds + 1) /\ \A s \in sent : s.id < nextId
        /\ Ordered(queue, nextId, outcome) /\ HeadOnWire(queue, inflight, inflightOp, sent)
    BY QueueInvParts DEF QueueInv, Answers, SentIsPast, HeadOnWire, TypeOK
  <1>2. /\ Head(queue) = queue[1] /\ 1 \in 1..Len(queue) /\ Head(queue) \in Command
        /\ outcome[h] = "none" /\ h \in Cmds
        /\ \A s \in sent : s.id <= h
    BY <1>1, HeadIsYoungest DEF Command
  <1>3. PICK z \in sent : z.id = h
    BY <1>1, <1>2 DEF HeadOnWire
  <1>4. z.op = u.op
    BY <1>1, <1>2, <1>3 DEF ReplyInv, QueuedAsSent
  <1>5. /\ u = line[1] /\ 1 \in 1..Len(line) /\ u.op \in Opcodes /\ u.op # NOP
        /\ Len(line) \in Nat /\ Len(line') = Len(line) - 1
        /\ \A k \in 1..Len(line') : line'[k] = line[k + 1]
    BY <1>1, <1>2, HeadTailProperties, LenProperties, EmptySeq, OpcodeAssumption DEF TypeOK, Command
  <1>6. u.id # 0 /\ [id |-> u.id, op |-> u.op] \in sent /\ Excused(u.id, u.op)
    BY <1>5 DEF ReplyInv, RepliesToSent, LateOnlyAfterGivingUp
  <1>y. PICK y \in sent : y = [id |-> u.id, op |-> u.op]
    BY <1>6
  <1>7. y.id = u.id /\ y.op = u.op /\ y.id <= h /\ y.id \in Cmds
    BY <1>1, <1>2, <1>y DEF TypeOK, OnWire
  <1>8. /\ queue' = Tail(queue) /\ sent' = sent /\ outstanding' = outstanding
        /\ outcome' = [outcome EXCEPT ![h] = "REPLIED"] /\ answer' = [answer EXCEPT ![h] = u.id]
    BY DEF Finish
  <1> HIDE DEF h, u
  <1>9. \A d \in Cmds : outcome'[d] = IF d = h THEN "REPLIED" ELSE outcome[d]
    BY <1>1, <1>2, <1>8 DEF TypeOK
  <1>10. \A d \in Cmds : answer'[d] = IF d = h THEN u.id ELSE answer[d]
    BY <1>1, <1>2, <1>8 DEF TypeOK
  <1>11. \A d \in Cmds : outcome[d] # "none" => outcome'[d] = outcome[d]
    BY <1>2, <1>9
  \* A reply to another command is late, and of an opcode given up on.
  <1>12. ASSUME u.id # h PROVE u.id < h /\ GivenUp(u.id, u.op)
    <2>1. u.id < h
      BY <1>2, <1>7, <1>12, QueueAssumption DEF Cmds
    <2>2. \A i \in 1..Len(queue) : queue[i].id = nextId - Len(queue) + i - 1
      BY <1>1 DEF Ordered
    <2>3. h = nextId - Len(queue)
      BY <1>1, <1>2, <2>2, LenProperties, QueueAssumption DEF h
    <2>4. outcome[u.id] # "none"
      BY <1>1, <1>7, <2>1, <2>3 DEF Ordered
    <2> QED BY <1>6, <2>1, <2>4 DEF Excused
  <1>13. ASSUME u.id = h PROVE NotAwaited(h)
    <2>1. \A c \in outstanding : c.id # h
      BY <1>5, <1>13 DEF ReplyInv, AnsweredOnce
    <2>2. \A k \in 1..Len(line') : line'[k].id # h
      <3> SUFFICES ASSUME NEW k \in 1..Len(line'), line'[k].id = h PROVE FALSE
        OBVIOUS
      <3>1. k + 1 \in 1..Len(line) /\ k + 1 # 1 /\ line[k + 1].id = line[1].id /\ line[1].id # 0
        BY <1>5, <1>6, <1>13
      <3> QED BY <1>5, <3>1 DEF ReplyInv, AnsweredOnce
    <2> QED BY <2>1, <2>2 DEF NotAwaited
  <1>14. \A d \in Cmds : outcome'[d] # outcome[d] =>
           outcome'[d] \in Abandoned \/ NotAwaited(d)
             \/ \A s \in sent : s.id = d => GivenUp(d, s.op)
    <2> SUFFICES NotAwaited(h) \/ \A s \in sent : s.id = h => GivenUp(h, s.op)
      BY <1>9
    <2> SUFFICES ASSUME u.id # h, NEW s \in sent, s.id = h PROVE GivenUp(h, s.op)
      BY <1>13
    <2>1. s = z
      BY <1>3 DEF ReplyInv, SentOnce
    <2>2. PICK x \in sent : x.id <= u.id /\ x.op = u.op /\ outcome[x.id] \in Abandoned
      BY <1>12 DEF GivenUp
    <2>3. x.id <= h
      BY <1>1, <1>2, <1>7, <1>12, <2>2, QueueAssumption DEF TypeOK, OnWire, Cmds
    <2> QED BY <1>4, <2>1, <2>2, <2>3 DEF GivenUp
  <1>15. SentOnce' /\ AnsweredOnce' /\ RepliesToSent' /\ LateOnlyAfterGivingUp'
    BY <1>1, <1>8, <1>11, <1>14, RepliesKept DEF ReplyInv, LineRead
  <1>16. StaleReplyOnlyForRetry'
    <2>1. \A x \in sent : outcome[x.id] \in Abandoned => outcome'[x.id] \in Abandoned
      <3>1. \A x \in sent : x.id \in Cmds
        BY <1>1 DEF TypeOK, OnWire
      <3> QED BY <1>11, <3>1 DEF Abandoned
    <2> SUFFICES ASSUME NEW c \in Cmds, answer'[c] \notin {0, c}
                 PROVE  /\ answer'[c] < c
                        /\ \E xx, yy, zz \in sent :
                             /\ xx.id <= yy.id /\ yy.id = answer'[c] /\ zz.id = c
                             /\ xx.op = yy.op /\ yy.op = zz.op
                             /\ outcome'[xx.id] \in Abandoned
      BY <1>8 DEF StaleReplyOnlyForRetry
    <2>2. CASE c = h
      <3>1. answer'[c] = u.id /\ u.id # h
        BY <1>10, <2>2
      <3>2. PICK x \in sent : x.id <= u.id /\ x.op = u.op /\ outcome[x.id] \in Abandoned
        BY <1>12, <3>1 DEF GivenUp
      <3>3. outcome'[x.id] \in Abandoned
        BY <2>1, <3>2
      <3> QED BY <1>3, <1>4, <1>7, <1>12, <2>2, <3>1, <3>2, <3>3
    <2>3. CASE c # h
      <3>1. answer'[c] = answer[c]
        BY <1>10, <2>3
      <3>2. answer[c] < c
        BY <3>1 DEF StaleReplyOnlyForRetry, ReplyInv
      <3>3. PICK xx, yy, zz \in sent : /\ xx.id <= yy.id /\ yy.id = answer[c] /\ zz.id = c
                                       /\ xx.op = yy.op /\ yy.op = zz.op
                                       /\ outcome[xx.id] \in Abandoned
        BY <3>1 DEF StaleReplyOnlyForRetry, ReplyInv
      <3> QED BY <2>1, <3>1, <3>2, <3>3
    <2> QED BY <2>2, <2>3
  <1>17. QueuedAsSent(queue)'
    <2>1. Len(queue) \in Nat \ {0} /\ Len(queue') = Len(queue) - 1
          /\ \A i \in 1..Len(queue') : queue'[i] = queue[i + 1]
      BY <1>1, <1>8, HeadTailProperties, LenProperties
    <2>2. \A i \in 1..Len(queue') : i + 1 \in 1..Len(queue)
      BY <2>1
    <2> QED BY <1>8, <2>1, <2>2 DEF QueuedAsSent, ReplyInv
  <1> QED BY <1>15, <1>16, <1>17 DEF ReplyInv

\* dispatch() adds to what is written only what never was.
LEMMA DispatchReplies ==
  ASSUME TypeOK, ReplyInv, NEW n \in 1..(MaxCmds + 1), \A s \in sent : s.id < n,
         NEW q \in Seq(Command), QueuedAsSent(q),
         Ordered(q, n, outcome), HeadOnWire(q, inflight, inflightOp, sent),
         NEW rs, Dispatch(q, rs), line' = line
  PROVE  ReplyInv'
  <1>1. CASE /\ queue' = q
             /\ UNCHANGED <<inflight, inflightOp, sentAge, ncmd, sent, outstanding,
                            outcome, answer, depth>>
    BY <1>1 DEF ReplyInv, SentOnce, QueuedAsSent, AnsweredOnce, RepliesToSent,
       LateOnlyAfterGivingUp, Excused, GivenUp, StaleReplyOnlyForRetry
  <1>2. CASE ~inflight /\ q # <<>> /\ WriteHead(q)
    <2> DEFINE w == [id |-> Head(q).id, op |-> Head(q).op]
    <2>1. /\ Head(q) = q[1] /\ 1 \in 1..Len(q) /\ Head(q) \in Command
          /\ outcome[Head(q).id] = "none" /\ \A s \in sent : s.id # Head(q).id
      BY <1>2, HeadIsYoungest
    <2>2. /\ w.id = Head(q).id /\ w.op = Head(q).op /\ w.id # 0 /\ outcome[w.id] = "none"
          /\ \A s \in sent : s.id # w.id
      BY <2>1, QueueAssumption DEF Command, Cmds
    <2>3. /\ queue' = q /\ sent' = sent \cup {w} /\ outstanding' = outstanding \cup {w}
          /\ outcome' = outcome /\ answer' = answer
      BY <1>2 DEF WriteHead
    <2> HIDE DEF w
    <2>4. \A i, o : GivenUp(i, o) => GivenUp(i, o)'
      BY <2>3 DEF GivenUp
    <2>5. \A i, o : Excused(i, o) => Excused(i, o)'
      BY <2>3, <2>4 DEF Excused
    <2>6. StaleReplyOnlyForRetry'
      BY <2>3, ExcuseLasts DEF ReplyInv, TypeOK
    <2>7. SentOnce'
      BY <2>2, <2>3 DEF ReplyInv, SentOnce
    <2>8. QueuedAsSent(queue)'
      <3> SUFFICES ASSUME NEW i \in 1..Len(q), NEW s \in sent', s.id = q[i].id PROVE s.op = q[i].op
        BY <2>3 DEF QueuedAsSent
      <3>1. CASE s \in sent
        BY <3>1 DEF QueuedAsSent
      <3>2. CASE s = w
        <4>1. q[i].id = n - Len(q) + i - 1 /\ q[1].id = n - Len(q) + 1 - 1
          BY <2>1 DEF Ordered
        <4>2. i = 1
          BY <2>1, <2>2, <3>2, <4>1, LenProperties, QueueAssumption
        <4> QED BY <2>1, <2>2, <3>2, <4>2
      <3> QED BY <2>3, <3>1, <3>2
    <2>9. \A k \in 1..Len(line) : line[k].id # w.id
      BY <2>2 DEF ReplyInv, RepliesToSent
    <2>10. AnsweredOnce' /\ RepliesToSent'
      BY <2>3, <2>9 DEF ReplyInv, AnsweredOnce, RepliesToSent
    <2>11. LateOnlyAfterGivingUp'
      <3>1. Excused(w.id, w.op)'
        BY <2>2, <2>3 DEF Excused
      <3>2. \A c \in outstanding : Excused(c.id, c.op)'
        BY <2>5 DEF ReplyInv, LateOnlyAfterGivingUp
      <3>3. \A k \in 1..Len(line) : line[k].id # 0 =>
              outcome'[line[k].id] = "none" \/ \E x \in sent' :
                x.id <= line[k].id /\ x.op = line[k].op /\ outcome'[x.id] \in Abandoned
        BY <2>3 DEF ReplyInv, LateOnlyAfterGivingUp, Excused, GivenUp
      <3> QED BY <2>3, <3>1, <3>2, <3>3 DEF LateOnlyAfterGivingUp, Excused, GivenUp
    <2> QED BY <2>6, <2>7, <2>8, <2>10, <2>11 DEF ReplyInv
  <1>3. CASE ~inflight /\ q # <<>> /\ Finish(q, AgedReason(rs), 0)
    BY <1>3, FinishReplies DEF LineRead
  <1> QED BY <1>1, <1>2, <1>3 DEF Dispatch

LEMMA ReplyStep == QueueInv /\ ReplyInv /\ [Next]_vars => ReplyInv'
  <1> SUFFICES ASSUME QueueInv, ReplyInv, [Next]_vars PROVE ReplyInv'
    OBVIOUS
  <1> USE DEF hostVars, ctlVars, envVars, histVars
  <1>0. /\ TypeOK /\ queue \in Seq(Command) /\ nextId \in 1..(MaxCmds + 1) /\ resync \in BOOLEAN
        /\ \A s \in sent : s.id < nextId
        /\ Ordered(queue, nextId, outcome) /\ HeadOnWire(queue, inflight, inflightOp, sent)
        /\ QueuedAsSent(queue)
    BY QueueInvParts DEF QueueInv, TypeOK, SentIsPast, ReplyInv
  <1>1. ASSUME NEW rs, Dispatch(queue, rs), line' = line PROVE ReplyInv'
    BY <1>0, <1>1, DispatchReplies
  <1>2. ASSUME inflight, NEW e \in {"TIMEOUT", "FRAMING"}, Finish(queue, e, 0), LineRead
        PROVE  ReplyInv'
    <2>1. queue # <<>> /\ e \in Abandoned
      BY <1>0, <1>2 DEF HeadOnWire, Abandoned
    <2> QED BY <1>0, <1>2, <2>1, FinishReplies
  \* What leaves commands, outcomes and the controller alone.
  <1>3. ASSUME UNCHANGED <<sent, outstanding, outcome, answer>>, LineRead, QueuedAsSent(queue)'
        PROVE  ReplyInv'
    <2>1. SentOnce' /\ AnsweredOnce' /\ RepliesToSent' /\ LateOnlyAfterGivingUp'
      BY <1>0, <1>3, RepliesKept DEF ReplyInv
    <2>2. StaleReplyOnlyForRetry'
      BY <1>0, <1>3, ExcuseLasts DEF ReplyInv, TypeOK
    <2> QED BY <1>3, <2>1, <2>2 DEF ReplyInv
  <1>4. ASSUME UNCHANGED <<queue, sent, outstanding, outcome, answer>>, LineRead PROVE ReplyInv'
    <2>1. QueuedAsSent(queue)'
      BY <1>0, <1>4 DEF QueuedAsSent
    <2> QED BY <1>3, <1>4, <2>1
  <1>5. ASSUME NEW op \in Opcodes, NEW q, q = Append(queue, [id |-> nextId, op |-> op, age |-> 0]),
               nextId \in Cmds, Len(queue) < QueueDepth, NEW rs, Dispatch(q, rs), line' = line
        PROVE  ReplyInv'
    <2>1. /\ q \in Seq(Command) /\ nextId + 1 \in 1..(MaxCmds + 1)
          /\ \A s \in sent : s.id < nextId + 1
          /\ Ordered(q, nextId + 1, outcome) /\ HeadOnWire(q, inflight, inflightOp, sent)
      BY <1>5, AppendInv
    <2>2. QueuedAsSent(q)
      <3>1. /\ Len(queue) \in Nat /\ Len(q) = Len(queue) + 1 /\ q[Len(q)].id = nextId
            /\ \A i \in 1..Len(queue) : q[i] = queue[i]
        BY <1>0, <1>5, AppendProperties, LenProperties
      <3>2. \A i \in 1..Len(q) : i = Len(q) \/ i \in 1..Len(queue)
        BY <3>1
      <3>3. \A s \in sent : s.id # nextId
        BY <1>0, QueueAssumption DEF TypeOK, OnWire, Cmds
      <3> QED BY <1>0, <3>1, <3>2, <3>3 DEF QueuedAsSent
    <2> QED BY <1>0, <1>5, <2>1, <2>2, DispatchReplies
  <1>6. ASSUME NEW op \in Opcodes, Submit(op) PROVE ReplyInv'
    BY <1>5, <1>6 DEF Submit, Enqueue
  <1>7. ASSUME NEW op \in Opcodes, NEW t \in Timeouts, RunStart(op, t) PROVE ReplyInv'
    <2> DEFINE x == [id |-> nextId, op |-> op, age |-> 0]
    <2>1. queue = <<>> /\ nextId \in Cmds /\ Dispatch(<<x>>, resync) /\ line' = line
      BY <1>7 DEF RunStart
    <2>2. <<x>> = Append(queue, x) /\ Len(queue) < QueueDepth
      BY <2>1, QueueAssumption
    <2> QED BY <1>5, <2>1, <2>2
  <1>8. ASSUME Begin PROVE ReplyInv'
    <2>1. queue' = <<>> /\ UNCHANGED <<sent, outstanding, line, answer>>
      BY <1>8 DEF Begin
    <2>2. \A c \in Cmds : outcome'[c] = IF \E i \in 1..Len(queue) : queue[i].id = c
                                        THEN "DROPPED" ELSE outcome[c]
      BY <1>8 DEF Begin
    <2>3. \A i \in 1..Len(queue) : queue[i].id \in Cmds => outcome[queue[i].id] = "none"
      <3> SUFFICES ASSUME NEW i \in 1..Len(queue), queue[i].id \in Cmds
                   PROVE  outcome[queue[i].id] = "none"
        OBVIOUS
      <3>1. queue[i].id = nextId - Len(queue) + i - 1 /\ Len(queue) \in Nat /\ nextId \in Nat
        BY <1>0, LenProperties, QueueAssumption DEF Ordered
      <3>2. ~(queue[i].id < nextId - Len(queue))
        BY <3>1
      <3> QED BY <1>0, <3>2 DEF Ordered
    <2>4. \A d \in Cmds : outcome[d] # "none" => outcome'[d] = outcome[d]
      BY <2>2, <2>3
    <2>5. \A d \in Cmds : outcome'[d] # outcome[d] => outcome'[d] \in Abandoned
      BY <2>2 DEF Abandoned
    <2>6. SentOnce' /\ AnsweredOnce' /\ RepliesToSent' /\ LateOnlyAfterGivingUp'
      BY <1>0, <2>1, <2>4, <2>5, RepliesKept DEF ReplyInv, LineRead
    <2>7. StaleReplyOnlyForRetry'
      BY <1>0, <2>1, <2>4, ExcuseLasts DEF ReplyInv, TypeOK
    <2>8. QueuedAsSent(queue)'
      BY <2>1 DEF QueuedAsSent
    <2> QED BY <2>6, <2>7, <2>8 DEF ReplyInv
  <1>9. ASSUME ReadReply PROVE ReplyInv'
    <2>1. line # <<>> /\ line' = Tail(line)
      BY <1>9 DEF ReadReply, Draining
    <2>2. CASE Answers(Head(line))
      BY <1>9, <2>1, <2>2, AnswerReplies DEF ReadReply
    <2>3. CASE ~Answers(Head(line))
      BY <1>4, <1>9, <2>1, <2>3 DEF ReadReply, LineRead
    <2> QED BY <2>2, <2>3
  <1>10. ASSUME ReadNoise PROVE ReplyInv'
    <2>1. LineRead
      BY <1>10 DEF ReadNoise, Draining, LineRead
    <2>2. CASE inflight
      BY <1>2, <1>10, <2>1, <2>2 DEF ReadNoise
    <2>3. CASE ~inflight
      BY <1>4, <1>10, <2>1, <2>3 DEF ReadNoise
    <2> QED BY <2>2, <2>3
  <1>11. ASSUME DrainEnd PROVE ReplyInv'
    <2>1. line' = line /\ LineRead
      BY <1>11 DEF DrainEnd, LineRead
    <2>2. CASE TimedOut
      <3>1. inflight /\ Finish(queue, "TIMEOUT", 0)
        BY <1>11, <2>2 DEF DrainEnd, TimedOut
      <3> QED BY <1>2, <2>1, <3>1
    <2>3. CASE ~TimedOut
      BY <1>1, <1>11, <2>1, <2>3 DEF DrainEnd
    <2> QED BY <2>2, <2>3
  <1>12. ASSUME ServiceTail PROVE ReplyInv'
    BY <1>1, <1>12 DEF ServiceTail
  <1>13. ASSUME Discard \/ ReadEvent PROVE ReplyInv'
    BY <1>4, <1>13 DEF Discard, ReadEvent, Draining, LineRead
  <1>14. ASSUME Tick PROVE ReplyInv'
    <2>1. /\ queue' = [i \in DOMAIN queue |-> [queue[i] EXCEPT !.age = Older(@)]]
          /\ UNCHANGED <<sent, outstanding, outcome, answer, line>>
      BY <1>14 DEF Tick
    <2>2. /\ Len(queue') = Len(queue)
          /\ \A i \in 1..Len(queue) : queue[i] \in Command
                                      /\ queue'[i] = [queue[i] EXCEPT !.age = Older(@)]
      <3>1. DOMAIN queue = 1..Len(queue) /\ Len(queue) \in Nat
        BY <1>0, LenProperties
      <3>2. \A i \in 1..Len(queue) : queue[i] \in Command
        BY <1>0, ElementOfSeq
      <3> QED BY <2>1, <3>1, <3>2
    <2>3. \A i \in 1..Len(queue) : queue'[i].id = queue[i].id /\ queue'[i].op = queue[i].op
      BY <2>2 DEF Command
    <2>4. QueuedAsSent(queue)'
      BY <1>0, <2>1, <2>2, <2>3 DEF QueuedAsSent
    <2> QED BY <1>3, <2>1, <2>4 DEF LineRead
  <1>15. CASE UNCHANGED vars
    BY <1>4, <1>15 DEF vars, LineRead
  <1>16. ASSUME RunReturn \/ (\E t \in Timeouts : SetCommandTimeout(t)) \/ ReclaimCredit
                \/ CallbackReturn \/ ServiceStart
         PROVE  ReplyInv'
    BY <1>4, <1>16 DEF RunReturn, SetCommandTimeout, ReclaimCredit, CallbackReturn, ServiceStart,
       LineRead
  \* What the controller and the line add.
  <1>17. ASSUME NEW u \in Units, Receive(u), outstanding' \subseteq outstanding,
                \/ u.id = 0 /\ u.op = NOP
                \/ [id |-> u.id, op |-> u.op] \in outstanding \ outstanding'
         PROVE  ReplyInv'
    <2>1. /\ line' = Append(line, u) /\ UNCHANGED <<queue, sent, outcome, answer>>
      BY <1>17 DEF Receive
    <2>2. /\ Len(line) \in Nat /\ Len(line') = Len(line) + 1 /\ line'[Len(line')] = u
          /\ \A k \in 1..Len(line) : line'[k] = line[k]
      BY <1>0, <2>1, AppendProperties, LenProperties DEF TypeOK
    <2>3. \A k \in 1..Len(line') : k = Len(line') \/ k \in 1..Len(line)
      BY <2>2
    <2>4. CASE u.id = 0 /\ u.op = NOP
      <3>1. \A c \in outstanding : c.id # 0
        BY <1>0 DEF TypeOK, OnWire, Cmds
      <3>2. AnsweredOnce' /\ RepliesToSent'
        BY <1>17, <2>1, <2>2, <2>3, <2>4, <3>1 DEF ReplyInv, AnsweredOnce, RepliesToSent
      <3>3. LateOnlyAfterGivingUp'
        BY <1>17, <2>1, <2>2, <2>3, <2>4 DEF ReplyInv, LateOnlyAfterGivingUp, Excused, GivenUp
      <3> QED BY <2>1, <3>2, <3>3 DEF ReplyInv, SentOnce, QueuedAsSent, StaleReplyOnlyForRetry
    <2>5. CASE [id |-> u.id, op |-> u.op] \in outstanding \ outstanding'
      <3>1. PICK c \in outstanding : c.id = u.id /\ c.op = u.op /\ c \notin outstanding'
                                     /\ c = [id |-> u.id, op |-> u.op]
        BY <2>5
      <3>2. c \in sent /\ outstanding \subseteq sent
        BY DEF ReplyInv, RepliesToSent
      <3>3. \A d \in outstanding' : d.id # u.id
        BY <1>17, <3>1, <3>2 DEF ReplyInv, SentOnce
      <3>4. \A k \in 1..Len(line) : line[k].id # u.id
        BY <3>1 DEF ReplyInv, AnsweredOnce
      <3>5. AnsweredOnce'
        BY <1>17, <2>2, <2>3, <3>3, <3>4 DEF ReplyInv, AnsweredOnce
      <3>6. RepliesToSent'
        <4>1. u.id # 0
          BY <1>0, <3>1 DEF TypeOK, OnWire, Cmds
        <4> QED BY <1>17, <2>1, <2>2, <2>3, <3>1, <3>2, <4>1 DEF ReplyInv, RepliesToSent
      <3>7. Excused(u.id, u.op)
        BY <3>1 DEF ReplyInv, LateOnlyAfterGivingUp
      <3>8. LateOnlyAfterGivingUp'
        BY <1>17, <2>1, <2>2, <2>3, <3>7 DEF ReplyInv, LateOnlyAfterGivingUp, Excused, GivenUp
      <3> QED BY <2>1, <3>5, <3>6, <3>8 DEF ReplyInv, SentOnce, QueuedAsSent, StaleReplyOnlyForRetry
    <2> QED BY <1>17, <2>4, <2>5
  <1>18. \A i \in 0..MaxCmds, g \in 0..CreditMax, o \in Opcodes \cup {NOP} :
           Reply(o, i, g) \in Units /\ Reply(o, i, g).id = i /\ Reply(o, i, g).op = o
    BY QueueAssumption, CreditAssumption DEF Reply, Units
  <1>19. ASSUME ControllerReplies PROVE ReplyInv'
    <2>1. PICK c \in outstanding, g \in Grants :
            Receive(Reply(c.op, c.id, g)) /\ outstanding' = outstanding \ {c}
      BY <1>19 DEF ControllerReplies
    <2>2. /\ c.op \in Opcodes /\ c.id \in 0..MaxCmds /\ g \in 0..CreditMax
          /\ c = [id |-> c.id, op |-> c.op]
      BY <1>0, CreditAssumption, QueueAssumption DEF TypeOK, OnWire, Cmds
    <2>3. PICK u \in Units : u = Reply(c.op, c.id, g) /\ u.id = c.id /\ u.op = c.op
      BY <1>18, <2>2
    <2> QED BY <1>17, <2>1, <2>2, <2>3
  <1>20. ASSUME ControllerGrants PROVE ReplyInv'
    <2>1. PICK g \in Grants : Receive(Reply(NOP, 0, g)) /\ UNCHANGED outstanding
      BY <1>20 DEF ControllerGrants
    <2>2. g \in 0..CreditMax /\ 0 \in 0..MaxCmds
      BY CreditAssumption, QueueAssumption
    <2>3. PICK u \in Units : u = Reply(NOP, 0, g) /\ u.id = 0 /\ u.op = NOP
      BY <1>18, <2>2
    <2> QED BY <1>17, <2>1, <2>3
  <1>21. /\ Event \in Units /\ Event.id = 0 /\ Event.op = NOP
         /\ Noise \in Units /\ Noise.id = 0 /\ Noise.op = NOP
    BY QueueAssumption, CreditAssumption DEF Event, Noise, Units
  <1>22. ASSUME ControllerEvent \/ LineNoise PROVE ReplyInv'
    BY <1>17, <1>21, <1>22 DEF ControllerEvent, LineNoise
  <1> QED
    BY <1>6, <1>7, <1>8, <1>9, <1>10, <1>11, <1>12, <1>13, <1>14, <1>15, <1>16, <1>19, <1>20, <1>22
       DEF Next, User, Service, Environment

\* A reply finishes a command it does not answer only as Hci.h admits: after one of its
\* opcode was given up on.  (onPacket matches by opcode, begin and timeouts give up.)
THEOREM StaleRepliesExcused == Spec => []StaleReplyOnlyForRetry
  <1>1. Init => ReplyInv
    <2> SUFFICES ASSUME Init PROVE ReplyInv
      OBVIOUS
    <2>1. /\ sent = {} /\ outstanding = {} /\ line = <<>> /\ Len(line) = 0 /\ Len(queue) = 0
          /\ \A c \in Cmds : answer[c] = 0
      BY DEF Init
    <2> QED
      BY <2>1 DEF ReplyInv, SentOnce, QueuedAsSent, AnsweredOnce, RepliesToSent,
         LateOnlyAfterGivingUp, StaleReplyOnlyForRetry
  <1>2. ReplyInv => StaleReplyOnlyForRetry
    BY DEF ReplyInv
  <1> QED BY <1>1, <1>2, ReplyStep, HostInvariant, PTL DEF Spec
=============================================================================
