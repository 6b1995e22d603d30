-------------------------- MODULE WifiFacadeProofs --------------------------
(***************************************************************************)
(* Proofs about WifiFacade, for calls nested to any depth and any number   *)
(* of names, lookups and attempts, and whatever a responder may call.      *)
(***************************************************************************)
EXTENDS WifiFacade, SequenceTheorems, TLAPS

-----------------------------------------------------------------------------
(* The stack and the guards, as a property of a stack s and the four flags   *)
(* that guard what is on it.                                                 *)

Frames == [call : Calls \cup {"pump"}, at : Ats, pass : BOOLEAN, polls : BOOLEAN,
           saved : BOOLEAN, name : Names \cup {None}, token : Nat]

\* Where each call can be; only the places of a pass are inside one.
Placed(c) ==
  /\ c.call = "pump" => c.at = "passing"
  /\ c.call = "loop" => c.at \in {"passing", "joining", "waiting", "passed", "undoing"}
  /\ c.call = "status" => c.at \in {"joining", "waiting", "passed", "undoing"}
  /\ c.call = "begin" => c.at \in {"bringing", "leaving", "joining", "waiting", "passed", "undoing"}
  /\ c.call = "disconnect" => c.at = "leaving"
  /\ c.call = "scan" => c.at = "scanning"
  /\ c.call = "lookup" => c.at \in {"asking", "waiting", "passed"}
  /\ c.pass => c.at \in {"passing", "waiting"}

Commanding(c) == c.at \in Commands
Looking(c) == c.call = "lookup"

\* What is under way on a stack.
PassOn(s) == \E i \in 1..Len(s) : s[i].pass
CommandOn(s) == \E i \in 1..Len(s) : Commanding(s[i])
AttemptOn(s) == \E i \in 1..Len(s) : Attempt(s[i])
LookupOn(s) == \E i \in 1..Len(s) : Looking(s[i])

\* A pass has no command and no pass below it, a command's guard will restore what is the case
\* below it, and there is one attempt of a retry and one lookup at most.
Nested(s) ==
  /\ s \in Seq(Frames) /\ \A i \in 1..Len(s) : Placed(s[i])
  /\ \A i, j \in 1..Len(s) : i < j /\ s[j].pass => ~s[i].pass /\ ~Commanding(s[i])
  /\ \A i \in 1..Len(s) : Commanding(s[i]) =>
       (s[i].saved <=> \E j \in 1..Len(s) : j < i /\ Commanding(s[j]))
  /\ \A i, j \in 1..Len(s) : i < j => ~(Attempt(s[i]) /\ Attempt(s[j]))
  /\ \A i, j \in 1..Len(s) : i < j => ~(Looking(s[i]) /\ Looking(s[j]))

\* A call is pushed.
LEMMA Pushed ==
  ASSUME NEW s, Nested(s), NEW c \in Frames, Placed(c),
         c.pass => ~PassOn(s) /\ ~CommandOn(s),
         Commanding(c) => (c.saved <=> CommandOn(s)),
         Attempt(c) => ~AttemptOn(s),
         Looking(c) => ~LookupOn(s)
  PROVE  /\ Nested(Append(s, c))
         /\ PassOn(Append(s, c)) <=> PassOn(s) \/ c.pass
         /\ CommandOn(Append(s, c)) <=> CommandOn(s) \/ Commanding(c)
         /\ AttemptOn(Append(s, c)) <=> AttemptOn(s) \/ Attempt(c)
         /\ LookupOn(Append(s, c)) <=> LookupOn(s) \/ Looking(c)
  <1> DEFINE t == Append(s, c)
             n == Len(s)
  <1>1. /\ s \in Seq(Frames) /\ n \in Nat /\ t \in Seq(Frames) /\ Len(t) = n + 1
        /\ \A i \in 1..n : t[i] = s[i]
        /\ t[n + 1] = c
    BY DEF Nested
  <1>2. \A i : i \in 1..Len(t) <=> i \in 1..n \/ i = n + 1
    BY <1>1
  <1>3. \A i \in 1..n : i < n + 1
    BY <1>1
  <1>4. \A i, j \in 1..Len(t) : i < j => i \in 1..n
    BY <1>1
  <1> HIDE DEF t, n
  <1>5. /\ \A i \in 1..n : Placed(s[i])
        /\ \A i, j \in 1..n : i < j /\ s[j].pass => ~s[i].pass /\ ~Commanding(s[i])
        /\ \A i \in 1..n : Commanding(s[i]) =>
             (s[i].saved <=> \E j \in 1..n : j < i /\ Commanding(s[j]))
        /\ \A i, j \in 1..n : i < j => ~(Attempt(s[i]) /\ Attempt(s[j]))
        /\ \A i, j \in 1..n : i < j => ~(Looking(s[i]) /\ Looking(s[j]))
    BY DEF Nested, n
  <1>6. \A i \in 1..Len(t) : Placed(t[i])
    BY <1>1, <1>2, <1>5
  <1>7. \A i, j \in 1..Len(t) : i < j /\ t[j].pass => ~t[i].pass /\ ~Commanding(t[i])
    BY <1>1, <1>2, <1>4, <1>5 DEF PassOn, CommandOn, n
  <1>8. \A i \in 1..Len(t) : Commanding(t[i]) =>
          (t[i].saved <=> \E j \in 1..Len(t) : j < i /\ Commanding(t[j]))
    <2>1. ASSUME NEW i \in 1..n, Commanding(t[i])
          PROVE  t[i].saved <=> \E j \in 1..Len(t) : j < i /\ Commanding(t[j])
      <3>1. \A j \in 1..Len(t) : j < i => j \in 1..n
        BY <1>2, <1>4
      <3> QED BY <1>1, <1>2, <1>5, <2>1, <3>1
    <2>2. Commanding(t[n + 1]) =>
            (t[n + 1].saved <=> \E j \in 1..Len(t) : j < n + 1 /\ Commanding(t[j]))
      <3>1. \A j \in 1..Len(t) : j < n + 1 <=> j \in 1..n
        BY <1>1, <1>2, <1>3
      <3> QED BY <1>1, <1>2, <3>1 DEF CommandOn, n
    <2> QED BY <1>2, <2>1, <2>2
  <1>9. \A i, j \in 1..Len(t) : i < j => ~(Attempt(t[i]) /\ Attempt(t[j]))
    BY <1>1, <1>2, <1>4, <1>5 DEF AttemptOn, n
  <1>10. \A i, j \in 1..Len(t) : i < j => ~(Looking(t[i]) /\ Looking(t[j]))
    BY <1>1, <1>2, <1>4, <1>5 DEF LookupOn, n
  <1>11. /\ PassOn(t) <=> PassOn(s) \/ c.pass
         /\ CommandOn(t) <=> CommandOn(s) \/ Commanding(c)
         /\ AttemptOn(t) <=> AttemptOn(s) \/ Attempt(c)
         /\ LookupOn(t) <=> LookupOn(s) \/ Looking(c)
    BY <1>1, <1>2 DEF PassOn, CommandOn, AttemptOn, LookupOn, n
  <1> QED BY <1>1, <1>6, <1>7, <1>8, <1>9, <1>10, <1>11 DEF Nested, t

\* The last call returns.
LEMMA Popped ==
  ASSUME NEW s, Nested(s), s # <<>>
  PROVE  /\ Nested(Front(s)) /\ Last(s) \in Frames /\ Placed(Last(s))
         /\ PassOn(Front(s)) <=> PassOn(s) /\ ~Last(s).pass
         /\ CommandOn(Front(s)) <=> IF Commanding(Last(s)) THEN Last(s).saved ELSE CommandOn(s)
         /\ AttemptOn(Front(s)) <=> AttemptOn(s) /\ ~Attempt(Last(s))
         /\ LookupOn(Front(s)) <=> LookupOn(s) /\ ~Looking(Last(s))
         /\ Last(s).pass => PassOn(s) /\ ~CommandOn(Front(s))
         /\ Commanding(Last(s)) => CommandOn(s)
         /\ Attempt(Last(s)) => AttemptOn(s)
         /\ Looking(Last(s)) => LookupOn(s)
  <1> DEFINE t == Front(s)
             n == Len(s)
             c == Last(s)
  <1>1. /\ s \in Seq(Frames) /\ n \in Nat \ {0} /\ t \in Seq(Frames) /\ Len(t) = n - 1
        /\ \A i \in 1..(n - 1) : t[i] = s[i]
        /\ s[n] = c /\ c \in Frames
    <2>1. s \in Seq(Frames) /\ n \in Nat \ {0}
      BY DEF Nested
    <2>2. t = SubSeq(s, 1, n - 1) /\ c = s[n] /\ n \in 1..n
      BY <2>1 DEF Front, Last
    <2>3. \A i \in 1..(n - 1) : s[i] \in Frames
      BY <2>1
    <2>4. /\ SubSeq(s, 1, n - 1) \in Seq(Frames)
          /\ Len(SubSeq(s, 1, n - 1)) = IF 1 <= n - 1 THEN n - 1 - 1 + 1 ELSE 0
          /\ \A i \in 1..(n - 1 - 1 + 1) : SubSeq(s, 1, n - 1)[i] = s[1 + i - 1]
      <3>1. n - 1 \in Int /\ 1 \in Int
        BY <2>1
      <3> HIDE DEF n
      <3> QED BY <2>3, <3>1, SubSeqProperties
    <2> HIDE DEF t, c, n
    <2>5. Len(t) = n - 1
      BY <2>1, <2>2, <2>4
    <2>6. ASSUME NEW i \in 1..(n - 1) PROVE t[i] = s[i]
      <3>1. n - 1 - 1 + 1 = n - 1 /\ 1 + i - 1 = i
        BY <2>1
      <3> QED BY <2>2, <2>4, <3>1
    <2>7. c \in Frames
      BY <2>1, <2>2 DEF n
    <2> QED BY <2>1, <2>2, <2>4, <2>5, <2>6, <2>7
  <1>2. \A i : i \in 1..n <=> i \in 1..(n - 1) \/ i = n
    BY <1>1
  <1>3. \A i \in 1..(n - 1) : i < n
    BY <1>1
  <1>4. \A j \in 1..n : j < n <=> j \in 1..(n - 1)
    BY <1>1
  <1> HIDE DEF t, n, c
  <1>5. /\ \A i \in 1..n : Placed(s[i])
        /\ \A i, j \in 1..n : i < j /\ s[j].pass => ~s[i].pass /\ ~Commanding(s[i])
        /\ \A i \in 1..n : Commanding(s[i]) =>
             (s[i].saved <=> \E j \in 1..n : j < i /\ Commanding(s[j]))
        /\ \A i, j \in 1..n : i < j => ~(Attempt(s[i]) /\ Attempt(s[j]))
        /\ \A i, j \in 1..n : i < j => ~(Looking(s[i]) /\ Looking(s[j]))
    BY DEF Nested, n
  <1>6. /\ \A i \in 1..Len(t) : Placed(t[i])
        /\ \A i, j \in 1..Len(t) : i < j /\ t[j].pass => ~t[i].pass /\ ~Commanding(t[i])
    BY <1>1, <1>2, <1>5
  <1>8. \A i \in 1..Len(t) : Commanding(t[i]) =>
          (t[i].saved <=> \E j \in 1..Len(t) : j < i /\ Commanding(t[j]))
    <2>1. ASSUME NEW i \in 1..(n - 1)
          PROVE  \A j \in 1..n : j < i => j \in 1..(n - 1)
      BY <1>1
    <2> QED BY <1>1, <1>2, <1>5, <2>1
  <1>9. /\ \A i, j \in 1..Len(t) : i < j => ~(Attempt(t[i]) /\ Attempt(t[j]))
        /\ \A i, j \in 1..Len(t) : i < j => ~(Looking(t[i]) /\ Looking(t[j]))
    BY <1>1, <1>2, <1>5
  <1>10. PassOn(t) <=> PassOn(s) /\ ~c.pass
    BY <1>1, <1>2, <1>3, <1>5 DEF PassOn, n
  <1>11. AttemptOn(t) <=> AttemptOn(s) /\ ~Attempt(c)
    BY <1>1, <1>2, <1>3, <1>5 DEF AttemptOn, n
  <1>12. LookupOn(t) <=> LookupOn(s) /\ ~Looking(c)
    BY <1>1, <1>2, <1>3, <1>5 DEF LookupOn, n
  <1>13. CommandOn(t) <=> IF Commanding(c) THEN c.saved ELSE CommandOn(s)
    BY <1>1, <1>2, <1>4, <1>5 DEF CommandOn, n
  <1>14. /\ c.pass => PassOn(s) /\ ~CommandOn(t)
         /\ Commanding(c) => CommandOn(s)
         /\ Attempt(c) => AttemptOn(s)
         /\ Looking(c) => LookupOn(s)
    BY <1>1, <1>2, <1>3, <1>5 DEF PassOn, CommandOn, AttemptOn, LookupOn, n
  <1>15. Placed(c)
    BY <1>1, <1>2, <1>5
  <1> QED BY <1>1, <1>6, <1>8, <1>9, <1>10, <1>11, <1>12, <1>13, <1>14, <1>15 DEF Nested, t, c

-----------------------------------------------------------------------------
(* Every step keeps the guards.                                              *)

GInv ==
  /\ Nested(stack)
  /\ inService <=> PassOn(stack)
  /\ inDriverCmd <=> CommandOn(stack)
  /\ inReconnect <=> AttemptOn(stack)
  /\ dns.busy <=> LookupOn(stack)

Shapes ==
  /\ up \in BOOLEAN /\ linkUp \in BOOLEAN /\ want \in BOOLEAN
  /\ autoReconnect \in BOOLEAN /\ autoService \in BOOLEAN /\ attached \in BOOLEAN
  /\ rested \in BOOLEAN /\ inReconnect \in BOOLEAN /\ inService \in BOOLEAN
  /\ inDriverCmd \in BOOLEAN
  /\ dhcp \in {"off", "asking", "bound"}
  /\ status \in {"IDLE", "FAILED", "CONNECTED", "LOST", "DISCONNECTED", "NO_SHIELD"}
  /\ dns \in [gen : Nat, done : BOOLEAN, ok : BOOLEAN, addr : Names \cup {None}, busy : BOOLEAN]
  /\ asked \subseteq [name : Names, token : Nat] /\ cache \subseteq Names
  /\ lookups \in 0..MaxLookups /\ joins \in 0..MaxJoins /\ calledOff \in {"no", "alone", "within"}

\* A call is pushed, with the flags that go with it.
LEMMA PushKeeps ==
  ASSUME GInv, NEW c \in Frames, Placed(c), stack' = Append(stack, c),
         c.pass => ~inService /\ ~inDriverCmd,
         Commanding(c) => (c.saved <=> inDriverCmd),
         Attempt(c) => ~inReconnect,
         Looking(c) => ~dns.busy,
         inService' <=> inService \/ c.pass,
         inDriverCmd' <=> inDriverCmd \/ Commanding(c),
         inReconnect' <=> inReconnect \/ Attempt(c),
         dns'.busy <=> dns.busy \/ Looking(c)
  PROVE  GInv'
  <1>1. /\ Nested(stack')
        /\ PassOn(stack') <=> PassOn(stack) \/ c.pass
        /\ CommandOn(stack') <=> CommandOn(stack) \/ Commanding(c)
        /\ AttemptOn(stack') <=> AttemptOn(stack) \/ Attempt(c)
        /\ LookupOn(stack') <=> LookupOn(stack) \/ Looking(c)
    BY Pushed DEF GInv
  <1> QED BY <1>1 DEF GInv

LEMMA ReturnKeeps ==
  ASSUME GInv, stack # <<>>, Return, ~Top.pass,
         inService' <=> inService,
         inDriverCmd' <=> IF Commanding(Top) THEN Top.saved ELSE inDriverCmd,
         inReconnect' <=> inReconnect /\ ~Attempt(Top),
         dns'.busy <=> dns.busy /\ ~Looking(Top)
  PROVE  GInv'
  <1>1. /\ Nested(stack')
        /\ PassOn(stack') <=> PassOn(stack) /\ ~Top.pass
        /\ CommandOn(stack') <=> IF Commanding(Top) THEN Top.saved ELSE CommandOn(stack)
        /\ AttemptOn(stack') <=> AttemptOn(stack) /\ ~Attempt(Top)
        /\ LookupOn(stack') <=> LookupOn(stack) /\ ~Looking(Top)
    BY Popped DEF GInv, Return, Top
  <1> QED BY <1>1 DEF GInv

\* The last call moves to c.
LEMMA MoveKeeps ==
  ASSUME GInv, stack # <<>>, NEW c \in Frames, Placed(c), Become(c), Looking(c) <=> Looking(Top),
         c.pass => Top.pass \/ (~inService /\ ~inDriverCmd),
         Commanding(c) => ~Top.pass /\
                          (c.saved <=> IF Commanding(Top) THEN Top.saved ELSE inDriverCmd),
         Attempt(c) => Attempt(Top) \/ ~inReconnect,
         inService' <=> (inService /\ ~Top.pass) \/ c.pass,
         inDriverCmd' <=> (IF Commanding(Top) THEN Top.saved ELSE inDriverCmd) \/ Commanding(c),
         inReconnect' <=> (inReconnect /\ ~Attempt(Top)) \/ Attempt(c),
         dns'.busy <=> dns.busy
  PROVE  GInv'
  <1> DEFINE t == Front(stack)
  <1>1. /\ Nested(t)
        /\ PassOn(t) <=> PassOn(stack) /\ ~Top.pass
        /\ CommandOn(t) <=> IF Commanding(Top) THEN Top.saved ELSE CommandOn(stack)
        /\ AttemptOn(t) <=> AttemptOn(stack) /\ ~Attempt(Top)
        /\ LookupOn(t) <=> LookupOn(stack) /\ ~Looking(Top)
        /\ Top.pass => ~CommandOn(t)
        /\ Commanding(Top) => CommandOn(stack)
        /\ Looking(Top) => LookupOn(stack)
    BY Popped DEF GInv, Top
  <1> HIDE DEF t
  <1>2a. /\ inService <=> PassOn(stack)
         /\ inDriverCmd <=> CommandOn(stack)
         /\ inReconnect <=> AttemptOn(stack)
    BY DEF GInv
  <1>2b. c.pass => ~PassOn(t)
    BY <1>1, <1>2a
  <1>2c. c.pass => ~CommandOn(t)
    BY <1>1, <1>2a
  <1>2d. Commanding(c) => (c.saved <=> CommandOn(t))
    BY <1>1, <1>2a
  <1>2. /\ c.pass => ~PassOn(t) /\ ~CommandOn(t)
        /\ Commanding(c) => (c.saved <=> CommandOn(t))
        /\ Attempt(c) => ~AttemptOn(t)
        /\ Looking(c) => ~LookupOn(t)
    BY <1>1, <1>2a, <1>2b, <1>2c, <1>2d
  <1>3. stack' = Append(t, c)
    BY DEF Become, t
  <1>4. /\ Nested(stack')
        /\ PassOn(stack') <=> PassOn(t) \/ c.pass
        /\ CommandOn(stack') <=> CommandOn(t) \/ Commanding(c)
        /\ AttemptOn(stack') <=> AttemptOn(t) \/ Attempt(c)
        /\ LookupOn(stack') <=> LookupOn(t) \/ Looking(c)
    BY <1>1, <1>2, <1>3, Pushed
  <1> QED BY <1>1, <1>4 DEF GInv

\* The last call is what the lemmas above say of it.
LEMMA TopIs ==
  ASSUME GInv, stack # <<>>
  PROVE  /\ Top \in Frames /\ Placed(Top)
         /\ Top.pass => inService /\ ~Commanding(Top)
         /\ Commanding(Top) => inDriverCmd
         /\ Attempt(Top) => inReconnect
         /\ Looking(Top) => dns.busy
  BY Popped DEF GInv, Top, Placed, Commanding, Commands

LEMMA SameStack ==
  ASSUME GInv, stack' = stack, inService' = inService, inDriverCmd' = inDriverCmd,
         inReconnect' = inReconnect, dns'.busy = dns.busy
  PROVE  GInv'
  BY DEF GInv

LEMMA CallsKeep ==
  ASSUME GInv, Shapes,
         Begin \/ Disconnect \/ Scan \/ Status \/ (\E n \in Names : Lookup(n)) \/ Pump \/ Loop
  PROVE  GInv'
  <1> USE DEF Ats, Commands, Calls, Placed, Commanding, Attempt, Looking
  <1>1. CASE Begin
    <2> DEFINE c == Call("begin", IF linkUp THEN "leaving" ELSE IF up THEN "joining" ELSE "bringing")
    <2>1. /\ c \in Frames /\ c.call = "begin" /\ c.at \in {"leaving", "joining", "bringing"}
          /\ c.pass = FALSE /\ c.saved = inDriverCmd
      BY DEF Call, Frames, Shapes
    <2>2. /\ stack' = Append(stack, c) /\ inDriverCmd' = TRUE /\ inService' = inService
          /\ inReconnect' = inReconnect /\ dns' = dns
      BY <1>1 DEF Begin, Push, nameVars
    <2> HIDE DEF c
    <2> QED BY <2>1, <2>2, PushKeeps
  <1>2. CASE Disconnect
    <2>1. CASE linkUp
      <3> DEFINE c == Call("disconnect", "leaving")
      <3>1. /\ c \in Frames /\ c.call = "disconnect" /\ c.at = "leaving"
            /\ c.pass = FALSE /\ c.saved = inDriverCmd
        BY DEF Call, Frames, Shapes
      <3>2. /\ stack' = Append(stack, c) /\ inDriverCmd' = TRUE /\ inService' = inService
            /\ inReconnect' = inReconnect /\ dns' = dns
        BY <1>2, <2>1 DEF Disconnect, Push, nameVars
      <3> HIDE DEF c
      <3> QED BY <3>1, <3>2, PushKeeps
    <2>2. CASE ~linkUp
      BY <1>2, <2>2, SameStack DEF Disconnect, nameVars
    <2> QED BY <2>1, <2>2
  <1>3. CASE Scan
    <2> DEFINE c == Call("scan", "scanning")
    <2>1. /\ c \in Frames /\ c.call = "scan" /\ c.at = "scanning"
          /\ c.pass = FALSE /\ c.saved = inDriverCmd
      BY DEF Call, Frames, Shapes
    <2>2. /\ stack' = Append(stack, c) /\ inDriverCmd' = TRUE /\ inService' = inService
          /\ inReconnect' = inReconnect /\ dns' = dns
      BY <1>3 DEF Scan, Push, nameVars
    <2> HIDE DEF c
    <2> QED BY <2>1, <2>2, PushKeeps
  <1>4. CASE Status
    <2> DEFINE c == Call("status", "joining")
    <2>1. /\ c \in Frames /\ c.call = "status" /\ c.at = "joining"
          /\ c.pass = FALSE /\ c.saved = inDriverCmd
      BY DEF Call, Frames, Shapes
    <2>2. /\ stack' = Append(stack, c) /\ inDriverCmd' = TRUE /\ inService' = inService
          /\ ~inReconnect /\ inReconnect' = TRUE /\ dns' = dns
      BY <1>4 DEF Status, Push, nameVars, Reconnects, MayReconnect
    <2> HIDE DEF c
    <2> QED BY <2>1, <2>2, PushKeeps
  <1>5. ASSUME NEW n \in Names, Lookup(n)
        PROVE  GInv'
    <2> DEFINE c == [Call("lookup", "asking") EXCEPT !.name = n, !.token = NextToken]
    <2>0. NextToken \in Nat /\ inDriverCmd \in BOOLEAN
      BY DEF Shapes, NextToken
    <2>1. /\ c \in Frames /\ c.call = "lookup" /\ c.at = "asking"
          /\ c.pass = FALSE /\ c.saved = inDriverCmd
      BY <2>0 DEF Call, Frames
    <2>2. /\ stack' = Append(stack, c) /\ inDriverCmd' = inDriverCmd /\ inService' = inService
          /\ inReconnect' = inReconnect /\ ~dns.busy /\ dns'.busy = TRUE
      BY <1>5 DEF Lookup, Push, guards, Shapes
    <2> HIDE DEF c
    <2> QED BY <2>1, <2>2, PushKeeps
  <1>6. CASE Pump
    <2> DEFINE c == Passing(Call("pump", "passing"))
    <2>1. /\ c \in Frames /\ c.call = "pump" /\ c.at = "passing" /\ c.pass = TRUE
      BY <1>6 DEF Call, Shapes, Pump, Passing, Frames
    <2>2. /\ stack' = Append(stack, c) /\ inDriverCmd' = inDriverCmd /\ ~inService /\ inService' = TRUE
          /\ ~inDriverCmd /\ inReconnect' = inReconnect /\ dns' = dns
      BY <1>6 DEF Pump, Push, nameVars, PassRefused, Serviced
    <2> HIDE DEF c
    <2> QED BY <2>1, <2>2, PushKeeps
  <1>7. CASE Loop
    <2> DEFINE c == Passing(Call("loop", "passing"))
    <2>1. /\ c \in Frames /\ c.call = "loop" /\ c.at = "passing" /\ (c.pass <=> ~PassRefused)
      BY <1>7 DEF Call, Shapes, Passing, Frames
    <2>2. /\ stack' = Append(stack, c) /\ inDriverCmd' = inDriverCmd
          /\ (inService' <=> inService \/ ~PassRefused)
          /\ inReconnect' = inReconnect /\ dns' = dns
      BY <1>7 DEF Loop, Push, nameVars, Serviced
    <2> HIDE DEF c
    <2> QED BY <2>1, <2>2, PushKeeps DEF PassRefused
  <1> QED BY <1>1, <1>2, <1>3, <1>4, <1>5, <1>6, <1>7

LEMMA ReturnsKeep ==
  ASSUME GInv, Shapes,
         BringUpFails \/ JoinFails \/ Undone \/ ScanDone \/ PumpDone
  PROVE  GInv'
  <1> USE DEF Commands, Placed, Commanding, Attempt, Looking, Running, Restored
  <1>1. stack # <<>> /\ ~Top.pass /\ Return
    BY DEF BringUpFails, JoinFails, Undone, ScanDone, PumpDone, AttemptFails
  <1>2. Top \in Frames /\ Placed(Top) /\ (Attempt(Top) => inReconnect)
    BY <1>1, TopIs
  <1>3. CASE BringUpFails
    <2>1. /\ Top.at = "bringing" /\ inDriverCmd' = Top.saved /\ inService' = inService
          /\ inReconnect' = inReconnect /\ dns' = dns
      BY <1>3 DEF BringUpFails, nameVars
    <2> QED BY <1>1, <1>2, <2>1, ReturnKeeps
  <1>4. CASE JoinFails \/ Undone
    <2>1. /\ Top.at \in {"joining", "undoing"} /\ inDriverCmd' = Top.saved
          /\ inService' = inService /\ dns' = dns
          /\ IF Top.call = "begin" THEN inReconnect' = inReconnect ELSE inReconnect' = FALSE
      BY <1>4 DEF JoinFails, Undone, AttemptFails, nameVars
    <2>2. Top.call \in {"begin", "loop", "status"}
      BY <1>2, <2>1 DEF Frames, Calls
    <2> QED BY <1>1, <1>2, <2>1, <2>2, ReturnKeeps
  <1>5. CASE ScanDone
    <2>1. /\ Top.at = "scanning" /\ inDriverCmd' = Top.saved /\ inService' = inService
          /\ inReconnect' = inReconnect /\ dns' = dns
      BY <1>5 DEF ScanDone, nameVars
    <2> QED BY <1>1, <1>2, <2>1, ReturnKeeps
  <1>6. CASE PumpDone
    <2>1. /\ Top.at = "passing" /\ Top.call = "pump" /\ inDriverCmd' = inDriverCmd
          /\ inService' = inService /\ inReconnect' = inReconnect /\ dns' = dns
      BY <1>6 DEF PumpDone, nameVars, guards
    <2> QED BY <1>1, <1>2, <2>1, ReturnKeeps
  <1> QED BY <1>3, <1>4, <1>5, <1>6

LEMMA MovesKeep ==
  ASSUME GInv, Shapes,
         BringUpDone \/ Joined \/ PassEnds \/ LinkLost \/ Asked \/ WaitPass \/ WaitOn
  PROVE  GInv'
  <1> USE DEF Ats, Commands, Placed, Commanding, Attempt, Looking, Running
  <1>1. stack # <<>>
    BY DEF BringUpDone, Joined, PassEnds, LinkLost, Asked, WaitPass, WaitOn
  <1>2. /\ Top \in Frames /\ Placed(Top)
        /\ Top.pass => inService /\ ~Commanding(Top)
        /\ Commanding(Top) => inDriverCmd
        /\ Attempt(Top) => inReconnect
    BY <1>1, TopIs
  <1>3. CASE BringUpDone
    <2> DEFINE c == Follow(Top, "joining")
    <2>1. /\ c \in Frames /\ c.call = Top.call /\ c.at = "joining" /\ c.pass = Top.pass
          /\ c.saved = Top.saved
      BY <1>2 DEF Follow, Frames
    <2>2. /\ Top.at = "bringing" /\ ~Top.pass /\ Become(c) /\ inDriverCmd' = inDriverCmd
          /\ inService' = inService /\ inReconnect' = inReconnect /\ dns' = dns
      BY <1>3 DEF BringUpDone, guards, nameVars
    <2>3. Top.call = "begin"
      BY <1>2, <2>2 DEF Frames, Calls
    <2> HIDE DEF c
    <2> QED BY <1>1, <1>2, <2>1, <2>2, <2>3, MoveKeeps
  <1>4. CASE Joined
    <2> DEFINE c == [Top EXCEPT !.at = "waiting"]
    <2>1. /\ c \in Frames /\ c.call = Top.call /\ c.at = "waiting" /\ c.pass = Top.pass
      BY <1>2 DEF Frames
    <2>2. /\ Top.at = "joining" /\ ~Top.pass /\ Become(c) /\ inDriverCmd' = Top.saved
          /\ inService' = inService /\ inReconnect' = inReconnect /\ dns' = dns
      BY <1>4 DEF Joined, Restored, nameVars
    <2>3. Top.call \in {"begin", "loop", "status"}
      BY <1>2, <2>2 DEF Frames, Calls
    <2> HIDE DEF c
    <2> QED BY <1>1, <1>2, <2>1, <2>2, <2>3, MoveKeeps
  <1>5. CASE PassEnds
    <2> DEFINE c == AfterPass(Top)
    <2>1. /\ c \in Frames /\ c.call = Top.call /\ c.pass = FALSE
          /\ c.at = IF Top.at = "waiting" THEN "passed" ELSE "passing"
      BY <1>2 DEF Frames, AfterPass
    <2>2. /\ Top.pass /\ Become(c) /\ inDriverCmd' = inDriverCmd
          /\ inService' = FALSE /\ inReconnect' = inReconnect /\ dns' = dns
      BY <1>5 DEF PassEnds, nameVars
    <2>3. Top.at \in {"passing", "waiting"}
      BY <1>2, <2>2
    <2> HIDE DEF c
    <2> QED BY <1>1, <1>2, <2>1, <2>2, <2>3, MoveKeeps
  <1>6. CASE LinkLost
    <2> DEFINE c == [Top EXCEPT !.polls = FALSE]
    <2>1. /\ c \in Frames /\ c.call = Top.call /\ c.at = Top.at /\ c.pass = Top.pass
      BY <1>2 DEF Frames
    <2>2. /\ Top.pass /\ Become(c) /\ inDriverCmd' = inDriverCmd
          /\ inService' = inService /\ inReconnect' = inReconnect /\ dns' = dns
      BY <1>6 DEF LinkLost, nameVars, guards
    <2> HIDE DEF c
    <2> QED BY <1>1, <1>2, <2>1, <2>2, MoveKeeps
  <1>7. CASE Asked
    <2> DEFINE c == [Top EXCEPT !.at = "waiting"]
    <2>1. /\ c \in Frames /\ c.call = Top.call /\ c.at = "waiting" /\ c.pass = Top.pass
      BY <1>2 DEF Frames
    <2>2. /\ Top.at = "asking" /\ ~Top.pass /\ Become(c) /\ inDriverCmd' = inDriverCmd
          /\ inService' = inService /\ inReconnect' = inReconnect /\ dns' = dns
      BY <1>7 DEF Asked, nameVars, guards
    <2>3. Top.call = "lookup"
      BY <1>2, <2>2 DEF Frames, Calls
    <2> HIDE DEF c
    <2> QED BY <1>1, <1>2, <2>1, <2>2, <2>3, MoveKeeps
  <1>8. CASE WaitPass
    <2> DEFINE c == IF PassRefused THEN [Top EXCEPT !.at = "passed"] ELSE Passing(Top)
    <2>1. /\ Top.at = "waiting" /\ ~Top.pass /\ Become(c) /\ inDriverCmd' = inDriverCmd
          /\ (inService' <=> inService \/ ~PassRefused)
          /\ inReconnect' = inReconnect /\ dns' = dns
      BY <1>8 DEF WaitPass, Serviced, nameVars
    <2>2. /\ c \in Frames /\ c.call = Top.call /\ c.pass = ~PassRefused
          /\ c.at = IF PassRefused THEN "passed" ELSE "waiting"
      <3>1. up \in BOOLEAN /\ linkUp \in BOOLEAN
        BY DEF Shapes
      <3> QED BY <1>2, <2>1, <3>1 DEF Frames, Passing
    <2> HIDE DEF c
    <2> QED BY <1>1, <1>2, <2>1, <2>2, MoveKeeps DEF PassRefused
  <1>9. CASE WaitOn
    <2> DEFINE c == [Top EXCEPT !.at = "waiting"]
    <2>1. /\ c \in Frames /\ c.call = Top.call /\ c.at = "waiting" /\ c.pass = Top.pass
      BY <1>2 DEF Frames
    <2>2. /\ Top.at = "passed" /\ ~Top.pass /\ Become(c) /\ inDriverCmd' = inDriverCmd
          /\ inService' = inService /\ inReconnect' = inReconnect /\ dns' = dns
      BY <1>9 DEF WaitOn, nameVars, guards
    <2> HIDE DEF c
    <2> QED BY <1>1, <1>2, <2>1, <2>2, MoveKeeps
  <1> QED BY <1>3, <1>4, <1>5, <1>6, <1>7, <1>8, <1>9

\* A call that either returns or moves.
LEMMA EndsKeep ==
  ASSUME GInv, Shapes, Left \/ LoopDone \/ WaitEnds \/ WaitTimesOut
  PROVE  GInv'
  <1> USE DEF Ats, Commands, Placed, Commanding, Attempt, Looking, Running
  <1>1. stack # <<>> /\ ~Top.pass
    BY DEF Left, LoopDone, WaitEnds, WaitTimesOut
  <1>2. /\ Top \in Frames /\ Placed(Top)
        /\ Commanding(Top) => inDriverCmd
        /\ Attempt(Top) => inReconnect
        /\ Looking(Top) => dns.busy
    BY <1>1, TopIs
  <1>3. CASE Left
    <2>1. /\ Top.at = "leaving" /\ inService' = inService /\ inReconnect' = inReconnect
          /\ dns' = dns
      BY <1>3 DEF Left, nameVars
    <2>2. Top.call \in {"begin", "disconnect"}
      BY <1>2, <2>1 DEF Frames, Calls
    <2>3. CASE Top.call = "begin"
      <3> DEFINE c == Follow(Top, "joining")
      <3>1. /\ c \in Frames /\ c.call = "begin" /\ c.at = "joining" /\ c.pass = Top.pass
            /\ c.saved = Top.saved
        BY <1>2, <2>3 DEF Follow, Frames
      <3>2. Become(c) /\ inDriverCmd' = inDriverCmd
        BY <1>3, <2>3 DEF Left
      <3> HIDE DEF c
      <3> QED BY <1>1, <1>2, <2>1, <2>3, <3>1, <3>2, MoveKeeps
    <2>4. CASE Top.call = "disconnect"
      <3>1. Return /\ inDriverCmd' = Top.saved
        BY <1>3, <2>4 DEF Left, Restored
      <3> QED BY <1>1, <1>2, <2>1, <2>4, <3>1, ReturnKeeps
    <2> QED BY <2>2, <2>3, <2>4
  <1>4. CASE LoopDone
    <2>1. /\ Top.at = "passing" /\ Top.call = "loop" /\ inService' = inService /\ dns' = dns
      BY <1>4 DEF LoopDone, nameVars
    <2>2. CASE MayReconnect /\ joins < MaxJoins
      <3> DEFINE c == Enter(Top, "joining")
      <3>1. /\ c \in Frames /\ c.call = "loop" /\ c.at = "joining" /\ c.pass = Top.pass
            /\ c.saved = inDriverCmd
        <4>1. inDriverCmd \in BOOLEAN
          BY DEF Shapes
        <4> QED BY <1>2, <2>1, <4>1 DEF Enter, Frames
      <3>2. Become(c) /\ inDriverCmd' = TRUE /\ inReconnect' = TRUE /\ ~inReconnect
        BY <1>4, <2>2 DEF LoopDone, Reconnects, MayReconnect
      <3> HIDE DEF c
      <3> QED BY <1>1, <1>2, <2>1, <3>1, <3>2, MoveKeeps
    <2>3. CASE ~(MayReconnect /\ joins < MaxJoins)
      <3>1. Return /\ inReconnect' = inReconnect /\ inDriverCmd' = inDriverCmd
        BY <1>4, <2>3 DEF LoopDone
      <3> QED BY <1>1, <1>2, <2>1, <3>1, ReturnKeeps
    <2> QED BY <2>2, <2>3
  <1>5. ASSUME Top.at \in {"waiting", "passed"}, Top.call = "lookup", LookupEnds(Top)
        PROVE  GInv'
    <2>1. /\ Return /\ inService' = inService /\ inReconnect' = inReconnect
          /\ inDriverCmd' = inDriverCmd /\ dns'.busy = FALSE
      BY <1>5 DEF LookupEnds, guards, Shapes
    <2> QED BY <1>1, <1>2, <1>5, <2>1, ReturnKeeps
  <1>6. CASE WaitEnds
    <2>1. Top.at = "waiting" /\ (Top.call = "lookup" => LookupEnds(Top))
      BY <1>6 DEF WaitEnds
    <2>2. CASE Top.call # "lookup"
      <3>1. Top.call \in {"begin", "loop", "status"}
        BY <1>2, <2>1, <2>2 DEF Frames, Calls
      <3>2. /\ Return /\ inService' = inService /\ inDriverCmd' = inDriverCmd /\ dns' = dns
            /\ IF Top.call = "begin" THEN inReconnect' = inReconnect ELSE inReconnect' = FALSE
        BY <1>6, <2>2 DEF WaitEnds, AttemptSucceeds, nameVars
      <3> QED BY <1>1, <1>2, <2>1, <3>1, <3>2, ReturnKeeps
    <2> QED BY <1>5, <2>1, <2>2
  <1>7. CASE WaitTimesOut
    <2>1. Top.at = "passed" /\ (Top.call = "lookup" => LookupEnds(Top))
      BY <1>7 DEF WaitTimesOut
    <2>2. CASE Top.call # "lookup"
      <3> DEFINE c == Enter(Top, "undoing")
      <3>1. Top.call \in {"begin", "loop", "status"}
        BY <1>2, <2>1, <2>2 DEF Frames, Calls
      <3>2. /\ c \in Frames /\ c.call = Top.call /\ c.at = "undoing" /\ c.pass = Top.pass
            /\ c.saved = inDriverCmd
        <4>1. inDriverCmd \in BOOLEAN
          BY DEF Shapes
        <4> QED BY <1>2, <2>1, <4>1 DEF Enter, Frames
      <3>3. /\ Become(c) /\ inDriverCmd' = TRUE /\ inService' = inService
            /\ inReconnect' = inReconnect /\ dns' = dns
        BY <1>7, <2>2 DEF WaitTimesOut, nameVars
      <3> HIDE DEF c
      <3> QED BY <1>1, <1>2, <2>1, <3>1, <3>2, <3>3, MoveKeeps
    <2> QED BY <1>5, <2>1, <2>2
  <1> QED BY <1>3, <1>4, <1>6, <1>7

LEMMA InitKeeps == Init => GInv
  <1> SUFFICES ASSUME Init PROVE GInv
    OBVIOUS
  <1>1. stack = <<>> /\ Len(stack) = 0 /\ stack \in Seq(Frames)
    BY DEF Init
  <1>2. ~inService /\ ~inDriverCmd /\ ~inReconnect /\ ~dns.busy
    BY DEF Init
  <1>3. ~PassOn(stack) /\ ~CommandOn(stack) /\ ~AttemptOn(stack) /\ ~LookupOn(stack)
    BY <1>1 DEF PassOn, CommandOn, AttemptOn, LookupOn
  <1>4. Nested(stack)
    BY <1>1 DEF Nested
  <1> QED BY <1>2, <1>3, <1>4 DEF GInv

LEMMA StepKeeps == ASSUME GInv, Shapes, [Next]_vars PROVE GInv'
  <1>1. CASE BeginRefused \/ LeaseChanges \/ Rest \/ SetAutoReconnect \/ SetAutoService
    BY <1>1, SameStack
    DEF BeginRefused, LeaseChanges, Rest, SetAutoReconnect, SetAutoService, guards, nameVars
  <1>2. ASSUME NEW n \in Names, NEW ok \in BOOLEAN, Resolved(n, ok)
        PROVE  GInv'
    <2>1. dns'.busy = dns.busy
      BY <1>2 DEF Resolved, DnsFound, Shapes
    <2> QED BY <1>2, <2>1, SameStack DEF Resolved, guards
  <1>3. CASE LookupAtOnce
    <2>1. dns'.busy = dns.busy
      BY <1>3 DEF LookupAtOnce, Shapes
    <2> QED BY <1>3, <2>1, SameStack DEF LookupAtOnce, guards
  <1>4. CASE UNCHANGED vars
    BY <1>4, SameStack DEF vars, guards, nameVars
  <1> QED BY <1>1, <1>2, <1>3, <1>4, CallsKeep, ReturnsKeep, MovesKeep, EndsKeep DEF Next

-----------------------------------------------------------------------------
(* Where the frames are after a step.                                        *)

LEMMA PushPlaces ==
  ASSUME GInv, NEW c, stack' = Append(stack, c), c \in Frames
  PROVE  /\ Len(stack) \in Nat /\ Len(stack') = Len(stack) + 1
         /\ \A i \in 1..Len(stack) : stack'[i] = stack[i]
         /\ stack'[Len(stack) + 1] = c
  BY DEF GInv, Nested

LEMMA FrontPlaces ==
  ASSUME NEW s \in Seq(Frames), s # <<>>
  PROVE  /\ Len(s) \in Nat \ {0} /\ Front(s) \in Seq(Frames) /\ Len(Front(s)) = Len(s) - 1
         /\ \A i \in 1..Len(s) - 1 : Front(s)[i] = s[i]
         /\ Last(s) = s[Len(s)] /\ Last(s) \in Frames
  <1> DEFINE n == Len(s)
             t == Front(s)
             c == Last(s)
  <1>1. n \in Nat \ {0}
    OBVIOUS
  <1>2. t = SubSeq(s, 1, n - 1) /\ c = s[n] /\ n \in 1..n
    BY <1>1 DEF Front, Last
  <1>3. \A i \in 1..(n - 1) : s[i] \in Frames
    BY <1>1
  <1>4. /\ SubSeq(s, 1, n - 1) \in Seq(Frames)
        /\ Len(SubSeq(s, 1, n - 1)) = IF 1 <= n - 1 THEN n - 1 - 1 + 1 ELSE 0
        /\ \A i \in 1..(n - 1 - 1 + 1) : SubSeq(s, 1, n - 1)[i] = s[1 + i - 1]
    <2>1. n - 1 \in Int /\ 1 \in Int
      BY <1>1
    <2> HIDE DEF n
    <2> QED BY <1>3, <2>1, SubSeqProperties
  <1> HIDE DEF t, c, n
  <1>5. Len(t) = n - 1
    BY <1>1, <1>2, <1>4
  <1>6. ASSUME NEW i \in 1..(n - 1) PROVE t[i] = s[i]
    <2>1. n - 1 - 1 + 1 = n - 1 /\ 1 + i - 1 = i
      BY <1>1
    <2> QED BY <1>2, <1>4, <2>1
  <1>7. c \in Frames
    BY <1>1, <1>2 DEF n
  <1> QED BY <1>1, <1>2, <1>4, <1>5, <1>6, <1>7 DEF n, t, c

LEMMA ReturnPlaces ==
  ASSUME GInv, stack # <<>>, Return
  PROVE  /\ Len(stack) \in Nat \ {0} /\ Len(stack') = Len(stack) - 1
         /\ \A i \in 1..Len(stack') : stack'[i] = stack[i]
         /\ Top = stack[Len(stack)]
  BY FrontPlaces DEF GInv, Nested, Return, Top

LEMMA MovePlaces ==
  ASSUME GInv, stack # <<>>, NEW c, Become(c), c \in Frames
  PROVE  /\ Len(stack) \in Nat \ {0} /\ Len(stack') = Len(stack)
         /\ \A i \in 1..Len(stack) : i # Len(stack) => stack'[i] = stack[i]
         /\ stack'[Len(stack)] = c
         /\ Top = stack[Len(stack)]
  <1> DEFINE t == Front(stack)
             n == Len(stack)
  <1>1. /\ n \in Nat \ {0} /\ t \in Seq(Frames) /\ Len(t) = n - 1
        /\ \A i \in 1..n - 1 : t[i] = stack[i]
        /\ Top = stack[n]
    BY FrontPlaces DEF GInv, Nested, Top
  <1>2. stack' = Append(t, c)
    BY DEF Become
  <1> HIDE DEF t, n
  <1>3. /\ Len(stack') = n - 1 + 1 /\ stack'[n - 1 + 1] = c
        /\ \A i \in 1..n - 1 : stack'[i] = t[i]
    BY <1>1, <1>2
  <1> QED BY <1>1, <1>3 DEF n

-----------------------------------------------------------------------------
(* Tokens and types.                                                         *)

\* Where a call can only be once the card is up.
NeedsUp(c) == c.call \notin {"pump", "scan", "lookup"} /\ c.at \notin {"bringing", "passing"}

\* What lwip and s_dns have for the lookup under way is about its name.
Live(c) ==
  /\ c.token = dns.gen /\ c.name \in Names
  /\ dns.done /\ dns.ok => dns.addr = c.name
  /\ \A a \in asked : a.token = dns.gen => a.name = c.name /\ ~dns.done

Good == {c \in Frames : /\ NeedsUp(c) => up
                        /\ c.token <= dns.gen
                        /\ Looking(c) => Live(c)}

FramesInv ==
  /\ \A i \in 1..Len(stack) : stack[i] \in Good
  /\ Len(stack) <= MaxDepth

LinkInv ==
  /\ linkUp => up
  /\ dhcp # "off" => linkUp
  /\ status = "CONNECTED" => linkUp
  /\ attached => up /\ autoService

TokenInv ==
  /\ dns.ok => dns.done
  /\ \A a \in asked : a.token <= dns.gen /\ (~dns.busy => a.token < dns.gen)
  /\ dns.gen = IF dns.busy THEN 2 * lookups - 1 ELSE 2 * lookups

Inv == GInv /\ Shapes /\ FramesInv /\ LinkInv /\ TokenInv

LEMMA TopGood == ASSUME GInv, FramesInv, stack # <<>> PROVE Top \in Good
  <1>1. Len(stack) \in Nat \ {0} /\ Top = stack[Len(stack)]
    BY FrontPlaces DEF GInv, Nested, Top
  <1> QED BY <1>1 DEF FramesInv

LEMMA GoodGrows ==
  ASSUME up => up', dns' = dns, asked' = asked
  PROVE  Good \subseteq Good'
  BY DEF Good, Live, NeedsUp

LEMMA SameFrames ==
  ASSUME FramesInv, Good \subseteq Good', stack' = stack
  PROVE  FramesInv'
  BY DEF FramesInv

LEMMA PushFrames ==
  ASSUME GInv, FramesInv, Good \subseteq Good', NEW c, c \in Frames, c \in Good',
         stack' = Append(stack, c), stack = <<>> \/ MayDispatch
  PROVE  FramesInv'
  <1>1. /\ Len(stack) \in Nat /\ Len(stack') = Len(stack) + 1
        /\ \A i \in 1..Len(stack) : stack'[i] = stack[i]
        /\ stack'[Len(stack) + 1] = c
    BY PushPlaces
  <1>2. Len(stack) < MaxDepth
    <2>1. CASE stack = <<>>
      BY <2>1, FacadeAssumption
    <2> QED BY <2>1 DEF MayDispatch
  <1>3. MaxDepth \in Nat
    BY FacadeAssumption
  <1> QED BY <1>1, <1>2, <1>3 DEF FramesInv

LEMMA ReturnFrames ==
  ASSUME GInv, FramesInv, Good \subseteq Good', stack # <<>>, Return
  PROVE  FramesInv'
  <1>1. /\ Len(stack) \in Nat \ {0} /\ Len(stack') = Len(stack) - 1
        /\ \A i \in 1..Len(stack') : stack'[i] = stack[i]
    BY ReturnPlaces
  <1>2. MaxDepth \in Nat
    BY FacadeAssumption
  <1> QED BY <1>1, <1>2 DEF FramesInv

LEMMA MoveFrames ==
  ASSUME GInv, FramesInv, Good \subseteq Good', stack # <<>>, NEW c, c \in Frames, Become(c),
         c.call = Top.call, c.name = Top.name, c.token = Top.token, NeedsUp(c) => up',
         dns' = dns, asked' = asked
  PROVE  FramesInv'
  <1>1. /\ Len(stack) \in Nat \ {0} /\ Len(stack') = Len(stack)
        /\ \A i \in 1..Len(stack) : i # Len(stack) => stack'[i] = stack[i]
        /\ stack'[Len(stack)] = c
    BY MovePlaces
  <1>2. c \in Good'
    BY TopGood DEF Good, Live, Looking, NeedsUp
  <1> QED BY <1>1, <1>2 DEF FramesInv

LEMMA FramesCalled ==
  ASSUME Inv, Begin \/ Disconnect \/ Scan \/ Status \/ Pump \/ Loop
  PROVE  FramesInv'
  <1> USE DEF Ats, Commands, Calls, NeedsUp, Looking
  <1>1. /\ GInv /\ FramesInv /\ dns.gen \in Nat /\ inDriverCmd \in BOOLEAN
        /\ up \in BOOLEAN /\ linkUp \in BOOLEAN
    BY DEF Inv, Shapes
  <1>2. Good \subseteq Good' /\ dns' = dns /\ up' = up /\ (stack = <<>> \/ MayDispatch \/ ~linkUp)
    BY GoodGrows DEF Begin, Disconnect, Scan, Status, Pump, Loop, nameVars, linkVars, MayCall
  <1>3. CASE Begin
    <2> DEFINE c == Call("begin", IF linkUp THEN "leaving" ELSE IF up THEN "joining" ELSE "bringing")
    <2>1. /\ c \in Frames /\ c.call = "begin" /\ c.token = 0
          /\ NeedsUp(c) => up
      BY <1>1 DEF Call, Frames, Inv, LinkInv
    <2>2. stack' = Append(stack, c) /\ (stack = <<>> \/ MayDispatch)
      BY <1>3 DEF Begin, Push, MayCall
    <2> HIDE DEF c
    <2>3. c \in Good'
      BY <1>1, <1>2, <2>1 DEF Good
    <2> QED BY <1>1, <1>2, <2>1, <2>2, <2>3, PushFrames
  <1>4. CASE Disconnect
    <2>1. CASE linkUp
      <3> DEFINE c == Call("disconnect", "leaving")
      <3>1. c \in Frames /\ c.call = "disconnect" /\ c.token = 0
        BY <1>1 DEF Call, Frames
      <3>2. stack' = Append(stack, c) /\ up' /\ (stack = <<>> \/ MayDispatch)
        BY <1>2, <1>4, <2>1 DEF Disconnect, Push, Inv, LinkInv, MayCall
      <3> HIDE DEF c
      <3>3. c \in Good'
        BY <1>1, <1>2, <3>1, <3>2 DEF Good
      <3> QED BY <1>1, <1>2, <3>1, <3>2, <3>3, PushFrames
    <2>2. CASE ~linkUp
      BY <1>1, <1>2, <1>4, <2>2, SameFrames DEF Disconnect
    <2> QED BY <2>1, <2>2
  <1>5. CASE Scan
    <2> DEFINE c == Call("scan", "scanning")
    <2>1. c \in Frames /\ c.call = "scan" /\ c.token = 0
      BY <1>1 DEF Call, Frames
    <2>2. stack' = Append(stack, c) /\ (stack = <<>> \/ MayDispatch)
      BY <1>5 DEF Scan, Push, MayCall
    <2> HIDE DEF c
    <2>3. c \in Good'
      BY <1>1, <1>2, <2>1 DEF Good
    <2> QED BY <1>1, <1>2, <2>1, <2>2, <2>3, PushFrames
  <1>6. CASE Status
    <2> DEFINE c == Call("status", "joining")
    <2>1. c \in Frames /\ c.call = "status" /\ c.token = 0
      BY <1>1 DEF Call, Frames
    <2>2. stack' = Append(stack, c) /\ up' /\ (stack = <<>> \/ MayDispatch)
      BY <1>2, <1>6 DEF Status, Push, MayReconnect, MayCall
    <2> HIDE DEF c
    <2>3. c \in Good'
      BY <1>1, <1>2, <2>1, <2>2 DEF Good
    <2> QED BY <1>1, <1>2, <2>1, <2>2, <2>3, PushFrames
  <1>7. CASE Pump
    <2> DEFINE c == Passing(Call("pump", "passing"))
    <2>1. c \in Frames /\ c.call = "pump" /\ c.token = 0
      BY <1>1 DEF Call, Passing, Frames
    <2>2. stack' = Append(stack, c) /\ (stack = <<>> \/ MayDispatch)
      BY <1>7 DEF Pump, Push
    <2> HIDE DEF c
    <2>3. c \in Good'
      BY <1>1, <1>2, <2>1 DEF Good
    <2> QED BY <1>1, <1>2, <2>1, <2>2, <2>3, PushFrames
  <1>8. CASE Loop
    <2> DEFINE c == Passing(Call("loop", "passing"))
    <2>1. c \in Frames /\ c.call = "loop" /\ c.at = "passing" /\ c.token = 0
      BY <1>1 DEF Call, Passing, Frames
    <2>2. stack' = Append(stack, c) /\ (stack = <<>> \/ MayDispatch)
      BY <1>8 DEF Loop, Push, MayCall
    <2> HIDE DEF c
    <2>3. c \in Good'
      BY <1>1, <1>2, <2>1 DEF Good
    <2> QED BY <1>1, <1>2, <2>1, <2>2, <2>3, PushFrames
  <1> QED BY <1>3, <1>4, <1>5, <1>6, <1>7, <1>8

\* No name is asked about: what is on the stack stays good, whatever the tokens do.
LEMMA FramesWithoutLookup ==
  ASSUME GInv', \A i \in 1..Len(stack') : stack'[i] \in Good, Len(stack') <= MaxDepth,
         ~dns'.busy, up => up', dns.gen \in Nat, dns'.gen \in Nat, dns.gen <= dns'.gen
  PROVE  FramesInv'
  <1>1. \A i \in 1..Len(stack') : ~Looking(stack'[i])
    BY DEF GInv, LookupOn
  <1>2. ASSUME NEW i \in 1..Len(stack') PROVE stack'[i] \in Good'
    <2>1. /\ stack'[i] \in Frames /\ ~Looking(stack'[i]) /\ stack'[i].token <= dns.gen
          /\ NeedsUp(stack'[i]) => up
      BY <1>1 DEF Good
    <2>2. stack'[i].token \in Nat
      BY <2>1 DEF Frames
    <2>3. stack'[i].token <= dns'.gen
      BY <2>1, <2>2
    <2> QED BY <2>1, <2>3 DEF Good
  <1> QED BY <1>2 DEF FramesInv

\* A lookup returns.
LEMMA LookupReturns ==
  ASSUME Inv, GInv', stack # <<>>, Looking(Top), LookupEnds(Top)
  PROVE  FramesInv' /\ TokenInv' /\ dns'.gen \in Nat
  <1>1. /\ Top \in Good /\ dns.busy /\ dns \in [gen : Nat, done : BOOLEAN, ok : BOOLEAN,
                                               addr : Names \cup {None}, busy : BOOLEAN]
    BY TopGood, TopIs DEF Inv, Shapes
  <1>2. Top.token = dns.gen
    BY <1>1 DEF Good, Live
  <1>3. /\ dns'.gen = dns.gen + 1 /\ dns'.busy = FALSE /\ dns'.ok = dns.ok /\ dns'.done = dns.done
        /\ Return /\ asked' = asked /\ lookups' = lookups /\ up' = up
    BY <1>1, <1>2 DEF LookupEnds, linkVars
  <1>4. Len(stack') <= MaxDepth /\ \A i \in 1..Len(stack') : stack'[i] \in Good
    <2>1. /\ Len(stack) \in Nat \ {0} /\ Len(stack') = Len(stack) - 1
          /\ \A i \in 1..Len(stack') : stack'[i] = stack[i]
      BY <1>3, ReturnPlaces DEF Inv
    <2>2. MaxDepth \in Nat
      BY FacadeAssumption
    <2> QED BY <2>1, <2>2 DEF Inv, FramesInv
  <1>5. FramesInv'
    BY <1>1, <1>3, <1>4, FramesWithoutLookup
  <1>6. TokenInv'
    <2>1. (dns.ok => dns.done) /\ dns.gen = 2 * lookups - 1 /\ \A a \in asked : a.token <= dns.gen
      BY <1>1 DEF Inv, TokenInv
    <2>2. \A a \in asked : a.token \in Nat
      BY DEF Inv, Shapes
    <2>3. lookups \in Nat
      BY FacadeAssumption DEF Inv, Shapes
    <2>4. \A a \in asked' : a.token <= dns'.gen /\ a.token < dns'.gen
      BY <1>1, <1>3, <2>1, <2>2
    <2>5. dns'.gen = 2 * lookups'
      BY <1>1, <1>3, <2>1, <2>3
    <2> QED BY <1>3, <2>1, <2>4, <2>5 DEF TokenInv
  <1> QED BY <1>1, <1>3, <1>5, <1>6

\* A lookup begins: no other is under way, and no name is registered with its token yet.
LEMMA LookupBegins ==
  ASSUME Inv, NEW n \in Names, Lookup(n)
  PROVE  FramesInv' /\ TokenInv'
  <1> DEFINE c == [Call("lookup", "asking") EXCEPT !.name = n, !.token = NextToken]
             new == [name |-> n, token |-> NextToken]
  <1>1. /\ ~dns.busy /\ dns.gen \in Nat /\ NextToken = dns.gen + 1 /\ lookups \in Nat
        /\ inDriverCmd \in BOOLEAN
        /\ \A a \in asked : a.token \in Nat /\ a.token < dns.gen
        /\ dns.gen = 2 * lookups /\ MaxDepth \in Nat
    BY FacadeAssumption DEF Inv, Shapes, TokenInv, Lookup, NextToken
  <1>2. /\ stack' = Append(stack, c) /\ (stack = <<>> \/ MayDispatch)
        /\ dns'.gen = NextToken /\ dns'.done = FALSE /\ dns'.ok = FALSE /\ dns'.busy = TRUE
        /\ asked' = asked \cup {new} /\ lookups' = lookups + 1 /\ up' = up
    BY DEF Lookup, Push, MayCall, linkVars, Inv, Shapes
  <1>3. /\ c \in Frames /\ c.call = "lookup" /\ c.name = n /\ c.token = NextToken
    <2>1. NextToken \in Nat /\ inDriverCmd \in BOOLEAN
      BY <1>1
    <2> HIDE <1>1
    <2> QED BY <2>1 DEF Call, Frames, Ats, Commands, Calls
  <1>4. new.name = n /\ new.token = NextToken
    OBVIOUS
  <1> HIDE DEF c, new
  <1>5. TokenInv'
    <2>1. \A a \in asked' : a.token <= dns'.gen
      BY <1>1, <1>2, <1>4
    <2>2. dns'.gen = 2 * lookups' - 1
      BY <1>1, <1>2
    <2> QED BY <1>2, <2>1, <2>2 DEF TokenInv
  <1>6. c \in Good'
    <2>1. \A a \in asked' : a.token = dns'.gen => a.name = n
      BY <1>1, <1>2, <1>4
    <2> QED BY <1>1, <1>2, <1>3, <2>1 DEF Good, Live, NeedsUp, Looking
  <1>7. ASSUME NEW i \in 1..Len(stack) PROVE stack[i] \in Good'
    <2>1. ~Looking(stack[i]) /\ stack[i] \in Good
      BY <1>1 DEF Inv, GInv, LookupOn, FramesInv
    <2>2. stack[i].token \in Nat /\ stack[i].token <= dns.gen
      BY <2>1 DEF Good, Frames
    <2>3. stack[i].token <= dns'.gen
      BY <1>1, <1>2, <2>2
    <2> QED BY <1>2, <2>1, <2>3 DEF Good
  <1>8. /\ Len(stack) \in Nat /\ Len(stack') = Len(stack) + 1
        /\ \A i \in 1..Len(stack) : stack'[i] = stack[i]
        /\ stack'[Len(stack) + 1] = c
    BY <1>2, <1>3, PushPlaces DEF Inv
  <1>9. Len(stack) < MaxDepth
    <2>1. CASE stack = <<>>
      BY <2>1, FacadeAssumption
    <2> QED BY <1>2, <2>1 DEF MayDispatch
  <1>10. Len(stack') <= MaxDepth
    BY <1>1, <1>8, <1>9
  <1>11. \A i \in 1..Len(stack') : stack'[i] \in Good'
    BY <1>6, <1>7, <1>8
  <1> QED BY <1>5, <1>10, <1>11 DEF FramesInv

LEMMA LookupFailsOrHits ==
  ASSUME Inv, GInv', LookupAtOnce
  PROVE  FramesInv' /\ TokenInv'
  <1>1. /\ ~dns.busy /\ dns.gen \in Nat /\ lookups \in Nat
        /\ \A a \in asked : a.token \in Nat /\ a.token < dns.gen
        /\ dns.gen = 2 * lookups
    BY FacadeAssumption DEF Inv, Shapes, TokenInv, LookupAtOnce
  <1>2. /\ stack' = stack /\ dns'.gen = dns.gen + 1 + 1 /\ dns'.done = FALSE /\ dns'.ok = FALSE
        /\ dns'.busy = dns.busy /\ asked' = asked /\ lookups' = lookups + 1 /\ up' = up
    BY DEF LookupAtOnce, NextToken, linkVars, Inv, Shapes
  <1>3. dns'.gen \in Nat /\ dns.gen <= dns'.gen /\ dns'.gen = 2 * lookups'
    BY <1>1, <1>2
  <1>4. FramesInv'
    BY <1>1, <1>2, <1>3, FramesWithoutLookup DEF Inv, FramesInv
  <1>5. \A a \in asked' : a.token <= dns'.gen /\ a.token < dns'.gen
    BY <1>1, <1>2
  <1> QED BY <1>1, <1>2, <1>3, <1>4, <1>5 DEF TokenInv

\* lwip's answer, or its giving up.
LEMMA ResolvedIsGood ==
  ASSUME Inv, NEW n \in Names, NEW ok \in BOOLEAN, Resolved(n, ok)
  PROVE  FramesInv' /\ TokenInv'
  <1> DEFINE tokens == {a.token : a \in {b \in asked : b.name = n}}
  <1>1. /\ stack' = stack /\ dns' = DnsFound(dns, n, tokens, ok) /\ lookups' = lookups /\ up' = up
        /\ asked' = {a \in asked : a.name # n}
    BY DEF Resolved, linkVars
  <1>2. dns \in [gen : Nat, done : BOOLEAN, ok : BOOLEAN, addr : Names \cup {None}, busy : BOOLEAN]
    BY DEF Inv, Shapes
  <1>3. dns'.gen = dns.gen /\ dns'.busy = dns.busy
    BY <1>1, <1>2 DEF DnsFound
  <1>4. dns'.ok => dns'.done
    BY <1>1, <1>2 DEF DnsFound, Inv, TokenInv
  <1>5. TokenInv'
    BY <1>1, <1>3, <1>4 DEF Inv, TokenInv
  <1>6. ASSUME NEW c \in Good, Looking(c) PROVE c \in Good'
    <2>1. Live(c) /\ c \in Frames /\ c.token <= dns.gen
      BY <1>6 DEF Good
    <2>2. CASE dns.gen \notin tokens
      <3>1. dns' = dns
        BY <1>1, <2>2 DEF DnsFound
      <3> QED BY <1>1, <2>1, <3>1 DEF Good, Live, NeedsUp, Looking
    <2>3. CASE dns.gen \in tokens
      <3>1. PICK a \in asked : a.name = n /\ a.token = dns.gen
        BY <2>3
      <3>2. n = c.name /\ ~dns.done
        BY <2>1, <3>1 DEF Live
      <3>3. ~dns.ok
        BY <3>2 DEF Inv, TokenInv
      <3>4. dns'.ok => dns'.addr = n
        BY <1>1, <1>2, <2>3, <3>3 DEF DnsFound
      <3>5. \A b \in asked' : b.token # dns'.gen
        BY <1>1, <1>3, <2>1, <3>2 DEF Live
      <3> QED BY <1>1, <1>3, <1>6, <2>1, <3>2, <3>4, <3>5 DEF Good, Live, NeedsUp
    <2> QED BY <2>2, <2>3
  <1>7. ASSUME NEW c \in Good, ~Looking(c) PROVE c \in Good'
    BY <1>1, <1>3, <1>7 DEF Good, NeedsUp
  <1>8. FramesInv'
    BY <1>1, <1>6, <1>7 DEF Inv, FramesInv
  <1> QED BY <1>5, <1>8

LEMMA FramesMoved ==
  ASSUME Inv, GInv',
         \/ BringUpFails \/ BringUpDone \/ JoinFails \/ Joined \/ Undone \/ Left \/ ScanDone
         \/ PassEnds \/ LinkLost \/ PumpDone \/ LoopDone \/ Asked \/ WaitPass \/ WaitOn
         \/ (WaitEnds /\ ~Looking(Top)) \/ (WaitTimesOut /\ ~Looking(Top))
  PROVE  FramesInv'
  <1> USE DEF Ats, Commands, NeedsUp, Looking, Running
  <1>1. stack # <<>> /\ GInv /\ FramesInv
    BY DEF Inv, BringUpFails, BringUpDone, JoinFails, Joined, Undone, Left, ScanDone, PassEnds,
           LinkLost, PumpDone, LoopDone, Asked, WaitPass, WaitOn, WaitEnds, WaitTimesOut
  <1>2. /\ Top \in Frames /\ Placed(Top) /\ (NeedsUp(Top) => up)
        /\ inDriverCmd \in BOOLEAN /\ up \in BOOLEAN /\ linkUp \in BOOLEAN
    BY <1>1, TopIs, TopGood DEF Good, Inv, Shapes
  <1>3. up => up'
    BY DEF Inv, BringUpFails, BringUpDone, JoinFails, Joined, Undone, Left, ScanDone, PassEnds,
           LinkLost, PumpDone, LoopDone, Asked, WaitPass, WaitOn, WaitEnds, WaitTimesOut,
           AttemptSucceeds, linkVars
  <1>4. dns' = dns /\ asked' = asked
    BY DEF Inv, BringUpFails, BringUpDone, JoinFails, Joined, Undone, Left, ScanDone, PassEnds,
           LinkLost, PumpDone, LoopDone, Asked, WaitPass, WaitOn, WaitEnds, WaitTimesOut, nameVars
  <1>5. Good \subseteq Good'
    BY <1>3, <1>4, GoodGrows
  <1>6. ASSUME Return PROVE FramesInv'
    BY <1>1, <1>5, <1>6, ReturnFrames
  <1>7. CASE BringUpFails \/ JoinFails \/ Undone \/ ScanDone \/ PumpDone \/ (WaitEnds /\ ~Looking(Top))
    BY <1>6, <1>7 DEF BringUpFails, JoinFails, Undone, AttemptFails, ScanDone, PumpDone, WaitEnds,
                      AttemptSucceeds
  <1>8. CASE BringUpDone
    <2> DEFINE c == Follow(Top, "joining")
    <2>1. c \in Frames /\ c.call = Top.call /\ c.name = Top.name /\ c.token = Top.token
      BY <1>2 DEF Follow, Frames
    <2>2. Become(c) /\ up'
      BY <1>8 DEF BringUpDone
    <2> HIDE DEF c
    <2> QED BY <1>1, <1>4, <1>5, <2>1, <2>2, MoveFrames
  <1>9. CASE Joined
    <2> DEFINE c == [Top EXCEPT !.at = "waiting"]
    <2>1. c \in Frames /\ c.call = Top.call /\ c.name = Top.name /\ c.token = Top.token
      BY <1>2 DEF Frames
    <2>2. Become(c) /\ Top.at = "joining"
      BY <1>9 DEF Joined
    <2> HIDE DEF c
    <2> QED BY <1>1, <1>2, <1>3, <1>4, <1>5, <2>1, <2>2, MoveFrames
  <1>10. CASE Left
    <2>1. CASE Top.call = "begin"
      <3> DEFINE c == Follow(Top, "joining")
      <3>1. c \in Frames /\ c.call = Top.call /\ c.name = Top.name /\ c.token = Top.token
        BY <1>2 DEF Follow, Frames
      <3>2. Become(c) /\ Top.at = "leaving"
        BY <1>10, <2>1 DEF Left
      <3> HIDE DEF c
      <3> QED BY <1>1, <1>2, <1>3, <1>4, <1>5, <2>1, <3>1, <3>2, MoveFrames
    <2>2. CASE Top.call # "begin"
      BY <1>6, <1>10, <2>2 DEF Left
    <2> QED BY <2>1, <2>2
  <1>11. CASE PassEnds
    <2> DEFINE c == AfterPass(Top)
    <2>1. /\ c \in Frames /\ c.call = Top.call /\ c.name = Top.name /\ c.token = Top.token
          /\ c.at = IF Top.at = "waiting" THEN "passed" ELSE "passing"
      BY <1>2 DEF Frames, AfterPass
    <2>2. Become(c)
      BY <1>11 DEF PassEnds
    <2> HIDE DEF c
    <2> QED BY <1>1, <1>2, <1>3, <1>4, <1>5, <2>1, <2>2, MoveFrames
  <1>12. CASE LinkLost
    <2> DEFINE c == [Top EXCEPT !.polls = FALSE]
    <2>1. /\ c \in Frames /\ c.call = Top.call /\ c.name = Top.name /\ c.token = Top.token
          /\ c.at = Top.at
      BY <1>2 DEF Frames
    <2>2. Become(c)
      BY <1>12 DEF LinkLost
    <2> HIDE DEF c
    <2> QED BY <1>1, <1>2, <1>3, <1>4, <1>5, <2>1, <2>2, MoveFrames
  <1>13. CASE LoopDone
    <2>1. CASE MayReconnect /\ joins < MaxJoins
      <3> DEFINE c == Enter(Top, "joining")
      <3>1. c \in Frames /\ c.call = Top.call /\ c.name = Top.name /\ c.token = Top.token
        BY <1>2 DEF Enter, Frames
      <3>2. Become(c) /\ up
        BY <1>13, <2>1 DEF LoopDone, MayReconnect
      <3> HIDE DEF c
      <3> QED BY <1>1, <1>3, <1>4, <1>5, <3>1, <3>2, MoveFrames
    <2>2. CASE ~(MayReconnect /\ joins < MaxJoins)
      BY <1>6, <1>13, <2>2 DEF LoopDone
    <2> QED BY <2>1, <2>2
  <1>14. CASE Asked
    <2> DEFINE c == [Top EXCEPT !.at = "waiting"]
    <2>1. c \in Frames /\ c.call = Top.call /\ c.name = Top.name /\ c.token = Top.token
      BY <1>2 DEF Frames
    <2>2. Become(c) /\ Top.at = "asking"
      BY <1>14 DEF Asked
    <2>3. Top.call = "lookup"
      BY <1>2, <2>2 DEF Frames, Calls, Placed
    <2> HIDE DEF c
    <2> QED BY <1>1, <1>4, <1>5, <2>1, <2>2, <2>3, MoveFrames
  <1>15. CASE WaitPass
    <2> DEFINE c == IF PassRefused THEN [Top EXCEPT !.at = "passed"] ELSE Passing(Top)
    <2>1. Become(c) /\ Top.at = "waiting"
      BY <1>15 DEF WaitPass
    <2>2. c \in Frames /\ c.call = Top.call /\ c.name = Top.name /\ c.token = Top.token
      BY <1>2 DEF Frames, Passing
    <2> HIDE DEF c
    <2> QED BY <1>1, <1>2, <1>3, <1>4, <1>5, <2>1, <2>2, MoveFrames
  <1>16. CASE WaitOn
    <2> DEFINE c == [Top EXCEPT !.at = "waiting"]
    <2>1. c \in Frames /\ c.call = Top.call /\ c.name = Top.name /\ c.token = Top.token
      BY <1>2 DEF Frames
    <2>2. Become(c) /\ Top.at = "passed"
      BY <1>16 DEF WaitOn
    <2> HIDE DEF c
    <2> QED BY <1>1, <1>2, <1>3, <1>4, <1>5, <2>1, <2>2, MoveFrames
  <1>17. CASE WaitTimesOut /\ ~Looking(Top)
    <2> DEFINE c == Enter(Top, "undoing")
    <2>1. c \in Frames /\ c.call = Top.call /\ c.name = Top.name /\ c.token = Top.token
      BY <1>2 DEF Enter, Frames
    <2>2. Become(c) /\ Top.at = "passed"
      BY <1>17 DEF WaitTimesOut
    <2> HIDE DEF c
    <2> QED BY <1>1, <1>2, <1>3, <1>4, <1>5, <2>1, <2>2, MoveFrames
  <1> QED BY <1>7, <1>8, <1>9, <1>10, <1>11, <1>12, <1>13, <1>14, <1>15, <1>16, <1>17

LEMMA FramesStep == ASSUME Inv, GInv', [Next]_vars PROVE FramesInv' /\ TokenInv'
  <1>1. ASSUME dns' = dns, asked' = asked, lookups' = lookups PROVE TokenInv'
    BY <1>1 DEF Inv, TokenInv
  <1>2. CASE Begin \/ Disconnect \/ Scan \/ Status \/ Pump \/ Loop
    BY <1>1, <1>2, FramesCalled DEF Begin, Disconnect, Scan, Status, Pump, Loop, nameVars
  <1>3. ASSUME \/ BringUpFails \/ BringUpDone \/ JoinFails \/ Joined \/ Undone \/ Left \/ ScanDone
               \/ PassEnds \/ LinkLost \/ PumpDone \/ LoopDone \/ Asked \/ WaitPass \/ WaitOn
               \/ (WaitEnds /\ ~Looking(Top)) \/ (WaitTimesOut /\ ~Looking(Top))
        PROVE  FramesInv' /\ TokenInv'
    <2>1. dns' = dns /\ asked' = asked /\ lookups' = lookups
      BY <1>3 DEF BringUpFails, BringUpDone, JoinFails, Joined, Undone, Left, ScanDone, PassEnds,
           LinkLost, PumpDone, LoopDone, Asked, WaitPass, WaitOn, WaitEnds, WaitTimesOut, nameVars,
           Looking
    <2> QED BY <1>1, <1>3, <2>1, FramesMoved
  <1>4. CASE (WaitEnds \/ WaitTimesOut) /\ Looking(Top)
    <2>1. stack # <<>> /\ LookupEnds(Top)
      BY <1>4 DEF WaitEnds, WaitTimesOut, Running, Looking
    <2> QED BY <1>4, <2>1, LookupReturns
  <1>5. CASE \/ BeginRefused \/ LeaseChanges \/ Rest \/ SetAutoReconnect \/ SetAutoService
             \/ UNCHANGED vars
    <2>1. stack' = stack /\ dns' = dns /\ asked' = asked /\ lookups' = lookups /\ up' = up
      BY <1>5 DEF BeginRefused, LeaseChanges, Rest, SetAutoReconnect, SetAutoService, vars, nameVars,
                  linkVars
    <2> QED BY <1>1, <2>1, GoodGrows, SameFrames DEF Inv
  <1> QED BY <1>2, <1>3, <1>4, <1>5, LookupBegins, LookupFailsOrHits, ResolvedIsGood DEF Next

LEMMA LinkStep == ASSUME Inv, [Next]_vars PROVE LinkInv'
  <1> USE DEF LinkInv, NeedsUp, Running, Commands
  <1>1. LinkInv /\ GInv /\ FramesInv
    BY DEF Inv
  <1>2. ASSUME UNCHANGED linkVars, UNCHANGED settings PROVE LinkInv'
    BY <1>1, <1>2 DEF linkVars, settings
  <1>3. ASSUME stack # <<>>
        PROVE  /\ Top \in Frames /\ Placed(Top) /\ (NeedsUp(Top) => up)
               /\ Top.at \in {"joining", "undoing"} => up
    <2>1. Top \in Frames /\ Placed(Top) /\ (NeedsUp(Top) => up)
      BY <1>1, <1>3, TopIs, TopGood DEF Good
    <2>2. Top.at \in {"joining", "undoing"} => Top.call \in {"begin", "loop", "status"}
      BY <2>1 DEF Placed, Frames, Calls
    <2> QED BY <2>1, <2>2
  <1>4. CASE Begin \/ BeginRefused \/ Disconnect
    BY <1>1, <1>4 DEF Begin, BeginRefused, Disconnect, settings
  <1>5. CASE BringUpFails \/ BringUpDone
    BY <1>1, <1>5 DEF BringUpFails, BringUpDone, settings
  <1>6. CASE JoinFails
    BY <1>1, <1>3, <1>6 DEF JoinFails, AttemptFails
  <1>7. CASE Joined
    BY <1>1, <1>3, <1>7 DEF Joined, settings
  <1>8. CASE Undone
    BY <1>1, <1>3, <1>8 DEF Undone, AttemptFails, LinkDown
  <1>9. CASE Left \/ LinkLost
    BY <1>1, <1>9 DEF Left, LinkLost, LinkDown, settings
  <1>10. CASE LeaseChanges
    BY <1>1, <1>10 DEF LeaseChanges, settings
  <1>11. CASE SetAutoReconnect \/ SetAutoService
    <2>1. CASE SetAutoReconnect
      BY <1>1, <2>1 DEF SetAutoReconnect, linkVars
    <2>2. CASE SetAutoService
      <3>1. attached' = (up /\ autoService') /\ UNCHANGED <<up, linkUp, dhcp, status>>
        BY <2>2 DEF SetAutoService, linkVars
      <3>2. attached' => up' /\ autoService'
        BY <3>1
      <3> QED BY <1>1, <3>1, <3>2
    <2> QED BY <1>11, <2>1, <2>2
  <1>12. CASE WaitEnds /\ ~Looking(Top)
    <2>1. AttemptSucceeds(Top) /\ dhcp = "bound" /\ stack # <<>>
      BY <1>12 DEF WaitEnds, Satisfied, Looking
    <2> QED BY <1>1, <2>1 DEF AttemptSucceeds
  <1>13. CASE (WaitEnds \/ WaitTimesOut) /\ Looking(Top)
    BY <1>2, <1>13 DEF WaitEnds, WaitTimesOut, Looking, LookupEnds
  <1>14. CASE WaitTimesOut /\ ~Looking(Top)
    BY <1>2, <1>14 DEF WaitTimesOut, Looking
  <1>15. CASE Scan \/ ScanDone \/ PassEnds \/ Pump \/ PumpDone \/ Loop \/ LoopDone \/ Status
    BY <1>2, <1>15 DEF Scan, ScanDone, PassEnds, Pump, PumpDone, Loop, LoopDone, Status
  <1>16. CASE Rest \/ LookupAtOnce \/ Asked \/ WaitPass \/ WaitOn \/ UNCHANGED vars
    BY <1>2, <1>16 DEF Rest, LookupAtOnce, Asked, WaitPass, WaitOn, vars
  <1>17. ASSUME NEW n \in Names, Lookup(n) PROVE LinkInv'
    BY <1>2, <1>17 DEF Lookup
  <1>18. ASSUME NEW n \in Names, NEW ok \in BOOLEAN, Resolved(n, ok) PROVE LinkInv'
    BY <1>2, <1>18 DEF Resolved
  <1> HIDE DEF LinkInv
  <1> QED BY <1>4, <1>5, <1>6, <1>7, <1>8, <1>9, <1>10, <1>11, <1>12, <1>13, <1>14, <1>15, <1>16,
             <1>17, <1>18 DEF Next

LEMMA ShapesStep == ASSUME Inv, [Next]_vars PROVE Shapes'
  <1> DEFINE Flags == /\ up \in BOOLEAN /\ linkUp \in BOOLEAN /\ want \in BOOLEAN
                      /\ autoReconnect \in BOOLEAN /\ autoService \in BOOLEAN
                      /\ attached \in BOOLEAN /\ rested \in BOOLEAN /\ inReconnect \in BOOLEAN
                      /\ inService \in BOOLEAN /\ inDriverCmd \in BOOLEAN
             Dns == dns \in [gen : Nat, done : BOOLEAN, ok : BOOLEAN,
                             addr : Names \cup {None}, busy : BOOLEAN]
  <1> USE DEF linkVars, settings, guards, nameVars, Running
  <1>1. Shapes /\ GInv /\ FramesInv
    BY DEF Inv
  <1>2. stack # <<>> => Top \in Frames /\ Top.saved \in BOOLEAN
    BY <1>1, TopIs DEF Frames
  <1>3. MaxLookups \in Nat /\ MaxJoins \in Nat /\ (attached \/ autoService) \in BOOLEAN
    BY FacadeAssumption DEF Shapes
  <1>4. joins < MaxJoins => joins + 1 \in 0..MaxJoins
    BY <1>1, <1>3 DEF Shapes
  <1>5. CASE Begin
    BY <1>1, <1>4, <1>5 DEF Shapes, Begin
  <1>6. CASE BeginRefused
    BY <1>1, <1>6 DEF Shapes, BeginRefused
  <1>7. CASE Disconnect
    <2>1. calledOff' \in {"no", "alone", "within"} /\ inDriverCmd' \in BOOLEAN
      BY <1>1, <1>7 DEF Shapes, Disconnect
    <2>2. want' = FALSE /\ UNCHANGED <<up, linkUp, dhcp, status, settings, rested, inReconnect,
                                       inService, nameVars, joins>>
      BY <1>7 DEF Disconnect
    <2>3. Flags'
      BY <1>1, <2>1, <2>2 DEF Shapes
    <2>4. Dns'
      BY <1>1, <2>2 DEF Shapes
    <2> QED BY <1>1, <2>1, <2>2, <2>3, <2>4 DEF Shapes
  <1>8. CASE BringUpFails
    BY <1>1, <1>2, <1>8 DEF Shapes, BringUpFails, LinkDown, Restored
  <1>9. CASE BringUpDone
    BY <1>1, <1>2, <1>9 DEF Shapes, BringUpDone, LinkDown, Restored
  <1>10. CASE Joined
    BY <1>1, <1>2, <1>10 DEF Shapes, Joined, LinkDown, Restored
  <1>11. CASE Left
    <2>1. inDriverCmd' \in BOOLEAN /\ dhcp' = "off" /\ linkUp' = FALSE /\ status' = "DISCONNECTED"
      BY <1>1, <1>2, <1>11 DEF Shapes, Left, LinkDown, Restored
    <2>2. UNCHANGED <<up, want, settings, rested, inReconnect, inService, nameVars, joins, calledOff>>
      BY <1>11 DEF Left
    <2>3. Flags'
      BY <1>1, <2>1, <2>2 DEF Shapes
    <2>4. Dns'
      BY <1>1, <2>1, <2>2 DEF Shapes
    <2> QED BY <1>1, <2>1, <2>2, <2>3, <2>4 DEF Shapes
  <1>12. CASE ScanDone
    BY <1>1, <1>2, <1>12 DEF Shapes, ScanDone, LinkDown, Restored
  <1>13. CASE JoinFails
    <2>1. status' \in {"FAILED", "LOST"} /\ want' \in BOOLEAN /\ attached' \in BOOLEAN
      BY <1>1, <1>3, <1>13 DEF Shapes, JoinFails, AttemptFails
    <2>2. inReconnect' \in BOOLEAN /\ rested' \in BOOLEAN /\ inDriverCmd' \in BOOLEAN
      BY <1>1, <1>2, <1>13 DEF Shapes, JoinFails, AttemptFails, Restored
    <2>3. dhcp' \in {"off", "asking", "bound"} /\ linkUp' \in BOOLEAN
      BY <1>1, <1>13 DEF Shapes, JoinFails, LinkDown
    <2> QED BY <1>1, <1>13, <2>1, <2>2, <2>3 DEF Shapes, JoinFails, AttemptFails
  <1>14. CASE Undone
    <2>1. status' \in {"FAILED", "LOST"} /\ want' \in BOOLEAN /\ attached' \in BOOLEAN
      BY <1>1, <1>3, <1>14 DEF Shapes, Undone, AttemptFails
    <2>2. inReconnect' \in BOOLEAN /\ rested' \in BOOLEAN /\ inDriverCmd' \in BOOLEAN
      BY <1>1, <1>2, <1>14 DEF Shapes, Undone, AttemptFails, Restored
    <2>3. dhcp' \in {"off", "asking", "bound"} /\ linkUp' \in BOOLEAN
      BY <1>1, <1>14 DEF Shapes, Undone, LinkDown
    <2> QED BY <1>1, <1>14, <2>1, <2>2, <2>3 DEF Shapes, Undone, AttemptFails
  <1>15. CASE Scan
    BY <1>1, <1>15 DEF Shapes, Scan
  <1>16. CASE LeaseChanges
    BY <1>1, <1>16 DEF Shapes, LeaseChanges
  <1>17. CASE PassEnds
    <2>1. inService' = FALSE /\ UNCHANGED <<linkVars, settings, rested, inReconnect, inDriverCmd,
                                            nameVars, joins, calledOff>>
      BY <1>17 DEF PassEnds
    <2>2. Flags'
      BY <1>1, <2>1 DEF Shapes
    <2>3. Dns'
      BY <1>1, <2>1 DEF Shapes
    <2> QED BY <1>1, <2>1, <2>2, <2>3 DEF Shapes
  <1>18. CASE LinkLost
    <2>1. /\ dhcp' = "off" /\ linkUp' = FALSE /\ status' = "LOST" /\ want' = TRUE
          /\ UNCHANGED <<up, settings, rested, guards, nameVars, joins, calledOff>>
      BY <1>18 DEF LinkLost, LinkDown
    <2>2. Flags'
      BY <1>1, <2>1 DEF Shapes
    <2>3. Dns'
      BY <1>1, <2>1 DEF Shapes
    <2> QED BY <1>1, <2>1, <2>2, <2>3 DEF Shapes
  <1>19. CASE PumpDone
    BY <1>1, <1>19 DEF Shapes, PumpDone
  <1>20. CASE Rest
    BY <1>1, <1>20 DEF Shapes, Rest
  <1>21. CASE Asked
    BY <1>1, <1>21 DEF Shapes, Asked
  <1>22. CASE WaitOn
    BY <1>1, <1>22 DEF Shapes, WaitOn
  <1>23. CASE Pump
    <2>1. inService' \in BOOLEAN
      BY <1>23 DEF Pump, Serviced
    <2> QED BY <1>1, <1>23, <2>1 DEF Shapes, Pump
  <1>24. CASE Loop
    <2>1. inService' \in BOOLEAN
      BY <1>24 DEF Loop, Serviced
    <2> QED BY <1>1, <1>24, <2>1 DEF Shapes, Loop
  <1>25. CASE WaitPass
    <2>1. inService' \in BOOLEAN
      BY <1>25 DEF WaitPass, Serviced
    <2> QED BY <1>1, <1>25, <2>1 DEF Shapes, WaitPass
  <1>26. CASE LoopDone
    <2>1. inReconnect' \in BOOLEAN /\ rested' \in BOOLEAN /\ inDriverCmd' \in BOOLEAN
      BY <1>1, <1>26 DEF Shapes, LoopDone, Reconnects
    <2>2. joins' \in 0..MaxJoins
      BY <1>1, <1>4, <1>26 DEF Shapes, LoopDone, Reconnects
    <2> QED BY <1>1, <1>26, <2>1, <2>2 DEF Shapes, LoopDone
  <1>27. CASE Status
    <2>1. inReconnect' \in BOOLEAN /\ rested' \in BOOLEAN /\ inDriverCmd' \in BOOLEAN
      BY <1>1, <1>27 DEF Shapes, Status, Reconnects
    <2>2. joins' \in 0..MaxJoins
      BY <1>1, <1>4, <1>27 DEF Shapes, Status, Reconnects
    <2> QED BY <1>1, <1>27, <2>1, <2>2 DEF Shapes, Status
  <1>28. CASE SetAutoReconnect
    BY <1>1, <1>28 DEF Shapes, SetAutoReconnect
  <1>29. CASE SetAutoService
    <2>1. autoService' \in BOOLEAN /\ attached' \in BOOLEAN
      BY <1>29 DEF SetAutoService
    <2> QED BY <1>1, <1>29, <2>1 DEF Shapes, SetAutoService
  <1>30. ASSUME Top.token \in Nat, LookupEnds(Top) PROVE Shapes'
    <2>1. dns' \in [gen : Nat, done : BOOLEAN, ok : BOOLEAN, addr : Names \cup {None}, busy : BOOLEAN]
      <3>1. dns' = [dns EXCEPT !.gen = Top.token + 1, !.busy = FALSE] /\ Top.token + 1 \in Nat
        BY <1>30 DEF LookupEnds
      <3> QED BY <1>1, <3>1 DEF Shapes
    <2>2. UNCHANGED <<linkVars, settings, rested, guards, asked, cache, lookups, joins, calledOff>>
      BY <1>30 DEF LookupEnds
    <2> QED BY <1>1, <2>1, <2>2 DEF Shapes
  <1>31. CASE (WaitEnds \/ WaitTimesOut) /\ Looking(Top)
    BY <1>2, <1>30, <1>31 DEF WaitEnds, WaitTimesOut, Looking, Frames
  <1>32. CASE WaitEnds /\ ~Looking(Top)
    <2>1. AttemptSucceeds(Top) /\ UNCHANGED <<inService, inDriverCmd, nameVars, joins, calledOff>>
      BY <1>32 DEF WaitEnds, Looking
    <2>2. attached' \in BOOLEAN /\ inReconnect' \in BOOLEAN /\ rested' \in BOOLEAN
      BY <1>1, <1>3, <2>1 DEF Shapes, AttemptSucceeds
    <2>3. /\ status' = "CONNECTED" /\ want' = FALSE
          /\ UNCHANGED <<up, linkUp, dhcp, autoReconnect, autoService>>
      BY <2>1 DEF AttemptSucceeds
    <2>4. Flags'
      BY <1>1, <2>1, <2>2, <2>3 DEF Shapes
    <2>5. Dns'
      BY <1>1, <2>1, <2>2, <2>3 DEF Shapes
    <2> QED BY <1>1, <2>1, <2>2, <2>3, <2>4, <2>5 DEF Shapes
  <1>33. CASE WaitTimesOut /\ ~Looking(Top)
    BY <1>1, <1>33 DEF Shapes, WaitTimesOut, Looking
  <1>34. CASE UNCHANGED vars
    BY <1>1, <1>34 DEF Shapes, vars
  <1>35. /\ NextToken \in Nat /\ NextToken + 1 \in Nat
         /\ lookups < MaxLookups => lookups + 1 \in 0..MaxLookups
    BY <1>1, <1>3 DEF Shapes, NextToken
  <1>36. ASSUME NEW n \in Names, Lookup(n) PROVE Shapes'
    <2>1. /\ dns' = [dns EXCEPT !.gen = NextToken, !.done = FALSE, !.ok = FALSE, !.busy = TRUE]
          /\ asked' = asked \cup {[name |-> n, token |-> NextToken]}
          /\ lookups < MaxLookups /\ lookups' = lookups + 1
      BY <1>36 DEF Lookup
    <2>5. UNCHANGED <<linkVars, settings, rested, guards, cache, joins, calledOff>>
      BY <1>36 DEF Lookup
    <2>2. dns' \in [gen : Nat, done : BOOLEAN, ok : BOOLEAN, addr : Names \cup {None}, busy : BOOLEAN]
      BY <1>1, <1>35, <2>1 DEF Shapes
    <2>3. asked' \subseteq [name : Names, token : Nat]
      BY <1>1, <1>35, <2>1 DEF Shapes
    <2>4. lookups' \in 0..MaxLookups
      BY <1>35, <2>1
    <2> QED BY <1>1, <2>5, <2>2, <2>3, <2>4 DEF Shapes
  <1>37. CASE LookupAtOnce
    <2>1. /\ dns' = [dns EXCEPT !.gen = NextToken + 1, !.done = FALSE, !.ok = FALSE]
          /\ lookups < MaxLookups /\ lookups' = lookups + 1
      BY <1>37 DEF LookupAtOnce
    <2>4. UNCHANGED <<linkVars, settings, rested, guards, asked, cache, joins, calledOff>>
      BY <1>37 DEF LookupAtOnce
    <2>2. dns' \in [gen : Nat, done : BOOLEAN, ok : BOOLEAN, addr : Names \cup {None}, busy : BOOLEAN]
      BY <1>1, <1>35, <2>1 DEF Shapes
    <2>3. lookups' \in 0..MaxLookups
      BY <1>35, <2>1
    <2> QED BY <1>1, <2>2, <2>3, <2>4 DEF Shapes
  <1>38. ASSUME NEW n \in Names, NEW ok \in BOOLEAN, Resolved(n, ok) PROVE Shapes'
    <2>1. dns' \in [gen : Nat, done : BOOLEAN, ok : BOOLEAN, addr : Names \cup {None}, busy : BOOLEAN]
      <3>1. (dns.ok \/ ok) \in BOOLEAN
        OBVIOUS
      <3> QED BY <1>1, <1>38, <3>1 DEF Shapes, Resolved, DnsFound
    <2>2. cache' \subseteq Names /\ asked' \subseteq [name : Names, token : Nat]
      BY <1>1, <1>38 DEF Shapes, Resolved
    <2> QED BY <1>1, <1>38, <2>1, <2>2 DEF Shapes, Resolved
  <1> QED BY <1>5, <1>6, <1>7, <1>8, <1>9, <1>10, <1>11, <1>12, <1>13, <1>14, <1>15,
             <1>16, <1>17, <1>18, <1>19, <1>20, <1>21, <1>22, <1>23, <1>24, <1>25,
             <1>26, <1>27, <1>28, <1>29, <1>31, <1>32, <1>33, <1>34, <1>36, <1>37, <1>38
             DEF Next

LEMMA InvInit == Init => Inv
  <1> SUFFICES ASSUME Init PROVE Inv
    OBVIOUS
  <1>1. GInv
    BY InitKeeps
  <1>2. Shapes
    <2>1. 0 \in 0..MaxLookups /\ 0 \in 0..MaxJoins
      BY FacadeAssumption
    <2> QED BY <2>1 DEF Init, Shapes
  <1>3. stack = <<>> /\ Len(stack) = 0 /\ 0 <= MaxDepth
    BY FacadeAssumption DEF Init
  <1>4. FramesInv
    BY <1>3 DEF FramesInv
  <1>5. LinkInv /\ TokenInv
    BY DEF Init, LinkInv, TokenInv
  <1> QED BY <1>1, <1>2, <1>4, <1>5 DEF Inv

LEMMA InvStep == ASSUME Inv, [Next]_vars PROVE Inv'
  <1>1. GInv'
    BY StepKeeps DEF Inv
  <1> QED BY <1>1, FramesStep, LinkStep, ShapesStep DEF Inv

LEMMA StackDomain == ASSUME Inv PROVE stack \in Seq(Frames) /\ DOMAIN stack = 1..Len(stack)
  BY DEF Inv, GInv, Nested

LEMMA InvTypes == ASSUME Inv PROVE TypeOK
  <1>1. Shapes /\ FramesInv /\ LinkInv /\ TokenInv /\ MaxLookups \in Nat
    BY FacadeAssumption DEF Inv
  <1>2. dns.gen \in 0..2 * MaxLookups
    <2>1. dns.gen \in Nat /\ lookups \in 0..MaxLookups
      BY <1>1 DEF Shapes
    <2>2. dns.gen <= 2 * lookups
      BY <1>1, <2>1 DEF TokenInv
    <2> QED BY <1>1, <2>1, <2>2
  <1>3. ASSUME NEW t \in Nat, t <= dns.gen PROVE t \in Tokens
    BY <1>1, <1>2, <1>3 DEF Tokens
  <1>4. ASSUME NEW i \in DOMAIN stack
        PROVE  stack[i] \in [call : Calls \cup {"pump"}, at : Ats, pass : BOOLEAN, polls : BOOLEAN,
                             saved : BOOLEAN, name : Names \cup {None}, token : Tokens]
    <2>1. stack[i] \in Frames /\ stack[i].token <= dns.gen
      BY <1>1, StackDomain DEF FramesInv, Good
    <2>2. stack[i].token \in Tokens
      BY <1>3, <2>1 DEF Frames
    <2> QED BY <2>1, <2>2 DEF Frames
  <1>5. dns \in [gen : Tokens, done : BOOLEAN, ok : BOOLEAN, addr : Names \cup {None}, busy : BOOLEAN]
    BY <1>1, <1>2 DEF Shapes, Tokens
  <1>6. asked \subseteq [name : Names, token : Tokens]
    <2>1. ASSUME NEW a \in asked PROVE a \in [name : Names, token : Tokens]
      <3>1. a \in [name : Names, token : Nat] /\ a.token <= dns.gen
        BY <1>1 DEF Shapes, TokenInv
      <3>2. a.token \in Tokens
        BY <1>3, <3>1
      <3> QED BY <3>1, <3>2
    <2> QED BY <2>1
  <1>7. /\ Len(stack) <= MaxDepth
        /\ attached => up /\ autoService
    BY <1>1 DEF FramesInv, LinkInv
  <1>8. /\ {up, linkUp, want, autoReconnect, autoService, attached, rested, inReconnect, inService,
            inDriverCmd} \subseteq BOOLEAN
        /\ dhcp \in {"off", "asking", "bound"}
        /\ status \in {"IDLE", "FAILED", "CONNECTED", "LOST", "DISCONNECTED", "NO_SHIELD"}
        /\ cache \subseteq Names
        /\ lookups \in 0..MaxLookups /\ joins \in 0..MaxJoins
        /\ calledOff \in {"no", "alone", "within"}
    BY <1>1 DEF Shapes
  <1> QED BY <1>4, <1>5, <1>6, <1>7, <1>8 DEF TypeOK

LEMMA InvGuards == ASSUME Inv PROVE GuardsHeld
  <1>1. PassesAlone
    BY StackDomain DEF Inv, GInv, Nested, PassesAlone, Commanding
  <1>2. /\ inService <=> \E i \in DOMAIN stack : stack[i].pass
        /\ inDriverCmd <=> \E i \in DOMAIN stack : stack[i].at \in Commands
        /\ inReconnect <=> \E i \in DOMAIN stack : Attempt(stack[i])
        /\ dns.busy <=> \E i \in DOMAIN stack : stack[i].call = "lookup"
    BY StackDomain DEF Inv, GInv, PassOn, CommandOn, AttemptOn, LookupOn, Commanding, Looking
  <1> QED BY <1>1, <1>2 DEF GuardsHeld

LEMMA InvAnswers == ASSUME Inv PROVE AnswerIsForItsName
  <1>1. ASSUME NEW i \in DOMAIN stack, stack[i].call = "lookup", dns.done
        PROVE  /\ dns.ok => dns.addr = stack[i].name
               /\ [name |-> stack[i].name, token |-> stack[i].token] \notin asked
    <2>1. Live(stack[i])
      BY <1>1, StackDomain DEF Inv, FramesInv, Good, Looking
    <2>2. ASSUME NEW a \in asked, a = [name |-> stack[i].name, token |-> stack[i].token]
          PROVE  FALSE
      BY <1>1, <2>1, <2>2 DEF Live
    <2> QED BY <1>1, <2>1, <2>2 DEF Live
  <1> QED BY <1>1 DEF AnswerIsForItsName

\* Each guard is set exactly as long as what it guards is under way: no service pass steals a
\* command's reply or runs inside another, however deep calls nest, whatever a responder calls
\* (also begin(), loop() and status()) and wherever a call fails.
THEOREM GuardsAreExact == Spec => [](TypeOK /\ GuardsHeld)
  <1>1. Inv => TypeOK /\ GuardsHeld
    BY InvTypes, InvGuards
  <1> QED BY <1>1, InvInit, InvStep, PTL DEF Spec

\* hostByName() returns only what lwip found for the name it was asked for, for any number of
\* names and lookups, given up or not.
THEOREM AnswersReachTheirRequest == Spec => []AnswerIsForItsName
  <1>1. Inv => AnswerIsForItsName
    BY InvAnswers
  <1> QED BY <1>1, InvInit, InvStep, PTL DEF Spec

-----------------------------------------------------------------------------
(* disconnect() holds.                                                       *)

\* After a disconnect() from the loop nothing is wanted and nothing under way can bring a link
\* up or find one lost; a link that is still up is about to be taken down at the bottom of the
\* stack, under the guard that refuses passes.
Off ==
  /\ ~want /\ ~inReconnect
  /\ \A i \in 1..Len(stack) : stack[i].call # "begin" /\ stack[i].polls = FALSE
  /\ linkUp => Len(stack) >= 1 /\ stack[1].call = "disconnect"

OffInv == calledOff = "alone" => Off

LEMMA SizeOf == ASSUME Inv PROVE Len(stack) \in Nat /\ (stack = <<>> <=> Len(stack) = 0)
  BY DEF Inv, GInv, Nested

LEMMA OffSays ==
  ASSUME Inv, Off
  PROVE  /\ ~MayReconnect /\ (linkUp => PassRefused)
         /\ stack # <<>> =>
              /\ Top \in Frames /\ Placed(Top) /\ Top.call # "begin" /\ Top.polls = FALSE
              /\ ~Attempt(Top)
  <1>1. ~MayReconnect
    BY DEF Off, MayReconnect
  <1>2. ASSUME linkUp PROVE PassRefused
    <2>1. Len(stack) \in Nat /\ 1 \in 1..Len(stack) /\ stack[1].call = "disconnect"
      BY <1>2, SizeOf DEF Off
    <2>2. Placed(stack[1])
      BY <2>1 DEF Inv, GInv, Nested
    <2>3. Commanding(stack[1])
      BY <2>1, <2>2 DEF Placed, Commanding, Commands
    <2>4. inDriverCmd
      BY <2>1, <2>3 DEF Inv, GInv, CommandOn
    <2> QED BY <2>4 DEF PassRefused
  <1>3. ASSUME stack # <<>>
        PROVE  /\ Top \in Frames /\ Placed(Top) /\ Top.call # "begin" /\ Top.polls = FALSE
               /\ ~Attempt(Top)
    <2>1. Top \in Frames /\ Placed(Top) /\ ~Attempt(Top)
      BY <1>3, TopIs DEF Inv, Off
    <2>2. Len(stack) \in Nat \ {0} /\ Top = stack[Len(stack)]
      BY <1>3, FrontPlaces DEF Inv, GInv, Nested, Top
    <2> QED BY <2>1, <2>2 DEF Off
  <1> QED BY <1>1, <1>2, <1>3

LEMMA OffPush ==
  ASSUME Inv, Off, NEW c, c \in Frames, stack' = Append(stack, c), c.call # "begin", c.polls = FALSE,
         want' = want, inReconnect' = inReconnect, linkUp' = linkUp
  PROVE  Off'
  <1>1. /\ Len(stack) \in Nat /\ Len(stack') = Len(stack) + 1
        /\ \A i \in 1..Len(stack) : stack'[i] = stack[i]
        /\ stack'[Len(stack) + 1] = c
    BY PushPlaces DEF Inv
  <1>2. \A i \in 1..Len(stack') : stack'[i].call # "begin" /\ stack'[i].polls = FALSE
    BY <1>1 DEF Off
  <1>3. linkUp' => Len(stack') >= 1 /\ stack'[1].call = "disconnect"
    BY <1>1 DEF Off
  <1> QED BY <1>2, <1>3 DEF Off

LEMMA OffReturn ==
  ASSUME Inv, Off, stack # <<>>, Return, linkUp' => linkUp /\ Top.call # "disconnect",
         want' = want, inReconnect' = inReconnect
  PROVE  Off'
  <1>1. /\ Len(stack) \in Nat \ {0} /\ Len(stack') = Len(stack) - 1
        /\ \A i \in 1..Len(stack') : stack'[i] = stack[i]
        /\ Top = stack[Len(stack)]
    BY ReturnPlaces DEF Inv
  <1>2. \A i \in 1..Len(stack') : stack'[i].call # "begin" /\ stack'[i].polls = FALSE
    BY <1>1 DEF Off
  <1>3. ASSUME linkUp' PROVE Len(stack') >= 1 /\ stack'[1].call = "disconnect"
    <2>1. stack[1].call = "disconnect" /\ Top.call # "disconnect"
      BY <1>3 DEF Off
    <2>2. Len(stack) # 1
      BY <1>1, <2>1
    <2> QED BY <1>1, <2>1, <2>2
  <1> QED BY <1>2, <1>3 DEF Off

LEMMA OffMove ==
  ASSUME Inv, Off, stack # <<>>, NEW c, c \in Frames, Become(c), c.call = Top.call, c.polls = FALSE,
         want' = want, inReconnect' = inReconnect, linkUp' = linkUp
  PROVE  Off'
  <1>1. /\ Len(stack) \in Nat \ {0} /\ Len(stack') = Len(stack)
        /\ \A i \in 1..Len(stack) : i # Len(stack) => stack'[i] = stack[i]
        /\ stack'[Len(stack)] = c
        /\ Top = stack[Len(stack)]
    BY MovePlaces DEF Inv
  <1>2. Top.call # "begin"
    BY OffSays
  <1>3. \A i \in 1..Len(stack') : stack'[i].call # "begin" /\ stack'[i].polls = FALSE
    BY <1>1, <1>2 DEF Off
  <1>4. ASSUME linkUp' PROVE Len(stack') >= 1 /\ stack'[1].call = "disconnect"
    <2>1. stack[1].call = "disconnect"
      BY <1>4 DEF Off
    <2> QED BY <1>1, <2>1
  <1> QED BY <1>3, <1>4 DEF Off

\* disconnect(), called from the loop.
LEMMA OffBegins == ASSUME Inv, Disconnect, stack = <<>> PROVE Off'
  <1>1. Len(stack) = 0 /\ ~inReconnect
    BY SizeOf DEF Inv, GInv, AttemptOn
  <1>2. want' = FALSE /\ inReconnect' = inReconnect /\ linkUp' = linkUp
    BY DEF Disconnect
  <1>3. CASE linkUp
    <2> DEFINE c == Call("disconnect", "leaving")
    <2>1. c \in Frames /\ c.call = "disconnect" /\ c.polls = FALSE
      <3>1. inDriverCmd \in BOOLEAN
        BY DEF Inv, Shapes
      <3> QED BY <3>1 DEF Call, Frames, Ats, Commands, Calls
    <2>2. stack' = Append(stack, c)
      BY <1>3 DEF Disconnect, Push
    <2> HIDE DEF c
    <2>3. Len(stack') = 0 + 1 /\ stack'[0 + 1] = c
      BY <1>1, <2>1, <2>2, PushPlaces DEF Inv
    <2>4. \A i \in 1..Len(stack') : stack'[i].call # "begin" /\ stack'[i].polls = FALSE
      BY <2>1, <2>3
    <2> QED BY <1>1, <1>2, <2>1, <2>3, <2>4 DEF Off
  <1>4. CASE ~linkUp
    <2>1. stack' = stack
      BY <1>4 DEF Disconnect
    <2> QED BY <1>1, <1>2, <1>4, <2>1 DEF Off
  <1> QED BY <1>3, <1>4

LEMMA OffStep == ASSUME Inv, Off, [Next]_vars, calledOff' = "alone" PROVE Off'
  <1> USE DEF Running
  <1>1. /\ ~MayReconnect /\ (linkUp => PassRefused)
        /\ inDriverCmd \in BOOLEAN /\ up \in BOOLEAN /\ linkUp \in BOOLEAN
    BY OffSays DEF Inv, Shapes
  <1>2. stack # <<>> => /\ Top \in Frames /\ Placed(Top) /\ Top.call # "begin" /\ Top.polls = FALSE
                        /\ ~Attempt(Top)
    BY OffSays
  <1>3. CASE Begin
    BY <1>3 DEF Begin
  <1>4. CASE Disconnect
    <2>1. stack = <<>>
      BY <1>4 DEF Disconnect
    <2> QED BY <1>4, <2>1, OffBegins
  <1>5. CASE Scan
    <2> DEFINE c == Call("scan", "scanning")
    <2>1. c \in Frames /\ c.call = "scan" /\ c.polls = FALSE
      BY <1>1 DEF Call, Frames, Ats, Commands, Calls
    <2>2. stack' = Append(stack, c) /\ want' = want /\ inReconnect' = inReconnect /\ linkUp' = linkUp
      BY <1>5 DEF Scan, Push, linkVars
    <2> HIDE DEF c
    <2> QED BY <2>1, <2>2, OffPush
  <1>6. CASE Pump \/ Loop
    <2>1. PICK n \in {"pump", "loop"} : stack' = Append(stack, Passing(Call(n, "passing")))
      BY <1>6 DEF Pump, Loop, Push
    <2> DEFINE c == Passing(Call(n, "passing"))
    <2>2. c \in Frames /\ c.call # "begin" /\ c.polls = FALSE
      BY <1>1, <2>1 DEF Passing, Call, Frames, Ats, Commands, Calls
    <2>3. want' = want /\ inReconnect' = inReconnect /\ linkUp' = linkUp
      BY <1>6 DEF Pump, Loop, linkVars
    <2> HIDE DEF c
    <2> QED BY <2>1, <2>2, <2>3, OffPush DEF c
  <1>7. CASE Status
    BY <1>1, <1>7 DEF Status
  <1>8. ASSUME NEW n \in Names, Lookup(n) PROVE Off'
    <2> DEFINE c == [Call("lookup", "asking") EXCEPT !.name = n, !.token = NextToken]
    <2>1. NextToken \in Nat
      BY DEF Inv, Shapes, NextToken
    <2>2. c \in Frames /\ c.call = "lookup" /\ c.polls = FALSE
      BY <1>1, <2>1 DEF Call, Frames, Ats, Commands, Calls
    <2>3. stack' = Append(stack, c) /\ want' = want /\ inReconnect' = inReconnect /\ linkUp' = linkUp
      BY <1>8 DEF Lookup, Push, linkVars, guards
    <2> HIDE DEF c
    <2> QED BY <2>2, <2>3, OffPush
  <1>9. CASE BringUpFails \/ BringUpDone \/ JoinFails \/ Joined \/ Undone
    <2>1. stack # <<>> /\ Top.at \in {"bringing", "joining", "undoing"}
      BY <1>9 DEF BringUpFails, BringUpDone, JoinFails, Joined, Undone
    <2> QED BY <1>2, <2>1 DEF Placed, Attempt, Frames, Calls
  <1>10. CASE Left
    <2>1. /\ stack # <<>> /\ Return /\ linkUp' = FALSE /\ want' = want /\ inReconnect' = inReconnect
      BY <1>2, <1>10 DEF Left, LinkDown
    <2> QED BY <2>1, OffReturn
  <1>11. CASE ScanDone \/ PumpDone
    <2>1. /\ stack # <<>> /\ Return /\ linkUp' = linkUp /\ want' = want /\ inReconnect' = inReconnect
          /\ Top.at \in {"scanning", "passing"}
      BY <1>11 DEF ScanDone, PumpDone, linkVars, guards
    <2> QED BY <1>2, <2>1, OffReturn DEF Placed
  <1>12. CASE LoopDone
    <2>1. /\ stack # <<>> /\ Return /\ linkUp' = linkUp /\ want' = want /\ inReconnect' = inReconnect
          /\ Top.call = "loop"
      BY <1>1, <1>12 DEF LoopDone, linkVars
    <2> QED BY <2>1, OffReturn
  <1>13. CASE (WaitEnds \/ WaitTimesOut) /\ Looking(Top)
    <2>1. /\ stack # <<>> /\ Return /\ linkUp' = linkUp /\ want' = want /\ inReconnect' = inReconnect
          /\ Top.call = "lookup"
      BY <1>13 DEF WaitEnds, WaitTimesOut, Looking, LookupEnds, linkVars, guards
    <2> QED BY <2>1, OffReturn
  <1>14. CASE (WaitEnds \/ WaitTimesOut) /\ ~Looking(Top)
    <2>1. stack # <<>> /\ Top.at \in {"waiting", "passed"} /\ Top.call # "lookup"
      BY <1>14 DEF WaitEnds, WaitTimesOut, Looking
    <2> QED BY <1>2, <2>1 DEF Placed, Attempt, Frames, Calls
  <1>15. CASE LinkLost
    BY <1>2, <1>15 DEF LinkLost
  <1>16. CASE PassEnds
    <2> DEFINE c == AfterPass(Top)
    <2>1. /\ stack # <<>> /\ Become(c) /\ linkUp' = linkUp /\ want' = want
          /\ inReconnect' = inReconnect
      BY <1>16 DEF PassEnds, linkVars
    <2>2. c \in Frames /\ c.call = Top.call /\ c.polls = FALSE
      BY <1>2, <2>1 DEF AfterPass, Frames, Ats, Commands
    <2> HIDE DEF c
    <2> QED BY <2>1, <2>2, OffMove
  <1>17. CASE Asked \/ WaitOn
    <2> DEFINE c == [Top EXCEPT !.at = "waiting"]
    <2>1. /\ stack # <<>> /\ Become(c) /\ linkUp' = linkUp /\ want' = want
          /\ inReconnect' = inReconnect
      BY <1>17 DEF Asked, WaitOn, linkVars, guards
    <2>2. c \in Frames /\ c.call = Top.call /\ c.polls = FALSE
      BY <1>2, <2>1 DEF Frames, Ats, Commands
    <2> HIDE DEF c
    <2> QED BY <2>1, <2>2, OffMove
  <1>18. CASE WaitPass
    <2> DEFINE c == IF PassRefused THEN [Top EXCEPT !.at = "passed"] ELSE Passing(Top)
    <2>1. /\ stack # <<>> /\ Become(c) /\ linkUp' = linkUp /\ want' = want
          /\ inReconnect' = inReconnect
      BY <1>18 DEF WaitPass, linkVars
    <2>2. c \in Frames /\ c.call = Top.call /\ c.polls = FALSE
      BY <1>1, <1>2, <2>1 DEF Passing, Frames, Ats, Commands
    <2> HIDE DEF c
    <2> QED BY <2>1, <2>2, OffMove
  <1>19. ASSUME UNCHANGED <<stack, want, inReconnect, linkUp>> PROVE Off'
    BY <1>19 DEF Off
  <1>20. CASE \/ BeginRefused \/ LeaseChanges \/ Rest \/ SetAutoReconnect \/ SetAutoService
              \/ LookupAtOnce \/ UNCHANGED vars
    BY <1>19, <1>20 DEF BeginRefused, LeaseChanges, Rest, SetAutoReconnect, SetAutoService,
                        LookupAtOnce, vars, linkVars, guards
  <1>21. ASSUME NEW n \in Names, NEW ok \in BOOLEAN, Resolved(n, ok) PROVE Off'
    BY <1>19, <1>21 DEF Resolved, linkVars, guards
  <1> QED BY <1>3, <1>4, <1>5, <1>6, <1>7, <1>8, <1>9, <1>10, <1>11, <1>12, <1>13, <1>14, <1>15,
             <1>16, <1>17, <1>18, <1>20, <1>21 DEF Next

LEMMA CalledOff ==
  ASSUME [Next]_vars
  PROVE  calledOff' = calledOff \/ Begin \/ Disconnect
  BY DEF Next, vars, BeginRefused, BringUpFails, BringUpDone, JoinFails, Joined, Undone, Left, Scan,
         ScanDone, LeaseChanges, Resolved, PassEnds, LinkLost, Pump, PumpDone, Loop, LoopDone, Status,
         Rest, SetAutoReconnect, SetAutoService, Lookup, LookupAtOnce, Asked, LookupEnds, WaitPass,
         WaitEnds, WaitOn, WaitTimesOut

LEMMA OffInvStep == ASSUME Inv, OffInv, [Next]_vars PROVE OffInv'
  <1> SUFFICES ASSUME calledOff' = "alone" PROVE Off'
    BY DEF OffInv
  <1>1. CASE calledOff = "alone"
    BY <1>1, OffStep DEF OffInv
  <1>2. CASE calledOff # "alone"
    <2>1. Disconnect /\ stack = <<>>
      BY <1>2, CalledOff DEF Begin, Disconnect
    <2> QED BY <2>1, OffBegins
  <1> QED BY <1>1, <1>2

LEMMA OffNoRetry ==
  ASSUME Inv, OffInv, [Next]_vars
  PROVE  calledOff = "alone" /\ ~inReconnect => ~inReconnect'
  <1> SUFFICES ASSUME calledOff = "alone", ~inReconnect PROVE ~inReconnect'
    OBVIOUS
  <1>1. CASE calledOff' = "alone"
    BY <1>1, OffStep DEF OffInv, Off
  <1>2. CASE calledOff' # "alone"
    <2>1. Begin \/ Disconnect
      BY <1>2, CalledOff
    <2> QED BY <2>1 DEF Begin, Disconnect
  <1> QED BY <1>1, <1>2

\* After a disconnect() from the loop no retry starts before the next begin(), whatever is
\* under way, whatever responders call and however the link comes and goes.
THEOREM DisconnectIsFinal == Spec => DisconnectHolds
  <1>1. Init => Inv /\ OffInv
    BY InvInit DEF Init, OffInv
  <1>2. Inv /\ OffInv /\ [Next]_vars => Inv' /\ OffInv'
    BY InvStep, OffInvStep
  <1>3. Inv /\ OffInv /\ [Next]_vars => [calledOff = "alone" /\ ~inReconnect => ~inReconnect']_vars
    BY OffNoRetry
  <1> QED BY <1>1, <1>2, <1>3, PTL DEF Spec, DisconnectHolds

-----------------------------------------------------------------------------
(* The status and the link, where responders leave associating to the loop.  *)

Polite == Responders \subseteq {"disconnect", "scan", "lookup"}

\* The calls a responder makes, and the pump.
Inner == {"disconnect", "scan", "lookup", "pump"}

\* An attempt that has its link and waits for an address, or gives the link up.
Waits(c) == c.call \in {"begin", "loop", "status"} /\ c.at \in {"waiting", "passed", "undoing"}

\* Only the call at the bottom of the stack associates: it finds no link when it does, and a
\* link under a status that says it is gone is one it has just made.
RootInv ==
  /\ \A i \in 1..Len(stack) : i > 1 => stack[i].call \in Inner
  /\ Len(stack) >= 1 => /\ stack[1].at = "bringing" => ~up
                        /\ stack[1].at = "joining" => ~linkUp
  /\ linkUp /\ status \in {"LOST", "DISCONNECTED", "NO_SHIELD"} => Len(stack) >= 1 /\ Waits(stack[1])

LEMMA RootTop ==
  ASSUME Inv, RootInv, stack # <<>>
  PROVE  /\ Top \in Frames /\ Placed(Top) /\ Len(stack) \in Nat \ {0}
         /\ Top.call \notin Inner => Len(stack) = 1 /\ Top = stack[1]
  <1>1. Top \in Frames /\ Placed(Top)
    BY TopIs DEF Inv
  <1>0. stack \in Seq(Frames)
    BY StackDomain
  <1>2. Len(stack) \in Nat \ {0} /\ Top = stack[Len(stack)]
    BY <1>0, FrontPlaces DEF Top
  <1>3. ASSUME Top.call \notin Inner PROVE Len(stack) = 1
    <2>1. \A i \in 1..Len(stack) : i > 1 => stack[i].call \in Inner
      BY DEF RootInv
    <2>2. Len(stack) \in 1..Len(stack) /\ stack[Len(stack)].call \notin Inner
      BY <1>2, <1>3
    <2>3. ~(Len(stack) > 1)
      BY <2>1, <2>2, Zenon
    <2>4. \A n \in Nat \ {0} : ~(n > 1) => n = 1
      OBVIOUS
    <2> QED BY <1>2, <2>3, <2>4, Zenon
  <1>4. Top.call \notin Inner => Len(stack) = 1 /\ Top = stack[1]
    <2>1. Len(stack) = 1 => Top = stack[1]
      BY ONLY <1>2
    <2> QED BY <1>3, <2>1
  <1> QED BY ONLY <1>1, <1>2, <1>4

LEMMA RootSame ==
  ASSUME RootInv, UNCHANGED <<stack, up, linkUp>>,
         status' \in {"LOST", "DISCONNECTED", "NO_SHIELD"} => status' = status
  PROVE  RootInv'
  BY DEF RootInv, Waits

LEMMA RootPush ==
  ASSUME Inv, RootInv, NEW c, c \in Frames, stack' = Append(stack, c), stack = <<>> \/ c.call \in Inner,
         UNCHANGED <<up, linkUp, status>>, c.at = "bringing" => ~up, c.at = "joining" => ~linkUp
  PROVE  RootInv'
  <1>1. /\ Len(stack) \in Nat /\ Len(stack') = Len(stack) + 1
        /\ \A i \in 1..Len(stack) : stack'[i] = stack[i]
        /\ stack'[Len(stack) + 1] = c /\ (stack = <<>> <=> Len(stack) = 0)
    BY PushPlaces, SizeOf DEF Inv
  <1>2. \A i \in 1..Len(stack') : i > 1 => stack'[i].call \in Inner
    BY <1>1 DEF RootInv
  <1>3. CASE stack = <<>>
    <2>1. stack'[1] = c /\ Len(stack) = 0
      BY <1>1, <1>3
    <2> QED BY <1>2, <2>1 DEF RootInv
  <1>4. CASE stack # <<>>
    <2>1. Len(stack) >= 1 /\ Len(stack') >= 1 /\ stack'[1] = stack[1]
      BY <1>1, <1>4
    <2> QED BY <1>2, <2>1 DEF RootInv, Waits
  <1> QED BY <1>3, <1>4

LEMMA RootReturn ==
  ASSUME Inv, RootInv, stack # <<>>, Return, up' = up, linkUp' => linkUp,
         linkUp' /\ status' \in {"LOST", "DISCONNECTED", "NO_SHIELD"} =>
           status' = status /\ ~Waits(Top)
  PROVE  RootInv'
  <1>1. /\ Len(stack) \in Nat \ {0} /\ Len(stack') = Len(stack) - 1
        /\ \A i \in 1..Len(stack') : stack'[i] = stack[i]
        /\ Top = stack[Len(stack)]
    BY ReturnPlaces DEF Inv
  <1>2. \A i \in 1..Len(stack') : i > 1 => stack'[i].call \in Inner
    BY <1>1 DEF RootInv
  <1>3. CASE Len(stack) = 1
    <2>1. Len(stack') = 0 /\ Top = stack[1]
      BY <1>1, <1>3
    <2>2. ~(linkUp' /\ status' \in {"LOST", "DISCONNECTED", "NO_SHIELD"})
      BY <2>1 DEF RootInv
    <2> QED BY <1>2, <2>1, <2>2 DEF RootInv
  <1>4. CASE Len(stack) # 1
    <2>1. Len(stack) >= 1 /\ Len(stack') >= 1 /\ stack'[1] = stack[1]
      BY <1>1, <1>4
    <2> QED BY <1>2, <2>1 DEF RootInv, Waits
  <1> QED BY <1>3, <1>4

LEMMA RootMove ==
  ASSUME Inv, RootInv, stack # <<>>, NEW c, c \in Frames, Become(c), c.call = Top.call,
         c.at # "bringing", c.at = "joining" => ~linkUp',
         (up' = up /\ (linkUp' => linkUp)) \/ Top.call \notin Inner,
         linkUp' /\ status' \in {"LOST", "DISCONNECTED", "NO_SHIELD"} =>
           \/ linkUp /\ status' = status /\ (Waits(Top) => Waits(c))
           \/ Top.call \notin Inner /\ Waits(c)
  PROVE  RootInv'
  <1>1. /\ Len(stack) \in Nat \ {0} /\ Len(stack') = Len(stack)
        /\ \A i \in 1..Len(stack) : i # Len(stack) => stack'[i] = stack[i]
        /\ stack'[Len(stack)] = c
        /\ Top = stack[Len(stack)]
    BY MovePlaces DEF Inv
  <1>2. \A i \in 1..Len(stack') : i > 1 => stack'[i].call \in Inner
    BY <1>1 DEF RootInv
  <1>3. CASE Len(stack) = 1
    <2>1. Len(stack') = 1 /\ Top = stack[1] /\ stack'[1] = c
      BY <1>1, <1>3
    <2>2. linkUp' /\ status' \in {"LOST", "DISCONNECTED", "NO_SHIELD"} => Waits(c)
      BY <2>1 DEF RootInv
    <2> QED BY <1>2, <2>1, <2>2 DEF RootInv, Waits
  <1>4. CASE Len(stack) # 1
    <2>1. Len(stack) >= 1 /\ Len(stack') >= 1 /\ stack'[1] = stack[1]
      BY <1>1, <1>4
    <2>2. Top.call \in Inner
      BY <1>4, RootTop
    <2> QED BY <1>2, <2>1, <2>2 DEF RootInv, Waits
  <1> QED BY <1>3, <1>4

LEMMA RootCalled ==
  ASSUME Inv, RootInv, Polite,
         Begin \/ Disconnect \/ Scan \/ Status \/ (\E n \in Names : Lookup(n)) \/ Pump \/ Loop
  PROVE  RootInv'
  <1> USE DEF Ats, Commands, Calls, Inner
  <1>1. inDriverCmd \in BOOLEAN /\ up \in BOOLEAN /\ linkUp \in BOOLEAN /\ NextToken \in Nat
    BY DEF Inv, Shapes, NextToken
  <1>2. /\ MayCall("begin") => stack = <<>>
        /\ MayCall("loop") => stack = <<>>
        /\ MayCall("status") => stack = <<>>
    BY DEF MayCall, Polite
  <1>3. CASE Begin
    <2> DEFINE c == Call("begin", IF linkUp THEN "leaving" ELSE IF up THEN "joining" ELSE "bringing")
    <2>1. c \in Frames /\ (c.at = "bringing" => ~up) /\ (c.at = "joining" => ~linkUp)
      BY <1>1 DEF Call, Frames
    <2>2. stack' = Append(stack, c) /\ stack = <<>> /\ UNCHANGED <<up, linkUp, status>>
      BY <1>2, <1>3 DEF Begin, Push
    <2> HIDE DEF c
    <2> QED BY <2>1, <2>2, RootPush
  <1>4. CASE Disconnect
    <2>1. CASE linkUp
      <3> DEFINE c == Call("disconnect", "leaving")
      <3>1. c \in Frames /\ c.call = "disconnect" /\ c.at = "leaving"
        BY <1>1 DEF Call, Frames
      <3>2. stack' = Append(stack, c) /\ UNCHANGED <<up, linkUp, status>>
        BY <1>4, <2>1 DEF Disconnect, Push
      <3> HIDE DEF c
      <3> QED BY <3>1, <3>2, RootPush
    <2>2. CASE ~linkUp
      BY <1>4, <2>2, RootSame DEF Disconnect
    <2> QED BY <2>1, <2>2
  <1>5. CASE Scan
    <2> DEFINE c == Call("scan", "scanning")
    <2>1. c \in Frames /\ c.call = "scan" /\ c.at = "scanning"
      BY <1>1 DEF Call, Frames
    <2>2. stack' = Append(stack, c) /\ UNCHANGED <<up, linkUp, status>>
      BY <1>5 DEF Scan, Push, linkVars
    <2> HIDE DEF c
    <2> QED BY <2>1, <2>2, RootPush
  <1>6. CASE Status
    <2> DEFINE c == Call("status", "joining")
    <2>1. c \in Frames /\ c.at = "joining"
      BY <1>1 DEF Call, Frames
    <2>2. stack' = Append(stack, c) /\ stack = <<>> /\ ~linkUp /\ UNCHANGED <<up, linkUp, status>>
      BY <1>2, <1>6 DEF Status, Push, MayReconnect, linkVars
    <2> HIDE DEF c
    <2> QED BY <2>1, <2>2, RootPush
  <1>7. ASSUME NEW n \in Names, Lookup(n) PROVE RootInv'
    <2> DEFINE c == [Call("lookup", "asking") EXCEPT !.name = n, !.token = NextToken]
    <2>1. c \in Frames /\ c.call = "lookup" /\ c.at = "asking"
      BY <1>1 DEF Call, Frames
    <2>2. stack' = Append(stack, c) /\ UNCHANGED <<up, linkUp, status>>
      BY <1>7 DEF Lookup, Push, linkVars
    <2> HIDE DEF c
    <2> QED BY <2>1, <2>2, RootPush
  <1>8. CASE Pump
    <2> DEFINE c == Passing(Call("pump", "passing"))
    <2>1. c \in Frames /\ c.call = "pump" /\ c.at = "passing"
      BY <1>1 DEF Passing, Call, Frames
    <2>2. stack' = Append(stack, c) /\ UNCHANGED <<up, linkUp, status>>
      BY <1>8 DEF Pump, Push, linkVars
    <2> HIDE DEF c
    <2> QED BY <2>1, <2>2, RootPush
  <1>9. CASE Loop
    <2> DEFINE c == Passing(Call("loop", "passing"))
    <2>1. c \in Frames /\ c.at = "passing"
      BY <1>1 DEF Passing, Call, Frames
    <2>2. stack' = Append(stack, c) /\ stack = <<>> /\ UNCHANGED <<up, linkUp, status>>
      BY <1>2, <1>9 DEF Loop, Push, linkVars
    <2> HIDE DEF c
    <2> QED BY <2>1, <2>2, RootPush
  <1> QED BY <1>3, <1>4, <1>5, <1>6, <1>7, <1>8, <1>9

LEMMA RootReturned ==
  ASSUME Inv, RootInv,
         \/ BringUpFails \/ JoinFails \/ Undone \/ ScanDone \/ PumpDone
         \/ (Left /\ Top.call # "begin") \/ (LoopDone /\ ~(MayReconnect /\ joins < MaxJoins)) \/ WaitEnds
         \/ (WaitTimesOut /\ Looking(Top))
  PROVE  RootInv'
  <1> USE DEF Running, Inner
  <1>1. stack # <<>>
    BY DEF BringUpFails, JoinFails, Undone, ScanDone, PumpDone, Left, LoopDone, WaitEnds, WaitTimesOut
  <1>2. /\ Top \in Frames /\ Placed(Top) /\ Len(stack) \in Nat \ {0}
        /\ Top.call \notin Inner => Len(stack) = 1 /\ Top = stack[1]
    BY <1>1, RootTop
  <1>3. CASE BringUpFails
    <2>1. Top.at = "bringing" /\ Return /\ up' = up /\ linkUp' = linkUp
      BY <1>3 DEF BringUpFails
    <2>2. Top.call = "begin"
      BY <1>2, <2>1 DEF Placed, Frames, Calls
    <2>3. ~up /\ ~linkUp
      BY <1>2, <2>1, <2>2 DEF RootInv, Inv, LinkInv
    <2> QED BY <1>1, <2>1, <2>3, RootReturn
  <1>4. CASE JoinFails
    <2>1. Top.at = "joining" /\ Return /\ up' = up /\ linkUp' = linkUp
      BY <1>4 DEF JoinFails, AttemptFails
    <2>2. Top.call \in {"begin", "loop", "status"}
      BY <1>2, <2>1 DEF Placed, Frames, Calls
    <2>3. ~linkUp
      BY <1>2, <2>1, <2>2 DEF RootInv
    <2> QED BY <1>1, <2>1, <2>3, RootReturn
  <1>5. CASE Undone \/ (Left /\ Top.call # "begin")
    <2>1. Return /\ up' = up /\ linkUp' = FALSE
      BY <1>5 DEF Undone, Left, AttemptFails, LinkDown
    <2> QED BY <1>1, <2>1, RootReturn
  <1>6. ASSUME Return, UNCHANGED <<up, linkUp, status>>, ~Waits(Top) PROVE RootInv'
    BY <1>1, <1>6, RootReturn
  <1>7. CASE ScanDone \/ PumpDone \/ (LoopDone /\ ~(MayReconnect /\ joins < MaxJoins))
    BY <1>6, <1>7 DEF ScanDone, PumpDone, LoopDone, Waits, linkVars
  <1>8. CASE (WaitEnds \/ WaitTimesOut) /\ Looking(Top)
    BY <1>6, <1>8 DEF WaitEnds, WaitTimesOut, Looking, LookupEnds, Waits, linkVars
  <1>9. CASE WaitEnds /\ ~Looking(Top)
    <2>1. Return /\ up' = up /\ linkUp' = linkUp /\ status' = "CONNECTED"
      BY <1>9 DEF WaitEnds, Looking, AttemptSucceeds
    <2> QED BY <1>1, <2>1, RootReturn
  <1> QED BY <1>3, <1>4, <1>5, <1>7, <1>8, <1>9

LEMMA RootMoved ==
  ASSUME Inv, RootInv,
         \/ BringUpDone \/ Joined \/ (Left /\ Top.call = "begin") \/ PassEnds \/ LinkLost
         \/ (LoopDone /\ MayReconnect /\ joins < MaxJoins) \/ Asked \/ WaitPass \/ WaitOn
         \/ (WaitTimesOut /\ ~Looking(Top))
  PROVE  RootInv'
  <1> USE DEF Running, Inner, Ats, Commands
  <1>1. stack # <<>>
    BY DEF BringUpDone, Joined, Left, PassEnds, LinkLost, LoopDone, Asked, WaitPass, WaitOn,
           WaitTimesOut
  <1>2. /\ Top \in Frames /\ Placed(Top) /\ Len(stack) \in Nat \ {0}
        /\ Top.call \notin Inner => Len(stack) = 1 /\ Top = stack[1]
    BY <1>1, RootTop
  <1>3. inDriverCmd \in BOOLEAN /\ up \in BOOLEAN /\ linkUp \in BOOLEAN
    BY DEF Inv, Shapes
  <1>4. CASE BringUpDone
    <2> DEFINE c == Follow(Top, "joining")
    <2>1. c \in Frames /\ c.call = Top.call /\ c.at = "joining"
      BY <1>2 DEF Follow, Frames
    <2>2. Top.at = "bringing" /\ Become(c) /\ linkUp' = linkUp
      BY <1>4 DEF BringUpDone
    <2>3. Top.call = "begin"
      BY <1>2, <2>2 DEF Placed, Frames, Calls
    <2>4. ~linkUp
      BY <1>2, <2>2, <2>3 DEF RootInv, Inv, LinkInv
    <2> HIDE DEF c
    <2> QED BY <1>1, <2>1, <2>2, <2>3, <2>4, RootMove
  <1>5. CASE Joined
    <2> DEFINE c == [Top EXCEPT !.at = "waiting"]
    <2>1. c \in Frames /\ c.call = Top.call /\ c.at = "waiting"
      BY <1>2 DEF Frames
    <2>2. Top.at = "joining" /\ Become(c)
      BY <1>5 DEF Joined
    <2>3. Top.call \in {"begin", "loop", "status"}
      BY <1>2, <2>2 DEF Placed, Frames, Calls
    <2> HIDE DEF c
    <2> QED BY <1>1, <2>1, <2>2, <2>3, RootMove DEF Waits
  <1>6. CASE Left /\ Top.call = "begin"
    <2> DEFINE c == Follow(Top, "joining")
    <2>1. c \in Frames /\ c.call = Top.call /\ c.at = "joining"
      BY <1>2 DEF Follow, Frames
    <2>2. Become(c) /\ linkUp' = FALSE
      BY <1>6 DEF Left, LinkDown
    <2> HIDE DEF c
    <2> QED BY <1>1, <1>6, <2>1, <2>2, RootMove
  <1>7. CASE PassEnds
    <2> DEFINE c == AfterPass(Top)
    <2>1. /\ c \in Frames /\ c.call = Top.call /\ c.at \in {"passed", "passing"}
          /\ Top.at \in {"waiting", "passing"} /\ (Top.at = "waiting" => c.at = "passed")
      BY <1>2, <1>7 DEF AfterPass, Frames, PassEnds, Placed
    <2>2. Become(c) /\ UNCHANGED <<up, linkUp, status>>
      BY <1>7 DEF PassEnds, linkVars
    <2> HIDE DEF c
    <2> QED BY <1>1, <2>1, <2>2, RootMove DEF Waits
  <1>8. CASE LinkLost
    <2> DEFINE c == [Top EXCEPT !.polls = FALSE]
    <2>1. c \in Frames /\ c.call = Top.call /\ c.at \in {"waiting", "passing"}
      BY <1>2, <1>8 DEF Frames, LinkLost, Placed
    <2>2. Become(c) /\ up' = up /\ linkUp' = FALSE
      BY <1>8 DEF LinkLost, LinkDown
    <2> HIDE DEF c
    <2> QED BY <1>1, <2>1, <2>2, RootMove
  <1>9. CASE LoopDone /\ MayReconnect /\ joins < MaxJoins
    <2> DEFINE c == Enter(Top, "joining")
    <2>1. c \in Frames /\ c.call = Top.call /\ c.at = "joining"
      BY <1>2, <1>3 DEF Enter, Frames
    <2>2. Become(c) /\ UNCHANGED <<up, linkUp, status>> /\ ~linkUp
      BY <1>9 DEF LoopDone, MayReconnect, linkVars
    <2> HIDE DEF c
    <2> QED BY <1>1, <2>1, <2>2, RootMove
  <1>10. CASE Asked \/ WaitOn
    <2> DEFINE c == [Top EXCEPT !.at = "waiting"]
    <2>1. c \in Frames /\ c.call = Top.call /\ c.at = "waiting"
      BY <1>2 DEF Frames
    <2>2. Become(c) /\ UNCHANGED <<up, linkUp, status>>
      BY <1>10 DEF Asked, WaitOn, linkVars
    <2> HIDE DEF c
    <2> QED BY <1>1, <2>1, <2>2, RootMove DEF Waits
  <1>11. CASE WaitPass
    <2> DEFINE c == IF PassRefused THEN [Top EXCEPT !.at = "passed"] ELSE Passing(Top)
    <2>1. Become(c) /\ UNCHANGED <<up, linkUp, status>> /\ Top.at = "waiting"
      BY <1>11 DEF WaitPass, linkVars
    <2>2. c \in Frames /\ c.call = Top.call /\ c.at \in {"passed", "waiting"}
      BY <1>2, <1>3, <2>1 DEF Passing, Frames
    <2> HIDE DEF c
    <2> QED BY <1>1, <2>1, <2>2, RootMove DEF Waits
  <1>12. CASE WaitTimesOut /\ ~Looking(Top)
    <2> DEFINE c == Enter(Top, "undoing")
    <2>1. c \in Frames /\ c.call = Top.call /\ c.at = "undoing"
      BY <1>2, <1>3 DEF Enter, Frames
    <2>2. Become(c) /\ UNCHANGED <<up, linkUp, status>>
      BY <1>12 DEF WaitTimesOut, Looking, linkVars
    <2> HIDE DEF c
    <2> QED BY <1>1, <2>1, <2>2, RootMove DEF Waits
  <1> QED BY <1>4, <1>5, <1>6, <1>7, <1>8, <1>9, <1>10, <1>11, <1>12

LEMMA RootStep == ASSUME Inv, RootInv, Polite, [Next]_vars PROVE RootInv'
  <1>1. CASE \/ LeaseChanges \/ Rest \/ SetAutoReconnect \/ SetAutoService \/ LookupAtOnce
             \/ UNCHANGED vars
    BY <1>1, RootSame DEF LeaseChanges, Rest, SetAutoReconnect, SetAutoService, LookupAtOnce, vars,
                          linkVars
  <1>2. CASE BeginRefused
    BY <1>2, RootSame DEF BeginRefused
  <1>3. ASSUME NEW n \in Names, NEW ok \in BOOLEAN, Resolved(n, ok) PROVE RootInv'
    BY <1>3, RootSame DEF Resolved, linkVars
  <1> QED BY <1>1, <1>2, <1>3, RootCalled, RootReturned, RootMoved DEF Next

\* Every guard, type and status tells what is the case: never connected without a link, and no
\* link left behind a status that says it is gone, if responders leave begin(), loop() and
\* status() to the sketch's own loop.
THEOREM FlagsAreTrue == Polite => (Spec => []FlagsTrue)
  <1> SUFFICES ASSUME Polite PROVE Spec => []FlagsTrue
    OBVIOUS
  <1>1. Init => Inv /\ RootInv
    <2> SUFFICES ASSUME Init PROVE Inv /\ RootInv
      OBVIOUS
    <2>1. Inv
      BY InvInit
    <2>2. Len(stack) = 0 /\ ~linkUp
      BY DEF Init
    <2> QED BY <2>1, <2>2 DEF RootInv
  <1>2. Inv /\ RootInv /\ [Next]_vars => Inv' /\ RootInv'
    BY InvStep, RootStep
  <1>3. Inv /\ RootInv => FlagsTrue
    <2> SUFFICES ASSUME Inv, RootInv PROVE FlagsTrue
      OBVIOUS
    <2>1. StatusTellsTheLink
      <3>1. status = "CONNECTED" => linkUp
        BY DEF Inv, LinkInv
      <3>2. stack = <<>> /\ status \in {"LOST", "DISCONNECTED", "NO_SHIELD"} => ~linkUp
        BY SizeOf DEF RootInv
      <3> QED BY <3>1, <3>2 DEF StatusTellsTheLink
    <2> QED BY <2>1, InvTypes, InvGuards DEF FlagsTrue
  <1> QED BY <1>1, <1>2, <1>3, PTL DEF Spec
=============================================================================
