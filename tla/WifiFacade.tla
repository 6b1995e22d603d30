----------------------------- MODULE WifiFacade -----------------------------
(***************************************************************************)
(* The WiFi facade: bring-up, association, reconnection, the service pass  *)
(* and DNS lookups, all on one stack.                                      *)
(*                                                                         *)
(* There is one thread, but wherever the driver or the facade delays, the  *)
(* yield dispatches responders: the facade's own pump, and the sketch's,   *)
(* which may call the facade again.  So the calls that are under way form  *)
(* a stack; only the last one runs.  The card, lwip and the access point   *)
(* are what the facade relies on of them.                                  *)
(***************************************************************************)
EXTENDS Integers, SequencesExt

CONSTANTS
  Names,       \* host names
  None,
  Responders,  \* the calls a responder of the sketch may make
  MaxDepth,    \* bound: calls under way at once
  MaxLookups,  \* bound: lookups that get a token
  MaxJoins     \* bound: attempts to associate

Calls == {"begin", "disconnect", "loop", "status", "scan", "lookup"}

ASSUME FacadeAssumption ==
  /\ None \notin Names /\ Responders \subseteq Calls
  /\ MaxDepth \in Nat \ {0} /\ MaxLookups \in Nat /\ MaxJoins \in Nat

VARIABLES
  stack,        \* the calls under way, the running one last
  up,           \* m_cardUp and m_lwipUp, which are set together
  linkUp,       \* m_linkUp
  dhcp,         \* the interface's address: none ("off"), asked for, or supplied
  status,       \* m_status
  want,         \* m_wantReconnect
  autoReconnect, autoService, attached,
  rested,       \* 5 s have passed since m_lastReconnectMs
  inReconnect, inService, inDriverCmd,
  dns,          \* s_dns
  asked,        \* lwip's table: the names asked for, each with its token
  cache,        \* the names lwip has an address for
  lookups, joins,
  calledOff     \* history: disconnect() was called since the last begin(): "no",
                \* "alone", or "within" another call

guards == <<inReconnect, inService, inDriverCmd>>
settings == <<autoReconnect, autoService, attached>>
nameVars == <<dns, asked, cache, lookups>>
linkVars == <<up, linkUp, dhcp, status, want>>
vars == <<stack, linkVars, settings, rested, guards, nameVars, joins, calledOff>>

\* A call: which, where it is, whether it is inside a service pass of its own and
\* whether that polls the card, the guard's saved value, and a lookup's name and token.
Call(c, at) ==
  [call |-> c, at |-> at, pass |-> FALSE, polls |-> FALSE, saved |-> inDriverCmd,
   name |-> None, token |-> 0]

Init ==
  /\ stack = <<>> /\ up = FALSE /\ linkUp = FALSE /\ dhcp = "off" /\ status = "IDLE"
  /\ want = FALSE /\ autoReconnect = FALSE /\ autoService = TRUE /\ attached = FALSE
  /\ rested = TRUE /\ inReconnect = FALSE /\ inService = FALSE /\ inDriverCmd = FALSE
  /\ dns = [gen |-> 0, done |-> FALSE, ok |-> FALSE, addr |-> None, busy |-> FALSE]
  /\ asked = {} /\ cache = {} /\ lookups = 0 /\ joins = 0 /\ calledOff = "no"

-----------------------------------------------------------------------------
(* The stack.                                                              *)

Top == Last(stack)
Running(at) == stack # <<>> /\ ~Top.pass /\ Top.at = at

Push(c) == stack' = Append(stack, c)
Become(c) == stack' = Append(Front(stack), c)
Return == stack' = Front(stack)

\* Exchanges on the command port, each under a DriverCmd guard.
Commands == {"bringing", "joining", "leaving", "undoing", "scanning"}

\* Where the code delays: inside the driver and lwip, and in pumpUntil().
Yields(c) == c.pass \/ c.at \in Commands \cup {"asking", "waiting"}
MayDispatch == stack # <<>> /\ Yields(Top) /\ Len(stack) < MaxDepth

\* The sketch calls: from its loop, or from a responder.
MayCall(c) == stack = <<>> \/ (MayDispatch /\ c \in Responders)

-----------------------------------------------------------------------------
(* The guard of the command port.                                          *)

\* DriverCmd's constructor: call c starts the command at.
Enter(c, at) == [c EXCEPT !.at = at, !.saved = inDriverCmd]

\* Mutant: the guard is cleared, not the caller's again.
MutantRestored(c) == FALSE

\* DriverCmd's destructor: the flag is the caller's again.
Restored(c) == c.saved

\* The guard of one command is left and that of the next taken.
Follow(c, at) == [c EXCEPT !.at = at]

-----------------------------------------------------------------------------
(* The link.                                                               *)

\* linkDownAndAbort(), as far as the facade's own state goes.
LinkDown == dhcp' = "off" /\ linkUp' = FALSE

\* The end of an attempt that failed: begin() keeps trying if reconnection is on,
\* a retry keeps the diagnosis, and its rest starts.
AttemptFails(c) ==
  /\ Return
  /\ IF c.call = "begin"
     THEN /\ status' = "FAILED" /\ want' = TRUE /\ attached' = (attached \/ autoService)
          /\ UNCHANGED <<inReconnect, rested>>
     ELSE /\ status' = "LOST" /\ inReconnect' = FALSE /\ rested' = FALSE
          /\ UNCHANGED <<want, attached>>
  /\ UNCHANGED <<autoReconnect, autoService>>

AttemptSucceeds(c) ==
  /\ Return /\ status' = "CONNECTED" /\ want' = FALSE
  /\ IF c.call = "begin"
     THEN attached' = (attached \/ autoService) /\ UNCHANGED <<inReconnect, rested>>
     ELSE inReconnect' = FALSE /\ rested' = FALSE /\ UNCHANGED attached
  /\ UNCHANGED <<up, linkUp, dhcp, autoReconnect, autoService>>

\* begin() with its arguments in order.
Begin ==
  /\ MayCall("begin") /\ joins < MaxJoins
  /\ inDriverCmd' = TRUE /\ calledOff' = "no"
  /\ Push(Call("begin", IF linkUp THEN "leaving" ELSE IF up THEN "joining" ELSE "bringing"))
  /\ want' = (want /\ ~linkUp)
  /\ joins' = joins + 1
  /\ UNCHANGED <<up, linkUp, dhcp, status, settings, rested, inReconnect, inService, nameVars>>

\* begin() with a name or a key that is too long.
BeginRefused ==
  /\ MayCall("begin") /\ status' = "FAILED"
  /\ UNCHANGED <<stack, up, linkUp, dhcp, want, settings, rested, guards, nameVars, joins, calledOff>>

\* bringUpCard(): any of its steps fails ...
BringUpFails ==
  /\ Running("bringing") /\ Return /\ status' = "NO_SHIELD" /\ inDriverCmd' = Restored(Top)
  /\ UNCHANGED <<up, linkUp, dhcp, want, settings, rested, inReconnect, inService, nameVars,
                 joins, calledOff>>

\* ... or none does.
BringUpDone ==
  /\ Running("bringing") /\ up' = TRUE /\ Become(Follow(Top, "joining"))
  /\ UNCHANGED <<linkUp, dhcp, status, want, settings, rested, guards, nameVars, joins, calledOff>>

\* connectAndDhcp(): connectStation() returns.
JoinFails ==
  /\ Running("joining") /\ AttemptFails(Top) /\ inDriverCmd' = Restored(Top)
  /\ UNCHANGED <<up, linkUp, dhcp, inService, nameVars, joins, calledOff>>

Joined ==
  /\ Running("joining") /\ linkUp' = TRUE /\ dhcp' = "asking"
  /\ Become([Top EXCEPT !.at = "waiting"]) /\ inDriverCmd' = Restored(Top)
  /\ UNCHANGED <<up, status, want, settings, rested, inReconnect, inService, nameVars, joins, calledOff>>

\* No lease in time: the deauthentication is over.
Undone ==
  /\ Running("undoing") /\ LinkDown /\ AttemptFails(Top) /\ inDriverCmd' = Restored(Top)
  /\ UNCHANGED <<up, inService, nameVars, joins, calledOff>>

\* Mutant: nothing to do without a link, so nothing is done.
MutantDisconnect ==
  /\ MayCall("disconnect")
  /\ calledOff' = IF stack = <<>> THEN "alone" ELSE "within"
  /\ IF linkUp THEN Push(Call("disconnect", "leaving")) /\ inDriverCmd' = TRUE /\ want' = FALSE
     ELSE UNCHANGED <<stack, inDriverCmd, want>>
  /\ UNCHANGED <<up, linkUp, dhcp, status, settings, rested, inReconnect, inService, nameVars, joins>>

\* disconnect(), up to its deauthentication.
Disconnect ==
  /\ MayCall("disconnect")
  /\ want' = FALSE /\ calledOff' = IF stack = <<>> THEN "alone" ELSE "within"
  /\ IF linkUp THEN Push(Call("disconnect", "leaving")) /\ inDriverCmd' = TRUE
     ELSE UNCHANGED <<stack, inDriverCmd>>
  /\ UNCHANGED <<up, linkUp, dhcp, status, settings, rested, inReconnect, inService, nameVars, joins>>

\* The rest of disconnect(); a begin() that had to disconnect goes on.
Left ==
  /\ Running("leaving") /\ LinkDown /\ status' = "DISCONNECTED"
  /\ IF Top.call = "begin"
     THEN Become(Follow(Top, "joining")) /\ UNCHANGED inDriverCmd
     ELSE Return /\ inDriverCmd' = Restored(Top)
  /\ UNCHANGED <<up, want, settings, rested, inReconnect, inService, nameVars, joins, calledOff>>

\* scanNetworks().
Scan ==
  /\ MayCall("scan") /\ up /\ Push(Call("scan", "scanning")) /\ inDriverCmd' = TRUE
  /\ UNCHANGED <<linkVars, settings, rested, inReconnect, inService, nameVars, joins, calledOff>>

ScanDone ==
  /\ Running("scanning") /\ Return /\ inDriverCmd' = Restored(Top)
  /\ UNCHANGED <<linkVars, settings, rested, inReconnect, inService, nameVars, joins, calledOff>>

-----------------------------------------------------------------------------
(* The service pass.                                                       *)

\* Neither inside another pass nor during a command.
PassRefused == inService \/ inDriverCmd

\* servicePass() called by c: refused, c goes on; else c is inside it, and polls the
\* card if there is a link.
Passing(c) == IF PassRefused THEN c ELSE [c EXCEPT !.pass = TRUE, !.polls = up /\ linkUp]
Serviced == inService' = (inService \/ ~PassRefused)

\* What the card and lwip do in a pass: a lease comes or expires ...
LeaseChanges ==
  /\ stack # <<>> /\ Top.pass /\ up
  /\ \/ Top.polls /\ dhcp = "asking" /\ dhcp' = "bound"
     \/ dhcp = "bound" /\ dhcp' = "asking"
  /\ UNCHANGED <<stack, up, linkUp, status, want, settings, rested, guards, nameVars, joins, calledOff>>

\* Mutant: whatever lookup the answer is for.
MutantDnsFound(d, n, tokens, ok) ==
  IF tokens = {} THEN d
  ELSE [d EXCEPT !.done = TRUE, !.ok = ok, !.addr = IF ok THEN n ELSE @]

\* dnsFound(), called with each token registered for n: all but the live one are dropped.
DnsFound(d, n, tokens, ok) ==
  IF d.gen \notin tokens THEN d
  ELSE [d EXCEPT !.done = TRUE, !.ok = @ \/ ok, !.addr = IF ok THEN n ELSE @]

\* ... lwip has an answer for a name, or gives up on it ...
Resolved(n, ok) ==
  /\ stack # <<>> /\ Top.pass /\ up /\ (ok => Top.polls)
  /\ \E a \in asked : a.name = n
  /\ dns' = DnsFound(dns, n, {a.token : a \in {b \in asked : b.name = n}}, ok)
  /\ asked' = {a \in asked : a.name # n}
  /\ cache' = IF ok THEN cache \cup {n} ELSE cache
  /\ UNCHANGED <<stack, linkVars, settings, rested, guards, lookups, joins, calledOff>>

\* ... and the pass ends: of pumpUntil() (which looks at the clock next), of the pump, of loop().
AfterPass(c) == [c EXCEPT !.pass = FALSE, !.polls = FALSE, !.at = IF @ = "waiting" THEN "passed" ELSE "passing"]

PassEnds ==
  /\ stack # <<>> /\ Top.pass /\ inService' = FALSE /\ Become(AfterPass(Top))
  /\ UNCHANGED <<linkVars, settings, rested, inReconnect, inDriverCmd, nameVars, joins, calledOff>>

\* linkLost(): the poll found the link gone, or the bus dead.  What is left of the pass
\* are lwip's timers.
LinkLost ==
  /\ stack # <<>> /\ Top.pass /\ Top.polls
  /\ LinkDown /\ status' = "LOST" /\ want' = TRUE
  /\ Become([Top EXCEPT !.polls = FALSE])
  /\ UNCHANGED <<up, settings, rested, guards, nameVars, joins, calledOff>>

\* serviceEvent(), dispatched at a yield; with nothing under way it is the loop's own.
Pump ==
  /\ attached /\ (stack = <<>> \/ MayDispatch) /\ ~PassRefused
  /\ Push(Passing(Call("pump", "passing"))) /\ Serviced
  /\ UNCHANGED <<linkVars, settings, rested, inReconnect, inDriverCmd, nameVars, joins, calledOff>>

PumpDone ==
  /\ Running("passing") /\ Top.call = "pump" /\ Return
  /\ UNCHANGED <<linkVars, settings, rested, guards, nameVars, joins, calledOff>>

Loop ==
  /\ MayCall("loop") /\ Push(Passing(Call("loop", "passing"))) /\ Serviced
  /\ UNCHANGED <<linkVars, settings, rested, inReconnect, inDriverCmd, nameVars, joins, calledOff>>

-----------------------------------------------------------------------------
(* Reconnection.                                                           *)

\* What keeps maybeReconnect() from an attempt.
MayReconnect == autoReconnect /\ want /\ ~linkUp /\ up /\ ~inReconnect /\ rested

Reconnects ==
  /\ joins < MaxJoins /\ joins' = joins + 1
  /\ inReconnect' = TRUE /\ rested' = FALSE /\ inDriverCmd' = TRUE

\* The rest of loop().
LoopDone ==
  /\ Running("passing") /\ Top.call = "loop"
  /\ IF MayReconnect /\ joins < MaxJoins THEN Become(Enter(Top, "joining")) /\ Reconnects
     ELSE Return /\ UNCHANGED <<inReconnect, rested, inDriverCmd, joins>>
  /\ UNCHANGED <<linkVars, settings, inService, nameVars, calledOff>>

\* status(), when it does more than return m_status.
Status ==
  /\ MayCall("status") /\ MayReconnect
  /\ Push(Call("status", "joining")) /\ Reconnects
  /\ UNCHANGED <<linkVars, settings, inService, nameVars, calledOff>>

\* 5 s pass.
Rest ==
  /\ ~rested /\ rested' = TRUE
  /\ UNCHANGED <<stack, linkVars, settings, guards, nameVars, joins, calledOff>>

SetAutoReconnect ==
  /\ stack = <<>> /\ autoReconnect' = ~autoReconnect
  /\ UNCHANGED <<stack, linkVars, autoService, attached, rested, guards, nameVars, joins, calledOff>>

SetAutoService ==
  /\ stack = <<>> /\ autoService' = ~autoService /\ attached' = (up /\ autoService')
  /\ UNCHANGED <<stack, linkVars, autoReconnect, rested, guards, nameVars, joins, calledOff>>

-----------------------------------------------------------------------------
(* Lookups.                                                                *)

NextToken == dns.gen + 1

\* hostByName() of a name, up to lwip's own work; a second lookup inside one fails.
Lookup(n) ==
  /\ MayCall("lookup") /\ up /\ linkUp /\ ~dns.busy /\ n \notin cache /\ lookups < MaxLookups
  /\ Push([Call("lookup", "asking") EXCEPT !.name = n, !.token = NextToken])
  /\ dns' = [dns EXCEPT !.gen = NextToken, !.done = FALSE, !.ok = FALSE, !.busy = TRUE]
  /\ asked' = asked \cup {[name |-> n, token |-> NextToken]}
  /\ lookups' = lookups + 1
  /\ UNCHANGED <<linkVars, settings, rested, guards, cache, joins, calledOff>>

\* An address that lwip has, or a refusal of lwip's: no callback is registered.
LookupAtOnce ==
  /\ MayCall("lookup") /\ up /\ linkUp /\ ~dns.busy /\ lookups < MaxLookups
  /\ dns' = [dns EXCEPT !.gen = NextToken + 1, !.done = FALSE, !.ok = FALSE]
  /\ lookups' = lookups + 1
  /\ UNCHANGED <<stack, linkVars, settings, rested, guards, asked, cache, joins, calledOff>>

\* lwip has sent the query.
Asked ==
  /\ Running("asking") /\ Become([Top EXCEPT !.at = "waiting"])
  /\ UNCHANGED <<linkVars, settings, rested, guards, nameVars, joins, calledOff>>

\* hostByName() returns, with an answer or without: its token is retired.
LookupEnds(c) ==
  /\ Return /\ dns' = [dns EXCEPT !.gen = c.token + 1, !.busy = FALSE]
  /\ UNCHANGED <<linkVars, settings, rested, guards, asked, cache, lookups, joins, calledOff>>

-----------------------------------------------------------------------------
(* pumpUntil(), of a lookup and of an attempt.                             *)

Satisfied(c) == IF c.call = "lookup" THEN dns.done ELSE dhcp = "bound"

WaitPass ==
  /\ Running("waiting") /\ ~Satisfied(Top)
  /\ Become(IF PassRefused THEN [Top EXCEPT !.at = "passed"] ELSE Passing(Top)) /\ Serviced
  /\ UNCHANGED <<linkVars, settings, rested, inReconnect, inDriverCmd, nameVars, joins, calledOff>>

WaitEnds ==
  /\ Running("waiting") /\ Satisfied(Top)
  /\ IF Top.call = "lookup" THEN LookupEnds(Top)
     ELSE AttemptSucceeds(Top) /\ UNCHANGED <<inService, inDriverCmd, nameVars, joins, calledOff>>

\* The clock, read after the pass: time is left, or not.
WaitOn ==
  /\ Running("passed") /\ Become([Top EXCEPT !.at = "waiting"])
  /\ UNCHANGED <<linkVars, settings, rested, guards, nameVars, joins, calledOff>>

WaitTimesOut ==
  /\ Running("passed")
  /\ IF Top.call = "lookup" THEN LookupEnds(Top)
     ELSE /\ Become(Enter(Top, "undoing")) /\ inDriverCmd' = TRUE
          /\ UNCHANGED <<linkVars, settings, rested, inReconnect, inService, nameVars, joins, calledOff>>

Next ==
  \/ Begin \/ BeginRefused \/ BringUpFails \/ BringUpDone \/ JoinFails \/ Joined \/ Undone
  \/ Disconnect \/ Left \/ Scan \/ ScanDone
  \/ LeaseChanges \/ (\E n \in Names, ok \in BOOLEAN : Resolved(n, ok)) \/ PassEnds \/ LinkLost
  \/ Pump \/ PumpDone \/ Loop \/ LoopDone \/ Status \/ Rest \/ SetAutoReconnect \/ SetAutoService
  \/ (\E n \in Names : Lookup(n)) \/ LookupAtOnce \/ Asked
  \/ WaitPass \/ WaitEnds \/ WaitOn \/ WaitTimesOut

Spec == Init /\ [][Next]_vars

-----------------------------------------------------------------------------
(* Properties.                                                             *)

Ats == Commands \cup {"asking", "waiting", "passed", "passing"}
Tokens == 0..2 * MaxLookups

\* Every variable keeps its type, every call a place in the code, and the pump is attached
\* only while it is wanted and there is something to service.
TypeOK ==
  /\ \A i \in DOMAIN stack :
       stack[i] \in [call : Calls \cup {"pump"}, at : Ats, pass : BOOLEAN, polls : BOOLEAN,
                     saved : BOOLEAN, name : Names \cup {None}, token : Tokens]
  /\ Len(stack) <= MaxDepth
  /\ {up, linkUp, want, autoReconnect, autoService, attached, rested, inReconnect, inService,
      inDriverCmd} \subseteq BOOLEAN
  /\ attached => up /\ autoService
  /\ dhcp \in {"off", "asking", "bound"}
  /\ status \in {"IDLE", "FAILED", "CONNECTED", "LOST", "DISCONNECTED", "NO_SHIELD"}
  /\ dns \in [gen : Tokens, done : BOOLEAN, ok : BOOLEAN, addr : Names \cup {None}, busy : BOOLEAN]
  /\ asked \subseteq [name : Names, token : Tokens] /\ cache \subseteq Names
  /\ lookups \in 0..MaxLookups /\ joins \in 0..MaxJoins /\ calledOff \in {"no", "alone", "within"}

\* servicePass() runs neither inside another pass nor while a command waits for its reply
\* anywhere below it.
PassesAlone ==
  \A i, j \in DOMAIN stack : i < j /\ stack[j].pass => ~stack[i].pass /\ stack[i].at \notin Commands

Attempt(c) == c.call \in {"loop", "status"} /\ c.at \in {"joining", "waiting", "passed", "undoing"}

\* Each guard is set just as long as what it guards is under way, whatever call, failure or
\* responder came in between: none opens early, so that no pass steals a command's reply,
\* and none is left behind.
GuardsHeld ==
  /\ PassesAlone
  /\ inService <=> \E i \in DOMAIN stack : stack[i].pass
  /\ inDriverCmd <=> \E i \in DOMAIN stack : stack[i].at \in Commands
  /\ inReconnect <=> \E i \in DOMAIN stack : Attempt(stack[i])
  /\ dns.busy <=> \E i \in DOMAIN stack : stack[i].call = "lookup"

\* hostByName() returns the address of the name it was asked for: what lwip has to say of
\* a lookup that was given up is never taken for the answer to a later one.
AnswerIsForItsName ==
  \A i \in DOMAIN stack : stack[i].call = "lookup" /\ dns.done =>
    /\ dns.ok => dns.addr = stack[i].name
    /\ [name |-> stack[i].name, token |-> stack[i].token] \notin asked

\* The status and the link agree: never connected without a link, and no link left standing
\* behind a status that says it is gone.
StatusTellsTheLink ==
  /\ status = "CONNECTED" => linkUp
  /\ stack = <<>> /\ status \in {"LOST", "DISCONNECTED", "NO_SHIELD"} => ~linkUp

\* Every flag of the facade says what is the case, however calls nest and fail.
FlagsTrue == TypeOK /\ GuardsHeld /\ StatusTellsTheLink

\* disconnect() cancels reconnection: after it no retry starts before the next begin().
DisconnectHolds ==
  [][calledOff = "alone" /\ ~inReconnect => ~inReconnect']_vars

=============================================================================
