------------------------------- MODULE BtLink -------------------------------
(***************************************************************************)
(* BtLink: the engine that runs one operation at a time (prepare, inquiry, *)
(* page, pair, disconnect) over the HCI command queue, one step per tick() *)
(* of the main loop, while events from the controller arrive between ticks *)
(* and are handled at once.  Below it the queue of Hci and the controller, *)
(* with the peers on the air.                                              *)
(*                                                                         *)
(* A link is named by its peer: the controller has at most one to each.    *)
(* A deadline may pass at any time after it was set.  Names, keys, page    *)
(* parameters and log lines are left out; an inquiry's hits are counted.   *)
(***************************************************************************)
EXTENDS Integers, FiniteSets, Sequences, Links

CONSTANTS
  Stored,        \* the peers with a bond in the EEPROM at boot
  Depth,         \* Hci's QUEUE_DEPTH
  SetupSteps,    \* commands of PREPARE: 3 to 5, as an identity is set or not
  MaxHits,       \* MAX_HITS of an inquiry
  PageAttempts,  \* PAGE_ATTEMPTS
  AcceptUnknown, \* acceptUnknown()
  Supervision,   \* whether setSupervisionSlots() was called
  MaxStarts,     \* bound: pages, inquiries and prepares started
  MaxMoves       \* bound: calls of peers, drops, role swaps and failed commands

ASSUME BtLinkAssumption ==
  /\ None \notin Peers /\ Stored \subseteq Peers /\ Depth \in Nat \ {0} /\ SetupSteps \in Nat \ {0}
  /\ MaxHits \in Nat /\ PageAttempts \in Nat \ {0} /\ MaxStarts \in Nat /\ MaxMoves \in Nat
  /\ {AcceptUnknown, Supervision} \subseteq BOOLEAN

VARIABLES
  attempt,  \* the attempt of A2dpSource or A2dpSink, as far as BtLink sees it
  eng,      \* m_op, m_sub, and a counter: the setup step, the attempt, or the hit
  result,   \* m_result: OK, or FAILED for every other
  slot,     \* m_cmdBusy, and the last reply: which command's (of), and m_cmdErr
  lk,       \* the link as the host sees it; conn is m_connStatus, none until m_connDone
  au,       \* its security: m_authStatus and m_encrypted, none until m_authDone and m_encDone
  pageScan, \* m_wantScan and m_haveScan (page and inquiry scan as one)
  bonded,   \* the addresses in m_bonds
  cmds,     \* Hci's queue; the first is at the controller
  evq,      \* what the controller has sent, not yet read
  air,      \* the controller's links, pages, calls and page scan
  forgot,   \* peers that have lost the key in bonded
  astray,   \* links the controller had when the host let go of them, or did not expect them
  fuel

hostVars == <<eng, result, slot, lk, au, pageScan, bonded>>
airVars  == <<air, forgot, fuel>>
engineVars == <<hostVars, cmds, evq, airVars, astray, attempt>>

\* The steps that inspect a reply, and the command each has issued.
StatusOf ==
  [inq_status |-> "INQUIRY", name_status |-> "NAME", page_status |-> "CREATE",
   auth_status |-> "AUTH", fresh_status |-> "AUTH", pin_status |-> "AUTH",
   enc_status |-> "ENC", disc_status |-> "DISC"]
StatusCommands == {StatusOf[x] : x \in DOMAIN StatusOf}
Idle == [op |-> "NONE", sub |-> "", n |-> 0, inbound |-> FALSE]

EngineInit ==
  /\ attempt = "NONE" /\ eng = Idle /\ result = "OK"
  /\ slot = [busy |-> FALSE, of |-> "", err |-> FALSE]
  /\ lk = [bd |-> None, handle |-> None, st |-> "NONE", incoming |-> FALSE, role |-> "master",
           inboundUp |-> FALSE, supDone |-> FALSE, conn |-> "none", discDone |-> FALSE]
  /\ au = [auth |-> "none", offered |-> FALSE, enc |-> "none"]
  /\ pageScan = [want |-> FALSE, have |-> FALSE]
  /\ bonded = Stored
  /\ cmds = <<>> /\ evq = <<>>
  /\ air = [up |-> {}, page |-> {}, asked |-> {}, accepted |-> {}, slave |-> {}, quiet |-> {},
            enc |-> {}, auth |-> None, scan |-> FALSE]
  /\ forgot \in SUBSET bonded /\ astray = {} /\ fuel = [starts |-> MaxStarts, moves |-> MaxMoves]

Room == Len(cmds) < Depth
LinkUp == IsUp(lk)

\* A session wants page scan while no link is up (BtSession.cpp:131-133, BtSinkSession.cpp:112-121).
Listening(l, b) == ~IsUp(l) /\ (b # {} \/ AcceptUnknown)

\* m_hci.submit(): the answer of an event handler is lost when the queue is full.
Submit(c, p) ==
  cmds' = IF Room THEN Append(cmds, [c |-> c, p |-> p, own |-> FALSE]) ELSE cmds

\* issue(), when the queue has room.
Issue(c, p) ==
  /\ Room
  /\ cmds' = Append(cmds, [c |-> c, p |-> p, own |-> TRUE])
  /\ slot' = [slot EXCEPT !.busy = TRUE, !.err = FALSE]

\* One of the steps that are bounded.
Burn(k) == fuel[k] > 0 /\ fuel' = [fuel EXCEPT ![k] = @ - 1]

-----------------------------------------------------------------------------
(* What A2dpSource and A2dpSink call.  'attempt' is the one they run, by    *)
(* the operation it has come to.  An attempt pages and then pairs, or pairs *)
(* a link that was accepted; it ends without a link, and disconnects the    *)
(* link it has when it fails or is stopped (A2dpSource.cpp:86-103, 161-164).*)

Start(op, sub, n, inbound) ==
  /\ eng.op = "NONE"
  /\ eng' = [op |-> op, sub |-> sub, n |-> n, inbound |-> inbound]
  /\ UNCHANGED <<result, slot, pageScan, bonded, cmds, evq, air, forgot>>

StartPrepare ==
  /\ Burn("starts") /\ attempt = "NONE"
  /\ Start("PREPARE", "setup", 0, FALSE) /\ UNCHANGED <<lk, au, astray, attempt>>
StartInquiry ==
  /\ Burn("starts") /\ attempt = "NONE" /\ attempt' = "INQUIRY"
  /\ Start("INQUIRY", "issue", 0, FALSE) /\ UNCHANGED <<lk, au, astray>>

\* startPage(): the handle of a link accepted meanwhile is forgotten.
StartPage(p) ==
  /\ \/ attempt = "NONE" /\ Burn("starts")
     \/ attempt = "INQUIRY" /\ result = "OK" /\ UNCHANGED fuel
  /\ Start("PAGE", "issue", 1, FALSE) /\ attempt' = "PAGE"
  /\ lk' = [lk EXCEPT !.bd = p, !.handle = None]
  /\ au' = [au EXCEPT !.offered = FALSE]
  /\ astray' = astray \cup ({lk.handle} \ {None})

\* startPair(), for the link paged, or for one accepted, whose flag is acknowledged.
StartPair(inbound) ==
  /\ \/ ~inbound /\ attempt = "PAGE" /\ result = "OK" /\ UNCHANGED lk
     \/ inbound /\ attempt = "NONE" /\ lk.inboundUp /\ lk' = [lk EXCEPT !.inboundUp = FALSE]
  /\ Start("PAIR", "enter", 0, inbound) /\ attempt' = "PAIR"
  /\ UNCHANGED <<au, astray, fuel>>

StartDisconnect ==
  /\ attempt # "NONE" /\ lk.handle # None
  /\ Start("DISCONNECT", "issue", 0, FALSE) /\ attempt' = "DISCONNECT"
  /\ UNCHANGED <<lk, au, astray, fuel>>

AttemptEnds ==
  /\ attempt # "NONE" /\ eng.op = "NONE" /\ lk.handle = None /\ attempt' = "NONE"
  /\ UNCHANGED <<eng, result, slot, lk, au, pageScan, bonded, cmds, evq, airVars, astray>>

\* wantPageScan() ends each tick of a session, here one in which nothing else happens.
WantScan ==
  /\ pageScan.want # Listening(lk, bonded)
  /\ pageScan' = [pageScan EXCEPT !.want = Listening(lk, bonded)]
  /\ UNCHANGED <<eng, result, slot, lk, au, bonded, cmds, evq, airVars, astray, attempt>>

\* ackLost(), by an attempt that has lost its link or by the next one.
AckLost ==
  /\ lk.st = "LOST" /\ lk' = [lk EXCEPT !.st = "NONE"]
  /\ UNCHANGED <<eng, result, slot, au, pageScan, bonded, cmds, evq, airVars, astray, attempt>>

-----------------------------------------------------------------------------
(* tick(): the scan side channel first, then one step of the operation.     *)

WantsSupervision == Supervision /\ ~lk.supDone /\ LinkUp /\ lk.role = "master"
WantsSide == pageScan.want # pageScan.have \/ WantsSupervision

\* reconcileScan() issues a command.  The operation waits for it.
ReconcileScan ==
  /\ ~slot.busy /\ WantsSide
  /\ IF pageScan.want # pageScan.have
     THEN /\ Issue(IF pageScan.want THEN "SCAN_ON" ELSE "SCAN_OFF", None) /\ UNCHANGED lk
          /\ pageScan' = [have |-> pageScan.want, want |-> Listening(lk, bonded)]
     ELSE /\ Issue("SUPERVISION", None) /\ lk' = [lk EXCEPT !.supDone = TRUE]
          /\ pageScan' = [pageScan EXCEPT !.want = Listening(lk, bonded)]
  /\ UNCHANGED <<eng, result, au, bonded, evq, airVars, astray, attempt>>

\* The operation's turn.  A side command that found no room has still written m_cmdErr.
Turn(op, sub) ==
  /\ eng.op = op /\ eng.sub = sub /\ ~slot.busy /\ ~(WantsSide /\ Room)
  /\ UNCHANGED <<evq, airVars, attempt>>
Reply == IF WantsSide THEN [of |-> "SIDE", err |-> TRUE] ELSE [of |-> slot.of, err |-> slot.err]

\* A status step: m_cmdErr is OK and the reply is a Command Status.
StatusOk == ~Reply.err /\ Reply.of \in StatusCommands

Go(sub) == eng' = [eng EXCEPT !.sub = sub] /\ UNCHANGED result

\* m_deadline has passed: at any time after it was set.
StepExpired == TRUE
Finish(r) == eng' = Idle /\ result' = r

Send(c, p, sub) ==
  /\ Issue(c, p) /\ Go(sub)
  /\ UNCHANGED <<bonded, astray>>

\* A step that issues nothing.  A reply, once inspected, is not read again.
Quiet ==
  /\ slot' = IF eng.sub \in DOMAIN StatusOf THEN [slot EXCEPT !.of = "", !.err = FALSE] ELSE slot
  /\ UNCHANGED cmds

Prepare ==
  /\ Turn("PREPARE", "setup")
  /\ IF eng.n < SetupSteps
     THEN /\ Issue("SETUP", None)
          /\ eng' = [eng EXCEPT !.n = @ + 1] /\ UNCHANGED result
     ELSE Finish("OK") /\ Quiet
  /\ UNCHANGED <<bonded, astray, lk, au>>

NextHit == eng' = [eng EXCEPT !.sub = "name", !.n = @ + 1] /\ UNCHANGED result

\* eng.n counts the hits; an inquiry finds between none and MaxHits of them.
Inquiry ==
  /\ \/ Turn("INQUIRY", "issue") /\ Send("INQUIRY", None, "inq_status")
     \/ /\ Turn("INQUIRY", "inq_status")
        /\ IF StatusOk THEN Go("wait") ELSE Finish("FAILED")
        /\ Quiet
     \/ Turn("INQUIRY", "wait") /\ StepExpired /\ Go("name") /\ Quiet
     \/ Turn("INQUIRY", "name") /\ eng.n < MaxHits /\ Send("NAME", None, "name_status")
     \/ /\ Turn("INQUIRY", "name_status")
        /\ IF Reply.err THEN NextHit ELSE Go("name_wait")
        /\ Quiet
     \/ Turn("INQUIRY", "name_wait") /\ StepExpired /\ NextHit /\ Quiet
     \/ Turn("INQUIRY", "name") /\ Go("choose") /\ Quiet
     \/ Turn("INQUIRY", "choose") /\ eng.n > 0 /\ Finish("OK") /\ Quiet
     \/ Turn("INQUIRY", "choose") /\ Finish("FAILED") /\ Quiet
  /\ UNCHANGED <<lk, au, bonded, astray>>

\* m_attempt < m_attempts.
AttemptsLeft == eng.n < PageAttempts
Retry == eng' = [eng EXCEPT !.sub = "issue", !.n = @ + 1] /\ UNCHANGED result

Page ==
  /\ \/ /\ Turn("PAGE", "issue")
        /\ Send("CREATE", lk.bd, "page_status")
        /\ lk' = [lk EXCEPT !.conn = "none"]
     \/ /\ Turn("PAGE", "page_status")
        /\ IF StatusOk THEN Go("wait") ELSE Finish("FAILED")
        /\ Quiet /\ UNCHANGED <<bonded, astray, lk>>
     \/ /\ Turn("PAGE", "wait") /\ lk.conn # "none"
        /\ Go("evaluate") /\ Quiet /\ UNCHANGED <<bonded, astray, lk>>
     \/ /\ Turn("PAGE", "wait") /\ lk.conn = "none" /\ StepExpired
        /\ Issue("CANCEL", lk.bd) /\ Go("cancelled") /\ UNCHANGED <<bonded, astray, lk>>
     \/ /\ Turn("PAGE", "cancelled") /\ (lk.conn # "none" \/ StepExpired)
        /\ CASE lk.conn = "ok" -> Finish("OK")
             [] ~AttemptsLeft -> Finish("FAILED")
             [] OTHER -> Retry
        /\ Quiet /\ UNCHANGED <<bonded, astray, lk>>
     \/ /\ Turn("PAGE", "evaluate")
        /\ CASE lk.conn = "ok" -> Finish("OK")
             [] lk.conn = "timeout" /\ AttemptsLeft -> Retry
             [] OTHER -> Finish("FAILED")
        /\ Quiet /\ UNCHANGED <<bonded, astray, lk>>
  /\ UNCHANGED au

\* The flags of a fresh authentication.
FreshAuth == [au EXCEPT !.auth = "none", !.offered = FALSE]

\* The status step of an Authentication_Requested or a Set_Connection_Encryption.
PairStatus(sub, next, failure) ==
  /\ Turn("PAIR", sub)
  /\ IF StatusOk THEN Go(next) ELSE Finish(failure)
  /\ Quiet /\ UNCHANGED <<au, bonded>>

\* Mutant: every failed authentication with a stored key erases the bond.
MutantRejected == au.auth \in {"reject", "other"}

\* The peer holds no matching key: 0x05, 0x06 or 0x24.
Rejected == au.auth = "reject"

\* The end of the first authentication: what the stored key led to.
PairOutcome ==
  /\ Turn("PAIR", "auth_wait") /\ (au.auth # "none" \/ StepExpired)
  /\ CASE ~au.offered -> Go("post") /\ UNCHANGED <<au, bonded>>
       [] au.offered /\ au.auth = "ok" -> Go("post") /\ UNCHANGED <<au, bonded>>
       [] au.offered /\ Rejected ->
            Go("fresh_issue") /\ bonded' = bonded \ {lk.bd} /\ au' = FreshAuth
       [] OTHER -> Finish("FAILED") /\ UNCHANGED <<au, bonded>>
  /\ Quiet

Secured == au.enc = "on"

Pair ==
  /\ \/ /\ Turn("PAIR", "enter")
        /\ IF eng.inbound THEN Go("peer") /\ UNCHANGED au
           ELSE Go("auth_issue") /\ au' = FreshAuth
        /\ Quiet /\ UNCHANGED bonded
     \/ /\ Turn("PAIR", "peer") /\ (Secured \/ StepExpired)
        /\ IF Secured THEN Finish("OK") /\ UNCHANGED au ELSE Go("auth_issue") /\ au' = FreshAuth
        /\ Quiet /\ UNCHANGED bonded
     \/ Turn("PAIR", "auth_issue") /\ Send("AUTH", lk.handle, "auth_status") /\ UNCHANGED au
     \/ PairStatus("auth_status", "auth_wait", "FAILED")
     \/ PairOutcome
     \/ Turn("PAIR", "fresh_issue") /\ Send("AUTH", lk.handle, "fresh_status") /\ UNCHANGED au
     \/ PairStatus("fresh_status", "fresh_wait", "FAILED")
     \/ /\ Turn("PAIR", "fresh_wait") /\ (au.auth # "none" \/ StepExpired)
        /\ Go("post") /\ Quiet /\ UNCHANGED <<au, bonded>>
     \/ /\ Turn("PAIR", "post")
        /\ Go(IF au.auth = "ok" THEN "enc_issue" ELSE "ssp_issue")
        /\ Quiet /\ UNCHANGED <<au, bonded>>
     \/ Turn("PAIR", "ssp_issue") /\ Send("SETUP", None, "pin_issue") /\ UNCHANGED au
     \/ Turn("PAIR", "pin_issue") /\ Send("AUTH", lk.handle, "pin_status") /\ au' = FreshAuth
     \/ PairStatus("pin_status", "pin_wait", "FAILED")
     \/ /\ Turn("PAIR", "pin_wait") /\ (au.auth # "none" \/ StepExpired)
        /\ IF au.auth = "ok" THEN Go("enc_issue") ELSE Finish("FAILED")
        /\ Quiet /\ UNCHANGED <<au, bonded>>
     \/ /\ Turn("PAIR", "enc_issue")
        /\ Send("ENC", lk.handle, "enc_status")
        /\ au' = [au EXCEPT !.enc = "none"]
     \/ PairStatus("enc_status", "enc_wait", "FAILED")
     \/ /\ Turn("PAIR", "enc_wait") /\ (au.enc # "none" \/ StepExpired)
        /\ Finish(IF Secured THEN "OK" ELSE "FAILED")
        /\ Quiet /\ UNCHANGED <<au, bonded>>
  /\ UNCHANGED <<lk, astray>>

\* m_encrypted is cleared.
NotEncrypted == [au EXCEPT !.enc = IF @ = "on" THEN "off" ELSE @]

\* The host lets go of its handle, whether or not the controller has.
LetGo ==
  /\ lk' = [lk EXCEPT !.handle = None] /\ au' = NotEncrypted
  /\ astray' = astray \cup (air.up \cap {lk.bd})

OpDisconnect ==
  /\ \/ /\ Turn("DISCONNECT", "issue") /\ lk.handle = None
        /\ Finish("OK") /\ Quiet /\ UNCHANGED <<lk, au, astray, bonded>>
     \/ /\ Turn("DISCONNECT", "issue") /\ lk.handle # None
        /\ Send("DISC", lk.handle, "disc_status")
        /\ lk' = [lk EXCEPT !.discDone = FALSE] /\ UNCHANGED au
     \/ /\ Turn("DISCONNECT", "disc_status") /\ StatusOk
        /\ Go("wait") /\ Quiet /\ UNCHANGED <<lk, au, astray, bonded>>
     \/ /\ Turn("DISCONNECT", "disc_status") /\ ~StatusOk
        /\ LetGo /\ Finish("FAILED") /\ Quiet /\ UNCHANGED bonded
     \/ /\ Turn("DISCONNECT", "wait") /\ (lk.discDone \/ StepExpired)
        /\ LetGo /\ Finish(IF lk.discDone THEN "OK" ELSE "FAILED")
        /\ Quiet /\ UNCHANGED bonded

OpStep ==
  /\ Prepare \/ Inquiry \/ Page \/ Pair \/ OpDisconnect
  /\ pageScan' = [pageScan EXCEPT !.want = Listening(lk', bonded')]

-----------------------------------------------------------------------------
(* onEvent() and cmdDone(), from inside Hci::service(): one event each.     *)

Ev(e, p, v) == [e |-> e, p |-> p, v |-> v]

\* A status step will read the reply; one that nothing reads is not kept.
Awaited == eng.sub \in DOMAIN StatusOf

\* cmdDone(), and Hci retiring the command.
CommandDone(v) ==
  /\ cmds' = Tail(cmds)
  /\ slot' = IF Head(cmds).own
             THEN [busy |-> FALSE, of |-> IF Awaited THEN Head(cmds).c ELSE "",
                   err |-> Awaited /\ v = "err"]
             ELSE slot
  /\ UNCHANGED <<lk, au, bonded, astray>>

\* Mutant: the address of a Connection_Complete is not compared.
MutantOurs(p) == TRUE

\* The event is about the peer the engine deals with (memcmp with m_bd).
Ours(p) == p = lk.bd
Paging == eng.op = "PAGE"

\* Only a page reads the status, and it has reset it before.
ConnectionComplete(p, v) ==
  LET seen == [lk EXCEPT !.conn = IF Paging THEN v ELSE @]
  IN /\ lk' = IF ~Ours(p) THEN lk
              ELSE IF v # "ok" THEN seen
              ELSE [seen EXCEPT !.handle = p, !.st = "UP", !.supDone = FALSE,
                                !.role = IF lk.incoming THEN "slave" ELSE "master",
                                !.inboundUp = @ \/ ~Paging]
     /\ astray' = IF v = "ok" /\ (~Ours(p) \/ eng.op = "PAIR") THEN astray \cup {p} ELSE astray
     /\ UNCHANGED <<slot, au, bonded, cmds>>

\* Mutant: a request is refused as busy only when the link is encrypted.
MutantRefused(p) ==
  \/ lk.st = "SECURE"
  \/ Paging /\ p # lk.bd
  \/ p \notin bonded /\ ~AcceptUnknown

\* A link is up, we are paging another peer, or it is a stranger.
Refused(p) ==
  \/ LinkUp
  \/ Paging /\ p # lk.bd
  \/ p \notin bonded /\ ~AcceptUnknown

\* The answer is submitted at once; the address changes before the link is there.
ConnectionRequest(p) ==
  /\ Submit(IF Refused(p) THEN "REJECT" ELSE "ACCEPT", p)
  /\ IF Refused(p) \/ Paging THEN UNCHANGED <<lk, au>>
     ELSE /\ lk' = [lk EXCEPT !.bd = p, !.incoming = TRUE]
          /\ au' = [au EXCEPT !.offered = FALSE]
  /\ UNCHANGED <<slot, bonded, astray>>

RoleChange(p, v) ==
  /\ lk' = IF p = lk.bd THEN [lk EXCEPT !.role = v] ELSE lk
  /\ UNCHANGED <<slot, au, bonded, cmds, astray>>

\* Mutant: the end of a link leaves m_encrypted as it was.
MutantLinkOver == au

\* What the end of the link does to its security.
LinkOver == NotEncrypted

\* The event carries our handle.
OurHandle(p) == p = lk.handle

\* Only a disconnect reads m_discDone, and it has reset it before.
Disconnection(p) ==
  /\ IF OurHandle(p)
     THEN /\ lk' = [lk EXCEPT !.handle = None, !.st = "LOST",
                              !.discDone = eng.op = "DISCONNECT"]
          /\ au' = LinkOver
     ELSE UNCHANGED <<lk, au>>
  /\ UNCHANGED <<slot, bonded, cmds, astray>>

\* Link_Key_Request, answered from the bond table.
KeyRequest(p) ==
  /\ au' = [au EXCEPT !.offered = @ \/ (p \in bonded /\ p = lk.bd)]
  /\ Submit("ANSWER", p)
  /\ UNCHANGED <<slot, lk, bonded, astray>>

\* Link_Key_Notification.
LinkKeyNotification(p) ==
  /\ bonded' = bonded \cup {p} /\ forgot' = forgot \ {p}
  /\ UNCHANGED <<slot, lk, au, cmds, astray>>

\* Authentication_Complete and Encryption_Change do not look at the handle.
AuthenticationComplete(v) ==
  /\ au' = [au EXCEPT !.auth = v]
  /\ UNCHANGED <<slot, lk, bonded, cmds, astray>>

EncryptionChange(v) ==
  /\ au' = [au EXCEPT !.enc = v]
  /\ lk' = [lk EXCEPT !.st = IF v = "on" THEN "SECURE" ELSE @]
  /\ UNCHANGED <<slot, bonded, cmds, astray>>

Other(ev) ==
  /\ \/ ev.e = "REPLY" /\ CommandDone(ev.v)
     \/ ev.e = "CONN" /\ ConnectionComplete(ev.p, ev.v)
     \/ ev.e = "REQ" /\ ConnectionRequest(ev.p)
     \/ ev.e = "ROLE" /\ RoleChange(ev.p, ev.v)
     \/ ev.e = "DISC" /\ Disconnection(ev.p)
     \/ ev.e = "KEYREQ" /\ KeyRequest(ev.p)
     \/ ev.e = "AUTH" /\ AuthenticationComplete(ev.v)
     \/ ev.e = "ENC" /\ EncryptionChange(ev.v)
  /\ UNCHANGED forgot

Handle(ev) ==
  /\ (ev.e = "NEWKEY" /\ LinkKeyNotification(ev.p)) \/ Other(ev)
  /\ UNCHANGED <<eng, result, pageScan, attempt>>

\* The next event of the last step of the controller.
OnEvent ==
  /\ evq # <<>> /\ Handle(Head(evq)) /\ evq' = Tail(evq)
  /\ UNCHANGED <<air, fuel>>

-----------------------------------------------------------------------------
(* The controller and the peers.                                            *)

\* The host reads the first of the events a step sends with the step, the others later:
\* what the controller does before that event is read could as well wait until then.
Tell(events) == evq = <<>> /\ Handle(Head(events)) /\ evq' = Tail(events)
Known(p) == p \in air.up \cup air.asked \cup air.accepted

\* The ends of a link, and what the host is told.
Dropped(p) ==
  [air EXCEPT !.up = @ \ {p}, !.slave = @ \ {p}, !.quiet = @ \ {p}, !.enc = @ \ {p},
              !.auth = IF @ = p THEN None ELSE @]
DropEvents(p) ==
  (IF air.auth = p THEN <<Ev("AUTH", p, "other")>> ELSE <<>>) \o <<Ev("DISC", p, "other")>>
Linked(a, p) ==
  [a EXCEPT !.up = @ \cup {p}, !.quiet = @ \cup {p}, !.page = @ \ {p},
            !.asked = @ \ {p}, !.accepted = @ \ {p}]

If(c, r) == IF c THEN {r} ELSE {}
Effect(a, events) == [air |-> a, events |-> events]

\* What a command may do on the air, and the events that follow its reply; nothing, when
\* the link or the call it names is not there.
Effects(c, p) ==
  CASE c = "CREATE" -> If(~Known(p) /\ air.page = {}, Effect([air EXCEPT !.page = {p}], <<>>))
    [] c = "CANCEL" ->
         If(p \in air.page, Effect([air EXCEPT !.page = {}], <<Ev("CONN", p, "other")>>))
    [] c = "ACCEPT" ->
         If(p \in air.asked,
            Effect([air EXCEPT !.asked = @ \ {p}, !.accepted = @ \cup {p}], <<>>))
    [] c = "REJECT" ->
         If(p \in air.asked,
            Effect([air EXCEPT !.asked = @ \ {p}], <<Ev("CONN", p, "other")>>))
    [] c = "AUTH" ->
         If(p \in air.up /\ air.auth = None,
            Effect([air EXCEPT !.auth = p, !.quiet = @ \ {p}], <<Ev("KEYREQ", p, "")>>))
    [] c = "ENC" ->
         If(p \in air.up, Effect([air EXCEPT !.enc = @ \cup {p}], <<Ev("ENC", p, "on")>>))
         \cup If(p \in air.up, Effect(air, <<Ev("ENC", p, "off")>>))
    [] c = "DISC" -> If(p \in air.up, Effect(Dropped(p), DropEvents(p)))
    [] c \in {"SCAN_ON", "SCAN_OFF"} -> {Effect([air EXCEPT !.scan = c = "SCAN_ON"], <<>>)}
    [] OTHER -> {Effect(air, <<>>)}

\* The first command is carried out, or refused.  The reply to one carried out may be lost:
\* Hci then reports an error for it too.
Execute ==
  LET can == Effects(Head(cmds).c, Head(cmds).p)
      reply(v) == <<Ev("REPLY", None, v)>>
  IN /\ cmds # <<>>
     /\ \/ \E r \in can : air' = r.air /\ Tell(reply("ok") \o r.events) /\ UNCHANGED fuel
        \/ \E r \in can : air' = r.air /\ Tell(reply("err") \o r.events) /\ Burn("moves")
        \/ can # {} /\ Tell(reply("err")) /\ Burn("moves") /\ UNCHANGED air
        \/ can = {} /\ Tell(reply("err")) /\ UNCHANGED <<air, fuel>>

\* The page of the controller is answered, is not, or fails.
PageEnds(p, v) ==
  /\ p \in air.page
  /\ air' = [(IF v = "ok" THEN Linked(air, p) ELSE air) EXCEPT !.page = {}]
  /\ Tell(<<Ev("CONN", p, v)>>)
  /\ UNCHANGED fuel

\* A peer pages us.
PeerCalls(p) ==
  /\ Burn("moves") /\ air.scan /\ ~Known(p)
  /\ air' = [air EXCEPT !.asked = @ \cup {p}] /\ Tell(<<Ev("REQ", p, "")>>)

\* An accepted call becomes a link, which also answers a page to the same peer; or it fails.
CallEnds(p, v) ==
  /\ p \in air.accepted \cup air.asked
  /\ v = "ok" => p \in air.accepted
  /\ air' = IF v = "ok" THEN [Linked(air, p) EXCEPT !.slave = @ \cup {p}]
            ELSE [air EXCEPT !.asked = @ \ {p}, !.accepted = @ \ {p}]
  /\ Tell(<<Ev("CONN", p, v)>>)
  /\ UNCHANGED fuel

LinkDrops(p) ==
  /\ Burn("moves") /\ p \in air.up
  /\ air' = Dropped(p) /\ Tell(DropEvents(p))

\* The peer swaps the roles of a link.
SwapRoles(p) ==
  /\ Burn("moves") /\ p \in air.up
  /\ air' = [air EXCEPT !.slave = IF p \in @ THEN @ \ {p} ELSE @ \cup {p}]
  /\ Tell(<<Ev("ROLE", p, IF p \in air.slave THEN "master" ELSE "slave")>>)

\* A peer that has lost the key, or never had one, needs a new one.
Keyless(p) == p \in forgot \/ p \notin bonded
KeyEvents(p) == IF Keyless(p) THEN <<Ev("NEWKEY", p, "")>> ELSE <<>>

\* An authentication ends.  Only a peer that has forgotten us refuses our key.
AuthenticationEnds(p, v) ==
  /\ air.auth = p
  /\ v = "reject" => p \in forgot
  /\ air' = [air EXCEPT !.auth = None]
  /\ Tell((IF v = "ok" THEN KeyEvents(p) ELSE <<>>) \o <<Ev("AUTH", p, v)>>)
  /\ UNCHANGED fuel

\* The peer secures a new link of its own accord.
PeerSecures(p) ==
  /\ p \in air.quiet
  /\ air' = [air EXCEPT !.quiet = @ \ {p}, !.enc = @ \cup {p}]
  /\ Tell(<<Ev("KEYREQ", p, "")>> \o KeyEvents(p) \o <<Ev("ENC", p, "on")>>)
  /\ UNCHANGED fuel

Air ==
  \E p \in Peers :
      \/ \E v \in {"ok", "timeout", "other"} : PageEnds(p, v)
      \/ PeerCalls(p) \/ LinkDrops(p) \/ SwapRoles(p)
      \/ \E v \in {"ok", "other"} : CallEnds(p, v)
      \/ \E v \in {"ok", "reject", "other"} : AuthenticationEnds(p, v)
      \/ PeerSecures(p)

EngineCalls ==
  \/ StartPrepare \/ StartInquiry \/ StartDisconnect \/ AckLost \/ AttemptEnds \/ WantScan
  \/ \E p \in Peers : StartPage(p)
  \/ \E b \in BOOLEAN : StartPair(b)

EngineNext == EngineCalls \/ ReconcileScan \/ OpStep \/ OnEvent \/ Execute \/ Air

EngineSpec == EngineInit /\ [][EngineNext]_engineVars

-----------------------------------------------------------------------------
(* Properties.                                                              *)

Who == Peers \cup {None}
Commands ==
  {"SETUP", "INQUIRY", "NAME", "CREATE", "CANCEL", "ACCEPT", "REJECT", "ANSWER", "AUTH", "ENC",
   "DISC", "SCAN_ON", "SCAN_OFF", "SUPERVISION"}
Subs ==
  {"", "setup", "issue", "inq_status", "wait", "name", "name_status", "name_wait", "choose",
   "page_status", "cancelled", "evaluate", "enter", "peer", "auth_issue", "auth_status",
   "auth_wait", "fresh_issue", "fresh_status", "fresh_wait", "post", "ssp_issue", "pin_issue",
   "pin_status", "pin_wait", "enc_issue", "enc_status", "enc_wait", "disc_status"}
EngineTypeOK ==
  /\ eng \in [op : {"NONE", "PREPARE", "INQUIRY", "PAGE", "PAIR", "DISCONNECT"}, sub : Subs,
              n : 0..(SetupSteps + MaxHits + PageAttempts), inbound : BOOLEAN]
  /\ eng.op = "PAGE" => eng.n \in 1..PageAttempts
  /\ result \in {"OK", "FAILED"}
  /\ attempt \in {"NONE", "INQUIRY", "PAGE", "PAIR", "DISCONNECT"}
  /\ slot \in [busy : BOOLEAN, of : Commands \cup {""}, err : BOOLEAN]
  /\ lk \in [bd : Who, handle : Who, st : {"NONE", "UP", "SECURE", "LOST"}, incoming : BOOLEAN,
             role : {"master", "slave"}, inboundUp : BOOLEAN, supDone : BOOLEAN,
             conn : {"none", "ok", "timeout", "other"}, discDone : BOOLEAN]
  /\ au \in [auth : {"none", "ok", "reject", "other"}, offered : BOOLEAN,
             enc : {"none", "on", "off"}]
  /\ pageScan \in [want : BOOLEAN, have : BOOLEAN]
  /\ bonded \subseteq Peers /\ forgot \subseteq Peers /\ astray \subseteq Peers
  /\ Len(cmds) <= Depth /\ fuel \in [starts : 0..MaxStarts, moves : 0..MaxMoves]
  /\ \A i \in DOMAIN evq : evq[i].p \in Who

Told(e, p) == \E i \in DOMAIN evq : evq[i].e = e /\ evq[i].p = p

\* The handle the engine sends commands on is a link to the peer it believes it deals with
\* (whose bond a refused key erases), and the link is there or its end is on the way,
\* although accepted calls, pages and their late answers all write the address and the handle.
HandleIsTheLink ==
  lk.handle # None => /\ lk.handle = lk.bd
                      /\ lk.handle \in air.up \/ Told("DISC", lk.handle)

\* A link to the peer the engine deals with is never overlooked: once its events are read,
\* the host has its handle and knows the link is up (BtLink.cpp:598-610), unless it let go of
\* that link before.
LinkInView ==
  lk.bd \in air.up \ astray /\ (\A i \in DOMAIN evq : evq[i].p # lk.bd) =>
    lk.handle = lk.bd /\ LinkUp

\* The engine and the air never part: no link is mistaken for another, none is overlooked.
LinkAgrees == EngineTypeOK /\ HandleIsTheLink /\ LinkInView

\* What the attempts and the sessions see of the engine, and the promise it keeps.
Abstract ==
  INSTANCE LinkOps WITH link <- [op |-> eng.op, result |-> result, st |-> lk.st, bd |-> lk.bd,
                                 handle |-> lk.handle, inboundUp |-> lk.inboundUp]

\* Every step of the engine, of the events and of the calls is a step of LinkOps or hidden
\* from it: one operation at a time, each with one result; the peer never changes under a
\* link that is up or a page that runs; a pairing succeeds only on a link; after a disconnect
\* no handle is left; and a link nobody paged is always announced as incoming.
ImplementsLinkOps == Abstract!LinkSpec

\* A bond is erased only when its peer has really lost the key: no late or unrelated end of
\* an authentication costs a pairing that works (the ladder of BtLink.cpp:392-416).  With a
\* link astray this fails: Authentication_Complete is taken for ours whatever its handle.
KeyErasedOnlyIfForgotten ==
  [][\A p \in bonded \ bonded' : p \in forgot \/ astray # {}]_engineVars

\* An operation PAIR that ends well leaves a link that is encrypted at the controller, or has
\* just dropped: encryption seen on an earlier link never counts for this one
\* (BtLink.cpp:373, 478), as long as no link is astray to report its own.
PairedMeansEncrypted ==
  [][eng.op = "PAIR" /\ eng'.op = "NONE" /\ result' = "OK" /\ astray = {} =>
       lk.bd \in air.enc \/ lk.bd \notin air.up]_engineVars

=============================================================================
