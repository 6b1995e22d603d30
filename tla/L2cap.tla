------------------------------- MODULE L2cap --------------------------------
(***************************************************************************)
(* L2cap over one ACL link: the signalling channel, connection-oriented    *)
(* channels opened by either side, a bounded transmit queue and the        *)
(* controller's ACL credits; and the peer and controller it talks to.      *)
(*                                                                         *)
(* The handlers only record; everything is transmitted by service(), from  *)
(* the main loop.  They never run inside it, because a write to the        *)
(* transport does not block: `at` is the part of service() that is next.   *)
(* A request's identifier and the channel it names travel together and are *)
(* one value here.  CIDs of both sides are numbers of one space.           *)
(***************************************************************************)
EXTENDS Integers, FiniteSets, Sequences

CONSTANTS
  NumCh,       \* MAX_CHANNELS
  TxqSize,     \* TXQ
  AclCredits,  \* the controller's ACL buffers, passed to begin()
  LocalCids,   \* the CIDs our profiles choose for connect()
  FirstCid,    \* first CID given to a channel the peer opens (0x0080)
  Allowed,     \* PSMs of allowPsm(); none means any
  Psms,        \* PSMs the peer asks for
  PeerCids,    \* the peer's CIDs
  Questions,   \* which of INFO and ECHO the peer asks
  None,
  Data,        \* whether the upper layers send data
  Burst,       \* whether the peer has several connection requests open at once
  PeerRejects, \* whether the peer may reject a configuration
  WireMax,     \* bound: packets under way to the peer, written or with credit to
  MaxDyn,      \* bound: channels the peer opens on one link
  MaxLinks     \* bound: links

ASSUME L2capAssumption ==
  /\ NumCh \in Nat \ {0} /\ TxqSize \in Nat \ {0} /\ AclCredits \in Nat \ {0}
  /\ FirstCid \in Nat /\ LocalCids \subseteq 1..FirstCid - 1 /\ PeerCids \subseteq Nat \ {0}
  /\ None \notin Psms /\ None \notin PeerCids /\ Questions \subseteq {"INFO", "ECHO"}
  /\ {Data, Burst, PeerRejects} \subseteq BOOLEAN
  /\ WireMax \in Nat /\ MaxDyn \in Nat /\ MaxLinks \in Nat

VARIABLES
  ch,          \* m_ch
  txq,         \* m_txq
  pend,        \* m_p: asked, conn, rsp (the snapshot of a response), disc
  credits, maxCredits,
  nextCid,     \* m_nextCid
  accept,      \* m_accept
  at,          \* service()'s next part: Answering, a channel, Writing; or Idle
  link, links, \* whether the link is up, and how many there were
  wire,        \* written, not yet read by the peer
  unreported,  \* packets the controller has not reported complete
  peer         \* the peer's side of its channel c

hostVars == <<ch, txq, pend, nextCid, accept, at>>
creditVars == <<credits, maxCredits, unreported>>
linkVars == <<link, links>>
vars == <<ch, txq, pend, credits, maxCredits, nextCid, accept, at, link, links,
          wire, unreported, peer>>

Slots == 1..NumCh

Idle == -1
Answering == 0
Writing == NumCh + 1

FreeCh == [state |-> "FREE", local |-> 0, remote |-> 0, cfgReqSent |-> FALSE,
           cfgRspRcvd |-> FALSE, cfgReqSeen |-> FALSE, cfgRspSent |-> FALSE]
NoPending == [asked |-> {}, conn |-> None, rsp |-> None, disc |-> None]
FreePeer == [st |-> "free", other |-> 0, configured |-> FALSE, answered |-> FALSE]

ConnReq(l)        == [type |-> "CONN_REQ", local |-> l]
ConnRsp(c, l, ok) == [type |-> "CONN_RSP", to |-> c, local |-> l, ok |-> ok]
CfgReq(c)         == [type |-> "CFG_REQ", to |-> c]
CfgRsp(c)         == [type |-> "CFG_RSP", to |-> c]
DiscRsp(c)        == [type |-> "DISC_RSP", to |-> c]
Answer(q)         == [type |-> q]
DataTo(c)         == [type |-> "DATA", to |-> c]

\* No request and no response is mistaken for none.
ASSUME NoneAssumption ==
  \A c \in PeerCids :
    /\ \A psm \in Psms : [psm |-> psm, scid |-> c] # None
    /\ \A l \in 0..FirstCid + MaxDyn, ok \in BOOLEAN : ConnRsp(c, l, ok) # None

Init ==
  /\ ch = [s \in Slots |-> FreeCh] /\ txq = <<>> /\ pend = NoPending
  /\ credits = 0 /\ maxCredits = 0
  /\ nextCid = FirstCid /\ accept = FALSE /\ at = Idle
  /\ link = FALSE /\ links = 0 /\ wire = <<>> /\ unreported = 0
  /\ peer = [c \in PeerCids |-> FreePeer]

-----------------------------------------------------------------------------
(* Helpers.                                                                *)

HasRoom(q) == Len(q) < TxqSize

\* send(), sig(): queued, or dropped when the queue is full.
Queued(q, m) == IF HasRoom(q) THEN Append(q, m) ELSE q

\* byLocal() and byRemote(): the channels in use with that CID.
ByLocal(l)  == {s \in Slots : ch[s].state # "FREE" /\ ch[s].local = l}
ByRemote(c) == {s \in Slots : ch[s].state # "FREE" /\ ch[s].remote = c}

\* The slot scans take the first slot that will do.
First(S) == {s \in S : \A t \in S : s <= t}
Reusable == {s \in Slots : ch[s].state \in {"FREE", "CLOSED"}}

-----------------------------------------------------------------------------
(* The upper layers, in the main loop.                                     *)

\* begin() and reset().
Cleared(n) ==
  /\ ch' = [s \in Slots |-> FreeCh] /\ txq' = <<>> /\ pend' = NoPending
  /\ credits' = n /\ maxCredits' = n /\ nextCid' = FirstCid /\ accept' = FALSE
  /\ UNCHANGED at

\* begin(): a link is up.
Begin ==
  /\ at = Idle /\ ~link /\ links < MaxLinks
  /\ Cleared(AclCredits)
  /\ link' = TRUE /\ links' = links + 1 /\ unreported' = 0
  /\ UNCHANGED <<wire, peer>>

\* reset(): the link's loss is noticed.
Reset ==
  /\ at = Idle /\ ~link
  /\ Cleared(0)
  /\ UNCHANGED <<link, links, wire, unreported, peer>>

\* acceptIncoming(true).
AcceptIncoming ==
  /\ at = Idle /\ ~accept /\ accept' = TRUE
  /\ UNCHANGED <<ch, txq, pend, nextCid, at, creditVars, linkVars, wire, peer>>

\* connect(): the channel waits for an answer, the request is queued if it can be.
Connect(l) ==
  /\ at = Idle /\ ByLocal(l) = {}
  /\ \E s \in First(Reusable) :
       ch' = [ch EXCEPT ![s] = [FreeCh EXCEPT !.state = "WAIT_CONN", !.local = l]]
  /\ txq' = Queued(txq, ConnReq(l))
  /\ UNCHANGED <<pend, nextCid, accept, at, creditVars, linkVars, wire, peer>>

\* send() of a profile, on an open channel.
SendData(s) ==
  /\ Data /\ at = Idle /\ ch[s].state = "OPEN" /\ HasRoom(txq)
  /\ txq' = Append(txq, DataTo(ch[s].remote))
  /\ UNCHANGED <<ch, pend, nextCid, accept, at, creditVars, linkVars, wire, peer>>

-----------------------------------------------------------------------------
(* service().                                                              *)

\* Whether a request for psm is one acceptIncoming() and allowPsm() let through.
Admitted(psm) == accept /\ (Allowed = {} \/ psm \in Allowed)

\* The outcome of the pending connection request, computed once: a channel in the
\* first reusable slot, or a refusal.
Decide ==
  IF pend.conn = None \/ pend.rsp # None
  THEN pend' = pend /\ UNCHANGED <<ch, nextCid>>
  ELSE IF ~Admitted(pend.conn.psm) \/ Reusable = {}
  THEN pend' = [pend EXCEPT !.rsp = ConnRsp(pend.conn.scid, 0, FALSE)]
       /\ UNCHANGED <<ch, nextCid>>
  ELSE \E s \in First(Reusable) :
         /\ ch' = [ch EXCEPT ![s] = [FreeCh EXCEPT !.state = "CONFIG", !.local = nextCid,
                                                   !.remote = pend.conn.scid]]
         /\ pend' = [pend EXCEPT !.rsp = ConnRsp(pend.conn.scid, nextCid, TRUE)]
         /\ nextCid' = nextCid + 1

\* service() starts: it decides the pending connection request (what it answers
\* before that does not depend on the decision) ...
ServiceStart ==
  /\ at = Idle /\ at' = Answering
  /\ Decide
  /\ UNCHANGED <<txq, accept, creditVars, linkVars, wire, peer>>

\* Mutant: the response is built from the request that is pending now.
MutantAnswersLive(p) ==
  (IF "INFO" \in p.asked THEN <<Answer("INFO")>> ELSE <<>>)
  \o (IF "ECHO" \in p.asked THEN <<Answer("ECHO")>> ELSE <<>>)
  \o (IF p.rsp # None THEN <<[p.rsp EXCEPT !.to = p.conn.scid]>> ELSE <<>>)
  \o (IF p.disc # None THEN <<DiscRsp(p.disc)>> ELSE <<>>)

\* The answers service() owes, in the order it queues them.
Answers(p) ==
  (IF "INFO" \in p.asked THEN <<Answer("INFO")>> ELSE <<>>)
  \o (IF "ECHO" \in p.asked THEN <<Answer("ECHO")>> ELSE <<>>)
  \o (IF p.rsp # None THEN <<p.rsp>> ELSE <<>>)
  \o (IF p.disc # None THEN <<DiscRsp(p.disc)>> ELSE <<>>)

\* Mutant: answered or not, a request is pending for one call only.
MutantStillOwed(p, sent) == NoPending

\* What is still pending once answers of the types in sent are queued.  A sent
\* connection response also clears a request that came in while it waited.
StillOwed(p, sent) ==
  [asked |-> p.asked \ sent,
   conn  |-> IF "CONN_RSP" \in sent THEN None ELSE p.conn,
   rsp   |-> IF "CONN_RSP" \in sent THEN None ELSE p.rsp,
   disc  |-> IF "DISC_RSP" \in sent THEN None ELSE p.disc]

\* ... and queues as many answers as there is room for; the others stay pending.
ServiceAnswer ==
  /\ at = Answering /\ at' = 1
  /\ LET owed == Answers(pend)
         n    == IF Len(owed) <= TxqSize - Len(txq) THEN Len(owed) ELSE TxqSize - Len(txq)
     IN  /\ txq' = txq \o SubSeq(owed, 1, n)
         /\ pend' = StillOwed(pend, {owed[i].type : i \in 1..n})
  /\ UNCHANGED <<ch, nextCid, accept, creditVars, linkVars, wire, peer>>

\* The peer has answered our configuration and we have answered its.
Agreed(r) == r.state = "CONFIG" /\ r.cfgRspRcvd /\ r.cfgRspSent

\* One channel's configuration: our request, our response to the peer's, and open
\* once both sides agree.
ServiceChannel(s) ==
  /\ at = s /\ at' = s + 1
  /\ LET r    == ch[s]
         req  == r.state = "CONFIG" /\ ~r.cfgReqSent /\ HasRoom(txq)
         q    == IF req THEN Append(txq, CfgReq(r.remote)) ELSE txq
         rsp  == r.state = "CONFIG" /\ r.cfgReqSeen /\ ~r.cfgRspSent /\ HasRoom(q)
         done == [r EXCEPT !.cfgReqSent = @ \/ req, !.cfgRspSent = @ \/ rsp]
     IN  /\ txq' = IF rsp THEN Append(q, CfgRsp(r.remote)) ELSE q
         /\ ch' = [ch EXCEPT ![s] = [done EXCEPT !.state = IF Agreed(done) THEN "OPEN" ELSE @]]
  /\ UNCHANGED <<pend, nextCid, accept, creditVars, linkVars, wire, peer>>

\* The credit-paced writes: one packet, until the queue or the credits run out.
\* What is written to a link that is gone is lost.
ServiceWrite ==
  /\ at = Writing
  /\ IF txq # <<>> /\ credits > 0
     THEN /\ txq' = Tail(txq) /\ credits' = credits - 1
          /\ wire' = IF link THEN Append(wire, Head(txq)) ELSE wire
          /\ unreported' = IF link THEN unreported + 1 ELSE unreported
          /\ at' = at
     ELSE at' = Idle /\ UNCHANGED <<txq, credits, wire, unreported>>
  /\ UNCHANGED <<ch, pend, maxCredits, nextCid, accept, linkVars, peer>>

Service == ServiceStart \/ ServiceAnswer \/ (\E s \in Slots : ServiceChannel(s)) \/ ServiceWrite

-----------------------------------------------------------------------------
(* The handlers, called with what the peer and the controller send.        *)

\* Mutant: the first entry of the report is skipped.
MutantCompletedPackets(n) ==
  /\ credits' = IF credits + n - 1 > maxCredits THEN maxCredits ELSE credits + n - 1
  /\ UNCHANGED maxCredits

\* onEvent(): n packets are complete.
CompletedPackets(n) ==
  /\ credits' = IF credits + n > maxCredits THEN maxCredits ELSE credits + n
  /\ UNCHANGED maxCredits

\* CONN_RSP for our request on CID l: the peer's channel, or None if it refuses.
OnConnRsp(l, c) ==
  ch' = [s \in Slots |->
           IF s \notin ByLocal(l) THEN ch[s]
           ELSE IF c = None THEN [ch[s] EXCEPT !.state = "CLOSED"]
           ELSE [ch[s] EXCEPT !.state = "CONFIG", !.remote = c]]

\* CFG_REQ for our CID l.
OnCfgReq(l) ==
  ch' = [s \in Slots |-> IF s \notin ByLocal(l) THEN ch[s]
                         ELSE [ch[s] EXCEPT !.cfgReqSeen = TRUE, !.cfgRspSent = FALSE]]

\* Mutant: the response is looked up by the peer's CID only.
MutantConfigured(c) == ByRemote(c)

\* CFG_RSP naming a CID, of either side.
Configured(c) == IF ByLocal(c) # {} THEN ByLocal(c) ELSE First(ByRemote(c))
OnCfgRsp(c) ==
  ch' = [s \in Slots |-> IF s \in Configured(c) THEN [ch[s] EXCEPT !.cfgRspRcvd = TRUE]
                         ELSE ch[s]]

\* DISC_REQ for our CID l and the peer's c.
OnDiscReq(l, c) ==
  /\ ch' = [s \in Slots |-> IF s \in ByLocal(l) THEN [ch[s] EXCEPT !.state = "CLOSED"] ELSE ch[s]]
  /\ pend' = [pend EXCEPT !.disc = c]

-----------------------------------------------------------------------------
(* The peer, the controller and the link.                                  *)

Receiving == link /\ at = Idle

\* What the peer will read, in order.
Outbound == wire \o txq

\* Number_Of_Completed_Packets.
ControllerReports(n) ==
  /\ Receiving /\ n <= unreported /\ Len(wire) + credits + n <= WireMax
  /\ CompletedPackets(n)
  /\ unreported' = unreported - n
  /\ UNCHANGED <<hostVars, linkVars, wire, peer>>

LinkLost ==
  /\ Receiving
  /\ link' = FALSE /\ wire' = <<>> /\ peer' = [c \in PeerCids |-> FreePeer]
  /\ UNCHANGED <<hostVars, creditVars, links>>

\* The peer asks for a channel of ours (CONN_REQ replaces one that is pending).
PeerConnects(c, psm) ==
  /\ Receiving /\ peer[c].st = "free" /\ nextCid < FirstCid + MaxDyn
  /\ Burst \/ \A d \in PeerCids : peer[d].st # "asked"
  /\ peer' = [peer EXCEPT ![c].st = "asked"]
  /\ pend' = [pend EXCEPT !.conn = [psm |-> psm, scid |-> c]]
  /\ UNCHANGED <<ch, txq, nextCid, accept, at, creditVars, linkVars, wire>>

PeerConfigures(c) ==
  /\ Receiving /\ peer[c].st = "up" /\ ~peer[c].configured
  /\ peer' = [peer EXCEPT ![c].configured = TRUE]
  /\ OnCfgReq(peer[c].other)
  /\ UNCHANGED <<txq, pend, nextCid, accept, at, creditVars, linkVars, wire>>

PeerDisconnects(c) ==
  /\ Receiving /\ peer[c].st = "up"
  /\ peer' = [peer EXCEPT ![c].st = "closing"]
  /\ OnDiscReq(peer[c].other, c)
  /\ UNCHANGED <<txq, nextCid, accept, at, creditVars, linkVars, wire>>

\* A question is not put again before it is answered.
PeerAsks(q) ==
  /\ Receiving /\ q \notin pend.asked /\ \A i \in 1..Len(Outbound) : Outbound[i].type # q
  /\ pend' = [pend EXCEPT !.asked = @ \cup {q}]
  /\ UNCHANGED <<ch, txq, nextCid, accept, at, creditVars, linkVars, wire, peer>>

\* The peer reads a packet; a request of ours it answers at once.
PeerReads(type) ==
  /\ Receiving /\ wire # <<>> /\ Head(wire).type = type
  /\ wire' = Tail(wire)
  /\ UNCHANGED <<txq, pend, nextCid, accept, at, creditVars, linkVars>>

PeerAcceptsUs ==
  /\ PeerReads("CONN_REQ")
  /\ \E c \in PeerCids :
       /\ peer[c].st = "free"
       /\ peer' = [peer EXCEPT ![c].st = "up", ![c].other = Head(wire).local]
       /\ OnConnRsp(Head(wire).local, c)

PeerRefusesUs ==
  /\ PeerReads("CONN_REQ") /\ OnConnRsp(Head(wire).local, None)
  /\ UNCHANGED peer

PeerReadsConnRsp ==
  /\ PeerReads("CONN_RSP")
  /\ LET m == Head(wire)
     IN  peer' = [peer EXCEPT ![m.to] =
                    IF @.st # "asked" THEN @
                    ELSE IF m.ok THEN [@ EXCEPT !.st = "up", !.other = m.local]
                    ELSE FreePeer]
  /\ UNCHANGED ch

PeerReadsCfgReq ==
  /\ PeerReads("CFG_REQ")
  /\ LET c == Head(wire).to
     IN  IF peer[c].st = "up"
         THEN \/ /\ peer' = [peer EXCEPT ![c].answered = TRUE]
                 /\ OnCfgRsp(peer[c].other)
              \/ PeerRejects /\ UNCHANGED <<peer, ch>>
         ELSE UNCHANGED <<peer, ch>>

PeerReadsDiscRsp ==
  /\ PeerReads("DISC_RSP")
  /\ peer' = [peer EXCEPT ![Head(wire).to] = IF @.st = "closing" THEN FreePeer ELSE @]
  /\ UNCHANGED ch

PeerReadsOther ==
  /\ \E t \in Questions \cup {"CFG_RSP", "DATA"} : PeerReads(t)
  /\ UNCHANGED <<ch, peer>>

PeerRead == PeerAcceptsUs \/ PeerRefusesUs \/ PeerReadsConnRsp \/ PeerReadsCfgReq
              \/ PeerReadsDiscRsp \/ PeerReadsOther

Next ==
  \/ Begin \/ Reset \/ AcceptIncoming
  \/ \E l \in LocalCids : Connect(l)
  \/ \E s \in Slots : SendData(s)
  \/ Service
  \/ \E n \in 1..AclCredits : ControllerReports(n)
  \/ LinkLost
  \/ \E c \in PeerCids : (\E psm \in Psms : PeerConnects(c, psm)) \/ PeerConfigures(c) \/ PeerDisconnects(c)
  \/ \E q \in Questions : PeerAsks(q)
  \/ PeerRead

Spec == Init /\ [][Next]_vars

\* The main loop keeps calling service(); the controller reports what it has sent;
\* the peer reads, and configures the channels it has.  Strongly fair, because
\* nothing is received while service() runs: each gets its turn between two calls.
FairSpec ==
  /\ Spec
  /\ WF_vars(Service) /\ SF_vars(PeerRead)
  /\ SF_vars(\E n \in 1..AclCredits : ControllerReports(n))
  /\ \A c \in PeerCids : SF_vars(PeerConfigures(c))

-----------------------------------------------------------------------------
(* Properties.                                                             *)

Messages ==
  [type : {"CONN_REQ"}, local : LocalCids]
    \cup [type : {"CONN_RSP"}, to : PeerCids, local : 0..FirstCid + MaxDyn, ok : BOOLEAN]
    \cup [type : {"CFG_REQ", "CFG_RSP", "DISC_RSP", "DATA"}, to : PeerCids]
    \cup [type : {"INFO", "ECHO"}]

Cids == 0..FirstCid + MaxDyn
Channels ==
  [state : {"FREE", "WAIT_CONN", "CONFIG", "OPEN", "CLOSED"}, local : Cids,
   remote : PeerCids \cup {0}, cfgReqSent : BOOLEAN, cfgRspRcvd : BOOLEAN,
   cfgReqSeen : BOOLEAN, cfgRspSent : BOOLEAN]
Pending ==
  [asked : SUBSET Questions, conn : [psm : Psms, scid : PeerCids] \cup {None},
   rsp : {m \in Messages : m.type = "CONN_RSP"} \cup {None}, disc : PeerCids \cup {None}]
PeerSides ==
  [st : {"free", "asked", "up", "closing"}, other : Cids, configured : BOOLEAN,
   answered : BOOLEAN]

\* Every variable keeps its type, and the transmit queue its bound.
TypeOK ==
  /\ ch \in [Slots -> Channels]
  /\ txq \in Seq(Messages) /\ Len(txq) <= TxqSize
  /\ pend \in Pending
  /\ credits \in 0..AclCredits /\ maxCredits \in {0, AclCredits}
  /\ nextCid \in FirstCid..FirstCid + MaxDyn /\ accept \in BOOLEAN
  /\ at \in {Idle, Answering, Writing} \cup Slots
  /\ link \in BOOLEAN /\ links \in 0..MaxLinks
  /\ wire \in Seq(Messages) /\ unreported \in 0..AclCredits
  /\ peer \in [PeerCids -> PeerSides]

\* service()/onEvent(): the credits the host holds and the packets the controller
\* still has are always the controller's buffers: none is overrun, none is lost.
CreditsConserved == link => credits + unreported = maxCredits

\* The snapshot of a connection response: it answers a request that is still open,
\* and if it grants one, the channel it grants is that peer's and waits for its
\* configuration, whatever other requests came in while the response waited.
GrantBacked ==
  link => \A i \in 1..Len(Outbound) :
    LET m == Outbound[i] IN m.type = "CONN_RSP" =>
      /\ peer[m.to].st = "asked"
      /\ m.ok => \E s \in Slots : /\ ch[s].local = m.local /\ ch[s].remote = m.to
                                  /\ ch[s].state = "CONFIG"

\* The peer never sees our configuration request for a channel before the response
\* that grants it the channel.
ConfigAfterResponse ==
  link => \A i \in 1..Len(Outbound) : Outbound[i].type = "CFG_REQ" =>
    \/ peer[Outbound[i].to].st # "asked"
    \/ \E j \in 1..i - 1 : Outbound[j].type = "CONN_RSP" /\ Outbound[j].to = Outbound[i].to

\* What goes out to the peer makes sense in the order it goes out.
ResponsesBacked == GrantBacked /\ ConfigAfterResponse

\* Those connect() takes and those service() gives out never collide.
OurCidsUnique ==
  \A s, t \in Slots : s # t /\ ch[s].state # "FREE" /\ ch[t].state # "FREE" =>
    ch[s].local # ch[t].local

\* Data is demultiplexed by CID: no two channels in use have the same CID of ours,
\* no two live ones the same CID of the peer.
CidsUnique ==
  /\ OurCidsUnique
  /\ \A s, t \in Slots :
       s # t /\ ch[s].state \in {"CONFIG", "OPEN"} /\ ch[t].state \in {"CONFIG", "OPEN"} =>
         ch[s].remote # ch[t].remote

\* A channel counts as configured by the peer only if the peer has answered the
\* configuration of that very channel, and is open only if both sides have agreed; and no
\* two channels can be confused.
OpenMeansAgreed ==
  /\ CidsUnique
  /\ link => \A s \in Slots : ch[s].state \in {"CONFIG", "OPEN"} =>
       /\ ch[s].cfgRspRcvd => peer[ch[s].remote].answered /\ peer[ch[s].remote].other = ch[s].local
       /\ ch[s].state = "OPEN" => ch[s].cfgRspRcvd /\ ch[s].cfgRspSent /\ peer[ch[s].remote].configured

\* Every connection request of a peer that has one open at a time is answered,
\* however the transmit queue and the credits stand when it arrives.
RequestAnswered ==
  \A c \in PeerCids : peer[c].st = "asked" ~> (peer[c].st # "asked" \/ ~link)

\* Configuration does not hang: a channel being configured opens or closes.
ConfigCompletes ==
  \A s \in Slots : ch[s].state = "CONFIG" ~> (ch[s].state # "CONFIG" \/ ~link)

\* No handshake hangs on our side.
HandshakesEnd == RequestAnswered /\ ConfigCompletes

=============================================================================
