----------------------------- MODULE L2capProofs -----------------------------
(***************************************************************************)
(* Proofs about L2cap, for any number of channels, any size of the queue   *)
(* and any number of credits: types, conservation of the controller's      *)
(* credits, that no two channels in use share a CID of ours, and that what *)
(* either side knows of a channel, and what is under way about it, agree.  *)
(***************************************************************************)
EXTENDS L2cap, SequenceTheorems, TLAPS

-----------------------------------------------------------------------------
(* What the helpers return.                                                  *)

LEMMA QueuedType ==
  ASSUME NEW q \in Seq(Messages), Len(q) <= TxqSize, NEW m \in Messages
  PROVE  Queued(q, m) \in Seq(Messages) /\ Len(Queued(q, m)) <= TxqSize
  <1>1. Len(q) \in Nat /\ TxqSize \in Nat
    BY LenProperties, L2capAssumption
  <1>2. Append(q, m) \in Seq(Messages) /\ Len(Append(q, m)) = Len(q) + 1
    BY AppendProperties
  <1> QED BY <1>1, <1>2 DEF Queued, HasRoom

LEMMA AnswersType ==
  ASSUME NEW p \in Pending
  PROVE  Answers(p) \in Seq(Messages)
  <1>1. \A q \in {"INFO", "ECHO"} : Answer(q) \in Messages
    BY DEF Answer, Messages
  <1>2. p.rsp # None => p.rsp \in Messages
    BY DEF Pending
  <1>3. p.disc # None => DiscRsp(p.disc) \in Messages
    BY DEF Pending, DiscRsp, Messages
  <1> DEFINE A == IF "INFO" \in p.asked THEN <<Answer("INFO")>> ELSE <<>>
             B == IF "ECHO" \in p.asked THEN <<Answer("ECHO")>> ELSE <<>>
             C == IF p.rsp # None THEN <<p.rsp>> ELSE <<>>
             D == IF p.disc # None THEN <<DiscRsp(p.disc)>> ELSE <<>>
  <1>4. A \in Seq(Messages) /\ B \in Seq(Messages) /\ C \in Seq(Messages) /\ D \in Seq(Messages)
    BY <1>1, <1>2, <1>3
  <1>5. Answers(p) = A \o B \o C \o D
    BY DEF Answers
  <1> HIDE DEF A, B, C, D
  <1> QED BY <1>4, <1>5, ConcatProperties

-----------------------------------------------------------------------------
(* Types.                                                                    *)

\* A channel that is configured has a CID of the peer; a request that is not decided yet
\* leaves a CID to give to it.
Sound ==
  /\ \A s \in Slots : ch[s].state \in {"CONFIG", "OPEN"} => ch[s].remote \in PeerCids
  /\ pend.conn # None /\ pend.rsp = None => nextCid < FirstCid + MaxDyn

IInv == TypeOK /\ Sound /\ CreditsConserved

LEMMA ClearedChannels ==
  /\ [s \in Slots |-> FreeCh] \in [Slots -> Channels]
  /\ NoPending \in Pending /\ NoPending.conn = None
  /\ FreeCh.state = "FREE"
  <1>1. FreeCh \in Channels
    BY L2capAssumption DEF FreeCh, Channels, Cids
  <1>2. NoPending \in Pending
    BY DEF NoPending, Pending
  <1> QED BY <1>1, <1>2 DEF FreeCh, NoPending

LEMMA ConstantsTypes ==
  /\ FirstCid \in FirstCid..FirstCid + MaxDyn /\ AclCredits \in 0..AclCredits /\ 0 \in 0..AclCredits
  /\ <<>> \in Seq(Messages) /\ Len(<<>>) <= TxqSize
  BY L2capAssumption

LEMMA InitInv == Init => IInv
  <1> SUFFICES ASSUME Init PROVE IInv
    OBVIOUS
  <1>1. peer \in [PeerCids -> PeerSides]
    BY L2capAssumption DEF Init, FreePeer, PeerSides, Cids
  <1>2. TypeOK
    <2>1. ch \in [Slots -> Channels] /\ txq \in Seq(Messages) /\ Len(txq) <= TxqSize /\ pend \in Pending
          /\ wire \in Seq(Messages)
      BY ClearedChannels, ConstantsTypes DEF Init
    <2>2. credits \in 0..AclCredits /\ maxCredits \in {0, AclCredits} /\ unreported \in 0..AclCredits
          /\ nextCid \in FirstCid..FirstCid + MaxDyn /\ links \in 0..MaxLinks
      BY L2capAssumption DEF Init
    <2>3. accept \in BOOLEAN /\ link \in BOOLEAN /\ at \in {Idle, Answering, Writing} \cup Slots
      BY DEF Init
    <2> QED BY <1>1, <2>1, <2>2, <2>3 DEF TypeOK
  <1>3. Sound /\ CreditsConserved
    BY ClearedChannels DEF Init, Sound, CreditsConserved
  <1> QED BY <1>2, <1>3 DEF IInv

\* begin() and reset() leave nothing of the link before.
LEMMA ClearedInv ==
  ASSUME IInv, NEW n \in {0, AclCredits}, Cleared(n), UNCHANGED <<wire, peer>>,
         link' \in BOOLEAN, links' \in 0..MaxLinks, unreported' \in 0..AclCredits,
         link' => unreported' = 0
  PROVE  IInv'
  <1>1. TypeOK'
    BY ClearedChannels, ConstantsTypes DEF Cleared, IInv, TypeOK
  <1>2. Sound'
    BY ClearedChannels DEF Cleared, Sound
  <1>3. CreditsConserved'
    BY ConstantsTypes DEF Cleared, CreditsConserved
  <1> QED BY <1>1, <1>2, <1>3 DEF IInv

LEMMA BeginInv == ASSUME IInv, Begin PROVE IInv'
  <1>1. links' \in 0..MaxLinks
    BY L2capAssumption DEF Begin, IInv, TypeOK
  <1> QED BY <1>1, ClearedInv, ConstantsTypes DEF Begin

LEMMA ResetInv == ASSUME IInv, Reset PROVE IInv'
  BY ClearedInv DEF Reset, IInv, TypeOK

LEMMA AcceptInv == ASSUME IInv, AcceptIncoming PROVE IInv'
  BY DEF AcceptIncoming, IInv, TypeOK, Sound, CreditsConserved, creditVars, linkVars

LEMMA ConnectInv ==
  ASSUME IInv, NEW l \in LocalCids, Connect(l)
  PROVE  IInv'
  <1>1. ConnReq(l) \in Messages
    BY DEF ConnReq, Messages
  <1>2. txq' \in Seq(Messages) /\ Len(txq') <= TxqSize
    BY <1>1, QueuedType DEF Connect, IInv, TypeOK
  <1>3. l \in Cids
    BY L2capAssumption DEF Cids
  <1>4. PICK s \in Slots : ch' = [ch EXCEPT ![s] = [FreeCh EXCEPT !.state = "WAIT_CONN", !.local = l]]
    BY DEF Connect, First, Reusable
  <1>5. [FreeCh EXCEPT !.state = "WAIT_CONN", !.local = l] \in Channels
    BY <1>3 DEF FreeCh, Channels
  <1>6. ch' \in [Slots -> Channels]
    BY <1>4, <1>5 DEF IInv, TypeOK
  <1>7. Sound'
    BY <1>4 DEF Connect, IInv, TypeOK, Sound, FreeCh
  <1> QED BY <1>2, <1>6, <1>7 DEF Connect, IInv, TypeOK, CreditsConserved, creditVars, linkVars

LEMMA SendDataInv ==
  ASSUME IInv, NEW s \in Slots, SendData(s)
  PROVE  IInv'
  <1>1. DataTo(ch[s].remote) \in Messages
    BY DEF SendData, IInv, Sound, DataTo, Messages
  <1>2. txq' = Queued(txq, DataTo(ch[s].remote))
    BY DEF SendData, Queued
  <1>3. txq' \in Seq(Messages) /\ Len(txq') <= TxqSize
    BY <1>1, <1>2, QueuedType DEF IInv, TypeOK
  <1> QED BY <1>3 DEF SendData, IInv, TypeOK, Sound, CreditsConserved, creditVars, linkVars

LEMMA ServiceStartInv == ASSUME IInv, ServiceStart PROVE IInv'
  <1>0. UNCHANGED <<txq, accept, credits, maxCredits, unreported, link, links, wire, peer>>
        /\ at' = Answering
    BY DEF ServiceStart, creditVars, linkVars
  <1>1. CASE pend' = pend /\ UNCHANGED <<ch, nextCid>>
    BY <1>0, <1>1 DEF IInv, TypeOK, Sound, CreditsConserved
  <1>2. CASE /\ pend.conn # None /\ pend.rsp = None
             /\ pend' = [pend EXCEPT !.rsp = ConnRsp(pend.conn.scid, 0, FALSE)]
             /\ UNCHANGED <<ch, nextCid>>
    <2>1. ConnRsp(pend.conn.scid, 0, FALSE) \in {m \in Messages : m.type = "CONN_RSP"}
      BY <1>2, L2capAssumption DEF ConnRsp, Messages, IInv, TypeOK, Pending
    <2>2. pend' \in Pending /\ pend'.rsp = ConnRsp(pend.conn.scid, 0, FALSE)
      BY <1>2, <2>1 DEF IInv, TypeOK, Pending
    <2>3. nextCid < FirstCid + MaxDyn
      BY <1>2 DEF IInv, Sound
    <2> QED BY <1>0, <1>2, <2>2, <2>3 DEF IInv, TypeOK, Sound, CreditsConserved
  <1>3. CASE /\ pend.conn # None /\ pend.rsp = None
             /\ \E s \in First(Reusable) :
                  /\ ch' = [ch EXCEPT ![s] = [FreeCh EXCEPT !.state = "CONFIG", !.local = nextCid,
                                                            !.remote = pend.conn.scid]]
                  /\ pend' = [pend EXCEPT !.rsp = ConnRsp(pend.conn.scid, nextCid, TRUE)]
                  /\ nextCid' = nextCid + 1
    <2>1. PICK s \in Slots :
             /\ ch' = [ch EXCEPT ![s] = [FreeCh EXCEPT !.state = "CONFIG", !.local = nextCid,
                                                       !.remote = pend.conn.scid]]
             /\ pend' = [pend EXCEPT !.rsp = ConnRsp(pend.conn.scid, nextCid, TRUE)]
             /\ nextCid' = nextCid + 1
      BY <1>3 DEF First, Reusable
    <2>2. nextCid < FirstCid + MaxDyn /\ nextCid \in FirstCid..FirstCid + MaxDyn
      BY <1>3 DEF IInv, TypeOK, Sound
    <2>3. nextCid \in Cids /\ nextCid' \in FirstCid..FirstCid + MaxDyn
      BY <2>1, <2>2, L2capAssumption DEF Cids
    <2>4. pend.conn.scid \in PeerCids
      BY <1>3 DEF IInv, TypeOK, Pending
    <2>5. ConnRsp(pend.conn.scid, nextCid, TRUE) \in {m \in Messages : m.type = "CONN_RSP"}
      BY <2>3, <2>4 DEF ConnRsp, Messages, Cids
    <2>6. pend' \in Pending /\ pend'.rsp = ConnRsp(pend.conn.scid, nextCid, TRUE)
      BY <2>1, <2>5 DEF IInv, TypeOK, Pending
    <2>7. [FreeCh EXCEPT !.state = "CONFIG", !.local = nextCid, !.remote = pend.conn.scid] \in Channels
      BY <2>3, <2>4 DEF FreeCh, Channels
    <2>8. ch' \in [Slots -> Channels]
      BY <2>1, <2>7 DEF IInv, TypeOK
    <2>9. \A t \in Slots : ch'[t].state \in {"CONFIG", "OPEN"} => ch'[t].remote \in PeerCids
      BY <2>1, <2>4 DEF IInv, TypeOK, Sound, FreeCh
    <2>10. pend'.rsp # None
      BY <2>3, <2>4, <2>6, NoneAssumption DEF Cids
    <2> QED BY <1>0, <2>3, <2>6, <2>8, <2>9, <2>10 DEF IInv, TypeOK, Sound, CreditsConserved
  <1> QED BY <1>1, <1>2, <1>3 DEF ServiceStart, Decide

\* What is owed after some answers is again a pending record.
LEMMA OwedType ==
  ASSUME NEW p \in Pending, NEW sent
  PROVE  /\ StillOwed(p, sent) \in Pending
         /\ StillOwed(p, sent).conn # None /\ StillOwed(p, sent).rsp = None =>
              p.conn # None /\ p.rsp = None
  BY DEF Pending, StillOwed

LEMMA ServiceAnswerInv == ASSUME IInv, ServiceAnswer PROVE IInv'
  <1> DEFINE owed == Answers(pend)
             n == IF Len(owed) <= TxqSize - Len(txq) THEN Len(owed) ELSE TxqSize - Len(txq)
             part == SubSeq(owed, 1, n)
  <1>1. owed \in Seq(Messages) /\ Len(owed) \in Nat /\ Len(txq) \in Nat /\ TxqSize \in Nat
    BY AnswersType, LenProperties, L2capAssumption DEF IInv, TypeOK
  <1>2. n \in 0..Len(owed) /\ Len(txq) + n <= TxqSize
    BY <1>1 DEF IInv, TypeOK
  <1>3. part \in Seq(Messages) /\ Len(part) = n
    <2>1. 1 \in Int /\ n \in Int /\ \A i \in 1..n : owed[i] \in Messages
      BY <1>1, <1>2, ElementOfSeq
    <2>2. Len(part) = IF 1 <= n THEN n - 1 + 1 ELSE 0
      <3> HIDE DEF owed, n
      <3> QED BY <2>1, SubSeqProperties
    <2>3. part \in Seq(Messages)
      <3> HIDE DEF owed, n
      <3> QED BY <2>1, SubSeqProperties
    <2> HIDE DEF part, n
    <2> QED BY <2>2, <2>3, <1>2
  <1>4. txq' = txq \o part /\ pend' = StillOwed(pend, {owed[i].type : i \in 1..n})
        /\ at' = 1 /\ UNCHANGED <<ch, nextCid, accept, credits, maxCredits, unreported, link, links, wire, peer>>
    BY DEF ServiceAnswer, creditVars, linkVars
  <1> HIDE DEF owed, n, part
  <1>5. txq' \in Seq(Messages) /\ Len(txq') <= TxqSize
    BY <1>2, <1>3, <1>4, ConcatProperties DEF IInv, TypeOK
  <1>6. pend' \in Pending /\ (pend'.conn # None /\ pend'.rsp = None => pend.conn # None /\ pend.rsp = None)
    BY <1>4, OwedType DEF IInv, TypeOK
  <1>7. 1 \in {Idle, Answering, Writing} \cup Slots
    BY L2capAssumption DEF Slots
  <1>8. TypeOK'
    BY <1>4, <1>5, <1>6, <1>7 DEF IInv, TypeOK
  <1>9. Sound' /\ CreditsConserved'
    BY <1>4, <1>6 DEF IInv, Sound, CreditsConserved
  <1> QED BY <1>8, <1>9 DEF IInv

LEMMA ServiceChannelInv ==
  ASSUME IInv, NEW s \in Slots, ServiceChannel(s)
  PROVE  IInv'
  <1> DEFINE r == ch[s]
             req == r.state = "CONFIG" /\ ~r.cfgReqSent /\ HasRoom(txq)
             q == IF req THEN Append(txq, CfgReq(r.remote)) ELSE txq
             rsp == r.state = "CONFIG" /\ r.cfgReqSeen /\ ~r.cfgRspSent /\ HasRoom(q)
             done == [r EXCEPT !.cfgReqSent = @ \/ req, !.cfgRspSent = @ \/ rsp]
             next == [done EXCEPT !.state = IF Agreed(done) THEN "OPEN" ELSE @]
  <1>1. r \in Channels /\ (r.state = "CONFIG" => CfgReq(r.remote) \in Messages /\ CfgRsp(r.remote) \in Messages)
    BY DEF IInv, TypeOK, Sound, CfgReq, CfgRsp, Messages
  <1>2. q \in Seq(Messages) /\ Len(q) <= TxqSize
    <2>1. CASE req
      BY <2>1, <1>1, QueuedType DEF Queued, IInv, TypeOK
    <2>2. CASE ~req
      BY <2>2 DEF IInv, TypeOK
    <2> QED BY <2>1, <2>2
  <1>3. txq' \in Seq(Messages) /\ Len(txq') <= TxqSize
    <2>0. txq' = IF rsp THEN Append(q, CfgRsp(r.remote)) ELSE q
      BY DEF ServiceChannel
    <2>1. CASE rsp
      <3>1. txq' = Queued(q, CfgRsp(r.remote)) /\ CfgRsp(r.remote) \in Messages
        BY <2>0, <2>1, <1>1 DEF Queued
      <3> HIDE DEF q
      <3> QED BY <3>1, <1>2, QueuedType
    <2>2. CASE ~rsp
      BY <2>2, <2>0, <1>2
    <2> QED BY <2>1, <2>2
  <1>4. ch' = [ch EXCEPT ![s] = next]
    BY DEF ServiceChannel
  <1>5. done \in Channels /\ done.state = r.state /\ done.remote = r.remote
    BY <1>1, Zenon DEF Channels
  <1>6. next \in Channels /\ next.remote = r.remote /\ (next.state \in {"CONFIG", "OPEN"} => r.state \in {"CONFIG", "OPEN"})
    <2> HIDE DEF r, req, q, rsp, done
    <2> QED BY <1>5 DEF Channels, Agreed
  <1>7. at' \in {Idle, Answering, Writing} \cup Slots
    BY L2capAssumption DEF ServiceChannel, Slots, Writing
  <1>8. UNCHANGED <<pend, nextCid, accept, credits, maxCredits, unreported, link, links, wire, peer>>
    BY DEF ServiceChannel, creditVars, linkVars
  <1>9. ch' \in [Slots -> Channels]
    BY <1>4, <1>6 DEF IInv, TypeOK
  <1>10. Sound'
    BY <1>4, <1>6, <1>8 DEF IInv, TypeOK, Sound
  <1>11. TypeOK'
    BY <1>3, <1>7, <1>8, <1>9 DEF IInv, TypeOK
  <1> QED BY <1>8, <1>10, <1>11 DEF IInv, CreditsConserved

LEMMA ServiceWriteInv == ASSUME IInv, ServiceWrite PROVE IInv'
  <1>0. UNCHANGED <<ch, pend, maxCredits, nextCid, accept, link, links, peer>>
    BY DEF ServiceWrite, linkVars
  <1>1. CASE /\ txq # <<>> /\ credits > 0
             /\ txq' = Tail(txq) /\ credits' = credits - 1
             /\ wire' = (IF link THEN Append(wire, Head(txq)) ELSE wire)
             /\ unreported' = (IF link THEN unreported + 1 ELSE unreported)
             /\ at' = at
    <2>1. Head(txq) \in Messages /\ txq' \in Seq(Messages) /\ Len(txq') <= TxqSize
      <3>1. txq \in Seq(Messages) /\ Len(txq) <= TxqSize /\ TxqSize \in Nat
        BY L2capAssumption DEF IInv, TypeOK
      <3>2. Head(txq) \in Messages /\ Tail(txq) \in Seq(Messages) /\ Len(Tail(txq)) = Len(txq) - 1
            /\ Len(txq) \in Nat
        BY <1>1, <3>1, HeadTailProperties, LenProperties
      <3> QED BY <1>1, <3>1, <3>2
    <2>2. wire' \in Seq(Messages)
      BY <1>1, <2>1, AppendProperties DEF IInv, TypeOK
    <2>3. credits \in 0..AclCredits /\ unreported \in 0..AclCredits /\ AclCredits \in Nat
          /\ maxCredits \in {0, AclCredits} /\ (link => credits + unreported = maxCredits)
      BY L2capAssumption DEF IInv, TypeOK, CreditsConserved
    <2>4. credits' \in 0..AclCredits /\ unreported' \in 0..AclCredits
          /\ (link => credits' + unreported' = maxCredits)
      BY <1>1, <2>3
    <2>5. TypeOK'
      BY <1>0, <1>1, <2>1, <2>2, <2>4 DEF IInv, TypeOK
    <2> QED BY <1>0, <2>4, <2>5 DEF IInv, Sound, CreditsConserved
  <1>2. CASE at' = Idle /\ UNCHANGED <<txq, credits, wire, unreported>>
    BY <1>0, <1>2 DEF IInv, TypeOK, Sound, CreditsConserved
  <1> QED BY <1>1, <1>2 DEF ServiceWrite

-----------------------------------------------------------------------------
(* The handlers.                                                             *)

\* Packets of the link are reported as often as they were written: the clamp of
\* onEvent() never bites.
LEMMA ControllerReportsInv ==
  ASSUME IInv, NEW n \in 1..AclCredits, ControllerReports(n)
  PROVE  IInv'
  <1>1. credits \in 0..AclCredits /\ unreported \in 0..AclCredits /\ AclCredits \in Nat
        /\ maxCredits \in {0, AclCredits} /\ credits + unreported = maxCredits
    BY L2capAssumption DEF ControllerReports, Receiving, IInv, TypeOK, CreditsConserved
  <1>2. n \in Nat /\ n <= unreported /\ unreported' = unreported - n
        /\ credits' = (IF credits + n > maxCredits THEN maxCredits ELSE credits + n)
    BY <1>1 DEF ControllerReports, CompletedPackets
  <1>3. credits' \in 0..AclCredits /\ unreported' \in 0..AclCredits
        /\ credits' + unreported' = maxCredits
    BY <1>1, <1>2
  <1>4. UNCHANGED <<ch, txq, pend, nextCid, accept, at, maxCredits, link, links, wire, peer>>
    BY DEF ControllerReports, CompletedPackets, hostVars, linkVars
  <1> QED BY <1>3, <1>4 DEF IInv, TypeOK, Sound, CreditsConserved

LEMMA PeersFree == [c \in PeerCids |-> FreePeer] \in [PeerCids -> PeerSides]
  BY L2capAssumption DEF FreePeer, PeerSides, Cids

LEMMA LinkLostInv == ASSUME IInv, LinkLost PROVE IInv'
  <1>1. UNCHANGED <<hostVars, creditVars, links>> /\ link' = FALSE /\ wire' = <<>>
        /\ peer' \in [PeerCids -> PeerSides]
    BY PeersFree DEF LinkLost
  <1>a. UNCHANGED <<ch, txq, pend, nextCid, accept, at, credits, maxCredits, unreported>>
    BY <1>1 DEF hostVars, creditVars
  <1>b. <<>> \in Seq(Messages) /\ FALSE \in BOOLEAN
    OBVIOUS
  <1>c. wire' \in Seq(Messages) /\ link' \in BOOLEAN
    BY <1>1, <1>b
  <1>2. TypeOK'
    BY <1>1, <1>a, <1>c DEF IInv, TypeOK
  <1>3. Sound' /\ CreditsConserved'
    BY <1>1 DEF IInv, Sound, CreditsConserved, hostVars, creditVars
  <1> QED BY <1>2, <1>3 DEF IInv

\* What a handler may do to the channels: close one, or leave it usable.
ChannelsSound ==
  /\ ch \in [Slots -> Channels]
  /\ \A s \in Slots : ch[s].state \in {"CONFIG", "OPEN"} => ch[s].remote \in PeerCids

\* A handler touches the channels, what is pending, the wire and the peer only.
LEMMA HandlerInv ==
  ASSUME IInv, UNCHANGED <<txq, nextCid, accept, at, credits, maxCredits, unreported, link, links>>,
         ChannelsSound', pend' \in Pending, wire' \in Seq(Messages),
         peer' \in [PeerCids -> PeerSides],
         \/ pend'.conn = pend.conn /\ pend'.rsp = pend.rsp
         \/ nextCid < FirstCid + MaxDyn
  PROVE  IInv'
  <1>1. TypeOK'
    BY DEF IInv, TypeOK, ChannelsSound
  <1>2. Sound'
    BY DEF IInv, Sound, ChannelsSound
  <1>3. CreditsConserved'
    BY DEF IInv, CreditsConserved
  <1> QED BY <1>1, <1>2, <1>3 DEF IInv

\* It is enough to look at one channel at a time.
LEMMA OneByOne ==
  ASSUME IInv, NEW f, ch' = [s \in Slots |-> f[s]],
         \A s \in Slots : /\ f[s] \in Channels
                          /\ f[s].state \in {"CONFIG", "OPEN"} => f[s].remote \in PeerCids
  PROVE  ChannelsSound'
  BY DEF ChannelsSound

LEMMA ChannelTypes ==
  ASSUME IInv
  PROVE  \A s \in Slots : /\ ch[s] \in Channels
                          /\ ch[s].state \in {"CONFIG", "OPEN"} => ch[s].remote \in PeerCids
  BY DEF IInv, TypeOK, Sound

LEMMA UnchangedSound == ASSUME IInv, ch' = ch PROVE ChannelsSound'
  BY DEF IInv, TypeOK, Sound, ChannelsSound

LEMMA CfgReqSound == ASSUME IInv, NEW l, OnCfgReq(l) PROVE ChannelsSound'
  <1> DEFINE f == [s \in Slots |-> IF s \in ByLocal(l) THEN [ch[s] EXCEPT !.cfgReqSeen = TRUE, !.cfgRspSent = FALSE] ELSE ch[s]]
  <1>1. \A s \in Slots : /\ f[s] \in Channels
                         /\ f[s].state \in {"CONFIG", "OPEN"} => f[s].remote \in PeerCids
    BY ChannelTypes DEF Channels
  <1>2. ch' = [s \in Slots |-> f[s]]
    BY DEF OnCfgReq
  <1> HIDE DEF f
  <1> QED BY <1>1, <1>2, OneByOne

LEMMA CfgRspSound == ASSUME IInv, NEW c, OnCfgRsp(c) PROVE ChannelsSound'
  <1> DEFINE f == [s \in Slots |-> IF s \in Configured(c) THEN [ch[s] EXCEPT !.cfgRspRcvd = TRUE] ELSE ch[s]]
  <1>1. \A s \in Slots : /\ f[s] \in Channels
                         /\ f[s].state \in {"CONFIG", "OPEN"} => f[s].remote \in PeerCids
    BY ChannelTypes DEF Channels
  <1>2. ch' = [s \in Slots |-> f[s]]
    BY DEF OnCfgRsp
  <1> HIDE DEF f
  <1> QED BY <1>1, <1>2, OneByOne

LEMMA ConnRspSound == ASSUME IInv, NEW l, NEW c \in PeerCids \cup {None}, OnConnRsp(l, c) PROVE ChannelsSound'
  <1> DEFINE f == [s \in Slots |->
                     IF s \notin ByLocal(l) THEN ch[s]
                     ELSE IF c = None THEN [ch[s] EXCEPT !.state = "CLOSED"]
                     ELSE [ch[s] EXCEPT !.state = "CONFIG", !.remote = c]]
  <1>1. \A s \in Slots : /\ f[s] \in Channels
                         /\ f[s].state \in {"CONFIG", "OPEN"} => f[s].remote \in PeerCids
    BY ChannelTypes DEF Channels
  <1>2. ch' = [s \in Slots |-> f[s]]
    BY DEF OnConnRsp
  <1> HIDE DEF f
  <1> QED BY <1>1, <1>2, OneByOne

LEMMA DiscReqSound == ASSUME IInv, NEW l, NEW c, OnDiscReq(l, c) PROVE ChannelsSound'
  <1> DEFINE f == [s \in Slots |-> IF s \in ByLocal(l) THEN [ch[s] EXCEPT !.state = "CLOSED"] ELSE ch[s]]
  <1>1. \A s \in Slots : /\ f[s] \in Channels
                         /\ f[s].state \in {"CONFIG", "OPEN"} => f[s].remote \in PeerCids
    BY ChannelTypes DEF Channels
  <1>2. ch' = [s \in Slots |-> f[s]]
    BY DEF OnDiscReq
  <1> HIDE DEF f
  <1> QED BY <1>1, <1>2, OneByOne

LEMMA PeerConnectsInv ==
  ASSUME IInv, NEW c \in PeerCids, NEW psm \in Psms, PeerConnects(c, psm)
  PROVE  IInv'
  <1>1. pend' \in Pending /\ nextCid < FirstCid + MaxDyn
    BY DEF PeerConnects, IInv, TypeOK, Pending
  <1>2. peer' \in [PeerCids -> PeerSides]
    BY DEF PeerConnects, IInv, TypeOK, PeerSides
  <1>3. ChannelsSound' /\ wire' \in Seq(Messages)
    BY UnchangedSound DEF PeerConnects, IInv, TypeOK
  <1> QED BY <1>1, <1>2, <1>3, HandlerInv DEF PeerConnects, creditVars, linkVars

LEMMA PeerConfiguresInv ==
  ASSUME IInv, NEW c \in PeerCids, PeerConfigures(c)
  PROVE  IInv'
  <1>1. ChannelsSound'
    BY CfgReqSound DEF PeerConfigures
  <1>2. peer' \in [PeerCids -> PeerSides]
    BY DEF PeerConfigures, IInv, TypeOK, PeerSides
  <1>3. pend' \in Pending /\ wire' \in Seq(Messages)
    BY DEF PeerConfigures, IInv, TypeOK
  <1> QED BY <1>1, <1>2, <1>3, HandlerInv DEF PeerConfigures, creditVars, linkVars

LEMMA PeerDisconnectsInv ==
  ASSUME IInv, NEW c \in PeerCids, PeerDisconnects(c)
  PROVE  IInv'
  <1>1. ChannelsSound'
    BY DiscReqSound DEF PeerDisconnects
  <1>2. peer' \in [PeerCids -> PeerSides]
    BY DEF PeerDisconnects, IInv, TypeOK, PeerSides
  <1>3. pend' \in Pending /\ pend'.conn = pend.conn /\ pend'.rsp = pend.rsp
    BY DEF PeerDisconnects, OnDiscReq, IInv, TypeOK, Pending
  <1>4. wire' \in Seq(Messages)
    BY DEF PeerDisconnects, IInv, TypeOK
  <1> QED BY <1>1, <1>2, <1>3, <1>4, HandlerInv DEF PeerDisconnects, creditVars, linkVars

LEMMA PeerAsksInv ==
  ASSUME IInv, NEW q \in Questions, PeerAsks(q)
  PROVE  IInv'
  <1>1. pend' \in Pending /\ pend'.conn = pend.conn /\ pend'.rsp = pend.rsp
    BY DEF PeerAsks, IInv, TypeOK, Pending
  <1>2. ChannelsSound' /\ wire' \in Seq(Messages) /\ peer' \in [PeerCids -> PeerSides]
    BY UnchangedSound DEF PeerAsks, IInv, TypeOK
  <1> QED BY <1>1, <1>2, HandlerInv DEF PeerAsks, creditVars, linkVars

\* A packet that is read leaves the wire well formed, and is a message of its type.
LEMMA ReadType ==
  ASSUME IInv, NEW type, PeerReads(type)
  PROVE  /\ Head(wire) \in Messages /\ Head(wire).type = type
         /\ wire' \in Seq(Messages)
         /\ UNCHANGED <<txq, pend, nextCid, accept, at, credits, maxCredits, unreported, link, links>>
  BY HeadTailProperties DEF PeerReads, IInv, TypeOK, creditVars, linkVars

LEMMA PeerReadInv == ASSUME IInv, PeerRead PROVE IInv'
  <1>0. SUFFICES \E type : PeerReads(type) /\ ChannelsSound' /\ peer' \in [PeerCids -> PeerSides]
    BY ReadType, HandlerInv DEF IInv, TypeOK
  <1>p. peer \in [PeerCids -> PeerSides]
    BY DEF IInv, TypeOK
  <1>1. CASE PeerAcceptsUs
    <2>1. PICK c \in PeerCids :
             /\ peer' = [peer EXCEPT ![c].st = "up", ![c].other = Head(wire).local]
             /\ OnConnRsp(Head(wire).local, c)
      BY <1>1 DEF PeerAcceptsUs
    <2>2. PeerReads("CONN_REQ")
      BY <1>1 DEF PeerAcceptsUs
    <2>3. Head(wire).local \in Cids
      <3>1. Head(wire) \in Messages /\ Head(wire).type = "CONN_REQ"
        BY <2>2, ReadType
      <3>2. Head(wire).local \in LocalCids
        BY <3>1 DEF Messages
      <3>3. \A l \in LocalCids : l \in Cids
        BY L2capAssumption DEF Cids
      <3> QED BY <3>2, <3>3
    <2>4. peer' \in [PeerCids -> PeerSides]
      BY <1>p, <2>1, <2>3 DEF PeerSides
    <2> QED BY <2>1, <2>2, <2>4, ConnRspSound
  <1>2. CASE PeerRefusesUs
    BY <1>2, <1>p, ConnRspSound DEF PeerRefusesUs
  <1>3. CASE PeerReadsConnRsp
    <2>1. PeerReads("CONN_RSP") /\ ch' = ch
      BY <1>3 DEF PeerReadsConnRsp
    <2>2. Head(wire).to \in PeerCids /\ Head(wire).local \in Cids
      BY <2>1, ReadType DEF Messages, Cids
    <2>3. FreePeer \in PeerSides
      BY L2capAssumption DEF FreePeer, PeerSides, Cids
    <2>4. peer' \in [PeerCids -> PeerSides]
      <3>1. /\ [peer[Head(wire).to] EXCEPT !.st = "up", !.other = Head(wire).local] \in PeerSides
            /\ peer[Head(wire).to] \in PeerSides
        BY <1>p, <2>2 DEF PeerSides
      <3>2. PICK v \in PeerSides : peer' = [peer EXCEPT ![Head(wire).to] = v]
        BY <1>3, <2>3, <3>1 DEF PeerReadsConnRsp
      <3> QED BY <1>p, <3>2
    <2> QED BY <2>1, <2>4, UnchangedSound
  <1>4. CASE PeerReadsCfgReq
    <2>1. PeerReads("CFG_REQ")
      BY <1>4 DEF PeerReadsCfgReq
    <2>2. \/ /\ peer' = [peer EXCEPT ![Head(wire).to].answered = TRUE]
             /\ OnCfgRsp(peer[Head(wire).to].other)
          \/ UNCHANGED <<peer, ch>>
      BY <1>4 DEF PeerReadsCfgReq
    <2>3. peer' \in [PeerCids -> PeerSides]
      <3>1. Head(wire).to \in PeerCids
        BY <2>1, ReadType DEF Messages
      <3>2. [peer[Head(wire).to] EXCEPT !.answered = TRUE] \in PeerSides
        BY <1>p, <3>1 DEF PeerSides
      <3> QED BY <1>p, <2>2, <3>1, <3>2
    <2>4. ChannelsSound'
      <3>1. CASE ch' = ch
        BY <3>1, UnchangedSound
      <3>2. CASE OnCfgRsp(peer[Head(wire).to].other)
        BY <3>2, CfgRspSound
      <3> QED BY <2>2, <3>1, <3>2
    <2> QED BY <2>1, <2>3, <2>4
  <1>5. CASE PeerReadsDiscRsp
    <2>1. PeerReads("DISC_RSP") /\ ch' = ch
      BY <1>5 DEF PeerReadsDiscRsp
    <2>2. FreePeer \in PeerSides
      BY L2capAssumption DEF FreePeer, PeerSides, Cids
    <2>3. peer' \in [PeerCids -> PeerSides]
      BY <1>5, <1>p, <2>2 DEF PeerReadsDiscRsp
    <2> QED BY <2>1, <2>3, UnchangedSound
  <1>6. CASE PeerReadsOther
    BY <1>6, <1>p, UnchangedSound DEF PeerReadsOther
  <1> QED BY <1>1, <1>2, <1>3, <1>4, <1>5, <1>6 DEF PeerRead

-----------------------------------------------------------------------------
(* The theorems.                                                             *)

LEMMA StepInv == IInv /\ [Next]_vars => IInv'
  <1> SUFFICES ASSUME IInv, [Next]_vars PROVE IInv'
    OBVIOUS
  <1>1. CASE Begin \/ Reset \/ AcceptIncoming
    BY <1>1, BeginInv, ResetInv, AcceptInv
  <1>2. CASE (\E l \in LocalCids : Connect(l)) \/ (\E s \in Slots : SendData(s))
    BY <1>2, ConnectInv, SendDataInv
  <1>3. CASE Service
    BY <1>3, ServiceStartInv, ServiceAnswerInv, ServiceChannelInv, ServiceWriteInv DEF Service
  <1>4. CASE (\E n \in 1..AclCredits : ControllerReports(n)) \/ LinkLost
    BY <1>4, ControllerReportsInv, LinkLostInv
  <1>5. CASE \E c \in PeerCids : (\E psm \in Psms : PeerConnects(c, psm)) \/ PeerConfigures(c) \/ PeerDisconnects(c)
    BY <1>5, PeerConnectsInv, PeerConfiguresInv, PeerDisconnectsInv
  <1>6. CASE (\E q \in Questions : PeerAsks(q)) \/ PeerRead
    BY <1>6, PeerAsksInv, PeerReadInv
  <1>7. CASE UNCHANGED vars
    BY <1>7 DEF IInv, TypeOK, Sound, CreditsConserved, vars
  <1> QED BY <1>1, <1>2, <1>3, <1>4, <1>5, <1>6, <1>7 DEF Next

LEMMA InvAlways == Spec => []IInv
  BY InitInv, StepInv, PTL DEF Spec

\* Whatever is asked, granted, refused, closed or lost, the transmit queue keeps its
\* bound, the dynamic CIDs theirs, and every packet is well formed.
THEOREM TypeCorrect == Spec => []TypeOK
  <1>1. IInv => TypeOK
    BY DEF IInv
  <1> QED BY <1>1, InvAlways, PTL

\* service() and onEvent() together neither lose nor invent a credit on any link, for
\* any number of buffers.
THEOREM CreditsNeitherLostNorInvented == Spec => []CreditsConserved
  <1>1. IInv => CreditsConserved
    BY DEF IInv
  <1> QED BY <1>1, InvAlways, PTL

-----------------------------------------------------------------------------
(* No two channels in use share a CID of ours.                               *)

\* Unique on its own is not inductive: a CID given to a channel the peer opens is new
\* because the counter is past every CID it has given, and those connect() takes are
\* below the first.
Given ==
  \A s \in Slots : ch[s].state # "FREE" =>
    ch[s].local \in LocalCids \/ ch[s].local \in FirstCid..nextCid - 1

Distinct == OurCidsUnique /\ Given

\* A channel keeps its CID, and none appears.
LEMMA Kept ==
  ASSUME IInv, Distinct, nextCid' = nextCid,
         \A s \in Slots : /\ ch'[s].local = ch[s].local
                          /\ ch'[s].state # "FREE" => ch[s].state # "FREE"
  PROVE  Distinct'
  BY DEF Distinct, OurCidsUnique, Given

\* Handlers and the configuration pass write fields other than the CID and never free
\* a slot or take one.
LEMMA ChannelKept ==
  ASSUME IInv, Distinct, NEW s \in Slots, ServiceChannel(s)
  PROVE  Distinct'
  <1> DEFINE r == ch[s]
             req == r.state = "CONFIG" /\ ~r.cfgReqSent /\ HasRoom(txq)
             q == IF req THEN Append(txq, CfgReq(r.remote)) ELSE txq
             rsp == r.state = "CONFIG" /\ r.cfgReqSeen /\ ~r.cfgRspSent /\ HasRoom(q)
             done == [r EXCEPT !.cfgReqSent = @ \/ req, !.cfgRspSent = @ \/ rsp]
             next == [done EXCEPT !.state = IF Agreed(done) THEN "OPEN" ELSE @]
  <1>1. ch' = [ch EXCEPT ![s] = next] /\ nextCid' = nextCid
    BY DEF ServiceChannel
  <1>2. r \in Channels /\ ch \in [Slots -> Channels]
    BY DEF IInv, TypeOK
  <1>3. done \in Channels /\ done.state = r.state /\ done.local = r.local
    BY <1>2, Zenon DEF Channels
  <1>4. next.local = r.local /\ (next.state # "FREE" => r.state # "FREE")
    <2> HIDE DEF r, req, q, rsp, done
    <2> QED BY <1>3 DEF Channels, Agreed
  <1> HIDE DEF next
  <1>5. \A t \in Slots : ch'[t].local = ch[t].local /\ (ch'[t].state # "FREE" => ch[t].state # "FREE")
    BY <1>1, <1>2, <1>4
  <1> QED BY <1>1, <1>5, Kept

LEMMA HandlersKept ==
  ASSUME IInv, Distinct, nextCid' = nextCid, NEW l, NEW c,
         \/ OnConnRsp(l, c) \/ OnCfgReq(l) \/ OnCfgRsp(c) \/ OnDiscReq(l, c) \/ ch' = ch
  PROVE  Distinct'
  <1>1. \A s \in Slots : ch[s] \in Channels
    BY ChannelTypes
  <1>2. \A s \in ByLocal(l) \cup Configured(c) : ch[s].state # "FREE"
    BY DEF ByLocal, ByRemote, Configured, First
  <1>3. \A s \in Slots : ch'[s].local = ch[s].local /\ (ch'[s].state # "FREE" => ch[s].state # "FREE")
    <2>1. CASE OnConnRsp(l, c)
      BY <2>1, <1>1, <1>2 DEF OnConnRsp, Channels
    <2>2. CASE OnCfgReq(l)
      BY <2>2, <1>1 DEF OnCfgReq, Channels
    <2>3. CASE OnCfgRsp(c)
      BY <2>3, <1>1 DEF OnCfgRsp, Channels
    <2>4. CASE OnDiscReq(l, c)
      BY <2>4, <1>1, <1>2 DEF OnDiscReq, Channels
    <2>5. CASE ch' = ch
      BY <2>5
    <2> QED BY <2>1, <2>2, <2>3, <2>4, <2>5
  <1> QED BY <1>3, Kept

LEMMA ConnectDistinct ==
  ASSUME IInv, Distinct, NEW l \in LocalCids, Connect(l)
  PROVE  Distinct'
  <1>1. PICK s \in Slots : ch' = [ch EXCEPT ![s] = [FreeCh EXCEPT !.state = "WAIT_CONN", !.local = l]]
    BY DEF Connect, First, Reusable
  <1>2. ch'[s].local = l /\ \A t \in Slots : t # s => ch'[t] = ch[t]
    BY <1>1 DEF IInv, TypeOK, FreeCh
  <1>3. \A t \in Slots : ch[t].state # "FREE" => ch[t].local # l
    BY DEF Connect, ByLocal
  <1>4. nextCid' = nextCid
    BY DEF Connect
  <1>5. OurCidsUnique'
    BY <1>2, <1>3 DEF Distinct, OurCidsUnique
  <1>6. Given'
    BY <1>2, <1>4 DEF Distinct, Given
  <1> QED BY <1>5, <1>6 DEF Distinct

LEMMA DecideDistinct ==
  ASSUME IInv, Distinct, ServiceStart
  PROVE  Distinct'
  <1>1. CASE UNCHANGED <<ch, nextCid>>
    BY <1>1 DEF Distinct, OurCidsUnique, Given
  <1>2. CASE \E s \in First(Reusable) :
               /\ ch' = [ch EXCEPT ![s] = [FreeCh EXCEPT !.state = "CONFIG", !.local = nextCid,
                                                         !.remote = pend.conn.scid]]
               /\ nextCid' = nextCid + 1
    <2>1. PICK s \in Slots :
             /\ ch' = [ch EXCEPT ![s] = [FreeCh EXCEPT !.state = "CONFIG", !.local = nextCid,
                                                       !.remote = pend.conn.scid]]
             /\ nextCid' = nextCid + 1
      BY <1>2 DEF First, Reusable
    <2>2. ch'[s].local = nextCid /\ \A t \in Slots : t # s => ch'[t] = ch[t]
      BY <2>1 DEF IInv, TypeOK, FreeCh
    <2>3. nextCid \in Nat /\ FirstCid \in Nat /\ FirstCid <= nextCid /\ LocalCids \subseteq 1..FirstCid - 1
      BY L2capAssumption DEF IInv, TypeOK
    <2>4. \A t \in Slots : ch[t].state # "FREE" => ch[t].local # nextCid
      BY <2>3 DEF Distinct, Given
    <2>5. OurCidsUnique'
      BY <2>2, <2>4 DEF Distinct, OurCidsUnique
    <2>6. nextCid \in FirstCid..nextCid' - 1
          /\ \A k : k \in FirstCid..nextCid - 1 => k \in FirstCid..nextCid' - 1
      BY <2>1, <2>3
    <2>7. Given'
      BY <2>2, <2>6 DEF Distinct, Given
    <2> QED BY <2>5, <2>7 DEF Distinct
  <1> QED BY <1>1, <1>2 DEF ServiceStart, Decide

LEMMA DistinctStep == IInv /\ Distinct /\ [Next]_vars => Distinct'
  <1> SUFFICES ASSUME IInv, Distinct, [Next]_vars PROVE Distinct'
    OBVIOUS
  <1>1. CASE Begin \/ Reset
    <2>1. \A s \in Slots : ch'[s].state = "FREE"
      BY <1>1 DEF Begin, Reset, Cleared, FreeCh
    <2> QED BY <2>1 DEF Distinct, OurCidsUnique, Given
  <1>2. CASE UNCHANGED <<ch, nextCid>>
    BY <1>2 DEF Distinct, OurCidsUnique, Given
  <1>3. CASE \E l \in LocalCids : Connect(l)
    BY <1>3, ConnectDistinct
  <1>4. CASE Service
    <2>1. CASE ServiceAnswer \/ ServiceWrite
      BY <2>1, <1>2 DEF ServiceAnswer, ServiceWrite
    <2> QED BY <1>4, <2>1, DecideDistinct, ChannelKept DEF Service
  <1>5. CASE \E c \in PeerCids : PeerConfigures(c) \/ PeerDisconnects(c)
    BY <1>5, HandlersKept DEF PeerConfigures, PeerDisconnects
  <1>6. CASE PeerRead
    <2>1. nextCid' = nextCid
      BY <1>6 DEF PeerRead, PeerAcceptsUs, PeerRefusesUs, PeerReadsConnRsp, PeerReadsCfgReq,
                  PeerReadsDiscRsp, PeerReadsOther, PeerReads
    <2>2. \E l, c : OnConnRsp(l, c) \/ OnCfgRsp(c) \/ ch' = ch
      BY <1>6 DEF PeerRead, PeerAcceptsUs, PeerRefusesUs, PeerReadsConnRsp, PeerReadsCfgReq,
                  PeerReadsDiscRsp, PeerReadsOther
    <2> QED BY <2>1, <2>2, HandlersKept
  <1>7. AcceptIncoming \/ (\E s \in Slots : SendData(s)) \/ (\E n \in 1..AclCredits : ControllerReports(n))
        \/ LinkLost \/ (\E c \in PeerCids, psm \in Psms : PeerConnects(c, psm))
        \/ (\E q \in Questions : PeerAsks(q)) \/ UNCHANGED vars
          => UNCHANGED <<ch, nextCid>>
    BY DEF AcceptIncoming, SendData, ControllerReports, LinkLost, PeerConnects, PeerAsks, vars, hostVars
  <1> QED BY <1>1, <1>2, <1>3, <1>4, <1>5, <1>6, <1>7 DEF Next

\* connect() and the channels a peer opens never give two channels in use the same CID
\* of ours, so what arrives for a CID is for one channel.
THEOREM NoSharedCid == Spec => []OurCidsUnique
  <1>1. Init => Distinct
    BY DEF Init, FreeCh, Distinct, OurCidsUnique, Given
  <1>2. Distinct => OurCidsUnique
    BY DEF Distinct
  <1> QED BY <1>1, <1>2, DistinctStep, InvAlways, PTL DEF Spec

-----------------------------------------------------------------------------
(* What is under way to the peer, and what the peer makes of it.             *)
(* The parts are stated of channels k, of what is outbound o, what is        *)
(* pending p and the peer's sides pe.                                        *)

Live(r) == r.state \in {"CONFIG", "OPEN"}

\* A side of the peer is as new until it is asked for, and until its channel is up.
AsNew(pe) ==
  \A c \in PeerCids : /\ pe[c].st = "free" => pe[c] = FreePeer
                      /\ pe[c].st = "asked" => ~pe[c].answered /\ ~pe[c].configured

\* A response answers a request that is open; a grant has its channel.
Backed(k, pe, m) ==
  /\ pe[m.to].st = "asked"
  /\ m.ok => \E s \in Slots : k[s].state = "CONFIG" /\ k[s].local = m.local /\ k[s].remote = m.to

\* No request gets two responses: none has been sent to the one that is pending.
Responses(k, o, p, pe) ==
  /\ \A i \in 1..Len(o) : o[i].type = "CONN_RSP" => Backed(k, pe, o[i])
  /\ \A i, j \in 1..Len(o) :
       o[i].type = "CONN_RSP" /\ o[j].type = "CONN_RSP" /\ o[i].to = o[j].to => i = j
  /\ p.rsp # None =>
       Backed(k, pe, p.rsp) /\ \A i \in 1..Len(o) : o[i].type = "CONN_RSP" => o[i].to # p.rsp.to
  /\ p.conn # None =>
       /\ pe[p.conn.scid].st = "asked"
       /\ \A i \in 1..Len(o) : o[i].type = "CONN_RSP" => o[i].to # p.conn.scid

\* A request of ours has a channel that waits for its answer.
Requests(k, o) ==
  /\ \A i \in 1..Len(o) : o[i].type = "CONN_REQ" =>
       \E s \in Slots : k[s].state = "WAIT_CONN" /\ k[s].local = o[i].local
  /\ \A i, j \in 1..Len(o) :
       o[i].type = "CONN_REQ" /\ o[j].type = "CONN_REQ" /\ o[i].local = o[j].local => i = j

\* The response that grants channel r is on its way.
Granted(r, o, p) ==
  \/ p.rsp = ConnRsp(r.remote, r.local, TRUE)
  \/ \E i \in 1..Len(o) : o[i] = ConnRsp(r.remote, r.local, TRUE)

\* Both sides have the same channels: what is up there is live here, and what is live here
\* is up there or about to be.
Paired(k, o, p, pe) ==
  /\ \A c \in PeerCids : pe[c].st = "up" =>
       \E s \in Slots : Live(k[s]) /\ k[s].local = pe[c].other /\ k[s].remote = c
  /\ \A s \in Slots : Live(k[s]) =>
       \/ pe[k[s].remote].st = "up" /\ pe[k[s].remote].other = k[s].local
       \/ pe[k[s].remote].st = "asked" /\ Granted(k[s], o, p)

\* A side that is closing gets one answer.
Farewells(o, p, pe) ==
  /\ \A i \in 1..Len(o) : o[i].type = "DISC_RSP" =>
       pe[o[i].to].st = "closing" /\ o[i].to # p.disc
  /\ \A i, j \in 1..Len(o) :
       o[i].type = "DISC_RSP" /\ o[j].type = "DISC_RSP" /\ o[i].to = o[j].to => i = j
  /\ p.disc # None => pe[p.disc].st = "closing"

\* Our configuration request goes out after the grant of the channel and before its end.
Timely(o, pe, i) ==
  \/ pe[o[i].to].st = "up"
  \/ pe[o[i].to].st = "closing" /\ \A j \in 1..i - 1 : o[j].type = "DISC_RSP" => o[j].to # o[i].to
  \/ pe[o[i].to].st = "asked"
       /\ \E j \in 1..i - 1 : o[j].type = "CONN_RSP" /\ o[j].to = o[i].to /\ o[j].ok
Ordered(o, pe) == \A i \in 1..Len(o) : o[i].type = "CFG_REQ" => Timely(o, pe, i)

\* What a channel has noted of the peer is so.
Noted(k, pe) ==
  \A s \in Slots : Live(k[s]) =>
    /\ k[s].cfgRspRcvd => pe[k[s].remote].answered
    /\ k[s].cfgReqSeen \/ k[s].cfgRspSent => pe[k[s].remote].configured
    /\ k[s].state = "OPEN" => k[s].cfgRspRcvd /\ k[s].cfgRspSent

Talk(k, o, p, pe) ==
  /\ AsNew(pe) /\ Responses(k, o, p, pe) /\ Requests(k, o) /\ Paired(k, o, p, pe)
  /\ Farewells(o, p, pe) /\ Ordered(o, pe) /\ Noted(k, pe)

OwnCids(k) ==
  \A s, t \in Slots : s # t /\ k[s].state # "FREE" /\ k[t].state # "FREE" => k[s].local # k[t].local

Typed(k, o, p, pe) ==
  /\ k \in [Slots -> Channels] /\ \A s \in Slots : Live(k[s]) => k[s].remote \in PeerCids
  /\ o \in Seq(Messages) /\ p \in Pending /\ pe \in [PeerCids -> PeerSides]

\* Messages by their type.
LEMMA MessageIs ==
  ASSUME NEW m \in Messages
  PROVE  /\ m.type \in {"CONN_RSP", "CFG_REQ", "DISC_RSP"} => m.to \in PeerCids
         /\ m.type = "CONN_RSP" => m = ConnRsp(m.to, m.local, m.ok) /\ m.ok \in BOOLEAN
         /\ m.type = "CONN_REQ" => m.local \in LocalCids
  BY DEF Messages, ConnRsp

LEMMA ConnRspIs ==
  ASSUME NEW c, NEW l, NEW ok
  PROVE  /\ ConnRsp(c, l, ok).type = "CONN_RSP" /\ ConnRsp(c, l, ok).to = c
         /\ ConnRsp(c, l, ok).local = l /\ ConnRsp(c, l, ok).ok = ok
  BY DEF ConnRsp

LEMMA AppendIs ==
  ASSUME NEW o \in Seq(Messages), NEW m \in Messages
  PROVE  /\ Append(o, m) \in Seq(Messages) /\ Len(Append(o, m)) = Len(o) + 1 /\ Len(o) \in Nat
         /\ Append(o, m)[Len(o) + 1] = m /\ \A i \in 1..Len(o) : Append(o, m)[i] = o[i]
  BY AppendProperties, LenProperties

LEMMA TailIs ==
  ASSUME NEW o \in Seq(Messages), o # <<>>
  PROVE  /\ Tail(o) \in Seq(Messages) /\ Len(Tail(o)) = Len(o) - 1 /\ Len(o) \in Nat \ {0}
         /\ Head(o) = o[1] /\ Head(o) \in Messages /\ \A i \in 1..Len(Tail(o)) : Tail(o)[i] = o[i + 1]
  BY HeadTailProperties, LenProperties

LEMMA JoinIs ==
  ASSUME NEW o \in Seq(Messages), NEW q \in Seq(Messages)
  PROVE  /\ o \o q \in Seq(Messages) /\ Len(o \o q) = Len(o) + Len(q) /\ Len(o) \in Nat /\ Len(q) \in Nat
         /\ \A i \in 1..Len(o) : (o \o q)[i] = o[i]
         /\ \A i \in 1..Len(q) : (o \o q)[Len(o) + i] = q[i]
  <1>1. /\ o \o q \in Seq(Messages) /\ Len(o \o q) = Len(o) + Len(q) /\ Len(o) \in Nat /\ Len(q) \in Nat
        /\ \A i \in 1..(Len(o) + Len(q)) : (o \o q)[i] = IF i <= Len(o) THEN o[i] ELSE q[i - Len(o)]
    BY ConcatProperties, LenProperties
  <1> DEFINE w == o \o q
  <1> HIDE DEF w
  <1>2. \A i \in 1..Len(o) : w[i] = o[i]
    BY <1>1 DEF w
  <1>3. \A i \in 1..Len(q) : w[Len(o) + i] = q[i]
    <2> TAKE i \in 1..Len(q)
    <2>1. Len(o) + i \in 1..(Len(o) + Len(q)) /\ ~(Len(o) + i <= Len(o)) /\ (Len(o) + i) - Len(o) = i
      BY <1>1
    <2> QED BY <1>1, <2>1 DEF w
  <1> QED BY <1>1, <1>2, <1>3 DEF w

-----------------------------------------------------------------------------
(* The queue grows at its end and shrinks at its head.                       *)

LEMMA TimelySame ==
  ASSUME NEW o, NEW w, NEW pe, NEW i \in Nat, Timely(o, pe, i), \A j \in 1..i : w[j] = o[j]
  PROVE  w[i].to = o[i].to => Timely(w, pe, i)
  <1>1. \A j \in 1..i - 1 : j \in 1..i
    OBVIOUS
  <1> QED BY <1>1 DEF Timely

\* What was said of the messages of a queue goes for those of a shorter one.
LEMMA ResponsesWithin ==
  ASSUME NEW k, NEW o, NEW w, NEW p, NEW pe, Responses(k, o, p, pe),
         \A i \in 1..Len(w) : w[i].type = "CONN_RSP" => i \in 1..Len(o) /\ w[i] = o[i]
  PROVE  Responses(k, w, p, pe)
  BY DEF Responses

LEMMA RequestsWithin ==
  ASSUME NEW k, NEW o, NEW w, Requests(k, o),
         \A i \in 1..Len(w) : w[i].type = "CONN_REQ" => i \in 1..Len(o) /\ w[i] = o[i]
  PROVE  Requests(k, w)
  BY DEF Requests

LEMMA FarewellsWithin ==
  ASSUME NEW o, NEW w, NEW p, NEW pe, Farewells(o, p, pe),
         \A i \in 1..Len(w) : w[i].type = "DISC_RSP" => i \in 1..Len(o) /\ w[i] = o[i]
  PROVE  Farewells(w, p, pe)
  BY DEF Farewells

LEMMA ResponsesShifted ==
  ASSUME NEW k, NEW o, NEW w, NEW p, NEW pe, Responses(k, o, p, pe),
         \A i \in 1..Len(w) : i + 1 \in 1..Len(o) /\ w[i] = o[i + 1] /\ i \in Int
  PROVE  Responses(k, w, p, pe)
  <1>1. \A i \in 1..Len(w) : w[i].type = "CONN_RSP" => Backed(k, pe, w[i])
    BY DEF Responses
  <1>2. ASSUME NEW i \in 1..Len(w), NEW j \in 1..Len(w),
               w[i].type = "CONN_RSP", w[j].type = "CONN_RSP", w[i].to = w[j].to
        PROVE  i = j
    <2>1. i + 1 = j + 1
      BY <1>2 DEF Responses
    <2>2. i \in Int /\ j \in Int
      OBVIOUS
    <2> QED BY <2>1, <2>2
  <1>3. p.rsp # None =>
          Backed(k, pe, p.rsp) /\ \A i \in 1..Len(w) : w[i].type = "CONN_RSP" => w[i].to # p.rsp.to
    BY DEF Responses
  <1>4. p.conn # None =>
          /\ pe[p.conn.scid].st = "asked"
          /\ \A i \in 1..Len(w) : w[i].type = "CONN_RSP" => w[i].to # p.conn.scid
    BY DEF Responses
  <1> QED BY <1>1, <1>2, <1>3, <1>4 DEF Responses

LEMMA GrantedLeft ==
  ASSUME NEW r, NEW o, NEW w, NEW p, Granted(r, o, p),
         \A i \in 1..Len(o) : o[i] = ConnRsp(r.remote, r.local, TRUE) => i # 1,
         \A i \in 1..Len(o) : i # 1 => i - 1 \in 1..Len(w) /\ w[i - 1] = o[i]
  PROVE  Granted(r, w, p)
  <1>1. CASE p.rsp = ConnRsp(r.remote, r.local, TRUE)
    BY <1>1 DEF Granted
  <1>2. CASE \E i \in 1..Len(o) : o[i] = ConnRsp(r.remote, r.local, TRUE)
    <2>1. PICK i \in 1..Len(o) : o[i] = ConnRsp(r.remote, r.local, TRUE)
      BY <1>2
    <2>2. i - 1 \in 1..Len(w) /\ w[i - 1] = ConnRsp(r.remote, r.local, TRUE)
      BY <2>1
    <2> QED BY <2>2 DEF Granted
  <1> QED BY <1>1, <1>2 DEF Granted

LEMMA TimelyShifted ==
  ASSUME NEW o, NEW w, NEW pe, NEW pe2, NEW i, Timely(o, pe, i + 1), w[i] = o[i + 1],
         pe2[w[i].to] = pe[w[i].to],
         \A j \in 1..i - 1 : j + 1 \in 1..(i + 1) - 1 /\ w[j] = o[j + 1],
         \A j \in 1..(i + 1) - 1 : o[j].type = "CONN_RSP" /\ o[j].to = w[i].to =>
           j - 1 \in 1..i - 1 /\ w[j - 1] = o[j]
  PROVE  Timely(w, pe2, i)
  <1>1. CASE pe[w[i].to].st = "up"
    BY <1>1 DEF Timely
  <1>2. CASE /\ pe[w[i].to].st = "closing"
             /\ \A j \in 1..(i + 1) - 1 : o[j].type = "DISC_RSP" => o[j].to # o[i + 1].to
    <2>1. \A j \in 1..i - 1 : w[j].type = "DISC_RSP" => w[j].to # w[i].to
      BY <1>2
    <2> QED BY <1>2, <2>1 DEF Timely
  <1>3. CASE /\ pe[w[i].to].st = "asked"
             /\ \E j \in 1..(i + 1) - 1 : o[j].type = "CONN_RSP" /\ o[j].to = o[i + 1].to /\ o[j].ok
    <2>1. PICK j \in 1..(i + 1) - 1 : o[j].type = "CONN_RSP" /\ o[j].to = w[i].to /\ o[j].ok
      BY <1>3
    <2>2. j - 1 \in 1..i - 1 /\ w[j - 1] = o[j]
      BY <2>1
    <2> QED BY <1>3, <2>1, <2>2 DEF Timely
  <1> QED BY <1>1, <1>2, <1>3 DEF Timely

\* A message that is neither a response to a connection request nor to a disconnection.
LEMMA Appended ==
  ASSUME NEW k, NEW o \in Seq(Messages), NEW p, NEW pe, NEW m \in Messages, Talk(k, o, p, pe),
         m.type \notin {"CONN_RSP", "DISC_RSP"},
         m.type = "CONN_REQ" =>
           /\ \E s \in Slots : k[s].state = "WAIT_CONN" /\ k[s].local = m.local
           /\ \A i \in 1..Len(o) : o[i].type = "CONN_REQ" => o[i].local # m.local,
         m.type = "CFG_REQ" =>
           \/ pe[m.to].st = "up"
           \/ /\ pe[m.to].st = "asked"
              /\ \E j \in 1..Len(o) : o[j].type = "CONN_RSP" /\ o[j].to = m.to /\ o[j].ok
  PROVE  Talk(k, Append(o, m), p, pe)
  <1> DEFINE w == Append(o, m)
             n == Len(o)
  <1>0. n \in Nat /\ Len(w) = n + 1 /\ w[n + 1] = m /\ \A i \in 1..n : w[i] = o[i]
    BY AppendIs
  <1> HIDE DEF w
  <1>1. \A i \in 1..Len(w) : (i \in 1..n /\ w[i] = o[i]) \/ (i = n + 1 /\ w[i] = m)
    <2> HIDE DEF n
    <2> QED BY <1>0
  <1> HIDE DEF n
  <1>2. \A i \in 1..n : i \in 1..Len(w)
    BY <1>0
  <1>t. /\ Responses(k, o, p, pe) /\ Requests(k, o) /\ Paired(k, o, p, pe)
        /\ Farewells(o, p, pe) /\ Ordered(o, pe)
    BY DEF Talk
  <1>3. Responses(k, w, p, pe)
    <2>1. \A i \in 1..Len(w) : w[i].type = "CONN_RSP" => i \in 1..Len(o) /\ w[i] = o[i]
      BY <1>1 DEF n
    <2> QED BY <2>1, <1>t, ResponsesWithin
  <1>4. Requests(k, w)
    <2>1. \A i \in 1..Len(w) : w[i].type = "CONN_REQ" =>
            \E s \in Slots : k[s].state = "WAIT_CONN" /\ k[s].local = w[i].local
      <3> SUFFICES ASSUME NEW i \in 1..Len(w), w[i].type = "CONN_REQ"
                   PROVE  \E s \in Slots : k[s].state = "WAIT_CONN" /\ k[s].local = w[i].local
        OBVIOUS
      <3>1. CASE i \in 1..n /\ w[i] = o[i]
        BY <3>1, <1>t DEF Requests, n
      <3>2. CASE w[i] = m
        BY <3>2
      <3> QED BY <3>1, <3>2, <1>1
    <2>2. ASSUME NEW i \in 1..Len(w), NEW j \in 1..Len(w),
                 w[i].type = "CONN_REQ", w[j].type = "CONN_REQ", w[i].local = w[j].local
          PROVE  i = j
      <3>1. CASE i \in 1..n /\ w[i] = o[i] /\ j \in 1..n /\ w[j] = o[j]
        BY <3>1, <2>2, <1>t DEF Requests, n
      <3>2. CASE i \in 1..n /\ w[i] = o[i] /\ w[j] = m
        BY <3>2, <2>2 DEF n
      <3>3. CASE w[i] = m /\ j \in 1..n /\ w[j] = o[j]
        BY <3>3, <2>2 DEF n
      <3>4. CASE i = n + 1 /\ j = n + 1
        BY <3>4
      <3> QED BY <3>1, <3>2, <3>3, <3>4, <1>1
    <2> QED BY <2>1, <2>2 DEF Requests
  <1>5. \A r : Granted(r, o, p) => Granted(r, w, p)
    BY <1>0, <1>2 DEF Granted, n
  <1>6. Paired(k, w, p, pe)
    BY <1>5, <1>t DEF Paired
  <1>7. Farewells(w, p, pe)
    <2>1. \A i \in 1..Len(w) : w[i].type = "DISC_RSP" => i \in 1..Len(o) /\ w[i] = o[i]
      BY <1>1 DEF n
    <2> QED BY <2>1, <1>t, FarewellsWithin
  <1>8. Ordered(w, pe)
    <2> SUFFICES ASSUME NEW i \in 1..Len(w), w[i].type = "CFG_REQ" PROVE Timely(w, pe, i)
      BY DEF Ordered
    <2>1. CASE i \in 1..n /\ w[i] = o[i]
      <3>1. Timely(o, pe, i)
        BY <2>1, <1>t DEF Ordered, n
      <3>2. i \in Nat /\ \A j \in 1..i : w[j] = o[j]
        BY <2>1, <1>0
      <3> QED BY <2>1, <3>1, <3>2, TimelySame
    <2>2. CASE i = n + 1 /\ w[i] = m
      <3>1. \A j \in 1..n : j \in 1..i - 1 /\ w[j] = o[j]
        BY <2>2, <1>0
      <3> QED BY <2>2, <3>1 DEF Timely, n
    <2> QED BY <2>1, <2>2, <1>1
  <1> QED BY <1>3, <1>4, <1>6, <1>7, <1>8 DEF Talk, w

\* What is known of the messages under way, by their places.
LEMMA Places ==
  ASSUME NEW o \in Seq(Messages), o # <<>>
  PROVE  LET w == Tail(o)
         IN  /\ 1 \in 1..Len(o)
             /\ \A i \in 1..Len(w) : i + 1 \in 1..Len(o) /\ w[i] = o[i + 1] /\ i + 1 # 1 /\ i \in Int
             /\ \A i \in 1..Len(o) : i # 1 => i - 1 \in 1..Len(w) /\ w[i - 1] = o[i]
             /\ \A i \in 1..Len(w) : \A j \in 1..i - 1 :
                  j + 1 \in 1..(i + 1) - 1 /\ j + 1 \in 1..Len(o) /\ w[j] = o[j + 1] /\ j + 1 # 1
             /\ \A i \in 1..Len(w) : \A j \in 1..(i + 1) - 1 :
                  j \in 1..Len(o) /\ (j # 1 => j - 1 \in 1..i - 1 /\ w[j - 1] = o[j])
             /\ \A i \in 1..Len(w) : 1 \in 1..(i + 1) - 1
  <1> DEFINE w == Tail(o)
             n == Len(o)
  <1>1. n \in Nat \ {0} /\ Len(w) = n - 1 /\ \A i \in 1..Len(w) : w[i] = o[i + 1]
    BY TailIs
  <1> HIDE DEF w, n
  <1>2. \A i \in 1..n : i # 1 => i - 1 \in 1..Len(w) /\ w[i - 1] = o[i]
    BY <1>1
  <1>3. \A i \in 1..Len(w) : i + 1 \in 1..n /\ w[i] = o[i + 1] /\ i + 1 # 1 /\ i \in Int
    BY <1>1
  <1>4. \A i \in 1..Len(w) : \A j \in 1..i - 1 :
          j + 1 \in 1..(i + 1) - 1 /\ j + 1 \in 1..n /\ w[j] = o[j + 1] /\ j + 1 # 1
    BY <1>1
  <1>5. \A i \in 1..Len(w) : \A j \in 1..(i + 1) - 1 :
          j \in 1..n /\ (j # 1 => j - 1 \in 1..i - 1 /\ w[j - 1] = o[j])
    BY <1>1, <1>2
  <1>6. 1 \in 1..n /\ \A i \in 1..Len(w) : 1 \in 1..(i + 1) - 1
    BY <1>1
  <1> QED BY <1>2, <1>3, <1>4, <1>5, <1>6 DEF w, n

\* Our requests lose none but the one that is read.
LEMMA RequestsLeft ==
  ASSUME NEW k, NEW o \in Seq(Messages), o # <<>>, Requests(k, o)
  PROVE  Requests(k, Tail(o))
  <1> DEFINE w == Tail(o)
  <1>w. \A i \in 1..Len(w) : i + 1 \in 1..Len(o) /\ w[i] = o[i + 1] /\ i \in Int
    BY Places
  <1> HIDE DEF w
  <1>1. \A i \in 1..Len(w) : w[i].type = "CONN_REQ" =>
          \E s \in Slots : k[s].state = "WAIT_CONN" /\ k[s].local = w[i].local
    BY <1>w DEF Requests
  <1>2. ASSUME NEW i \in 1..Len(w), NEW j \in 1..Len(w),
               w[i].type = "CONN_REQ", w[j].type = "CONN_REQ", w[i].local = w[j].local
        PROVE  i = j
    <2>1. i + 1 = j + 1
      BY <1>2, <1>w DEF Requests
    <2> QED BY <2>1, <1>w
  <1> QED BY <1>1, <1>2 DEF Requests, w

\* What is left when the peer has read the first message.
LEMMA Passed ==
  ASSUME NEW k, NEW o \in Seq(Messages), NEW p, NEW pe, Talk(k, o, p, pe),
         o # <<>>, o[1].type \notin {"CONN_RSP", "DISC_RSP"}
  PROVE  /\ Talk(k, Tail(o), p, pe)
         /\ o[1].type = "CONN_REQ" =>
              \A i \in 1..Len(Tail(o)) : Tail(o)[i].type = "CONN_REQ" => Tail(o)[i].local # o[1].local
  <1> DEFINE w == Tail(o)
             n == Len(o)
  <1>0. 1 \in 1..n
    BY Places
  <1>1. \A i \in 1..Len(w) : i + 1 \in 1..n /\ w[i] = o[i + 1] /\ i + 1 # 1 /\ i \in Int
    BY Places
  <1>2. \A i \in 1..n : i # 1 => i - 1 \in 1..Len(w) /\ w[i - 1] = o[i]
    BY Places
  <1>9. \A i \in 1..Len(w) :
          /\ \A j \in 1..i - 1 : j + 1 \in 1..(i + 1) - 1 /\ w[j] = o[j + 1]
          /\ \A j \in 1..(i + 1) - 1 : j # 1 => j - 1 \in 1..i - 1 /\ w[j - 1] = o[j]
    BY Places
  <1> HIDE DEF w, n
  <1>t. /\ Responses(k, o, p, pe) /\ Requests(k, o) /\ Paired(k, o, p, pe)
        /\ Farewells(o, p, pe) /\ Ordered(o, pe)
    BY DEF Talk
  <1>3. Responses(k, w, p, pe)
    BY <1>1, <1>t, ResponsesShifted DEF n
  <1>4. Requests(k, w)
    BY <1>t, RequestsLeft DEF w
  <1>5. \A r : Granted(r, o, p) => Granted(r, w, p)
    <2> TAKE r
    <2>0. ConnRsp(r.remote, r.local, TRUE).type = "CONN_RSP"
      BY DEF ConnRsp
    <2>1. \A i \in 1..Len(o) : o[i] = ConnRsp(r.remote, r.local, TRUE) => i # 1
      BY <2>0
    <2> QED BY <2>1, <1>2, GrantedLeft DEF n
  <1>6. Paired(k, w, p, pe)
    BY <1>5, <1>t DEF Paired
  <1>7. Farewells(w, p, pe)
    <2>1. \A i \in 1..Len(w) : w[i].type = "DISC_RSP" => pe[w[i].to].st = "closing" /\ w[i].to # p.disc
      BY <1>1, <1>t DEF Farewells, n
    <2>2. ASSUME NEW i \in 1..Len(w), NEW j \in 1..Len(w),
                 w[i].type = "DISC_RSP", w[j].type = "DISC_RSP", w[i].to = w[j].to
          PROVE  i = j
      <3>1. i + 1 = j + 1
        BY <2>2, <1>1, <1>t DEF Farewells, n
      <3> QED BY <3>1, <1>1
    <2> QED BY <2>1, <2>2, <1>t DEF Farewells
  <1>8. Ordered(w, pe)
    <2> SUFFICES ASSUME NEW i \in 1..Len(w), w[i].type = "CFG_REQ" PROVE Timely(w, pe, i)
      BY DEF Ordered
    <2>1. i + 1 \in 1..Len(o) /\ w[i] = o[i + 1]
      BY <1>1 DEF n
    <2>2. Timely(o, pe, i + 1)
      BY <2>1, <1>t DEF Ordered
    <2>3. \A j \in 1..i - 1 : j + 1 \in 1..(i + 1) - 1 /\ w[j] = o[j + 1]
      BY <1>9
    <2>4. \A j \in 1..(i + 1) - 1 : o[j].type = "CONN_RSP" => j - 1 \in 1..i - 1 /\ w[j - 1] = o[j]
      BY <1>9
    <2> QED BY <2>1, <2>2, <2>3, <2>4, TimelyShifted
  <1>10. o[1].type = "CONN_REQ" =>
           \A i \in 1..Len(w) : w[i].type = "CONN_REQ" => w[i].local # o[1].local
    BY <1>0, <1>1, <1>t DEF Requests, n
  <1> QED BY <1>3, <1>4, <1>6, <1>7, <1>8, <1>10 DEF Talk, w

-----------------------------------------------------------------------------
(* A slot is taken, by connect() or for a request of the peer.               *)

\* A channel that waits for the peer's answer has nothing configured.
Untouched(k) ==
  \A s \in Slots : k[s].state = "WAIT_CONN" =>
    ~k[s].cfgRspRcvd /\ ~k[s].cfgReqSeen /\ ~k[s].cfgRspSent

\* No two live channels are the peer's same one, nor is one what it asks for.
Apart(k, p) ==
  /\ \A s, t \in Slots : s # t /\ Live(k[s]) /\ Live(k[t]) => k[s].remote # k[t].remote
  /\ p.conn # None /\ p.rsp = None => \A s \in Slots : Live(k[s]) => k[s].remote # p.conn.scid

\* Only the channel in slot s is another one.
OnlySlot(k, k2, s) == \A t \in Slots : t # s => k2[t] = k[t]
OnlySide(pe, pe2, c) == \A d \in PeerCids : d # c => pe2[d] = pe[d]
OfPeer(k) == \A t \in Slots : Live(k[t]) => k[t].remote \in PeerCids
NoRequestFor(o, l) == \A i \in 1..Len(o) : o[i].type = "CONN_REQ" => o[i].local # l

LEMMA WaitTaken ==
  ASSUME NEW k, NEW k2, NEW o, NEW p, NEW pe, Talk(k, o, p, pe),
         NEW s \in Slots, k[s].state \in {"FREE", "CLOSED"},
         k2[s].state = "WAIT_CONN", OnlySlot(k, k2, s)
  PROVE  Talk(k2, o, p, pe)
  <1> USE DEF OnlySlot
  <1>1. \A m : Backed(k, pe, m) => Backed(k2, pe, m)
    BY DEF Backed
  <1>2. Responses(k2, o, p, pe)
    BY <1>1 DEF Talk, Responses
  <1>3. Requests(k2, o)
    BY DEF Talk, Requests
  <1>4. Paired(k2, o, p, pe)
    BY DEF Talk, Paired, Live
  <1>5. Noted(k2, pe)
    BY DEF Talk, Noted, Live
  <1> QED BY <1>2, <1>3, <1>4, <1>5 DEF Talk

LEMMA RequestRefused ==
  ASSUME NEW k, NEW o, NEW p, NEW p2, NEW pe, Talk(k, o, p, pe),
         p.conn # None, p.rsp = None, p2.conn = p.conn, p2.disc = p.disc,
         p2.rsp = ConnRsp(p.conn.scid, 0, FALSE),
         \A s \in Slots : Live(k[s]) => None # ConnRsp(k[s].remote, k[s].local, TRUE)
  PROVE  Talk(k, o, p2, pe)
  <1>1. p2.rsp.to = p.conn.scid /\ p2.rsp.ok = FALSE
    BY DEF ConnRsp
  <1>2. Responses(k, o, p2, pe)
    BY <1>1 DEF Talk, Responses, Backed
  <1>3. Paired(k, o, p2, pe)
    BY DEF Talk, Paired, Granted
  <1>4. Farewells(o, p2, pe)
    BY DEF Talk, Farewells
  <1> QED BY <1>2, <1>3, <1>4 DEF Talk

LEMMA RequestGranted ==
  ASSUME NEW k, NEW k2, NEW o, NEW p, NEW p2, NEW pe, Talk(k, o, p, pe), NEW l,
         p.conn # None, p.rsp = None, p2.conn = p.conn, p2.disc = p.disc,
         p2.rsp = ConnRsp(p.conn.scid, l, TRUE),
         \A s \in Slots : Live(k[s]) => None # ConnRsp(k[s].remote, k[s].local, TRUE),
         NEW s \in Slots, k[s].state \in {"FREE", "CLOSED"},
         k2[s].state = "CONFIG", k2[s].local = l, k2[s].remote = p.conn.scid,
         ~k2[s].cfgRspRcvd, ~k2[s].cfgReqSeen, ~k2[s].cfgRspSent,
         OnlySlot(k, k2, s)
  PROVE  Talk(k2, o, p2, pe)
  <1> USE DEF OnlySlot
  <1>1. p2.rsp.to = p.conn.scid /\ p2.rsp.ok = TRUE /\ p2.rsp.local = l
    BY DEF ConnRsp
  <1>2. \A m : Backed(k, pe, m) => Backed(k2, pe, m)
    BY DEF Backed
  <1>3. pe[p.conn.scid].st = "asked" /\ Backed(k2, pe, p2.rsp)
    <2>1. pe[p.conn.scid].st = "asked"
      BY DEF Talk, Responses
    <2>2. k2[s].state = "CONFIG" /\ k2[s].local = p2.rsp.local /\ k2[s].remote = p2.rsp.to
      BY <1>1
    <2> QED BY <2>1, <2>2, <1>1 DEF Backed
  <1>4. Responses(k2, o, p2, pe)
    BY <1>1, <1>2, <1>3 DEF Talk, Responses
  <1>5. Requests(k2, o)
    BY DEF Talk, Requests
  <1>6. Paired(k2, o, p2, pe)
    <2>1. \A c \in PeerCids : pe[c].st = "up" =>
            \E t \in Slots : Live(k2[t]) /\ k2[t].local = pe[c].other /\ k2[t].remote = c
      BY DEF Talk, Paired, Live
    <2>2. Granted(k2[s], o, p2)
      BY DEF Granted
    <2>3. \A t \in Slots : t # s /\ Live(k2[t]) =>
            \/ pe[k2[t].remote].st = "up" /\ pe[k2[t].remote].other = k2[t].local
            \/ pe[k2[t].remote].st = "asked" /\ Granted(k2[t], o, p2)
      <3> TAKE t \in Slots
      <3> HAVE t # s /\ Live(k2[t])
      <3>1. k2[t] = k[t] /\ Live(k[t])
        OBVIOUS
      <3>2. Granted(k[t], o, p) => Granted(k[t], o, p2)
        BY <3>1 DEF Granted
      <3>3. \/ pe[k[t].remote].st = "up" /\ pe[k[t].remote].other = k[t].local
            \/ pe[k[t].remote].st = "asked" /\ Granted(k[t], o, p)
        BY <3>1 DEF Talk, Paired
      <3> QED BY <3>1, <3>2, <3>3
    <2> QED BY <1>3, <2>1, <2>2, <2>3 DEF Paired
  <1>7. Farewells(o, p2, pe)
    BY DEF Talk, Farewells
  <1>8. Noted(k2, pe)
    BY DEF Talk, Noted, Live
  <1> QED BY <1>4, <1>5, <1>6, <1>7, <1>8 DEF Talk

\* The peer asks for one more channel.
LEMMA RequestCame ==
  ASSUME NEW k, NEW o \in Seq(Messages), NEW p \in Pending, NEW p2, NEW pe, NEW pe2, Talk(k, o, p, pe),
         NEW c \in PeerCids, pe[c].st = "free",
         pe2[c].st = "asked", ~pe2[c].answered, ~pe2[c].configured, OnlySide(pe, pe2, c),
         p2.conn # None, p2.conn.scid = c, p2.rsp = p.rsp, p2.disc = p.disc, OfPeer(k)
  PROVE  /\ Talk(k, o, p2, pe2)
         /\ \A s \in Slots : Live(k[s]) => k[s].remote # c
  <1> USE DEF OfPeer, OnlySide
  <1>2. \A i \in 1..Len(o) : o[i].type \in {"CONN_RSP", "CFG_REQ", "DISC_RSP"} => o[i].to \in PeerCids
    <2>1. \A i \in 1..Len(o) : o[i] \in Messages
      BY ElementOfSeq
    <2> QED BY <2>1, MessageIs
  <1>3. p.rsp # None => p.rsp.to \in PeerCids
    BY MessageIs DEF Pending
  <1>4. \A s \in Slots : Live(k[s]) => k[s].remote # c
    BY DEF Talk, Paired
  <1>5. Responses(k, o, p2, pe2)
    BY <1>2, <1>3 DEF Talk, Responses, Backed
  <1>6. Paired(k, o, p2, pe2)
    <2>1. \A r : Granted(r, o, p2) <=> Granted(r, o, p)
      BY DEF Granted
    <2>2. \A d \in PeerCids : pe2[d].st = "up" => pe2[d] = pe[d]
      OBVIOUS
    <2>3. \A s \in Slots : Live(k[s]) => pe2[k[s].remote] = pe[k[s].remote]
      BY <1>4
    <2> QED BY <2>1, <2>2, <2>3 DEF Talk, Paired
  <1>7. Farewells(o, p2, pe2)
    <2>1. p.disc # None => p.disc \in PeerCids
      BY DEF Pending
    <2> QED BY <1>2, <2>1 DEF Talk, Farewells
  <1>8. Ordered(o, pe2)
    BY <1>2 DEF Talk, Ordered, Timely
  <1>9. Noted(k, pe2) /\ AsNew(pe2)
    BY <1>4 DEF Talk, Noted, AsNew
  <1> QED BY <1>4, <1>5, <1>6, <1>7, <1>8, <1>9 DEF Talk

-----------------------------------------------------------------------------
(* What the peer reads, and what it sends for it.                            *)

\* A response to the peer's request: the channel is up there, or gone.
LEMMA ResponseRead ==
  ASSUME NEW k, NEW o \in Seq(Messages), NEW p \in Pending, NEW pe, NEW pe2, Talk(k, o, p, pe),
         o # <<>>, o[1].type = "CONN_RSP",
         \A d \in PeerCids : d # o[1].to => pe2[d] = pe[d],
         o[1].ok => /\ pe2[o[1].to].st = "up" /\ pe2[o[1].to].other = o[1].local
                    /\ pe2[o[1].to].answered = pe[o[1].to].answered
                    /\ pe2[o[1].to].configured = pe[o[1].to].configured,
         ~o[1].ok => pe2[o[1].to] = FreePeer,
         \A s \in Slots : Live(k[s]) =>
           k[s].remote \in PeerCids /\ None # ConnRsp(k[s].remote, k[s].local, TRUE)
  PROVE  Talk(k, Tail(o), p, pe2)
  <1> DEFINE w == Tail(o)
             m == o[1]
             c == m.to
  <1>1. m \in Messages /\ c \in PeerCids /\ m.ok \in BOOLEAN /\ m = ConnRsp(c, m.local, m.ok)
    BY Places, ElementOfSeq, MessageIs
  <1>2. /\ pe[c].st = "asked" /\ ~pe[c].answered /\ ~pe[c].configured
        /\ m.ok => \E s \in Slots : k[s].state = "CONFIG" /\ k[s].local = m.local /\ k[s].remote = c
    BY Places, <1>1 DEF Talk, Responses, Backed, AsNew
  <1>3. /\ \A d \in PeerCids : d # c => pe2[d] = pe[d]
        /\ m.ok => /\ pe2[c].st = "up" /\ pe2[c].other = m.local
                   /\ pe2[c].answered = pe[c].answered /\ pe2[c].configured = pe[c].configured
        /\ ~m.ok => pe2[c] = FreePeer /\ pe2[c].st = "free"
    BY DEF FreePeer
  <1>4. \A i \in 1..Len(o) : o[i].type \in {"CONN_RSP", "CFG_REQ", "DISC_RSP"} => o[i].to \in PeerCids
    <2>1. \A i \in 1..Len(o) : o[i] \in Messages
      BY ElementOfSeq
    <2> QED BY <2>1, MessageIs
  <1>5. \A i \in 1..Len(o) : o[i].type = "CONN_RSP" /\ o[i].to = c => i = 1
    BY Places DEF Talk, Responses
  <1>6. /\ p.rsp # None => p.rsp.to \in PeerCids /\ p.rsp.to # c
        /\ p.conn # None => p.conn.scid \in PeerCids /\ p.conn.scid # c
    <2>1. p.rsp # None => p.rsp.to # c
      BY Places DEF Talk, Responses
    <2>2. p.conn # None => p.conn.scid # c
      BY Places DEF Talk, Responses
    <2>3. p.rsp # None => p.rsp.to \in PeerCids
      BY MessageIs DEF Pending
    <2>4. p.conn # None => p.conn.scid \in PeerCids
      BY DEF Pending
    <2> QED BY <2>1, <2>2, <2>3, <2>4
  <1>w. /\ \A i \in 1..Len(w) : i + 1 \in 1..Len(o) /\ w[i] = o[i + 1] /\ i + 1 # 1 /\ i \in Int
        /\ \A i \in 1..Len(o) : i # 1 => i - 1 \in 1..Len(w) /\ w[i - 1] = o[i]
    BY Places
  <1> HIDE DEF w, m, c
  <1>7. AsNew(pe2)
    <2>1. \A d \in PeerCids : d # c => /\ pe2[d].st = "free" => pe2[d] = FreePeer
                                       /\ pe2[d].st = "asked" => ~pe2[d].answered /\ ~pe2[d].configured
      BY <1>3 DEF Talk, AsNew
    <2>2. m.ok => pe2[c].st = "up"
      BY <1>3
    <2>3. ~m.ok => pe2[c] = FreePeer /\ pe2[c].st = "free"
      BY <1>3
    <2> QED BY <2>1, <2>2, <2>3 DEF AsNew
  <1>8. Responses(k, w, p, pe2)
    <2>1. \A i \in 1..Len(w) : w[i].type = "CONN_RSP" => Backed(k, pe, w[i]) /\ w[i].to # c /\ w[i].to \in PeerCids
      BY <1>w, <1>4, <1>5 DEF Talk, Responses
    <2>2. \A r : Backed(k, pe, r) /\ r.to # c /\ r.to \in PeerCids => Backed(k, pe2, r)
      BY <1>3 DEF Backed
    <2>3. ASSUME NEW i \in 1..Len(w), NEW j \in 1..Len(w),
                 w[i].type = "CONN_RSP", w[j].type = "CONN_RSP", w[i].to = w[j].to
          PROVE  i = j
      <3>1. i + 1 = j + 1
        BY <2>3, <1>w DEF Talk, Responses
      <3> QED BY <3>1, <1>w
    <2>4. p.rsp # None => Backed(k, pe2, p.rsp) /\ \A i \in 1..Len(w) : w[i].type = "CONN_RSP" => w[i].to # p.rsp.to
      BY <1>6, <1>w, <2>2 DEF Talk, Responses
    <2>5. p.conn # None => /\ pe2[p.conn.scid].st = "asked"
                           /\ \A i \in 1..Len(w) : w[i].type = "CONN_RSP" => w[i].to # p.conn.scid
      <3>1. p.conn # None => pe2[p.conn.scid].st = "asked"
        BY <1>3, <1>6 DEF Talk, Responses
      <3>2. p.conn # None => \A i \in 1..Len(o) : o[i].type = "CONN_RSP" => o[i].to # p.conn.scid
        BY DEF Talk, Responses
      <3> QED BY <3>1, <3>2, <1>w
    <2> QED BY <2>1, <2>2, <2>3, <2>4, <2>5 DEF Responses
  <1>9. Requests(k, w)
    BY RequestsLeft DEF Talk, w
  <1>10. Paired(k, w, p, pe2)
    <2>1. \A d \in PeerCids : pe2[d].st = "up" =>
            \E s \in Slots : Live(k[s]) /\ k[s].local = pe2[d].other /\ k[s].remote = d
      <3> SUFFICES ASSUME NEW d \in PeerCids, pe2[d].st = "up"
                   PROVE  \E s \in Slots : Live(k[s]) /\ k[s].local = pe2[d].other /\ k[s].remote = d
        OBVIOUS
      <3>1. CASE d # c
        BY <3>1, <1>3 DEF Talk, Paired
      <3>2. CASE d = c
        <4>1. m.ok
          BY <3>2, <1>3
        <4> QED BY <3>2, <4>1, <1>2, <1>3 DEF Live
      <3> QED BY <3>1, <3>2
    <2>2. ASSUME NEW s \in Slots, Live(k[s])
          PROVE  \/ pe2[k[s].remote].st = "up" /\ pe2[k[s].remote].other = k[s].local
                 \/ pe2[k[s].remote].st = "asked" /\ Granted(k[s], w, p)
      <3>1. CASE k[s].remote = c
        <4>1. Granted(k[s], o, p)
          BY <2>2, <3>1, <1>2 DEF Talk, Paired
        <4>2. p.rsp # ConnRsp(c, k[s].local, TRUE)
          <5>1. ConnRsp(c, k[s].local, TRUE).to = c
            BY DEF ConnRsp
          <5>2. None # ConnRsp(c, k[s].local, TRUE)
            BY <2>2, <3>1
          <5> QED BY <5>1, <5>2, <1>6
        <4>3. PICK i \in 1..Len(o) : o[i] = ConnRsp(c, k[s].local, TRUE)
          BY <4>1, <4>2, <3>1 DEF Granted
        <4>4. i = 1 /\ m.ok /\ m.local = k[s].local
          BY <4>3, <1>5 DEF ConnRsp, m
        <4> QED BY <4>4, <3>1, <1>3
      <3>2. CASE k[s].remote # c
        <4>1. pe2[k[s].remote] = pe[k[s].remote]
          BY <2>2, <3>2, <1>3
        <4>2. Granted(k[s], o, p) => Granted(k[s], w, p)
          <5>1. ConnRsp(k[s].remote, k[s].local, TRUE).to = k[s].remote
            BY DEF ConnRsp
          <5>2. \A i \in 1..Len(o) : o[i] = ConnRsp(k[s].remote, k[s].local, TRUE) => i # 1
            BY <5>1, <3>2 DEF c, m
          <5> QED BY <5>2, <1>w, GrantedLeft
        <4>3. \/ pe[k[s].remote].st = "up" /\ pe[k[s].remote].other = k[s].local
              \/ pe[k[s].remote].st = "asked" /\ Granted(k[s], o, p)
          BY <2>2 DEF Talk, Paired
        <4> QED BY <4>1, <4>2, <4>3
      <3> QED BY <3>1, <3>2
    <2> QED BY <2>1, <2>2 DEF Paired
  <1>11. Farewells(w, p, pe2)
    <2>1. \A i \in 1..Len(w) : w[i].type = "DISC_RSP" => pe2[w[i].to].st = "closing" /\ w[i].to # p.disc
      <3>1. \A i \in 1..Len(o) : o[i].type = "DISC_RSP" =>
              pe[o[i].to].st = "closing" /\ o[i].to # p.disc /\ o[i].to \in PeerCids
        BY <1>4 DEF Talk, Farewells
      <3>2. \A d \in PeerCids : pe[d].st = "closing" => pe2[d].st = "closing"
        BY <1>2, <1>3
      <3> SUFFICES ASSUME NEW i \in 1..Len(w), w[i].type = "DISC_RSP"
                   PROVE  pe2[w[i].to].st = "closing" /\ w[i].to # p.disc
        OBVIOUS
      <3>3. i + 1 \in 1..Len(o) /\ w[i] = o[i + 1]
        BY <1>w
      <3>4. pe[w[i].to].st = "closing" /\ w[i].to # p.disc /\ w[i].to \in PeerCids
        BY <3>1, <3>3
      <3> QED BY <3>2, <3>4
    <2>2. ASSUME NEW i \in 1..Len(w), NEW j \in 1..Len(w),
                 w[i].type = "DISC_RSP", w[j].type = "DISC_RSP", w[i].to = w[j].to
          PROVE  i = j
      <3>1. i + 1 = j + 1
        BY <2>2, <1>w DEF Talk, Farewells
      <3> QED BY <3>1, <1>w
    <2>3. p.disc # None => pe2[p.disc].st = "closing"
      BY <1>2, <1>3 DEF Talk, Farewells, Pending
    <2> QED BY <2>1, <2>2, <2>3 DEF Farewells
  <1>12. Ordered(w, pe2)
    <2> SUFFICES ASSUME NEW i \in 1..Len(w), w[i].type = "CFG_REQ" PROVE Timely(w, pe2, i)
      BY DEF Ordered
    <2>1. Timely(o, pe, i + 1) /\ w[i] = o[i + 1] /\ w[i].to \in PeerCids
      BY <1>w, <1>4 DEF Talk, Ordered
    <2>2. /\ \A j \in 1..i - 1 : j + 1 \in 1..(i + 1) - 1 /\ w[j] = o[j + 1]
          /\ \A j \in 1..(i + 1) - 1 : j \in 1..Len(o) /\ (j # 1 => j - 1 \in 1..i - 1 /\ w[j - 1] = o[j])
      BY Places DEF w
    <2>3. CASE w[i].to = c
      <3>1. PICK j \in 1..(i + 1) - 1 : o[j].type = "CONN_RSP" /\ o[j].to = c /\ o[j].ok
        BY <2>1, <2>3, <1>2 DEF Timely
      <3>2. j = 1
        BY <3>1, <2>2, <1>5
      <3> QED BY <3>1, <3>2, <2>3, <1>3 DEF Timely, m
    <2>4. CASE w[i].to # c
      <3>1. pe2[w[i].to] = pe[w[i].to]
        BY <2>1, <2>4, <1>3
      <3>2. \A j \in 1..(i + 1) - 1 : o[j].to = w[i].to => j # 1
        BY <2>4 DEF c, m
      <3>3. \A j \in 1..(i + 1) - 1 : o[j].type = "CONN_RSP" /\ o[j].to = w[i].to =>
              j - 1 \in 1..i - 1 /\ w[j - 1] = o[j]
        BY <3>2, <2>2
      <3> QED BY <2>1, <2>2, <3>1, <3>3, TimelyShifted
    <2> QED BY <2>3, <2>4
  <1>13. Noted(k, pe2)
    <2> SUFFICES ASSUME NEW s \in Slots, Live(k[s])
                 PROVE  /\ k[s].cfgRspRcvd => pe2[k[s].remote].answered
                        /\ k[s].cfgReqSeen \/ k[s].cfgRspSent => pe2[k[s].remote].configured
      BY DEF Talk, Noted
    <2>1. CASE k[s].remote # c
      BY <2>1, <1>3 DEF Talk, Noted
    <2>2. CASE k[s].remote = c
      BY <2>2, <1>2 DEF Talk, Noted
    <2> QED BY <2>1, <2>2
  <1> QED BY <1>7, <1>8, <1>9, <1>10, <1>11, <1>12, <1>13 DEF Talk, w

\* The answer to a disconnection: the side is as new.
LEMMA FarewellRead ==
  ASSUME NEW k, NEW o \in Seq(Messages), NEW p \in Pending, NEW pe, NEW pe2, Talk(k, o, p, pe),
         o # <<>>, o[1].type = "DISC_RSP",
         \A d \in PeerCids : d # o[1].to => pe2[d] = pe[d], pe2[o[1].to] = FreePeer,
         \A s \in Slots : Live(k[s]) => k[s].remote \in PeerCids
  PROVE  Talk(k, Tail(o), p, pe2)
  <1> DEFINE w == Tail(o)
             c == o[1].to
  <1>1. o[1] \in Messages /\ c \in PeerCids
    BY Places, ElementOfSeq, MessageIs
  <1>2. pe[c].st = "closing" /\ pe2[c] = FreePeer /\ pe2[c].st = "free"
    BY Places DEF Talk, Farewells, FreePeer
  <1>3. \A d \in PeerCids : pe[d].st # "closing" \/ d # c => pe2[d] = pe[d]
    BY <1>2
  <1>4. \A i \in 1..Len(o) : o[i].type \in {"CONN_RSP", "CFG_REQ", "DISC_RSP"} => o[i].to \in PeerCids
    <2>1. \A i \in 1..Len(o) : o[i] \in Messages
      BY ElementOfSeq
    <2> QED BY <2>1, MessageIs
  <1>w. /\ \A i \in 1..Len(w) : i + 1 \in 1..Len(o) /\ w[i] = o[i + 1] /\ i + 1 # 1 /\ i \in Int
        /\ \A i \in 1..Len(o) : i # 1 => i - 1 \in 1..Len(w) /\ w[i - 1] = o[i]
    BY Places
  <1>5. \A i \in 1..Len(w) : w[i].type = "DISC_RSP" => w[i].to # c
    <2>1. \A i \in 1..Len(o) : o[i].type = "DISC_RSP" /\ o[i].to = c => i = 1
      BY Places DEF Talk, Farewells
    <2> QED BY <2>1, <1>w
  <1>0. 1 \in 1..Len(o) /\ \A i \in 1..Len(w) : 1 \in 1..(i + 1) - 1
    BY Places
  <1>10. \A i \in 1..Len(w) :
            /\ \A j \in 1..i - 1 : j + 1 \in 1..(i + 1) - 1 /\ w[j] = o[j + 1]
            /\ \A j \in 1..(i + 1) - 1 : j \in 1..Len(o) /\ (j # 1 => j - 1 \in 1..i - 1 /\ w[j - 1] = o[j])
    BY Places
  <1> HIDE DEF w
  <1>7. AsNew(pe2)
    BY <1>2, <1>3 DEF Talk, AsNew
  <1>8. Responses(k, w, p, pe2)
    <2>1. \A r : Backed(k, pe, r) /\ r.to \in PeerCids => Backed(k, pe2, r)
      BY <1>3 DEF Backed
    <2>2. \A i \in 1..Len(w) : w[i].type = "CONN_RSP" => Backed(k, pe2, w[i])
      <3>1. \A i \in 1..Len(o) : o[i].type = "CONN_RSP" => Backed(k, pe2, o[i])
        BY <2>1, <1>4 DEF Talk, Responses
      <3> QED BY <3>1, <1>w
    <2>3. ASSUME NEW i \in 1..Len(w), NEW j \in 1..Len(w),
                 w[i].type = "CONN_RSP", w[j].type = "CONN_RSP", w[i].to = w[j].to
          PROVE  i = j
      <3>1. i + 1 = j + 1
        BY <2>3, <1>w DEF Talk, Responses
      <3> QED BY <3>1, <1>w
    <2>4. p.rsp # None => Backed(k, pe2, p.rsp) /\ \A i \in 1..Len(w) : w[i].type = "CONN_RSP" => w[i].to # p.rsp.to
      <3>1. p.rsp # None => Backed(k, pe2, p.rsp)
        BY <2>1, MessageIs DEF Talk, Responses, Pending
      <3>2. p.rsp # None => \A i \in 1..Len(o) : o[i].type = "CONN_RSP" => o[i].to # p.rsp.to
        BY DEF Talk, Responses
      <3> QED BY <3>1, <3>2, <1>w
    <2>5. p.conn # None => /\ pe2[p.conn.scid].st = "asked"
                           /\ \A i \in 1..Len(w) : w[i].type = "CONN_RSP" => w[i].to # p.conn.scid
      <3>1. p.conn # None => pe2[p.conn.scid].st = "asked"
        BY <1>3 DEF Talk, Responses, Pending
      <3>2. p.conn # None => \A i \in 1..Len(o) : o[i].type = "CONN_RSP" => o[i].to # p.conn.scid
        BY DEF Talk, Responses
      <3> QED BY <3>1, <3>2, <1>w
    <2> QED BY <2>2, <2>3, <2>4, <2>5 DEF Responses
  <1>9. Requests(k, w)
    BY RequestsLeft DEF Talk, w
  <1>6. Paired(k, w, p, pe2)
    <2>1. \A d \in PeerCids : pe2[d].st = "up" =>
            \E s \in Slots : Live(k[s]) /\ k[s].local = pe2[d].other /\ k[s].remote = d
      BY <1>2, <1>3 DEF Talk, Paired
    <2>2. ASSUME NEW s \in Slots, Live(k[s])
          PROVE  \/ pe2[k[s].remote].st = "up" /\ pe2[k[s].remote].other = k[s].local
                 \/ pe2[k[s].remote].st = "asked" /\ Granted(k[s], w, p)
      <3>1. pe2[k[s].remote] = pe[k[s].remote]
        BY <2>2, <1>3 DEF Talk, Paired
      <3>2. Granted(k[s], o, p) => Granted(k[s], w, p)
        <4>1. ConnRsp(k[s].remote, k[s].local, TRUE).type = "CONN_RSP"
          BY DEF ConnRsp
        <4>2. \A i \in 1..Len(o) : o[i] = ConnRsp(k[s].remote, k[s].local, TRUE) => i # 1
          BY <4>1
        <4> QED BY <4>2, <1>w DEF Granted
      <3> QED BY <2>2, <3>1, <3>2 DEF Talk, Paired
    <2> QED BY <2>1, <2>2 DEF Paired
  <1>11. Farewells(w, p, pe2)
    <2>1. \A i \in 1..Len(w) : w[i].type = "DISC_RSP" => pe2[w[i].to].st = "closing" /\ w[i].to # p.disc
      <3>1. \A i \in 1..Len(o) : o[i].type = "DISC_RSP" =>
              pe[o[i].to].st = "closing" /\ o[i].to # p.disc /\ o[i].to \in PeerCids
        BY <1>4 DEF Talk, Farewells
      <3> QED BY <3>1, <1>3, <1>5, <1>w
    <2>2. ASSUME NEW i \in 1..Len(w), NEW j \in 1..Len(w),
                 w[i].type = "DISC_RSP", w[j].type = "DISC_RSP", w[i].to = w[j].to
          PROVE  i = j
      <3>1. i + 1 = j + 1
        BY <2>2, <1>w DEF Talk, Farewells
      <3> QED BY <3>1, <1>w
    <2>3. p.disc # None => pe2[p.disc].st = "closing"
      <3>1. c # p.disc
        BY <1>0 DEF Talk, Farewells
      <3>2. p.disc # None => p.disc \in PeerCids /\ pe[p.disc].st = "closing"
        BY DEF Pending, Talk, Farewells
      <3> QED BY <3>1, <3>2, <1>3
    <2> QED BY <2>1, <2>2, <2>3 DEF Farewells
  <1>12. Ordered(w, pe2)
    <2> SUFFICES ASSUME NEW i \in 1..Len(w), w[i].type = "CFG_REQ" PROVE Timely(w, pe2, i)
      BY DEF Ordered
    <2>1. Timely(o, pe, i + 1) /\ w[i] = o[i + 1] /\ w[i].to \in PeerCids
      BY <1>w, <1>4 DEF Talk, Ordered
    <2>2. w[i].to # c
      <3>1. 1 \in 1..(i + 1) - 1
        BY <1>0
      <3> QED BY <2>1, <3>1, <1>2 DEF Timely
    <2>3. pe2[w[i].to] = pe[w[i].to]
      BY <2>1, <2>2, <1>3
    <2>4. CASE pe[w[i].to].st = "asked"
      <3>1. PICK j \in 1..(i + 1) - 1 : o[j].type = "CONN_RSP" /\ o[j].to = w[i].to /\ o[j].ok
        BY <2>1, <2>4 DEF Timely
      <3>2. j - 1 \in 1..i - 1 /\ w[j - 1] = o[j]
        BY <3>1, <2>2, <1>10
      <3> QED BY <3>1, <3>2, <2>3, <2>4 DEF Timely
    <2>5. CASE pe[w[i].to].st # "asked"
      BY <2>5, <2>1, <2>3, <1>10 DEF Timely
    <2> QED BY <2>4, <2>5
  <1>13. Noted(k, pe2)
    <2>1. \A s \in Slots : Live(k[s]) => pe2[k[s].remote] = pe[k[s].remote]
      BY <1>3 DEF Talk, Paired
    <2> QED BY <2>1 DEF Talk, Noted
  <1> QED BY <1>7, <1>8, <1>9, <1>6, <1>11, <1>12, <1>13 DEF Talk, w

-----------------------------------------------------------------------------
(* The channels and the peer's sides change, and what is under way stays.    *)

\* The peer takes the channel we asked for.
LEMMA PeerTook ==
  ASSUME NEW k, NEW k2, NEW o \in Seq(Messages), NEW p \in Pending, NEW pe, NEW pe2, Talk(k, o, p, pe),
         NEW c \in PeerCids, pe[c].st = "free", NEW s \in Slots, k[s].state = "WAIT_CONN",
         pe2[c].st = "up", pe2[c].other = k[s].local, OnlySide(pe, pe2, c),
         k2[s].state = "CONFIG", k2[s].remote = c, k2[s].local = k[s].local,
         ~k2[s].cfgRspRcvd, ~k2[s].cfgReqSeen, ~k2[s].cfgRspSent,
         OnlySlot(k, k2, s),
         NoRequestFor(o, k[s].local),
         OfPeer(k)
  PROVE  /\ Talk(k2, o, p, pe2)
         /\ \A t \in Slots : Live(k[t]) => k[t].remote # c
         /\ p.conn # None => p.conn.scid # c
  <1> USE DEF OnlySlot, OnlySide, OfPeer, NoRequestFor
  <1>1. \A t \in Slots : Live(k[t]) => k[t].remote # c
    BY DEF Talk, Paired
  <1>2. \A i \in 1..Len(o) : o[i].type \in {"CONN_RSP", "CFG_REQ", "DISC_RSP"} => o[i].to \in PeerCids
    <2>1. \A i \in 1..Len(o) : o[i] \in Messages
      BY ElementOfSeq
    <2> QED BY <2>1, MessageIs
  <1>3. p.rsp # None => p.rsp.to \in PeerCids
    BY MessageIs DEF Pending
  <1>4. p.conn # None => p.conn.scid \in PeerCids /\ p.conn.scid # c
    BY DEF Pending, Talk, Responses
  <1>5. AsNew(pe2)
    BY DEF Talk, AsNew
  <1>6. Responses(k2, o, p, pe2)
    <2>1. \A m : Backed(k, pe, m) /\ m.to \in PeerCids => Backed(k2, pe2, m)
      BY DEF Backed
    <2> QED BY <2>1, <1>2, <1>3, <1>4 DEF Talk, Responses
  <1>7. Requests(k2, o)
    BY DEF Talk, Requests
  <1>8. Paired(k2, o, p, pe2)
    <2>1. ASSUME NEW d \in PeerCids, pe2[d].st = "up"
          PROVE  \E t \in Slots : Live(k2[t]) /\ k2[t].local = pe2[d].other /\ k2[t].remote = d
      <3>1. CASE d = c
        BY <3>1 DEF Live
      <3>2. CASE d # c
        <4>1. PICK t \in Slots : Live(k[t]) /\ k[t].local = pe[d].other /\ k[t].remote = d
          BY <2>1, <3>2 DEF Talk, Paired
        <4>2. t # s
          BY <4>1 DEF Live
        <4> QED BY <4>1, <4>2, <3>2
      <3> QED BY <3>1, <3>2
    <2>2. ASSUME NEW t \in Slots, Live(k2[t])
          PROVE  \/ pe2[k2[t].remote].st = "up" /\ pe2[k2[t].remote].other = k2[t].local
                 \/ pe2[k2[t].remote].st = "asked" /\ Granted(k2[t], o, p)
      <3>1. CASE t = s
        BY <3>1
      <3>2. CASE t # s
        <4>1. k2[t] = k[t] /\ Live(k[t]) /\ pe2[k[t].remote] = pe[k[t].remote]
          BY <2>2, <3>2, <1>1
        <4> QED BY <4>1 DEF Talk, Paired
      <3> QED BY <3>1, <3>2
    <2> QED BY <2>1, <2>2 DEF Paired
  <1>9. Farewells(o, p, pe2)
    <2>1. p.disc # None => p.disc \in PeerCids
      BY DEF Pending
    <2> QED BY <1>2, <2>1 DEF Talk, Farewells
  <1>10. Ordered(o, pe2)
    BY <1>2 DEF Talk, Ordered, Timely
  <1>11. Noted(k2, pe2)
    <2> SUFFICES ASSUME NEW t \in Slots, Live(k2[t])
                 PROVE  /\ k2[t].cfgRspRcvd => pe2[k2[t].remote].answered
                        /\ k2[t].cfgReqSeen \/ k2[t].cfgRspSent => pe2[k2[t].remote].configured
                        /\ k2[t].state = "OPEN" => k2[t].cfgRspRcvd /\ k2[t].cfgRspSent
      BY DEF Noted
    <2>1. CASE t = s
      BY <2>1
    <2>2. CASE t # s
      <3>1. k2[t] = k[t] /\ Live(k[t]) /\ pe2[k[t].remote] = pe[k[t].remote]
        BY <2>2, <1>1
      <3> QED BY <3>1 DEF Talk, Noted
    <2> QED BY <2>1, <2>2
  <1> QED BY <1>1, <1>4, <1>5, <1>6, <1>7, <1>8, <1>9, <1>10, <1>11 DEF Talk

\* The peer refuses the channel we asked for.
LEMMA PeerRefused ==
  ASSUME NEW k, NEW k2, NEW o, NEW p, NEW pe, Talk(k, o, p, pe),
         NEW s \in Slots, k[s].state = "WAIT_CONN", k2[s].state = "CLOSED",
         OnlySlot(k, k2, s),
         \A i \in 1..Len(o) : o[i].type = "CONN_REQ" => o[i].local # k[s].local
  PROVE  Talk(k2, o, p, pe)
  <1> USE DEF OnlySlot
  <1>1. \A m : Backed(k, pe, m) => Backed(k2, pe, m)
    BY DEF Backed
  <1>2. Responses(k2, o, p, pe)
    BY <1>1 DEF Talk, Responses
  <1>3. Requests(k2, o)
    BY DEF Talk, Requests
  <1>4. \A t \in Slots : Live(k2[t]) <=> Live(k[t]) /\ t # s
    BY DEF Live
  <1>5. Paired(k2, o, p, pe)
    BY <1>4 DEF Talk, Paired, Live
  <1>6. Noted(k2, pe)
    BY <1>4 DEF Talk, Noted
  <1> QED BY <1>2, <1>3, <1>5, <1>6 DEF Talk

\* The peer closes a channel that is up.
LEMMA PeerClosed ==
  ASSUME NEW k, NEW k2, NEW o \in Seq(Messages), NEW p \in Pending, NEW p2, NEW pe, NEW pe2,
         Talk(k, o, p, pe), OwnCids(k), NEW c \in PeerCids, pe[c].st = "up",
         pe2[c].st = "closing", OnlySide(pe, pe2, c),
         NEW s \in Slots, Live(k[s]), k[s].local = pe[c].other, k[s].remote = c,
         k2[s].state = "CLOSED", OnlySlot(k, k2, s),
         p2.rsp = p.rsp, p2.conn = p.conn, p2.disc = c,
         OfPeer(k)
  PROVE  Talk(k2, o, p2, pe2)
  <1> USE DEF OnlySlot, OnlySide, OfPeer
  <1>1. \A t \in Slots : Live(k2[t]) => t # s /\ k2[t] = k[t] /\ Live(k[t])
    BY DEF Live
  <1>2. \A i \in 1..Len(o) : o[i].type \in {"CONN_RSP", "CFG_REQ", "DISC_RSP"} => o[i].to \in PeerCids
    <2>1. \A i \in 1..Len(o) : o[i] \in Messages
      BY ElementOfSeq
    <2> QED BY <2>1, MessageIs
  <1>3. p.rsp # None => p.rsp.to \in PeerCids
    BY MessageIs DEF Pending
  <1>4. p.conn # None => p.conn.scid \in PeerCids
    BY DEF Pending
  <1>5. AsNew(pe2)
    BY DEF Talk, AsNew
  <1>6. Responses(k2, o, p2, pe2)
    <2>1. \A m : Backed(k, pe, m) /\ m.to \in PeerCids => Backed(k2, pe2, m)
      BY DEF Backed
    <2> QED BY <2>1, <1>2, <1>3, <1>4 DEF Talk, Responses
  <1>7. Requests(k2, o)
    BY DEF Talk, Requests, Live
  <1>8. \A t \in Slots : Live(k[t]) /\ t # s => k[t].remote # c
    <2> SUFFICES ASSUME NEW t \in Slots, Live(k[t]), t # s, k[t].remote = c PROVE FALSE
      OBVIOUS
    <2>1. k[t].local = k[s].local
      BY DEF Talk, Paired
    <2> QED BY <2>1 DEF OwnCids, Live
  <1>9. Paired(k2, o, p2, pe2)
    <2>1. ASSUME NEW d \in PeerCids, pe2[d].st = "up"
          PROVE  \E t \in Slots : Live(k2[t]) /\ k2[t].local = pe2[d].other /\ k2[t].remote = d
      <3>1. d # c /\ pe2[d] = pe[d]
        BY <2>1
      <3>2. PICK t \in Slots : Live(k[t]) /\ k[t].local = pe[d].other /\ k[t].remote = d
        BY <2>1, <3>1 DEF Talk, Paired
      <3> QED BY <3>1, <3>2
    <2>2. ASSUME NEW t \in Slots, Live(k2[t])
          PROVE  \/ pe2[k2[t].remote].st = "up" /\ pe2[k2[t].remote].other = k2[t].local
                 \/ pe2[k2[t].remote].st = "asked" /\ Granted(k2[t], o, p2)
      <3>1. k2[t] = k[t] /\ Live(k[t]) /\ pe2[k[t].remote] = pe[k[t].remote]
        BY <2>2, <1>1, <1>8
      <3>2. Granted(k[t], o, p) => Granted(k[t], o, p2)
        BY DEF Granted
      <3> QED BY <3>1, <3>2 DEF Talk, Paired
    <2> QED BY <2>1, <2>2 DEF Paired
  <1>10. Farewells(o, p2, pe2)
    BY <1>2 DEF Talk, Farewells
  <1>11. Ordered(o, pe2)
    <2> SUFFICES ASSUME NEW i \in 1..Len(o), o[i].type = "CFG_REQ" PROVE Timely(o, pe2, i)
      BY DEF Ordered
    <2>1. Timely(o, pe, i) /\ o[i].to \in PeerCids
      BY <1>2 DEF Talk, Ordered
    <2>2. CASE o[i].to # c
      BY <2>1, <2>2 DEF Timely
    <2>3. CASE o[i].to = c
      <3>1. Len(o) \in Nat
        BY LenProperties
      <3>2. \A j \in 1..i - 1 : j \in 1..Len(o)
        BY <3>1
      <3> QED BY <2>3, <3>2 DEF Timely, Talk, Farewells
    <2> QED BY <2>2, <2>3
  <1>12. Noted(k2, pe2)
    <2>1. \A t \in Slots : Live(k2[t]) => k2[t] = k[t] /\ Live(k[t]) /\ pe2[k[t].remote] = pe[k[t].remote]
      BY <1>1, <1>8
    <2> QED BY <2>1 DEF Talk, Noted
  <1> QED BY <1>5, <1>6, <1>7, <1>9, <1>10, <1>11, <1>12 DEF Talk

\* The channels keep their CIDs and the peer's sides their state, whatever is noted of the
\* configuration; one whose grant is under way does not open yet.
SameChannels(k, k2, pe) ==
  \A t \in Slots : /\ k2[t].local = k[t].local /\ k2[t].remote = k[t].remote
                   /\ Live(k2[t]) <=> Live(k[t])
                   /\ k[t].state = "WAIT_CONN" => k2[t].state = "WAIT_CONN"
                   /\ k[t].state = "CONFIG" /\ pe[k[t].remote].st = "asked" => k2[t].state = "CONFIG"
SameSides(pe, pe2) == \A d \in PeerCids : pe2[d].st = pe[d].st /\ pe2[d].other = pe[d].other

LEMMA OnlyNoted ==
  ASSUME NEW k, NEW k2, NEW o \in Seq(Messages), NEW p \in Pending, NEW pe, NEW pe2, Talk(k, o, p, pe),
         SameChannels(k, k2, pe), SameSides(pe, pe2), OfPeer(k),
         AsNew(pe2), Noted(k2, pe2)
  PROVE  Talk(k2, o, p, pe2)
  <1> USE DEF SameChannels, SameSides, OfPeer
  <1>2. \A i \in 1..Len(o) : o[i].type \in {"CONN_RSP", "CFG_REQ", "DISC_RSP"} => o[i].to \in PeerCids
    <2>1. \A i \in 1..Len(o) : o[i] \in Messages
      BY ElementOfSeq
    <2> QED BY <2>1, MessageIs
  <1>3. p.rsp # None => p.rsp.to \in PeerCids
    BY MessageIs DEF Pending
  <1>4. p.conn # None => p.conn.scid \in PeerCids
    BY DEF Pending
  <1>5. Responses(k2, o, p, pe2)
    <2>1. \A m : Backed(k, pe, m) /\ m.to \in PeerCids => Backed(k2, pe2, m)
      BY DEF Backed
    <2> QED BY <2>1, <1>2, <1>3, <1>4 DEF Talk, Responses
  <1>6. Requests(k2, o)
    BY DEF Talk, Requests
  <1>7. Paired(k2, o, p, pe2)
    <2>1. ASSUME NEW d \in PeerCids, pe2[d].st = "up"
          PROVE  \E t \in Slots : Live(k2[t]) /\ k2[t].local = pe2[d].other /\ k2[t].remote = d
      BY <2>1 DEF Talk, Paired
    <2>2. ASSUME NEW t \in Slots, Live(k2[t])
          PROVE  \/ pe2[k2[t].remote].st = "up" /\ pe2[k2[t].remote].other = k2[t].local
                 \/ pe2[k2[t].remote].st = "asked" /\ Granted(k2[t], o, p)
      <3>1. Granted(k[t], o, p) => Granted(k2[t], o, p)
        BY DEF Granted
      <3> QED BY <2>2, <3>1 DEF Talk, Paired
    <2> QED BY <2>1, <2>2 DEF Paired
  <1>8. Farewells(o, p, pe2)
    <2>1. p.disc # None => p.disc \in PeerCids
      BY DEF Pending
    <2> QED BY <1>2, <2>1 DEF Talk, Farewells
  <1>9. Ordered(o, pe2)
    BY <1>2 DEF Talk, Ordered, Timely
  <1> QED BY <1>5, <1>6, <1>7, <1>8, <1>9 DEF Talk

\* The peer configures a channel that is up: it was not open before.
LEMMA PeerConfigured ==
  ASSUME NEW k, NEW k2, NEW o \in Seq(Messages), NEW p \in Pending, NEW pe, NEW pe2,
         Talk(k, o, p, pe), NEW c \in PeerCids, pe[c].st = "up", ~pe[c].configured,
         pe2[c].st = "up", pe2[c].other = pe[c].other, pe2[c].configured,
         pe2[c].answered = pe[c].answered, OnlySide(pe, pe2, c),
         NEW s \in Slots, Live(k[s]), k[s].remote = c,
         k2[s].state = k[s].state, k2[s].local = k[s].local, k2[s].remote = c,
         k2[s].cfgRspRcvd = k[s].cfgRspRcvd, OnlySlot(k, k2, s),
         OfPeer(k)
  PROVE  Talk(k2, o, p, pe2)
  <1> USE DEF OnlySlot, OnlySide, OfPeer
  <1>1. k[s].state = "CONFIG" /\ k2[s].state = "CONFIG"
    BY DEF Talk, Noted, Live
  <1>2. AsNew(pe2)
    BY DEF Talk, AsNew
  <1>3. Noted(k2, pe2)
    <2> SUFFICES ASSUME NEW t \in Slots, Live(k2[t])
                 PROVE  /\ k2[t].cfgRspRcvd => pe2[k2[t].remote].answered
                        /\ k2[t].cfgReqSeen \/ k2[t].cfgRspSent => pe2[k2[t].remote].configured
                        /\ k2[t].state = "OPEN" => k2[t].cfgRspRcvd /\ k2[t].cfgRspSent
      BY DEF Noted
    <2>1. CASE t = s
      BY <2>1, <1>1 DEF Talk, Noted
    <2>2. CASE t # s
      <3>1. k2[t] = k[t] /\ Live(k[t]) /\ k[t].remote \in PeerCids
        BY <2>2
      <3>2. CASE k[t].remote = c
        BY <3>1, <3>2 DEF Talk, Noted
      <3>3. CASE k[t].remote # c
        BY <3>1, <3>3 DEF Talk, Noted
      <3> QED BY <3>2, <3>3
    <2> QED BY <2>1, <2>2
  <1>4. \A t \in Slots : /\ k2[t].local = k[t].local /\ k2[t].remote = k[t].remote
                         /\ k2[t].state = k[t].state
    BY <1>1
  <1>5. SameChannels(k, k2, pe)
    BY <1>4 DEF SameChannels, Live
  <1>6. SameSides(pe, pe2) /\ OfPeer(k)
    BY DEF SameSides, OfPeer
  <1> QED BY <1>2, <1>3, <1>5, <1>6, OnlyNoted

\* The peer answers our configuration of a channel that is up.
LEMMA PeerAgreed ==
  ASSUME NEW k, NEW k2, NEW o \in Seq(Messages), NEW p \in Pending, NEW pe, NEW pe2,
         Talk(k, o, p, pe), NEW c \in PeerCids, pe[c].st = "up",
         pe2[c].st = "up", pe2[c].other = pe[c].other, pe2[c].answered,
         pe2[c].configured = pe[c].configured, OnlySide(pe, pe2, c),
         NEW s \in Slots, Live(k[s]), k[s].remote = c,
         k2[s].state = k[s].state, k2[s].local = k[s].local, k2[s].remote = c, k2[s].cfgRspRcvd,
         k2[s].cfgReqSeen = k[s].cfgReqSeen, k2[s].cfgRspSent = k[s].cfgRspSent,
         OnlySlot(k, k2, s),
         OfPeer(k)
  PROVE  Talk(k2, o, p, pe2)
  <1> USE DEF OnlySlot, OnlySide, OfPeer
  <1>2. AsNew(pe2)
    BY DEF Talk, AsNew
  <1>3. Noted(k2, pe2)
    <2> SUFFICES ASSUME NEW t \in Slots, Live(k2[t])
                 PROVE  /\ k2[t].cfgRspRcvd => pe2[k2[t].remote].answered
                        /\ k2[t].cfgReqSeen \/ k2[t].cfgRspSent => pe2[k2[t].remote].configured
                        /\ k2[t].state = "OPEN" => k2[t].cfgRspRcvd /\ k2[t].cfgRspSent
      BY DEF Noted
    <2>1. CASE t = s
      BY <2>1 DEF Talk, Noted
    <2>2. CASE t # s
      <3>1. k2[t] = k[t] /\ Live(k[t]) /\ k[t].remote \in PeerCids
        BY <2>2
      <3>2. CASE k[t].remote = c
        BY <3>1, <3>2 DEF Talk, Noted
      <3>3. CASE k[t].remote # c
        BY <3>1, <3>3 DEF Talk, Noted
      <3> QED BY <3>2, <3>3
    <2> QED BY <2>1, <2>2
  <1>4. \A t \in Slots : /\ k2[t].local = k[t].local /\ k2[t].remote = k[t].remote
                         /\ k2[t].state = k[t].state
    OBVIOUS
  <1>5. SameChannels(k, k2, pe)
    BY <1>4 DEF SameChannels, Live
  <1>6. SameSides(pe, pe2) /\ OfPeer(k)
    BY DEF SameSides, OfPeer
  <1> QED BY <1>2, <1>3, <1>5, <1>6, OnlyNoted

\* The pass over a channel answers the peer's configuration, and opens it if both agree.
LEMMA ChannelPassed ==
  ASSUME NEW k, NEW k2, NEW o \in Seq(Messages), NEW p \in Pending, NEW pe, Talk(k, o, p, pe),
         NEW s \in Slots, k2[s].local = k[s].local, k2[s].remote = k[s].remote,
         k2[s].cfgRspRcvd = k[s].cfgRspRcvd, k2[s].cfgReqSeen = k[s].cfgReqSeen,
         k2[s].cfgRspSent => k[s].cfgRspSent \/ k[s].cfgReqSeen,
         k2[s].state = "OPEN" => k2[s].cfgRspRcvd /\ k2[s].cfgRspSent,
         k2[s].state # k[s].state => k[s].state = "CONFIG" /\ k2[s].state = "OPEN",
         OnlySlot(k, k2, s),
         \A t \in Slots : Live(k[t]) => k[t].remote \in PeerCids
  PROVE  Talk(k2, o, p, pe)
  <1> USE DEF OnlySlot
  <1>1. Live(k2[s]) <=> Live(k[s])
    BY DEF Live
  <1>2. k[s].state = "CONFIG" /\ pe[k[s].remote].st = "asked" => k2[s].state = "CONFIG"
    <2> SUFFICES ASSUME k[s].state = "CONFIG", pe[k[s].remote].st = "asked", k2[s].state = "OPEN"
                 PROVE  FALSE
      OBVIOUS
    <2>1. Live(k[s]) /\ k[s].remote \in PeerCids /\ k[s].cfgRspRcvd
      BY DEF Live
    <2> QED BY <2>1 DEF Talk, Noted, AsNew
  <1>3. Noted(k2, pe)
    <2> SUFFICES ASSUME NEW t \in Slots, Live(k2[t])
                 PROVE  /\ k2[t].cfgRspRcvd => pe[k2[t].remote].answered
                        /\ k2[t].cfgReqSeen \/ k2[t].cfgRspSent => pe[k2[t].remote].configured
                        /\ k2[t].state = "OPEN" => k2[t].cfgRspRcvd /\ k2[t].cfgRspSent
      BY DEF Noted
    <2>1. CASE t = s
      BY <2>1, <1>1 DEF Talk, Noted
    <2>2. CASE t # s
      BY <2>2 DEF Talk, Noted
    <2> QED BY <2>1, <2>2
  <1>4. SameChannels(k, k2, pe) /\ SameSides(pe, pe) /\ OfPeer(k)
    BY <1>1, <1>2 DEF SameChannels, SameSides, OfPeer
  <1>5. AsNew(pe)
    BY DEF Talk
  <1> QED BY <1>3, <1>4, <1>5, OnlyNoted

-----------------------------------------------------------------------------
(* The answers service() queues.                                             *)

\* The messages of a type in q are one at most.
Once(q, type) == \A i, j \in 1..Len(q) : q[i].type = type /\ q[j].type = type => i = j

\* Where the messages of a join come from.
LEMMA Joined ==
  ASSUME NEW a \in Seq(Messages), NEW b \in Seq(Messages)
  PROVE  LET w == a \o b
             n == Len(a)
         IN  /\ w \in Seq(Messages) /\ n \in Nat
             /\ \A i \in 1..Len(w) : \/ i \in 1..n /\ w[i] = a[i]
                                     \/ i - n \in 1..Len(b) /\ w[i] = b[i - n] /\ i \in Int /\ i \notin 1..n
             /\ \A i \in 1..n : i \in 1..Len(w) /\ w[i] = a[i] /\ i \in Nat
             /\ \A i \in 1..Len(b) : n + i \in 1..Len(w) /\ w[n + i] = b[i]
  <1> DEFINE w == a \o b
             n == Len(a)
             l == Len(b)
  <1>1. /\ n \in Nat /\ l \in Nat /\ Len(w) = n + l /\ w \in Seq(Messages)
        /\ \A i \in 1..n : w[i] = a[i]
        /\ \A i \in 1..l : w[n + i] = b[i]
    BY JoinIs
  <1> HIDE DEF w, n, l
  <1>2. \A i \in 1..Len(w) : \/ i \in 1..n /\ w[i] = a[i]
                             \/ i - n \in 1..l /\ w[i] = b[i - n] /\ i \in Int /\ i \notin 1..n
    <2> TAKE i \in 1..Len(w)
    <2>1. CASE i \in 1..n
      BY <2>1, <1>1
    <2>2. CASE i \notin 1..n
      <3>1. i - n \in 1..l /\ n + (i - n) = i
        BY <2>2, <1>1
      <3> QED BY <3>1, <2>2, <1>1
    <2> QED BY <2>1, <2>2
  <1>3. \A i \in 1..n : i \in 1..Len(w) /\ w[i] = a[i] /\ i \in Nat
    BY <1>1
  <1>4. \A i \in 1..l : n + i \in 1..Len(w) /\ w[n + i] = b[i]
    BY <1>1
  <1> QED BY <1>1, <1>2, <1>3, <1>4 DEF w, n, l

LEMMA OnceJoined ==
  ASSUME NEW a \in Seq(Messages), NEW b \in Seq(Messages), NEW type, Once(a, type), Once(b, type),
         \A i \in 1..Len(a), j \in 1..Len(b) : ~(a[i].type = type /\ b[j].type = type)
  PROVE  Once(a \o b, type)
  <1> DEFINE w == a \o b
             n == Len(a)
             l == Len(b)
  <1>1. /\ n \in Nat
        /\ \A i \in 1..Len(w) : \/ i \in 1..n /\ w[i] = a[i]
                                \/ i - n \in 1..l /\ w[i] = b[i - n] /\ i \in Int /\ i \notin 1..n
    BY Joined
  <1> HIDE DEF w
  <1>3. ASSUME NEW i \in 1..Len(w), NEW j \in 1..Len(w), w[i].type = type, w[j].type = type
        PROVE  i = j
    <2>1. CASE i \in 1..n /\ w[i] = a[i] /\ j \in 1..n /\ w[j] = a[j]
      BY <2>1, <1>3 DEF Once
    <2>2. CASE i - n \in 1..l /\ w[i] = b[i - n] /\ i \in Int /\ j - n \in 1..l /\ w[j] = b[j - n] /\ j \in Int
      <3>1. i - n = j - n
        BY <2>2, <1>3 DEF Once
      <3> HIDE DEF n, l
      <3> QED BY <3>1, <2>2, <1>1
    <2> QED BY <2>1, <2>2, <1>1, <1>3
  <1> QED BY <1>3 DEF Once, w

\* What the answers q are to what is pending.
AnswersTo(q, p) ==
  /\ \A i \in 1..Len(q) :
       /\ q[i].type \notin {"CONN_REQ", "CFG_REQ"}
       /\ q[i].type = "CONN_RSP" => p.rsp # None /\ q[i] = p.rsp
       /\ q[i].type = "DISC_RSP" => p.disc # None /\ q[i].to = p.disc
  /\ Once(q, "CONN_RSP") /\ Once(q, "DISC_RSP")

LEMMA AtMostOne ==
  ASSUME NEW m, NEW q, q = <<>> \/ (q = <<m>> /\ m \in Messages)
  PROVE  q \in Seq(Messages) /\ Len(q) \in 0..1 /\ \A i \in 1..Len(q) : q[i] = m /\ q = <<m>>
  <1>1. CASE q = <<>>
    BY <1>1
  <1>2. CASE q = <<m>> /\ m \in Messages
    <2>1. <<m>> \in Seq(Messages) /\ Len(<<m>>) = 1 /\ <<m>>[1] = m
      BY <1>2
    <2> QED BY <2>1, <1>2
  <1> QED BY <1>1, <1>2

LEMMA AnswersAre ==
  ASSUME NEW p \in Pending
  PROVE  /\ AnswersTo(Answers(p), p)
         /\ p.rsp # None => \E i \in 1..Len(Answers(p)) : Answers(p)[i].type = "CONN_RSP"
  <1> DEFINE A == IF "INFO" \in p.asked THEN <<Answer("INFO")>> ELSE <<>>
             B == IF "ECHO" \in p.asked THEN <<Answer("ECHO")>> ELSE <<>>
             C == IF p.rsp # None THEN <<p.rsp>> ELSE <<>>
             D == IF p.disc # None THEN <<DiscRsp(p.disc)>> ELSE <<>>
  <1>1. /\ A \in Seq(Messages) /\ \A i \in 1..Len(A) : A[i].type = "INFO"
        /\ Len(A) \in 0..1
    <2>1. Answer("INFO") \in Messages /\ Answer("INFO").type = "INFO"
      BY DEF Answer, Messages
    <2>2. A = <<>> \/ A = <<Answer("INFO")>>
      OBVIOUS
    <2> HIDE DEF A
    <2> QED BY <2>1, <2>2, AtMostOne
  <1>2. /\ B \in Seq(Messages) /\ \A i \in 1..Len(B) : B[i].type = "ECHO"
        /\ Len(B) \in 0..1
    <2>1. Answer("ECHO") \in Messages /\ Answer("ECHO").type = "ECHO"
      BY DEF Answer, Messages
    <2>2. B = <<>> \/ B = <<Answer("ECHO")>>
      OBVIOUS
    <2> HIDE DEF B
    <2> QED BY <2>1, <2>2, AtMostOne
  <1>3. /\ C \in Seq(Messages) /\ \A i \in 1..Len(C) : C[i].type = "CONN_RSP" /\ C[i] = p.rsp /\ p.rsp # None
        /\ Len(C) \in 0..1 /\ (p.rsp # None => Len(C) = 1)
    BY DEF Pending
  <1>4. /\ D \in Seq(Messages)
        /\ \A i \in 1..Len(D) : D[i].type = "DISC_RSP" /\ D[i].to = p.disc /\ p.disc # None
        /\ Len(D) \in 0..1
    <2>1. p.disc # None => /\ DiscRsp(p.disc) \in Messages /\ DiscRsp(p.disc).type = "DISC_RSP"
                           /\ DiscRsp(p.disc).to = p.disc
      BY DEF DiscRsp, Messages, Pending
    <2>2. D = <<>> \/ (p.disc # None /\ D = <<DiscRsp(p.disc)>>)
      OBVIOUS
    <2> HIDE DEF D
    <2>3. D = <<>> \/ (D = <<DiscRsp(p.disc)>> /\ DiscRsp(p.disc) \in Messages)
      BY <2>1, <2>2
    <2>4. D \in Seq(Messages) /\ Len(D) \in 0..1 /\ \A i \in 1..Len(D) : D[i] = DiscRsp(p.disc)
      BY <2>3, AtMostOne
    <2>5. \A i \in 1..Len(D) : p.disc # None
      BY <2>2
    <2> QED BY <2>1, <2>4, <2>5
  <1>5. Answers(p) = A \o B \o C \o D
    BY DEF Answers
  <1> HIDE DEF A, B, C, D
  <1>6. \A type : Once(A, type) /\ Once(B, type) /\ Once(C, type) /\ Once(D, type)
    BY <1>1, <1>2, <1>3, <1>4 DEF Once
  <1> DEFINE AB == A \o B
             ABC == AB \o C
             W == ABC \o D
  <1>7. /\ AB \in Seq(Messages) /\ \A i \in 1..Len(AB) : AB[i].type \in {"INFO", "ECHO"}
        /\ \A type : type \in {"CONN_RSP", "DISC_RSP"} => Once(AB, type)
    <2>1. AB \in Seq(Messages)
      BY <1>1, <1>2, JoinIs
    <2>2. \A i \in 1..Len(AB) : AB[i].type \in {"INFO", "ECHO"}
      BY <1>1, <1>2, Joined
    <2>3. \A type : type \in {"CONN_RSP", "DISC_RSP"} => Once(AB, type)
      BY <1>1, <1>2, <1>6, OnceJoined
    <2> QED BY <2>1, <2>2, <2>3
  <1> HIDE DEF AB
  <1>8. /\ ABC \in Seq(Messages)
        /\ \A i \in 1..Len(ABC) : \/ ABC[i].type \in {"INFO", "ECHO"}
                                  \/ ABC[i].type = "CONN_RSP" /\ ABC[i] = p.rsp /\ p.rsp # None
        /\ Once(ABC, "CONN_RSP") /\ Once(ABC, "DISC_RSP")
        /\ p.rsp # None => \E i \in 1..Len(ABC) : ABC[i].type = "CONN_RSP"
    <2>1. ABC \in Seq(Messages)
      BY <1>3, <1>7, JoinIs
    <2>2. \A i \in 1..Len(ABC) : \/ ABC[i].type \in {"INFO", "ECHO"}
                                 \/ ABC[i].type = "CONN_RSP" /\ ABC[i] = p.rsp /\ p.rsp # None
      BY <1>3, <1>7, Joined
    <2>3. Once(ABC, "CONN_RSP") /\ Once(ABC, "DISC_RSP")
      BY <1>3, <1>6, <1>7, OnceJoined
    <2>4. p.rsp # None => \E i \in 1..Len(ABC) : ABC[i].type = "CONN_RSP"
      <3> SUFFICES ASSUME p.rsp # None PROVE \E i \in 1..Len(ABC) : ABC[i].type = "CONN_RSP"
        OBVIOUS
      <3>1. 1 \in 1..Len(C)
        BY <1>3
      <3>2. Len(AB) + 1 \in 1..Len(ABC) /\ ABC[Len(AB) + 1] = C[1]
        BY <3>1, <1>3, <1>7, Joined
      <3> HIDE DEF ABC
      <3> QED BY <3>1, <3>2, <1>3
    <2> QED BY <2>1, <2>2, <2>3, <2>4
  <1> HIDE DEF ABC
  <1>9. \A i \in 1..Len(W) : \/ W[i].type \in {"INFO", "ECHO"}
                             \/ W[i].type = "CONN_RSP" /\ W[i] = p.rsp /\ p.rsp # None
                             \/ W[i].type = "DISC_RSP" /\ W[i].to = p.disc /\ p.disc # None
    BY <1>4, <1>8, Joined
  <1>10. Once(W, "CONN_RSP") /\ Once(W, "DISC_RSP")
    BY <1>4, <1>6, <1>8, OnceJoined
  <1>11. p.rsp # None => \E i \in 1..Len(W) : W[i].type = "CONN_RSP"
    <2>1. \A i \in 1..Len(ABC) : i \in 1..Len(W) /\ W[i] = ABC[i]
      BY <1>4, <1>8, Joined
    <2> HIDE DEF W
    <2> QED BY <2>1, <1>8
  <1>12. Answers(p) = W
    BY <1>5 DEF W, ABC, AB
  <1> HIDE DEF W
  <1> QED BY <1>9, <1>10, <1>11, <1>12 DEF AnswersTo

\* The first of the answers are answers.
LEMMA FirstAnswers ==
  ASSUME NEW q \in Seq(Messages), NEW p, AnswersTo(q, p), NEW n \in 0..Len(q)
  PROVE  LET part == SubSeq(q, 1, n)
         IN  /\ part \in Seq(Messages) /\ Len(part) = n /\ AnswersTo(part, p)
             /\ {q[i].type : i \in 1..n} = {part[i].type : i \in 1..Len(part)}
  <1> DEFINE part == SubSeq(q, 1, n)
  <1>1. Len(q) \in Nat /\ 1 \in Int /\ n \in Int /\ \A i \in 1..n : i \in 1..Len(q) /\ q[i] \in Messages
    BY ElementOfSeq, LenProperties
  <1>2. part \in Seq(Messages)
    BY <1>1, SubSeqProperties
  <1>3. Len(part) = IF 1 <= n THEN n - 1 + 1 ELSE 0
    BY <1>1, SubSeqProperties
  <1>4. \A i \in 1..n - 1 + 1 : part[i] = q[1 + i - 1]
    BY <1>1, SubSeqProperties
  <1> HIDE DEF part
  <1>5. Len(part) = n
    BY <1>1, <1>3
  <1>6. \A i \in 1..n : part[i] = q[i]
    <2> TAKE i \in 1..n
    <2>1. i \in 1..n - 1 + 1 /\ 1 + i - 1 = i
      BY <1>1
    <2> QED BY <2>1, <1>4
  <1>7. AnswersTo(part, p)
    BY <1>1, <1>5, <1>6 DEF AnswersTo, Once
  <1>8. {q[i].type : i \in 1..n} = {part[i].type : i \in 1..n}
    BY <1>6
  <1> QED BY <1>2, <1>5, <1>7, <1>8 DEF part

\* Some answers go out, and what is still owed stays pending.
LEMMA Answered ==
  ASSUME NEW k, NEW o \in Seq(Messages), NEW p \in Pending, NEW p2, NEW pe, Talk(k, o, p, pe),
         NEW q \in Seq(Messages), AnswersTo(q, p), p2 = StillOwed(p, {q[i].type : i \in 1..Len(q)})
  PROVE  Talk(k, o \o q, p2, pe)
  <1> DEFINE w == o \o q
             n == Len(o)
             sent == {q[i].type : i \in 1..Len(q)}
  <1>0. p.disc # None => p.disc \in PeerCids
    BY DEF Pending
  <1>1. /\ n \in Nat
        /\ \A i \in 1..Len(w) : \/ i \in 1..n /\ w[i] = o[i]
                                \/ i - n \in 1..Len(q) /\ w[i] = q[i - n] /\ i \in Int /\ i \notin 1..n
        /\ \A i \in 1..n : i \in 1..Len(w) /\ w[i] = o[i] /\ i \in Nat
        /\ \A i \in 1..Len(q) : n + i \in 1..Len(w) /\ w[n + i] = q[i]
    BY Joined
  <1>2. /\ \A i \in 1..Len(q) : /\ q[i].type = "CONN_RSP" => p2.conn = None /\ p2.rsp = None
                                /\ q[i].type = "DISC_RSP" => p2.disc = None
        /\ p2.conn # None => p2.conn = p.conn
        /\ p2.rsp # None => p2.rsp = p.rsp
        /\ p2.disc # None => p2.disc = p.disc
        /\ p2.rsp = p.rsp \/ \E i \in 1..Len(q) : q[i].type = "CONN_RSP"
    <2>1. \A i \in 1..Len(q) : q[i].type \in sent
      OBVIOUS
    <2>2. "CONN_RSP" \in sent => \E i \in 1..Len(q) : q[i].type = "CONN_RSP"
      OBVIOUS
    <2> HIDE DEF sent
    <2>3. p2 = StillOwed(p, sent)
      BY DEF sent
    <2> QED BY <2>1, <2>2, <2>3 DEF StillOwed
  <1> HIDE DEF w, sent
  <1>3. Responses(k, w, p2, pe)
    <2>1. \A i \in 1..Len(w) : w[i].type = "CONN_RSP" => Backed(k, pe, w[i])
      <3> SUFFICES ASSUME NEW i \in 1..Len(w), w[i].type = "CONN_RSP" PROVE Backed(k, pe, w[i])
        OBVIOUS
      <3>1. CASE i \in 1..n /\ w[i] = o[i]
        BY <3>1 DEF Talk, Responses, n
      <3>2. CASE i - n \in 1..Len(q) /\ w[i] = q[i - n]
        <4>1. p.rsp # None /\ q[i - n] = p.rsp
          BY <3>2 DEF AnswersTo
        <4> QED BY <4>1, <3>2 DEF Talk, Responses
      <3> QED BY <3>1, <3>2, <1>1
    <2>2. ASSUME NEW i \in 1..Len(w), NEW j \in 1..Len(w),
                 w[i].type = "CONN_RSP", w[j].type = "CONN_RSP", w[i].to = w[j].to
          PROVE  i = j
      <3>1. CASE i \in 1..n /\ w[i] = o[i] /\ j \in 1..n /\ w[j] = o[j]
        BY <3>1, <2>2 DEF Talk, Responses, n
      <3>2. CASE i - n \in 1..Len(q) /\ w[i] = q[i - n] /\ i \in Int /\ j - n \in 1..Len(q) /\ w[j] = q[j - n] /\ j \in Int
        <4>1. i - n = j - n
          BY <3>2, <2>2 DEF AnswersTo, Once
        <4> HIDE DEF n
        <4> QED BY <4>1, <3>2, <1>1
      <3>3. CASE i \in 1..n /\ w[i] = o[i] /\ j - n \in 1..Len(q) /\ w[j] = q[j - n]
        BY <3>3, <2>2 DEF Talk, Responses, AnswersTo, n
      <3>4. CASE j \in 1..n /\ w[j] = o[j] /\ i - n \in 1..Len(q) /\ w[i] = q[i - n]
        BY <3>4, <2>2 DEF Talk, Responses, AnswersTo, n
      <3> QED BY <3>1, <3>2, <3>3, <3>4, <1>1
    <2>r. Responses(k, o, p, pe)
      BY DEF Talk
    <2>w. ASSUME p2.rsp # None \/ p2.conn # None, NEW i \in 1..Len(w), w[i].type = "CONN_RSP"
          PROVE  i \in 1..Len(o) /\ w[i] = o[i]
      BY <2>w, <1>1, <1>2 DEF n
    <2>3. p2.rsp # None => Backed(k, pe, p2.rsp) /\ \A i \in 1..Len(w) : w[i].type = "CONN_RSP" => w[i].to # p2.rsp.to
      <3> SUFFICES ASSUME p2.rsp # None
                   PROVE  /\ Backed(k, pe, p2.rsp)
                          /\ \A i \in 1..Len(w) : w[i].type = "CONN_RSP" => w[i].to # p2.rsp.to
        OBVIOUS
      <3>1. p2.rsp = p.rsp
        BY <1>2
      <3> QED BY <3>1, <2>r, <2>w DEF Responses
    <2>4. p2.conn # None => /\ pe[p2.conn.scid].st = "asked"
                            /\ \A i \in 1..Len(w) : w[i].type = "CONN_RSP" => w[i].to # p2.conn.scid
      <3> SUFFICES ASSUME p2.conn # None
                   PROVE  /\ pe[p2.conn.scid].st = "asked"
                          /\ \A i \in 1..Len(w) : w[i].type = "CONN_RSP" => w[i].to # p2.conn.scid
        OBVIOUS
      <3>1. p2.conn = p.conn
        BY <1>2
      <3> QED BY <3>1, <2>r, <2>w DEF Responses
    <2> QED BY <2>1, <2>2, <2>3, <2>4 DEF Responses
  <1>4. Requests(k, w)
    <2>1. \A i \in 1..Len(w) : w[i].type = "CONN_REQ" => i \in 1..n /\ w[i] = o[i]
      BY <1>1 DEF AnswersTo
    <2>2. Requests(k, o)
      BY DEF Talk
    <2> QED BY <2>1, <2>2, RequestsWithin DEF n
  <1>5. \A r : Granted(r, o, p) => Granted(r, w, p2)
    <2> TAKE r
    <2> HAVE Granted(r, o, p)
    <2>1. CASE \E i \in 1..n : o[i] = ConnRsp(r.remote, r.local, TRUE)
      BY <2>1, <1>1 DEF Granted
    <2>2. CASE p.rsp = ConnRsp(r.remote, r.local, TRUE)
      <3>1. CASE p2.rsp = p.rsp
        BY <2>2, <3>1 DEF Granted
      <3>2. CASE \E i \in 1..Len(q) : q[i].type = "CONN_RSP"
        <4>1. PICK i \in 1..Len(q) : q[i].type = "CONN_RSP"
          BY <3>2
        <4>2. q[i] = p.rsp
          BY <4>1 DEF AnswersTo
        <4> QED BY <2>2, <4>2, <1>1 DEF Granted
      <3> QED BY <3>1, <3>2, <1>2
    <2> QED BY <2>1, <2>2 DEF Granted, n
  <1>6. Paired(k, w, p2, pe)
    BY <1>5 DEF Talk, Paired
  <1>7. Farewells(w, p2, pe)
    <2>1. \A i \in 1..Len(w) : w[i].type = "DISC_RSP" => pe[w[i].to].st = "closing" /\ w[i].to # p2.disc
      <3> SUFFICES ASSUME NEW i \in 1..Len(w), w[i].type = "DISC_RSP"
                   PROVE  pe[w[i].to].st = "closing" /\ w[i].to # p2.disc
        OBVIOUS
      <3>1. CASE i \in 1..n /\ w[i] = o[i]
        <4>1. o[i] \in Messages
          BY <3>1, ElementOfSeq DEF n
        <4>2. o[i].to \in PeerCids
          BY <4>1, <3>1, MessageIs
        <4>3. o[i].to # None
          BY <4>2, L2capAssumption
        <4> QED BY <3>1, <4>3, <1>2 DEF Talk, Farewells, n
      <3>2. CASE i - n \in 1..Len(q) /\ w[i] = q[i - n]
        <4>1. p2.disc = None /\ w[i].to = p.disc /\ p.disc # None
          BY <3>2, <1>2 DEF AnswersTo
        <4> QED BY <4>1 DEF Talk, Farewells
      <3> QED BY <3>1, <3>2, <1>1
    <2>2. ASSUME NEW i \in 1..Len(w), NEW j \in 1..Len(w),
                 w[i].type = "DISC_RSP", w[j].type = "DISC_RSP", w[i].to = w[j].to
          PROVE  i = j
      <3>1. CASE i \in 1..n /\ w[i] = o[i] /\ j \in 1..n /\ w[j] = o[j]
        BY <3>1, <2>2 DEF Talk, Farewells, n
      <3>2. CASE i - n \in 1..Len(q) /\ w[i] = q[i - n] /\ i \in Int /\ j - n \in 1..Len(q) /\ w[j] = q[j - n] /\ j \in Int
        <4>1. i - n = j - n
          BY <3>2, <2>2 DEF AnswersTo, Once
        <4> HIDE DEF n
        <4> QED BY <4>1, <3>2, <1>1
      <3>3. CASE i \in 1..n /\ w[i] = o[i] /\ j - n \in 1..Len(q) /\ w[j] = q[j - n]
        BY <3>3, <2>2 DEF Talk, Farewells, AnswersTo, n
      <3>4. CASE j \in 1..n /\ w[j] = o[j] /\ i - n \in 1..Len(q) /\ w[i] = q[i - n]
        BY <3>4, <2>2 DEF Talk, Farewells, AnswersTo, n
      <3> QED BY <3>1, <3>2, <3>3, <3>4, <1>1
    <2>3. p2.disc # None => pe[p2.disc].st = "closing"
      BY <1>2 DEF Talk, Farewells
    <2> QED BY <2>1, <2>2, <2>3 DEF Farewells
  <1>8. Ordered(w, pe)
    <2> SUFFICES ASSUME NEW i \in 1..Len(w), w[i].type = "CFG_REQ" PROVE Timely(w, pe, i)
      BY DEF Ordered
    <2>1. i \in 1..n /\ w[i] = o[i] /\ i \in Nat
      BY <1>1 DEF AnswersTo
    <2>2. Timely(o, pe, i)
      BY <2>1 DEF Talk, Ordered, n
    <2>3. \A j \in 1..i : w[j] = o[j]
      <3> HIDE DEF n
      <3>1. \A j \in 1..i : j \in 1..n
        BY <2>1, <1>1
      <3> QED BY <3>1, <1>1
    <2> QED BY <2>1, <2>2, <2>3, TimelySame
  <1> QED BY <1>3, <1>4, <1>6, <1>7, <1>8 DEF Talk, w

LEMMA AppendJoined ==
  ASSUME NEW a \in Seq(Messages), NEW b \in Seq(Messages), NEW m \in Messages
  PROVE  a \o Append(b, m) = Append(a \o b, m)
  <1>1. <<m>> \in Seq(Messages)
    OBVIOUS
  <1>2. Append(b, m) = b \o <<m>>
    BY AppendIsConcat
  <1>3. a \o (b \o <<m>>) = (a \o b) \o <<m>>
    BY <1>1, ConcatAssociative
  <1>4. a \o b \in Seq(Messages)
    BY JoinIs
  <1>5. Append(a \o b, m) = (a \o b) \o <<m>>
    BY <1>4, AppendIsConcat
  <1> QED BY <1>2, <1>3, <1>5

\* The head of one queue moves to the end of the other.
LEMMA HeadMoved ==
  ASSUME NEW a \in Seq(Messages), NEW b \in Seq(Messages), b # <<>>
  PROVE  Append(a, Head(b)) \o Tail(b) = a \o b
  <1>1. Head(b) \in Messages /\ Tail(b) \in Seq(Messages) /\ Head(b) = b[1] /\ Len(b) \in Nat \ {0}
    BY TailIs
  <1>2. b = <<b[1]>> \o Tail(b)
    <2>1. SubSeq(b, 1, Len(b)) = b /\ Tail(b) = SubSeq(b, 2, Len(b))
      BY SubSeqFull, TailIsSubSeq
    <2>2. 1 \in 1..Len(b) /\ Len(b) \in 1..Len(b) /\ 1 + 1 = 2
      BY <1>1
    <2>3. SubSeq(b, 1, Len(b)) = <<b[1]>> \o SubSeq(b, 1 + 1, Len(b))
      BY <2>2, SubSeqRecursiveFirst
    <2> QED BY <2>1, <2>2, <2>3
  <1>3. <<b[1]>> \in Seq(Messages)
    BY <1>1
  <1>4. Append(a, b[1]) = a \o <<b[1]>>
    BY <1>1, AppendIsConcat
  <1>5. (a \o <<b[1]>>) \o Tail(b) = a \o (<<b[1]>> \o Tail(b))
    BY <1>1, <1>3, ConcatAssociative
  <1> QED BY <1>1, <1>2, <1>4, <1>5

\* The head of a join is the head of its first part.
LEMMA TailJoined ==
  ASSUME NEW a \in Seq(Messages), NEW b \in Seq(Messages), a # <<>>
  PROVE  a \o b # <<>> /\ (a \o b)[1] = Head(a) /\ Tail(a \o b) = Tail(a) \o b
  <1>1. Head(a) \in Messages /\ Tail(a) \in Seq(Messages) /\ Head(a) = a[1] /\ Len(a) \in Nat \ {0}
        /\ Len(Tail(a)) = Len(a) - 1 /\ \A i \in 1..Len(Tail(a)) : Tail(a)[i] = a[i + 1]
    BY TailIs
  <1>2. /\ a \o b \in Seq(Messages) /\ Len(a \o b) = Len(a) + Len(b) /\ Len(b) \in Nat
        /\ \A i \in 1..Len(a) : (a \o b)[i] = a[i]
    BY JoinIs
  <1>3. a \o b # <<>> /\ (a \o b)[1] = Head(a)
    <2>1. 1 \in 1..Len(a) /\ Len(a \o b) # 0
      BY <1>1, <1>2
    <2> QED BY <2>1, <1>1, <1>2, EmptySeq
  <1> DEFINE t == Tail(a)
             w == a \o b
             u == Tail(w)
             v == t \o b
             n == Len(a)
             l == Len(b)
  <1>4. /\ u \in Seq(Messages) /\ Len(u) = Len(w) - 1 /\ \A i \in 1..Len(u) : u[i] = w[i + 1]
    BY <1>2, <1>3, TailIs
  <1>5. /\ v \in Seq(Messages) /\ Len(v) = Len(t) + l
        /\ \A i \in 1..Len(t) : v[i] = t[i] /\ \A j \in 1..l : v[Len(t) + j] = b[j]
    <2> HIDE DEF t
    <2>1. t \in Seq(Messages)
      BY <1>1 DEF t
    <2>2. v \in Seq(Messages) /\ Len(v) = Len(t) + l
      BY <2>1, JoinIs
    <2>3. \A i \in 1..Len(t) : v[i] = t[i]
      BY <2>1, JoinIs
    <2>4. \A j \in 1..l : v[Len(t) + j] = b[j]
      BY <2>1, JoinIs
    <2> QED BY <2>2, <2>3, <2>4
  <1>6. /\ \A i \in 1..n : w[i] = a[i]
        /\ \A j \in 1..l : w[n + j] = b[j]
    BY JoinIs
  <1>7. \A j \in 1..l : v[Len(t) + j] = b[j]
    <2> HIDE DEF t
    <2>1. t \in Seq(Messages)
      BY <1>1 DEF t
    <2> QED BY <2>1, JoinIs
  <1>8. /\ n \in Nat \ {0} /\ l \in Nat /\ Len(w) = n + l /\ Len(t) = n - 1
        /\ \A i \in 1..Len(t) : t[i] = a[i + 1]
    BY <1>1, <1>2
  <1>9. \A i \in 1..Len(t) : v[i] = t[i]
    BY <1>5
  <1> HIDE DEF t, w, u, v, n, l
  <1>10. ASSUME NEW i \in 1..Len(u) PROVE u[i] = v[i]
    <2>1. CASE i \in 1..Len(t)
      <3>1. i + 1 \in 1..n
        BY <2>1, <1>8
      <3> QED BY <3>1, <2>1, <1>4, <1>6, <1>8, <1>9
    <2>2. CASE i \notin 1..Len(t)
      <3>1. PICK j \in 1..l : j = i - (n - 1)
        BY <2>2, <1>4, <1>8
      <3>2. i + 1 = n + j /\ i = Len(t) + j
        BY <3>1, <1>8
      <3>3. u[i] = w[n + j]
        BY <3>2, <1>4
      <3>4. w[n + j] = b[j]
        BY <1>6
      <3>5. v[i] = b[j]
        BY <3>2, <1>7
      <3> QED BY <3>3, <3>4, <3>5
    <2> QED BY <2>1, <2>2
  <1>11. Len(u) = Len(v)
    BY <1>4, <1>5, <1>8
  <1>12. u = v
    BY <1>4, <1>5, <1>10, <1>11, SeqEqual
  <1> QED BY <1>3, <1>12 DEF u, v, w, t

-----------------------------------------------------------------------------
(* The invariant of both sides.                                              *)

\* While service() is past the answers, a response that still waits has found no room.
FullUp == at \in Slots /\ pend.rsp # None => Len(txq) = TxqSize

\* A link that is gone leaves nothing behind at the peer.
Quiet == ~link => wire = <<>> /\ \A c \in PeerCids : peer[c] = FreePeer

Talking == link => Talk(ch, Outbound, pend, peer)

Both == Untouched(ch) /\ Apart(ch, pend) /\ FullUp /\ Quiet /\ Talking

LEMMA Facts ==
  ASSUME IInv
  PROVE  /\ OfPeer(ch) /\ \A s \in Slots : Live(ch[s]) => ch[s].remote \in PeerCids
         /\ Outbound \in Seq(Messages) /\ wire \in Seq(Messages) /\ txq \in Seq(Messages)
         /\ ch \in [Slots -> Channels] /\ pend \in Pending /\ peer \in [PeerCids -> PeerSides]
         /\ \A s \in Slots : Live(ch[s]) => None # ConnRsp(ch[s].remote, ch[s].local, TRUE)
         /\ Len(wire) \in Nat /\ Len(txq) \in Nat /\ TxqSize \in Nat /\ Len(txq) <= TxqSize
  <1>1. \A s \in Slots : Live(ch[s]) => ch[s].remote \in PeerCids
    BY DEF IInv, Sound, Live
  <1>2. wire \in Seq(Messages) /\ txq \in Seq(Messages) /\ ch \in [Slots -> Channels] /\ pend \in Pending
        /\ peer \in [PeerCids -> PeerSides] /\ Len(txq) <= TxqSize
    BY DEF IInv, TypeOK
  <1>3. Outbound \in Seq(Messages)
    BY <1>2, JoinIs DEF Outbound
  <1>4. \A s \in Slots : Live(ch[s]) => None # ConnRsp(ch[s].remote, ch[s].local, TRUE)
    <2>1. \A s \in Slots : ch[s].local \in 0..FirstCid + MaxDyn
      BY <1>2 DEF Channels, Cids
    <2> QED BY <2>1, <1>1, NoneAssumption
  <1>5. Len(wire) \in Nat /\ Len(txq) \in Nat /\ TxqSize \in Nat
    BY <1>2, LenProperties, L2capAssumption
  <1> QED BY <1>1, <1>2, <1>3, <1>4, <1>5 DEF OfPeer

LEMMA ClearedBoth ==
  ASSUME Both, NEW n, Cleared(n), ~link, UNCHANGED <<wire, peer>>
  PROVE  Both'
  <1>1. wire' = <<>> /\ txq' = <<>> /\ \A c \in PeerCids : peer'[c] = FreePeer
    BY DEF Both, Quiet, Cleared
  <1>2. \A s \in Slots : ch'[s] = FreeCh
    BY DEF Cleared
  <1>3. pend' = NoPending
    BY DEF Cleared
  <1> DEFINE o == <<>> \o <<>>
  <1>4. Len(o) = 0 /\ Outbound' = o
    BY <1>1 DEF Outbound
  <1> HIDE DEF o
  <1>5. \A i : i \notin 1..Len(o)
    BY <1>4
  <1>6. \A s \in Slots : ~Live(ch'[s]) /\ ch'[s].state = "FREE"
    BY <1>2 DEF FreeCh, Live
  <1>7. \A c \in PeerCids : peer'[c].st = "free"
    BY <1>1 DEF FreePeer
  <1> SUFFICES ASSUME NEW k, k = ch', NEW p, p = pend', NEW pe, pe = peer'
               PROVE  Untouched(k) /\ Apart(k, p) /\ Talk(k, o, p, pe) /\ FullUp' /\ Quiet'
    BY <1>4 DEF Both, Talking
  <1>8. AsNew(pe)
    BY <1>1, <1>7 DEF AsNew
  <1>9. p.rsp = None /\ p.conn = None /\ p.disc = None
    BY <1>3 DEF NoPending
  <1>10. Responses(k, o, p, pe)
    BY <1>5, <1>9 DEF Responses
  <1>11. Requests(k, o)
    BY <1>5 DEF Requests
  <1>12. Paired(k, o, p, pe)
    BY <1>6, <1>7 DEF Paired
  <1>13. Farewells(o, p, pe) /\ Ordered(o, pe)
    BY <1>5, <1>9 DEF Farewells, Ordered
  <1>14. Noted(k, pe) /\ Untouched(k) /\ Apart(k, p)
    BY <1>6, <1>9 DEF Noted, Untouched, Apart
  <1>15. FullUp' /\ Quiet'
    BY <1>1, <1>9 DEF FullUp, Quiet
  <1> QED BY <1>8, <1>10, <1>11, <1>12, <1>13, <1>14, <1>15 DEF Talk

\* Nothing of it changes.
LEMMA SameBoth ==
  ASSUME Both, UNCHANGED <<ch, txq, pend, link, wire, peer>>, at' \in Slots => at' = at
  PROVE  Both'
  BY DEF Both, FullUp, Quiet, Talking, Outbound

\* What happens between two calls of service().
LEMMA BetweenCalls ==
  ASSUME at' = Idle, link' \/ UNCHANGED <<link, wire, peer>>, Both
  PROVE  FullUp' /\ Quiet'
  <1>1. Idle \notin Slots
    BY L2capAssumption DEF Idle, Slots
  <1> QED BY <1>1 DEF Both, FullUp, Quiet

LEMMA ConnectBoth ==
  ASSUME IInv, Distinct, Both, NEW l \in LocalCids, Connect(l)
  PROVE  Both'
  <1>1. PICK s \in Slots : /\ ch[s].state \in {"FREE", "CLOSED"}
                           /\ ch' = [ch EXCEPT ![s] = [FreeCh EXCEPT !.state = "WAIT_CONN", !.local = l]]
    BY DEF Connect, First, Reusable
  <1>2. UNCHANGED <<pend, link, wire, peer>> /\ at' = Idle
    BY DEF Connect, linkVars
  <1> SUFFICES ASSUME NEW k, k = ch' PROVE Untouched(k) /\ Apart(k, pend) /\ (link => Talk(k, Outbound', pend, peer))
    BY <1>2, BetweenCalls DEF Both, Talking
  <1>3. k[s] = [FreeCh EXCEPT !.state = "WAIT_CONN", !.local = l] /\ \A t \in Slots : t # s => k[t] = ch[t]
    BY <1>1, Facts
  <1>4. k[s].state = "WAIT_CONN" /\ k[s].local = l /\ ~k[s].cfgRspRcvd /\ ~k[s].cfgReqSeen /\ ~k[s].cfgRspSent
    BY <1>3 DEF FreeCh
  <1>5. Untouched(k) /\ Apart(k, pend)
    <2>1. \A t \in Slots : Live(k[t]) => k[t] = ch[t] /\ Live(ch[t])
      BY <1>3, <1>4 DEF Live
    <2>2. Untouched(k)
      BY <1>3, <1>4 DEF Both, Untouched
    <2>3. Apart(k, pend)
      BY <2>1 DEF Both, Apart
    <2> QED BY <2>2, <2>3
  <1>6. ASSUME link PROVE Talk(k, Outbound', pend, peer)
    <2>1. Talk(ch, Outbound, pend, peer)
      BY <1>6 DEF Both, Talking
    <2>2. Talk(k, Outbound, pend, peer)
      <3>1. ch[s].state \in {"FREE", "CLOSED"} /\ k[s].state = "WAIT_CONN" /\ OnlySlot(ch, k, s)
        BY <1>1, <1>3, <1>4 DEF OnlySlot
      <3> QED BY <2>1, <3>1, WaitTaken
    <2>3. CASE txq' = txq
      BY <2>2, <2>3, <1>2 DEF Outbound
    <2>4. CASE txq' = Append(txq, ConnReq(l))
      <3>1. ConnReq(l) \in Messages /\ ConnReq(l).type = "CONN_REQ" /\ ConnReq(l).local = l
        BY DEF ConnReq, Messages
      <3>2. Outbound' = Append(Outbound, ConnReq(l))
        BY <2>4, <1>2, <3>1, Facts, AppendJoined DEF Outbound
      <3>3. \A i \in 1..Len(Outbound) : Outbound[i].type = "CONN_REQ" => Outbound[i].local # l
        <4>1. ByLocal(l) = {}
          BY DEF Connect
        <4> QED BY <2>1, <4>1 DEF Talk, Requests, ByLocal
      <3>4. \E t \in Slots : k[t].state = "WAIT_CONN" /\ k[t].local = l
        BY <1>4
      <3> QED BY <2>2, <3>1, <3>2, <3>3, <3>4, Facts, Appended
    <2> QED BY <2>3, <2>4 DEF Connect, Queued
  <1> QED BY <1>5, <1>6

LEMMA SendDataBoth ==
  ASSUME IInv, Both, NEW s \in Slots, SendData(s)
  PROVE  Both'
  <1>1. UNCHANGED <<ch, pend, link, wire, peer>> /\ at' = Idle /\ txq' = Append(txq, DataTo(ch[s].remote))
    BY DEF SendData, linkVars
  <1>2. DataTo(ch[s].remote) \in Messages /\ DataTo(ch[s].remote).type = "DATA"
    BY DEF SendData, IInv, Sound, DataTo, Messages
  <1>3. Outbound' = Append(Outbound, DataTo(ch[s].remote))
    BY <1>1, <1>2, Facts, AppendJoined DEF Outbound
  <1>4. link => Talk(ch, Append(Outbound, DataTo(ch[s].remote)), pend, peer)
    BY <1>2, Facts, Appended DEF Both, Talking
  <1>5. FullUp' /\ Quiet'
    BY <1>1, BetweenCalls
  <1> QED BY <1>1, <1>3, <1>4, <1>5 DEF Both, Talking

LEMMA ServiceStartBoth ==
  ASSUME IInv, Distinct, Both, ServiceStart
  PROVE  Both'
  <1>0. UNCHANGED <<txq, link, wire, peer>> /\ at' = Answering /\ Answering \notin Slots
    BY L2capAssumption DEF ServiceStart, linkVars, Answering, Slots
  <1>1. FullUp' /\ Quiet' /\ Outbound' = Outbound
    BY <1>0 DEF Both, FullUp, Quiet, Outbound
  <1>2. SUFFICES Untouched(ch') /\ Apart(ch', pend') /\ (link => Talk(ch', Outbound, pend', peer))
    BY <1>0, <1>1 DEF Both, Talking
  <1>3. CASE pend' = pend /\ UNCHANGED <<ch, nextCid>>
    BY <1>3 DEF Both, Talking
  <1>4. CASE /\ pend.conn # None /\ pend.rsp = None
             /\ pend' = [pend EXCEPT !.rsp = ConnRsp(pend.conn.scid, 0, FALSE)]
             /\ UNCHANGED <<ch, nextCid>>
    <2> SUFFICES ASSUME NEW p, p = pend' PROVE Apart(ch, p) /\ (link => Talk(ch, Outbound, p, peer))
      BY <1>4 DEF Both
    <2>1. p.rsp = ConnRsp(pend.conn.scid, 0, FALSE) /\ p.conn = pend.conn /\ p.disc = pend.disc
      BY <1>4, Facts DEF Pending
    <2>2. p.rsp # None
      <3>1. pend.conn.scid \in PeerCids /\ 0 \in 0..FirstCid + MaxDyn
        BY <1>4, Facts, L2capAssumption DEF Pending
      <3> QED BY <3>1, <2>1, NoneAssumption
    <2>3. Apart(ch, p)
      BY <2>2 DEF Both, Apart
    <2> QED BY <2>1, <2>3, <1>4, Facts, RequestRefused DEF Both, Talking
  <1>5. CASE /\ pend.conn # None /\ pend.rsp = None
             /\ \E s \in First(Reusable) :
                  /\ ch' = [ch EXCEPT ![s] = [FreeCh EXCEPT !.state = "CONFIG", !.local = nextCid,
                                                            !.remote = pend.conn.scid]]
                  /\ pend' = [pend EXCEPT !.rsp = ConnRsp(pend.conn.scid, nextCid, TRUE)]
                  /\ nextCid' = nextCid + 1
    <2>1. PICK s \in Slots :
             /\ ch[s].state \in {"FREE", "CLOSED"}
             /\ ch' = [ch EXCEPT ![s] = [FreeCh EXCEPT !.state = "CONFIG", !.local = nextCid,
                                                       !.remote = pend.conn.scid]]
             /\ pend' = [pend EXCEPT !.rsp = ConnRsp(pend.conn.scid, nextCid, TRUE)]
      BY <1>5 DEF First, Reusable
    <2> SUFFICES ASSUME NEW p, p = pend', NEW k, k = ch'
                 PROVE  Untouched(k) /\ Apart(k, p) /\ (link => Talk(k, Outbound, p, peer))
      OBVIOUS
    <2>2. p.rsp = ConnRsp(pend.conn.scid, nextCid, TRUE) /\ p.conn = pend.conn /\ p.disc = pend.disc
      BY <2>1, Facts DEF Pending
    <2>3. p.rsp # None
      <3>1. pend.conn.scid \in PeerCids /\ nextCid \in 0..FirstCid + MaxDyn
        BY <1>5, Facts, L2capAssumption DEF Pending, IInv, TypeOK
      <3>2. ConnRsp(pend.conn.scid, nextCid, TRUE) # None
        BY <3>1, NoneAssumption
      <3> QED BY <3>2, <2>2
    <2>4. /\ k[s] = [FreeCh EXCEPT !.state = "CONFIG", !.local = nextCid, !.remote = pend.conn.scid]
          /\ \A t \in Slots : t # s => k[t] = ch[t]
      BY <2>1, Facts
    <2>5. /\ k[s].state = "CONFIG" /\ k[s].local = nextCid /\ k[s].remote = pend.conn.scid
          /\ ~k[s].cfgRspRcvd /\ ~k[s].cfgReqSeen /\ ~k[s].cfgRspSent
      BY <2>4 DEF FreeCh
    <2>6. Untouched(k)
      BY <2>4, <2>5 DEF Both, Untouched
    <2>7. Apart(k, p)
      <3>1. \A t \in Slots : Live(ch[t]) => ch[t].remote # pend.conn.scid
        BY <1>5 DEF Both, Apart
      <3>2. \A t, u \in Slots : t # u /\ Live(ch[t]) /\ Live(ch[u]) => ch[t].remote # ch[u].remote
        BY DEF Both, Apart
      <3>3. ASSUME NEW t \in Slots, NEW u \in Slots, t # u, Live(k[t]), Live(k[u])
            PROVE  k[t].remote # k[u].remote
        <4>1. CASE t = s
          BY <3>1, <3>3, <4>1, <2>4, <2>5
        <4>2. CASE u = s
          BY <3>1, <3>3, <4>2, <2>4, <2>5
        <4>3. CASE t # s /\ u # s
          BY <3>2, <3>3, <4>3, <2>4
        <4> QED BY <4>1, <4>2, <4>3
      <3> QED BY <3>3, <2>3 DEF Apart
    <2>8. ASSUME link PROVE Talk(k, Outbound, p, peer)
      <3>1. Talk(ch, Outbound, pend, peer)
        BY <2>8 DEF Both, Talking
      <3>2. ch[s].state \in {"FREE", "CLOSED"} /\ OnlySlot(ch, k, s)
        BY <2>1, <2>4 DEF OnlySlot
      <3>3. /\ pend.conn # None /\ pend.rsp = None
            /\ \A t \in Slots : Live(ch[t]) => None # ConnRsp(ch[t].remote, ch[t].local, TRUE)
        BY <1>5, Facts
      <3> QED BY <3>1, <3>2, <3>3, <2>2, <2>5, RequestGranted
    <2> QED BY <2>6, <2>7, <2>8
  <1> QED BY <1>3, <1>4, <1>5 DEF ServiceStart, Decide

LEMMA ServiceAnswerBoth ==
  ASSUME IInv, Both, ServiceAnswer
  PROVE  Both'
  <1> DEFINE owed == Answers(pend)
             n == IF Len(owed) <= TxqSize - Len(txq) THEN Len(owed) ELSE TxqSize - Len(txq)
             part == SubSeq(owed, 1, n)
  <1>1. /\ owed \in Seq(Messages) /\ Len(owed) \in Nat /\ AnswersTo(owed, pend)
        /\ pend.rsp # None => \E i \in 1..Len(owed) : owed[i].type = "CONN_RSP"
    BY Facts, AnswersType, AnswersAre, LenProperties
  <1>2. n \in 0..Len(owed) /\ (n = Len(owed) \/ Len(txq) + n = TxqSize)
    BY <1>1, Facts
  <1>3. txq' = txq \o part /\ pend' = StillOwed(pend, {owed[i].type : i \in 1..n})
        /\ at' = 1 /\ UNCHANGED <<ch, link, wire, peer>>
    BY DEF ServiceAnswer, linkVars
  <1> HIDE DEF owed, n
  <1>4. /\ part \in Seq(Messages) /\ Len(part) = n /\ AnswersTo(part, pend)
        /\ {owed[i].type : i \in 1..n} = {part[i].type : i \in 1..Len(part)}
    BY <1>1, <1>2, FirstAnswers
  <1> HIDE DEF part
  <1>5. Outbound' = Outbound \o part
    <2>1. Outbound' = wire \o (txq \o part)
      BY <1>3 DEF Outbound
    <2>2. wire \in Seq(Messages) /\ txq \in Seq(Messages)
      BY Facts
    <2>3. (wire \o txq) \o part = wire \o (txq \o part)
      BY <2>2, <1>4, ConcatAssociative
    <2> QED BY <2>1, <2>3 DEF Outbound
  <1> SUFFICES ASSUME NEW p, p = pend' PROVE Apart(ch, p) /\ FullUp' /\ (link => Talk(ch, Outbound \o part, p, peer))
    <2>1. Untouched(ch)'
      BY <1>3 DEF Both, Untouched
    <2>2. Quiet'
      BY <1>3 DEF Both, Quiet
    <2>3. ch' = ch /\ peer' = peer /\ link' = link
      BY <1>3
    <2>4. Apart(ch, pend')
      OBVIOUS
    <2>5. Talking'
      BY <2>3, <1>5 DEF Talking
    <2> QED BY <2>1, <2>2, <2>3, <2>4, <2>5 DEF Both
  <1>6. p = StillOwed(pend, {part[i].type : i \in 1..Len(part)})
    BY <1>3, <1>4
  <1>7. link => Talk(ch, Outbound \o part, p, peer)
    BY <1>4, <1>6, Facts, Answered DEF Both, Talking
  <1>8. Apart(ch, p)
    <2>1. p.conn # None /\ p.rsp = None => pend.conn # None /\ pend.rsp = None /\ p.conn = pend.conn
      BY <1>6 DEF StillOwed
    <2> QED BY <2>1 DEF Both, Apart
  <1>9. FullUp'
    <2> SUFFICES ASSUME p.rsp # None PROVE Len(txq') = TxqSize
      BY DEF FullUp
    <2>1. pend.rsp # None /\ \A i \in 1..Len(part) : part[i].type # "CONN_RSP"
      BY <1>6 DEF StillOwed
    <2>2. n # Len(owed)
      <3> SUFFICES ASSUME n = Len(owed) PROVE FALSE
        OBVIOUS
      <3>1. PICK i \in 1..n : owed[i].type = "CONN_RSP"
        BY <1>1, <2>1
      <3>2. "CONN_RSP" \in {part[j].type : j \in 1..Len(part)}
        BY <3>1, <1>4
      <3> QED BY <3>2, <2>1
    <2>3. Len(txq') = Len(txq) + n
      BY <1>3, <1>4, Facts, JoinIs
    <2> QED BY <2>2, <2>3, <1>2
  <1> QED BY <1>7, <1>8, <1>9

LEMMA ServiceChannelBoth ==
  ASSUME IInv, Both, NEW s \in Slots, ServiceChannel(s)
  PROVE  Both'
  <1> DEFINE r == ch[s]
             req == r.state = "CONFIG" /\ ~r.cfgReqSent /\ HasRoom(txq)
             q == IF req THEN Append(txq, CfgReq(r.remote)) ELSE txq
             rsp == r.state = "CONFIG" /\ r.cfgReqSeen /\ ~r.cfgRspSent /\ HasRoom(q)
             done == [r EXCEPT !.cfgReqSent = @ \/ req, !.cfgRspSent = @ \/ rsp]
             next == [done EXCEPT !.state = IF Agreed(done) THEN "OPEN" ELSE @]
  <1>1. /\ txq' = IF rsp THEN Append(q, CfgRsp(r.remote)) ELSE q
        /\ ch' = [ch EXCEPT ![s] = next] /\ UNCHANGED <<pend, link, wire, peer>> /\ at = s
    BY DEF ServiceChannel, linkVars
  <1>2. r \in Channels /\ (r.state = "CONFIG" => r.remote \in PeerCids /\ CfgReq(r.remote) \in Messages
                                                 /\ CfgRsp(r.remote) \in Messages)
    BY Facts DEF Live, CfgReq, CfgRsp, Messages
  <1>3. /\ done.local = r.local /\ done.remote = r.remote /\ done.cfgRspRcvd = r.cfgRspRcvd
        /\ done.cfgReqSeen = r.cfgReqSeen /\ done.state = r.state
        /\ done.cfgRspSent <=> r.cfgRspSent \/ rsp
        /\ done \in Channels
    BY <1>2, Zenon DEF Channels
  <1>4. /\ next.local = r.local /\ next.remote = r.remote /\ next.cfgRspRcvd = r.cfgRspRcvd
        /\ next.cfgReqSeen = r.cfgReqSeen /\ next.cfgRspSent = done.cfgRspSent
        /\ next.state = IF Agreed(done) THEN "OPEN" ELSE r.state
    <2> HIDE DEF done
    <2> QED BY <1>3 DEF Channels
  <1>5. /\ next.cfgRspSent => r.cfgRspSent \/ r.cfgReqSeen
        /\ next.state # r.state => r.state = "CONFIG" /\ next.state = "OPEN" /\ next.cfgRspRcvd /\ next.cfgRspSent
    <2> HIDE DEF done, next
    <2> QED BY <1>3, <1>4 DEF Agreed
  <1> SUFFICES ASSUME NEW k, k = ch'
               PROVE  Untouched(k) /\ Apart(k, pend) /\ FullUp' /\ (link => Talk(k, Outbound', pend, peer))
    BY <1>1 DEF Both, Quiet, Talking
  <1>6. k[s] = next /\ OnlySlot(ch, k, s)
    BY <1>1, Facts DEF OnlySlot
  <1>7. FullUp'
    <2> SUFFICES ASSUME pend.rsp # None PROVE Len(txq') = TxqSize
      BY <1>1 DEF FullUp
    <2>1. ~HasRoom(txq)
      BY <1>1, Facts DEF Both, FullUp, HasRoom
    <2>2. txq' = txq
      BY <2>1, <1>1
    <2> QED BY <2>2, <1>1 DEF Both, FullUp
  <1> HIDE DEF next, done, rsp, req, r
  <1>8. Untouched(k)
    <2>1. k[s].state = "WAIT_CONN" => r.state = "WAIT_CONN" /\ r = ch[s]
      BY <1>5, <1>6 DEF r
    <2>2. \A t \in Slots : ch[t].state = "WAIT_CONN" => ~ch[t].cfgRspRcvd /\ ~ch[t].cfgReqSeen /\ ~ch[t].cfgRspSent
      BY DEF Both, Untouched
    <2>3. k[s].state = "WAIT_CONN" => ~k[s].cfgRspRcvd /\ ~k[s].cfgReqSeen /\ ~k[s].cfgRspSent
      BY <2>1, <2>2, <1>4, <1>5, <1>6
    <2> QED BY <2>2, <2>3, <1>6 DEF Untouched, OnlySlot
  <1>9. Apart(k, pend)
    <2>1. \A t \in Slots : k[t].remote = ch[t].remote /\ (Live(k[t]) => Live(ch[t]))
      BY <1>4, <1>5, <1>6 DEF OnlySlot, Live, r
    <2> QED BY <2>1 DEF Both, Apart
  <1>10. ASSUME link PROVE Talk(k, Outbound', pend, peer)
    <2> DEFINE o1 == wire \o q
    <2>0. Talk(ch, Outbound, pend, peer)
      BY <1>10 DEF Both, Talking
    <2>1. Talk(ch, o1, pend, peer) /\ o1 \in Seq(Messages) /\ q \in Seq(Messages)
      <3>1. CASE req
        <4>1. CfgReq(r.remote) \in Messages /\ CfgReq(r.remote).type = "CFG_REQ" /\ CfgReq(r.remote).to = r.remote
          BY <3>1, <1>2 DEF CfgReq, req
        <4>2. o1 = Append(Outbound, CfgReq(r.remote)) /\ q \in Seq(Messages)
          BY <3>1, <4>1, Facts, AppendJoined, AppendIs DEF Outbound
        <4>3. \/ peer[r.remote].st = "up"
              \/ peer[r.remote].st = "asked" /\ Granted(r, Outbound, pend)
          BY <2>0, <3>1 DEF Talk, Paired, Live, req, r
        <4>4. pend.rsp = None
          BY <3>1, <1>1, Facts DEF Both, FullUp, HasRoom, req
        <4>5. None # ConnRsp(r.remote, r.local, TRUE)
          BY <3>1, Facts DEF Live, req, r
        <4>6. Granted(r, Outbound, pend) =>
                \E j \in 1..Len(Outbound) : /\ Outbound[j].type = "CONN_RSP" /\ Outbound[j].to = r.remote
                                            /\ Outbound[j].ok
          <5> SUFFICES ASSUME Granted(r, Outbound, pend)
                       PROVE  \E j \in 1..Len(Outbound) :
                                /\ Outbound[j].type = "CONN_RSP" /\ Outbound[j].to = r.remote
                                /\ Outbound[j].ok
            OBVIOUS
          <5>1. PICK j \in 1..Len(Outbound) : Outbound[j] = ConnRsp(r.remote, r.local, TRUE)
            BY <4>4, <4>5, Zenon DEF Granted
          <5>2. Outbound[j].type = "CONN_RSP" /\ Outbound[j].to = r.remote /\ Outbound[j].ok = TRUE
            BY <5>1 DEF ConnRsp
          <5> QED BY <5>2
        <4>7. Talk(ch, Append(Outbound, CfgReq(r.remote)), pend, peer)
          BY <2>0, <4>1, <4>3, <4>6, Facts, Appended
        <4>8. Append(Outbound, CfgReq(r.remote)) \in Seq(Messages)
          BY <4>1, Facts, AppendIs
        <4> HIDE DEF o1
        <4> QED BY <4>2, <4>7, <4>8
      <3>2. CASE ~req
        BY <2>0, <3>2, Facts DEF Outbound
      <3> QED BY <3>1, <3>2
    <2>2. Outbound' = wire \o txq'
      BY <1>1 DEF Outbound
    <2> HIDE DEF q
    <2>3. Talk(ch, Outbound', pend, peer) /\ Outbound' \in Seq(Messages)
      <3>1. CASE rsp
        <4>1. CfgRsp(r.remote) \in Messages /\ CfgRsp(r.remote).type = "CFG_RSP"
          BY <3>1, <1>2 DEF CfgRsp, rsp
        <4>2. Outbound' = Append(o1, CfgRsp(r.remote))
          BY <3>1, <4>1, <2>1, <2>2, <1>1, Facts, AppendJoined
        <4> HIDE DEF o1
        <4>3. Talk(ch, Append(o1, CfgRsp(r.remote)), pend, peer)
          BY <2>1, <4>1, Appended
        <4>4. Append(o1, CfgRsp(r.remote)) \in Seq(Messages)
          BY <4>1, <2>1, AppendIs
        <4> QED BY <4>2, <4>3, <4>4
      <3>2. CASE ~rsp
        BY <3>2, <1>1, <2>1, <2>2
      <3> QED BY <3>1, <3>2
    <2>4. PICK o : o = Outbound'
      OBVIOUS
    <2>5. o \in Seq(Messages) /\ Talk(ch, o, pend, peer)
      BY <2>3, <2>4
    <2>6. /\ k[s].local = ch[s].local /\ k[s].remote = ch[s].remote
          /\ k[s].cfgRspRcvd = ch[s].cfgRspRcvd /\ k[s].cfgReqSeen = ch[s].cfgReqSeen
      BY <1>4, <1>6 DEF r
    <2>7. k[s].cfgRspSent => ch[s].cfgRspSent \/ ch[s].cfgReqSeen
      BY <1>5, <1>6 DEF r
    <2>8. k[s].state # ch[s].state => ch[s].state = "CONFIG" /\ k[s].state = "OPEN"
      BY <1>5, <1>6 DEF r
    <2>9. k[s].state = "OPEN" => k[s].cfgRspRcvd /\ k[s].cfgRspSent
      <3>1. CASE k[s].state # ch[s].state
        BY <3>1, <1>5, <1>6 DEF r
      <3>2. CASE k[s].state = ch[s].state
        <4>1. k[s].state = "OPEN" => ch[s].cfgRspRcvd /\ ch[s].cfgRspSent
          BY <3>2, <2>0 DEF Talk, Noted, Live
        <4> QED BY <4>1, <1>3, <1>4, <1>6, Zenon DEF r
      <3> QED BY <3>1, <3>2
    <2>10. OfPeer(ch)
      BY Facts
    <2> QED BY <2>4, <2>5, <2>6, <2>7, <2>8, <2>9, <2>10, <1>6, Facts, ChannelPassed
  <1> QED BY <1>7, <1>8, <1>9, <1>10

LEMMA ServiceWriteBoth == ASSUME IInv, Both, ServiceWrite PROVE Both'
  <1>0. UNCHANGED <<ch, pend, link, peer>> /\ at = Writing /\ Writing \notin Slots /\ Idle \notin Slots
    BY L2capAssumption DEF ServiceWrite, linkVars, Writing, Idle, Slots
  <1>1. CASE /\ txq # <<>> /\ txq' = Tail(txq) /\ at' = at
             /\ wire' = (IF link THEN Append(wire, Head(txq)) ELSE wire)
    <2>1. link => Outbound' = Outbound
      BY <1>1, HeadMoved, Facts DEF Outbound
    <2>2. ~link => wire' = wire
      BY <1>1
    <2> QED BY <1>0, <1>1, <2>1, <2>2 DEF Both, FullUp, Quiet, Talking
  <1>2. CASE at' = Idle /\ UNCHANGED <<txq, wire>>
    BY <1>0, <1>2, SameBoth
  <1> QED BY <1>1, <1>2 DEF ServiceWrite

-----------------------------------------------------------------------------
(* The handlers, the controller and the link.                                *)

LEMMA LinkLostBoth == ASSUME IInv, Both, LinkLost PROVE Both'
  <1>1. /\ at' = Idle /\ ~link' /\ UNCHANGED <<ch, pend>> /\ wire' = <<>>
        /\ peer' = [c \in PeerCids |-> FreePeer]
    BY DEF LinkLost, Receiving, hostVars
  <1>2. FullUp'
    BY <1>1, L2capAssumption DEF FullUp, Idle, Slots
  <1>3. Quiet'
    BY <1>1 DEF Quiet
  <1> QED BY <1>1, <1>2, <1>3 DEF Both, Talking

\* A channel has its CID of ours for itself.
LEMMA OneLocal ==
  ASSUME Distinct, NEW s \in Slots, ch[s].state # "FREE", NEW l, ch[s].local = l
  PROVE  ByLocal(l) = {s}
  BY DEF ByLocal, Distinct, OurCidsUnique

LEMMA OwnCidsOfHost == ASSUME Distinct PROVE OwnCids(ch)
  BY DEF Distinct, OurCidsUnique, OwnCids

\* A channel that is up at the peer is live here.
LEMMA UpIsLive ==
  ASSUME IInv, Both, Distinct, link, NEW c \in PeerCids, peer[c].st = "up"
  PROVE  \E s \in Slots : /\ Live(ch[s]) /\ ch[s].local = peer[c].other /\ ch[s].remote = c
                          /\ ByLocal(peer[c].other) = {s}
  <1>1. PICK s \in Slots : Live(ch[s]) /\ ch[s].local = peer[c].other /\ ch[s].remote = c
    BY DEF Both, Talking, Talk, Paired
  <1>2. ch[s].state # "FREE"
    BY <1>1 DEF Live
  <1> QED BY <1>1, <1>2, OneLocal

LEMMA PeerConnectsBoth ==
  ASSUME IInv, Both, NEW c \in PeerCids, NEW psm \in Psms, PeerConnects(c, psm)
  PROVE  Both'
  <1>1. /\ UNCHANGED <<ch, txq, link, wire>> /\ at' = Idle /\ link /\ peer[c].st = "free"
        /\ peer' = [peer EXCEPT ![c].st = "asked"]
        /\ pend' = [pend EXCEPT !.conn = [psm |-> psm, scid |-> c]]
    BY DEF PeerConnects, Receiving, linkVars
  <1>2. FullUp' /\ Quiet'
    BY <1>1, BetweenCalls
  <1> SUFFICES ASSUME NEW p, p = pend', NEW pe, pe = peer'
               PROVE  Apart(ch, p) /\ Talk(ch, Outbound, p, pe)
    BY <1>1, <1>2 DEF Both, Talking, Outbound
  <1>3. p.conn = [psm |-> psm, scid |-> c] /\ p.rsp = pend.rsp /\ p.disc = pend.disc
    BY <1>1, Facts DEF Pending
  <1>4. p.conn # None /\ p.conn.scid = c
    <2>1. p.conn.scid = c
      BY <1>3
    <2>2. [psm |-> psm, scid |-> c] # None
      BY NoneAssumption
    <2> QED BY <2>1, <2>2, <1>3
  <1>5. pe = [peer EXCEPT ![c].st = "asked"]
    BY <1>1
  <1>6. Talk(ch, Outbound, p, pe) /\ \A s \in Slots : Live(ch[s]) => ch[s].remote # c
    <2>1. Talk(ch, Outbound, pend, peer) /\ peer[c].st = "free"
      BY <1>1 DEF Both, Talking
    <2>2. /\ OfPeer(ch) /\ Outbound \in Seq(Messages) /\ pend \in Pending
          /\ peer \in [PeerCids -> PeerSides]
      BY Facts
    <2>3. p.conn # None /\ p.conn.scid = c /\ p.rsp = pend.rsp /\ p.disc = pend.disc
      BY <1>3, <1>4
    <2>4. pe[c].st = "asked" /\ ~pe[c].answered /\ ~pe[c].configured /\ OnlySide(peer, pe, c)
      <3>1. peer[c] = FreePeer
        BY <2>1 DEF Talk, AsNew
      <3> QED BY <3>1, <2>2, <1>5 DEF FreePeer, OnlySide, PeerSides
    <2> QED BY <2>1, <2>2, <2>3, <2>4, RequestCame
  <1>7. Apart(ch, p)
    BY <1>4, <1>6 DEF Both, Apart
  <1> QED BY <1>6, <1>7

LEMMA PeerConfiguresBoth ==
  ASSUME IInv, Both, Distinct, NEW c \in PeerCids, PeerConfigures(c)
  PROVE  Both'
  <1>1. /\ UNCHANGED <<txq, pend, link, wire>> /\ at' = Idle /\ link /\ peer[c].st = "up" /\ ~peer[c].configured
        /\ peer' = [peer EXCEPT ![c].configured = TRUE] /\ OnCfgReq(peer[c].other)
    BY DEF PeerConfigures, Receiving, linkVars
  <1>2. FullUp' /\ Quiet'
    BY <1>1, BetweenCalls
  <1>3. PICK s \in Slots : /\ Live(ch[s]) /\ ch[s].local = peer[c].other /\ ch[s].remote = c
                           /\ ByLocal(peer[c].other) = {s}
    BY <1>1, UpIsLive
  <1> SUFFICES ASSUME NEW k, k = ch', NEW pe, pe = peer'
               PROVE  Untouched(k) /\ Apart(k, pend) /\ Talk(k, Outbound, pend, pe)
    BY <1>1, <1>2 DEF Both, Talking, Outbound
  <1>4. k[s] = [ch[s] EXCEPT !.cfgReqSeen = TRUE, !.cfgRspSent = FALSE] /\ \A t \in Slots : t # s => k[t] = ch[t]
    BY <1>1, <1>3 DEF OnCfgReq
  <1>5. /\ k[s].state = ch[s].state /\ k[s].local = ch[s].local /\ k[s].remote = c
        /\ k[s].cfgRspRcvd = ch[s].cfgRspRcvd
    BY <1>3, <1>4, Facts DEF Channels
  <1>6. /\ pe[c].st = "up" /\ pe[c].other = peer[c].other /\ pe[c].configured
        /\ pe[c].answered = peer[c].answered /\ \A d \in PeerCids : d # c => pe[d] = peer[d]
    <2>1. peer[c] \in PeerSides
      BY Facts
    <2>2. pe[c] = [peer[c] EXCEPT !.configured = TRUE]
      BY <1>1, Facts
    <2>3. \A d \in PeerCids : d # c => pe[d] = peer[d]
      BY <1>1, Facts
    <2> QED BY <2>1, <2>2, <2>3, <1>1 DEF PeerSides
  <1>7. Talk(ch, Outbound, pend, peer) /\ OnlySlot(ch, k, s)
    BY <1>1, <1>4 DEF Both, Talking, OnlySlot
  <1>8. Talk(k, Outbound, pend, pe)
    <2>1. OfPeer(ch) /\ Outbound \in Seq(Messages) /\ pend \in Pending
      BY Facts
    <2>2. OnlySide(peer, pe, c) /\ peer[c].st = "up" /\ ~peer[c].configured
      BY <1>1, <1>6 DEF OnlySide
    <2>3. pe[c].st = "up" /\ pe[c].other = peer[c].other /\ pe[c].configured /\ pe[c].answered = peer[c].answered
      BY <1>6
    <2>4. Live(ch[s]) /\ ch[s].remote = c
      BY <1>3
    <2> QED BY <2>1, <2>2, <2>3, <2>4, <1>5, <1>7, PeerConfigured
  <1>9. \A t \in Slots : k[t].remote = ch[t].remote /\ (Live(k[t]) => Live(ch[t]))
    BY <1>3, <1>4, <1>5 DEF Live
  <1>10. Apart(k, pend)
    BY <1>9 DEF Both, Apart
  <1>11. Untouched(k)
    <2>1. k[s].state # "WAIT_CONN"
      BY <1>3, <1>5 DEF Live
    <2> QED BY <2>1, <1>4 DEF Both, Untouched
  <1> QED BY <1>8, <1>10, <1>11

LEMMA PeerDisconnectsBoth ==
  ASSUME IInv, Both, Distinct, NEW c \in PeerCids, PeerDisconnects(c)
  PROVE  Both'
  <1>1. /\ UNCHANGED <<txq, link, wire>> /\ at' = Idle /\ link /\ peer[c].st = "up"
        /\ peer' = [peer EXCEPT ![c].st = "closing"] /\ OnDiscReq(peer[c].other, c)
    BY DEF PeerDisconnects, Receiving, linkVars
  <1>2. FullUp' /\ Quiet'
    BY <1>1, BetweenCalls
  <1>3. PICK s \in Slots : /\ Live(ch[s]) /\ ch[s].local = peer[c].other /\ ch[s].remote = c
                           /\ ByLocal(peer[c].other) = {s}
    BY <1>1, UpIsLive
  <1> SUFFICES ASSUME NEW k, k = ch', NEW pe, pe = peer', NEW p, p = pend'
               PROVE  Untouched(k) /\ Apart(k, p) /\ Talk(k, Outbound, p, pe)
    BY <1>1, <1>2 DEF Both, Talking, Outbound
  <1>4. k[s] = [ch[s] EXCEPT !.state = "CLOSED"] /\ \A t \in Slots : t # s => k[t] = ch[t]
    BY <1>1, <1>3 DEF OnDiscReq
  <1>5. k[s].state = "CLOSED" /\ OnlySlot(ch, k, s)
    BY <1>4, Facts DEF Channels, OnlySlot
  <1>6. pe[c].st = "closing" /\ \A d \in PeerCids : d # c => pe[d] = peer[d]
    <2>1. peer[c] \in PeerSides
      BY Facts
    <2> QED BY <2>1, <1>1, Facts DEF PeerSides
  <1>7. p.rsp = pend.rsp /\ p.conn = pend.conn /\ p.disc = c
    BY <1>1, Facts DEF OnDiscReq, Pending
  <1>8. Talk(k, Outbound, p, pe)
    <2>1. Talk(ch, Outbound, pend, peer) /\ OwnCids(ch) /\ peer[c].st = "up"
      BY <1>1, OwnCidsOfHost DEF Both, Talking
    <2>2. OfPeer(ch) /\ Outbound \in Seq(Messages) /\ pend \in Pending
      BY Facts
    <2>3. pe[c].st = "closing" /\ OnlySide(peer, pe, c)
      BY <1>6 DEF OnlySide
    <2>4. Live(ch[s]) /\ ch[s].local = peer[c].other /\ ch[s].remote = c
      BY <1>3
    <2> QED BY <2>1, <2>2, <2>3, <2>4, <1>5, <1>7, PeerClosed
  <1>9. \A t \in Slots : Live(k[t]) => k[t] = ch[t] /\ Live(ch[t])
    BY <1>4, <1>5 DEF Live
  <1>10. Apart(k, p)
    BY <1>7, <1>9 DEF Both, Apart
  <1>11. Untouched(k)
    BY <1>4, <1>5 DEF Both, Untouched
  <1> QED BY <1>8, <1>10, <1>11

LEMMA PeerAsksBoth ==
  ASSUME IInv, Both, NEW q \in Questions, PeerAsks(q)
  PROVE  Both'
  <1>1. UNCHANGED <<ch, txq, link, wire, peer>> /\ at' = Idle /\ link /\ pend' = [pend EXCEPT !.asked = @ \cup {q}]
    BY DEF PeerAsks, Receiving, linkVars
  <1>2. FullUp' /\ Quiet'
    BY <1>1, BetweenCalls
  <1> SUFFICES ASSUME NEW p, p = pend' PROVE Apart(ch, p) /\ Talk(ch, Outbound, p, peer)
    BY <1>1, <1>2 DEF Both, Talking, Outbound
  <1>3. p.rsp = pend.rsp /\ p.conn = pend.conn /\ p.disc = pend.disc
    BY <1>1, Facts DEF Pending
  <1>4. Talk(ch, Outbound, pend, peer)
    BY <1>1 DEF Both, Talking
  <1>5. Responses(ch, Outbound, p, peer)
    BY <1>3, <1>4 DEF Talk, Responses
  <1>6. Paired(ch, Outbound, p, peer)
    <2>1. \A r : Granted(r, Outbound, pend) => Granted(r, Outbound, p)
      BY <1>3 DEF Granted
    <2> QED BY <2>1, <1>4 DEF Talk, Paired
  <1>7. Farewells(Outbound, p, peer)
    BY <1>3, <1>4 DEF Talk, Farewells
  <1>8. Talk(ch, Outbound, p, peer)
    BY <1>4, <1>5, <1>6, <1>7 DEF Talk
  <1>9. Apart(ch, p)
    BY <1>3 DEF Both, Apart
  <1> QED BY <1>8, <1>9

-----------------------------------------------------------------------------
(* What the peer reads.                                                      *)

\* The packet read is the first of what is outbound.
LEMMA ReadFirst ==
  ASSUME IInv, Both, NEW type, PeerReads(type)
  PROVE  /\ Outbound # <<>> /\ Outbound[1] = Head(wire) /\ Outbound[1].type = type
         /\ Outbound' = Tail(Outbound) /\ Tail(Outbound) \in Seq(Messages)
         /\ Head(wire) \in Messages
         /\ UNCHANGED <<txq, pend, link>> /\ at' = Idle /\ link
         /\ Talk(ch, Outbound, pend, peer) /\ FullUp' /\ Quiet'
  <1>1. /\ wire # <<>> /\ Head(wire).type = type /\ wire' = Tail(wire)
        /\ UNCHANGED <<txq, pend, link>> /\ at' = Idle /\ link
    BY DEF PeerReads, Receiving, linkVars
  <1>2. Outbound # <<>> /\ Outbound[1] = Head(wire) /\ Tail(Outbound) = Tail(wire) \o txq
    BY <1>1, Facts, TailJoined DEF Outbound
  <1>3. Outbound' = Tail(Outbound)
    BY <1>1, <1>2 DEF Outbound
  <1>4. Tail(Outbound) \in Seq(Messages) /\ Head(wire) \in Messages
    BY <1>1, <1>2, Facts, TailIs
  <1>5. FullUp' /\ Quiet'
    BY <1>1, BetweenCalls
  <1>6. Talk(ch, Outbound, pend, peer)
    BY <1>1 DEF Both, Talking
  <1> QED BY <1>1, <1>2, <1>3, <1>4, <1>5, <1>6

\* The channel our request is for, and that no other request is for it.
LEMMA RequestRead ==
  ASSUME IInv, Both, Distinct, PeerReads("CONN_REQ")
  PROVE  /\ Talk(ch, Tail(Outbound), pend, peer)
         /\ \E s \in Slots : /\ ch[s].state = "WAIT_CONN" /\ ch[s].local = Head(wire).local
                             /\ ByLocal(Head(wire).local) = {s}
         /\ \A i \in 1..Len(Tail(Outbound)) :
              Tail(Outbound)[i].type = "CONN_REQ" => Tail(Outbound)[i].local # Head(wire).local
  <1>1. /\ Outbound # <<>> /\ Outbound[1] = Head(wire) /\ Outbound[1].type = "CONN_REQ"
        /\ Talk(ch, Outbound, pend, peer)
    BY ReadFirst
  <1>2. Outbound[1].type \notin {"CONN_RSP", "DISC_RSP"}
    BY <1>1
  <1>3. /\ Talk(ch, Tail(Outbound), pend, peer)
        /\ \A i \in 1..Len(Tail(Outbound)) :
             Tail(Outbound)[i].type = "CONN_REQ" => Tail(Outbound)[i].local # Head(wire).local
    BY <1>1, <1>2, Facts, Passed
  <1>4. 1 \in 1..Len(Outbound)
    BY <1>1, Facts, Places
  <1>5. PICK s \in Slots : ch[s].state = "WAIT_CONN" /\ ch[s].local = Head(wire).local
    BY <1>1, <1>4 DEF Talk, Requests
  <1>6. ByLocal(Head(wire).local) = {s}
    BY <1>5, OneLocal
  <1> QED BY <1>3, <1>5, <1>6

LEMMA AcceptedBoth ==
  ASSUME IInv, Both, Distinct, PeerAcceptsUs
  PROVE  Both'
  <1>0. PeerReads("CONN_REQ")
    BY DEF PeerAcceptsUs
  <1>1. PICK c \in PeerCids : /\ peer[c].st = "free"
                              /\ peer' = [peer EXCEPT ![c].st = "up", ![c].other = Head(wire).local]
                              /\ OnConnRsp(Head(wire).local, c)
    BY DEF PeerAcceptsUs
  <1>2. PICK s \in Slots : /\ ch[s].state = "WAIT_CONN" /\ ch[s].local = Head(wire).local
                           /\ ByLocal(Head(wire).local) = {s}
    BY <1>0, RequestRead
  <1>3. /\ UNCHANGED <<txq, pend, link>> /\ FullUp' /\ Quiet' /\ Outbound' = Tail(Outbound)
        /\ Tail(Outbound) \in Seq(Messages)
    BY <1>0, ReadFirst
  <1> SUFFICES ASSUME NEW k, k = ch', NEW pe, pe = peer'
               PROVE  Untouched(k) /\ Apart(k, pend) /\ Talk(k, Tail(Outbound), pend, pe)
    BY <1>3 DEF Both, Talking
  <1>4. k[s] = [ch[s] EXCEPT !.state = "CONFIG", !.remote = c] /\ OnlySlot(ch, k, s)
    <2>1. c # None
      BY L2capAssumption
    <2> QED BY <2>1, <1>1, <1>2 DEF OnConnRsp, OnlySlot
  <1>5. /\ k[s].state = "CONFIG" /\ k[s].remote = c /\ k[s].local = ch[s].local
        /\ ~k[s].cfgRspRcvd /\ ~k[s].cfgReqSeen /\ ~k[s].cfgRspSent
    BY <1>2, <1>4, Facts DEF Both, Untouched, Channels
  <1>6. pe[c].st = "up" /\ pe[c].other = ch[s].local /\ \A d \in PeerCids : d # c => pe[d] = peer[d]
    <2>1. peer[c] \in PeerSides
      BY Facts
    <2> QED BY <2>1, <1>1, <1>2, Facts DEF PeerSides
  <1>7. /\ Talk(ch, Tail(Outbound), pend, peer)
        /\ \A i \in 1..Len(Tail(Outbound)) :
             Tail(Outbound)[i].type = "CONN_REQ" => Tail(Outbound)[i].local # ch[s].local
    BY <1>0, <1>2, RequestRead
  <1>8. /\ Talk(k, Tail(Outbound), pend, pe)
        /\ \A t \in Slots : Live(ch[t]) => ch[t].remote # c
        /\ pend.conn # None => pend.conn.scid # c
    <2>1. OfPeer(ch) /\ Tail(Outbound) \in Seq(Messages) /\ pend \in Pending
      BY <1>3, Facts
    <2>2. pe[c].st = "up" /\ pe[c].other = ch[s].local /\ OnlySide(peer, pe, c)
      BY <1>6 DEF OnlySide
    <2>3. Talk(ch, Tail(Outbound), pend, peer) /\ NoRequestFor(Tail(Outbound), ch[s].local)
      BY <1>7 DEF NoRequestFor
    <2>4. peer[c].st = "free" /\ ch[s].state = "WAIT_CONN" /\ OnlySlot(ch, k, s)
      BY <1>1, <1>2, <1>4
    <2> QED BY <2>1, <2>2, <2>3, <2>4, <1>5, PeerTook
  <1>9. Untouched(k)
    BY <1>4, <1>5 DEF Both, Untouched, OnlySlot
  <1>10. Apart(k, pend)
    <2>1. ASSUME NEW t \in Slots, NEW u \in Slots, t # u, Live(k[t]), Live(k[u])
          PROVE  k[t].remote # k[u].remote
      <3>1. CASE t = s
        BY <2>1, <3>1, <1>4, <1>5, <1>8 DEF OnlySlot
      <3>2. CASE u = s
        BY <2>1, <3>2, <1>4, <1>5, <1>8 DEF OnlySlot
      <3>3. CASE t # s /\ u # s
        BY <2>1, <3>3, <1>4 DEF OnlySlot, Both, Apart
      <3> QED BY <3>1, <3>2, <3>3
    <2>2. ASSUME pend.conn # None, pend.rsp = None, NEW t \in Slots, Live(k[t])
          PROVE  k[t].remote # pend.conn.scid
      <3>1. CASE t = s
        BY <2>2, <3>1, <1>5, <1>8
      <3>2. CASE t # s
        BY <2>2, <3>2, <1>4 DEF OnlySlot, Both, Apart
      <3> QED BY <3>1, <3>2
    <2> QED BY <2>1, <2>2 DEF Apart
  <1> QED BY <1>8, <1>9, <1>10

LEMMA RefusedBoth ==
  ASSUME IInv, Both, Distinct, PeerRefusesUs
  PROVE  Both'
  <1>0. PeerReads("CONN_REQ") /\ OnConnRsp(Head(wire).local, None) /\ peer' = peer
    BY DEF PeerRefusesUs
  <1>2. PICK s \in Slots : /\ ch[s].state = "WAIT_CONN" /\ ch[s].local = Head(wire).local
                           /\ ByLocal(Head(wire).local) = {s}
    BY <1>0, RequestRead
  <1>3. /\ UNCHANGED <<txq, pend, link>> /\ FullUp' /\ Quiet' /\ Outbound' = Tail(Outbound)
    BY <1>0, ReadFirst
  <1> SUFFICES ASSUME NEW k, k = ch'
               PROVE  Untouched(k) /\ Apart(k, pend) /\ Talk(k, Tail(Outbound), pend, peer)
    BY <1>0, <1>3 DEF Both, Talking
  <1>4. k[s] = [ch[s] EXCEPT !.state = "CLOSED"] /\ OnlySlot(ch, k, s)
    BY <1>0, <1>2 DEF OnConnRsp, OnlySlot
  <1>5. k[s].state = "CLOSED"
    BY <1>4, Facts DEF Channels
  <1>7. /\ Talk(ch, Tail(Outbound), pend, peer)
        /\ \A i \in 1..Len(Tail(Outbound)) :
             Tail(Outbound)[i].type = "CONN_REQ" => Tail(Outbound)[i].local # ch[s].local
    BY <1>0, <1>2, RequestRead
  <1>8. Talk(k, Tail(Outbound), pend, peer)
    BY <1>2, <1>4, <1>5, <1>7, PeerRefused
  <1>9. \A t \in Slots : Live(k[t]) => k[t] = ch[t] /\ Live(ch[t])
    BY <1>4, <1>5 DEF Live, OnlySlot
  <1>10. Apart(k, pend)
    BY <1>9 DEF Both, Apart
  <1>11. Untouched(k)
    BY <1>4, <1>5 DEF Both, Untouched, OnlySlot
  <1> QED BY <1>8, <1>10, <1>11

LEMMA ConnRspBoth ==
  ASSUME IInv, Both, PeerReadsConnRsp
  PROVE  Both'
  <1>0. PeerReads("CONN_RSP") /\ ch' = ch
    BY DEF PeerReadsConnRsp
  <1>1. /\ UNCHANGED <<txq, pend, link>> /\ FullUp' /\ Quiet' /\ Outbound' = Tail(Outbound)
        /\ Outbound # <<>> /\ Outbound[1] = Head(wire) /\ Outbound[1].type = "CONN_RSP"
        /\ Talk(ch, Outbound, pend, peer)
    BY <1>0, ReadFirst
  <1> SUFFICES ASSUME NEW pe, pe = peer' PROVE Talk(ch, Tail(Outbound), pend, pe)
    BY <1>0, <1>1 DEF Both, Talking
  <1> DEFINE m == Outbound[1]
  <1>2. pe = [peer EXCEPT ![m.to] =
                IF @.st # "asked" THEN @
                ELSE IF m.ok THEN [@ EXCEPT !.st = "up", !.other = m.local]
                ELSE FreePeer]
    BY <1>1 DEF PeerReadsConnRsp
  <1>3. m.to \in PeerCids /\ m.ok \in BOOLEAN
    <2>1. m \in Messages
      BY <1>0, <1>1, ReadFirst
    <2> QED BY <2>1, <1>1, MessageIs
  <1>4. peer[m.to].st = "asked"
    <2>1. 1 \in 1..Len(Outbound)
      BY <1>1, Facts, Places
    <2> QED BY <2>1, <1>1 DEF Talk, Responses, Backed
  <1> HIDE DEF m
  <1>5. \A d \in PeerCids : d # m.to => pe[d] = peer[d]
    BY <1>2, <1>3, Facts
  <1>6. m.ok => pe[m.to] = [peer[m.to] EXCEPT !.st = "up", !.other = m.local]
    BY <1>2, <1>3, <1>4, Facts
  <1>7. ~m.ok => pe[m.to] = FreePeer
    BY <1>2, <1>3, <1>4, Facts
  <1>8. peer[m.to] \in PeerSides
    BY <1>3, Facts
  <1>9. m.ok => /\ pe[m.to].st = "up" /\ pe[m.to].other = m.local
                /\ pe[m.to].answered = peer[m.to].answered
                /\ pe[m.to].configured = peer[m.to].configured
    BY <1>6, <1>8 DEF PeerSides
  <1>10. \A s \in Slots : Live(ch[s]) =>
           ch[s].remote \in PeerCids /\ None # ConnRsp(ch[s].remote, ch[s].local, TRUE)
    BY Facts
  <1> QED BY <1>1, <1>5, <1>7, <1>9, <1>10, Facts, ResponseRead DEF m

LEMMA CfgReqBoth ==
  ASSUME IInv, Both, Distinct, PeerReadsCfgReq
  PROVE  Both'
  <1>0. PeerReads("CFG_REQ")
    BY DEF PeerReadsCfgReq
  <1>1. /\ UNCHANGED <<txq, pend, link>> /\ FullUp' /\ Quiet' /\ Outbound' = Tail(Outbound) /\ link
        /\ Outbound # <<>> /\ Outbound[1] = Head(wire) /\ Outbound[1].type = "CFG_REQ"
        /\ Talk(ch, Outbound, pend, peer) /\ Tail(Outbound) \in Seq(Messages) /\ Head(wire) \in Messages
    BY <1>0, ReadFirst
  <1>2. Talk(ch, Tail(Outbound), pend, peer)
    <2>1. Outbound[1].type \notin {"CONN_RSP", "DISC_RSP"}
      BY <1>1
    <2> QED BY <2>1, <1>1, Facts, Passed
  <1>3. CASE UNCHANGED <<peer, ch>>
    BY <1>1, <1>2, <1>3 DEF Both, Talking
  <1>4. ASSUME NEW c \in PeerCids, peer[c].st = "up", peer' = [peer EXCEPT ![c].answered = TRUE],
               OnCfgRsp(peer[c].other)
        PROVE  Both'
    <2>1. PICK s \in Slots : /\ Live(ch[s]) /\ ch[s].local = peer[c].other /\ ch[s].remote = c
                             /\ ByLocal(peer[c].other) = {s}
      BY <1>1, <1>4, UpIsLive
    <2>2. Configured(peer[c].other) = {s}
      BY <2>1 DEF Configured
    <2> SUFFICES ASSUME NEW k, k = ch', NEW pe, pe = peer'
                 PROVE  Untouched(k) /\ Apart(k, pend) /\ Talk(k, Tail(Outbound), pend, pe)
      BY <1>1 DEF Both, Talking
    <2>4. k[s] = [ch[s] EXCEPT !.cfgRspRcvd = TRUE] /\ OnlySlot(ch, k, s)
      BY <1>4, <2>2 DEF OnCfgRsp, OnlySlot
    <2>5. /\ k[s].state = ch[s].state /\ k[s].local = ch[s].local /\ k[s].remote = c /\ k[s].cfgRspRcvd
          /\ k[s].cfgReqSeen = ch[s].cfgReqSeen /\ k[s].cfgRspSent = ch[s].cfgRspSent
      BY <2>1, <2>4, Facts DEF Channels
    <2>6. /\ pe[c].st = "up" /\ pe[c].other = peer[c].other /\ pe[c].answered
          /\ pe[c].configured = peer[c].configured /\ \A d \in PeerCids : d # c => pe[d] = peer[d]
      <3>1. peer[c] \in PeerSides
        BY Facts
      <3>2. pe[c] = [peer[c] EXCEPT !.answered = TRUE]
        BY <1>4, Facts
      <3>3. \A d \in PeerCids : d # c => pe[d] = peer[d]
        BY <1>4, Facts
      <3> QED BY <3>1, <3>2, <3>3, <1>4 DEF PeerSides
    <2>8. Talk(k, Tail(Outbound), pend, pe)
      <3>1. OfPeer(ch) /\ Tail(Outbound) \in Seq(Messages) /\ pend \in Pending
        BY <1>1, Facts
      <3>2. /\ pe[c].st = "up" /\ pe[c].other = peer[c].other /\ pe[c].answered
            /\ pe[c].configured = peer[c].configured /\ OnlySide(peer, pe, c)
        BY <2>6 DEF OnlySide
      <3>3. peer[c].st = "up" /\ Live(ch[s]) /\ ch[s].remote = c /\ OnlySlot(ch, k, s)
        BY <1>4, <2>1, <2>4
      <3> QED BY <1>2, <2>5, <3>1, <3>2, <3>3, PeerAgreed
    <2>9. \A t \in Slots : k[t].remote = ch[t].remote /\ (Live(k[t]) => Live(ch[t]))
      BY <2>1, <2>4, <2>5 DEF Live, OnlySlot
    <2>10. Apart(k, pend)
      BY <2>9 DEF Both, Apart
    <2>11. Untouched(k)
      <3>1. k[s].state # "WAIT_CONN"
        BY <2>1, <2>5 DEF Live
      <3> QED BY <3>1, <2>4 DEF Both, Untouched, OnlySlot
    <2> QED BY <2>8, <2>10, <2>11
  <1>5. Head(wire).to \in PeerCids
    BY <1>1, MessageIs
  <1> QED BY <1>3, <1>4, <1>5 DEF PeerReadsCfgReq

LEMMA DiscRspBoth ==
  ASSUME IInv, Both, PeerReadsDiscRsp
  PROVE  Both'
  <1>0. PeerReads("DISC_RSP") /\ ch' = ch
    BY DEF PeerReadsDiscRsp
  <1>1. /\ UNCHANGED <<txq, pend, link>> /\ FullUp' /\ Quiet' /\ Outbound' = Tail(Outbound)
        /\ Outbound # <<>> /\ Outbound[1] = Head(wire) /\ Outbound[1].type = "DISC_RSP"
        /\ Talk(ch, Outbound, pend, peer)
    BY <1>0, ReadFirst
  <1> SUFFICES ASSUME NEW pe, pe = peer' PROVE Talk(ch, Tail(Outbound), pend, pe)
    BY <1>0, <1>1 DEF Both, Talking
  <1> DEFINE c == Outbound[1].to
  <1>2. pe = [peer EXCEPT ![c] = IF @.st = "closing" THEN FreePeer ELSE @]
    BY <1>1 DEF PeerReadsDiscRsp
  <1>3. c \in PeerCids
    <2>1. Outbound[1] \in Messages
      BY <1>0, <1>1, ReadFirst
    <2> QED BY <2>1, <1>1, MessageIs
  <1>4. peer[c].st = "closing"
    <2>1. 1 \in 1..Len(Outbound)
      BY <1>1, Facts, Places
    <2> QED BY <2>1, <1>1 DEF Talk, Farewells
  <1> HIDE DEF c
  <1>5. pe[c] = FreePeer /\ \A d \in PeerCids : d # c => pe[d] = peer[d]
    BY <1>2, <1>3, <1>4, Facts
  <1> QED BY <1>1, <1>5, Facts, FarewellRead DEF c

LEMMA OtherBoth ==
  ASSUME IInv, Both, PeerReadsOther
  PROVE  Both'
  <1>0. PICK type \in Questions \cup {"CFG_RSP", "DATA"} : PeerReads(type)
    BY DEF PeerReadsOther
  <1>1. /\ UNCHANGED <<ch, peer, pend, link>> /\ FullUp' /\ Quiet' /\ Outbound' = Tail(Outbound)
        /\ Outbound # <<>> /\ Outbound[1].type = type /\ Talk(ch, Outbound, pend, peer)
    BY <1>0, ReadFirst DEF PeerReadsOther
  <1>2. Outbound[1].type \notin {"CONN_RSP", "DISC_RSP"}
    BY <1>0, <1>1, L2capAssumption
  <1>3. Talk(ch, Tail(Outbound), pend, peer)
    BY <1>1, <1>2, Facts, Passed
  <1> QED BY <1>1, <1>3 DEF Both, Talking

-----------------------------------------------------------------------------
(* The theorems about both sides.                                            *)

LEMMA InitBoth == Init => Both
  <1> SUFFICES ASSUME Init PROVE Both
    OBVIOUS
  <1>1. \A s \in Slots : ch[s].state = "FREE"
    BY DEF Init, FreeCh
  <1>2. Untouched(ch) /\ Apart(ch, pend)
    BY <1>1 DEF Untouched, Apart, Live, Init, NoPending
  <1>3. FullUp /\ Quiet /\ Talking
    BY DEF Init, FullUp, Quiet, Talking, NoPending
  <1> QED BY <1>2, <1>3 DEF Both

LEMMA StepBoth == IInv /\ Distinct /\ Both /\ [Next]_vars => Both'
  <1> SUFFICES ASSUME IInv, Distinct, Both, [Next]_vars PROVE Both'
    OBVIOUS
  <1>1. CASE Begin \/ Reset
    BY <1>1, ClearedBoth DEF Begin, Reset
  <1>2. CASE AcceptIncoming \/ (\E n \in 1..AclCredits : ControllerReports(n))
    BY <1>2, SameBoth DEF AcceptIncoming, ControllerReports, linkVars, hostVars
  <1>3. CASE (\E l \in LocalCids : Connect(l)) \/ (\E s \in Slots : SendData(s))
    BY <1>3, ConnectBoth, SendDataBoth
  <1>4. CASE Service
    BY <1>4, ServiceStartBoth, ServiceAnswerBoth, ServiceChannelBoth, ServiceWriteBoth DEF Service
  <1>5. CASE LinkLost
    BY <1>5, LinkLostBoth
  <1>6. CASE \E c \in PeerCids : (\E psm \in Psms : PeerConnects(c, psm)) \/ PeerConfigures(c) \/ PeerDisconnects(c)
    BY <1>6, PeerConnectsBoth, PeerConfiguresBoth, PeerDisconnectsBoth
  <1>7. CASE \E q \in Questions : PeerAsks(q)
    BY <1>7, PeerAsksBoth
  <1>8. CASE PeerRead
    BY <1>8, AcceptedBoth, RefusedBoth, ConnRspBoth, CfgReqBoth, DiscRspBoth, OtherBoth DEF PeerRead
  <1>9. CASE UNCHANGED vars
    BY <1>9, SameBoth DEF vars
  <1> QED BY <1>1, <1>2, <1>3, <1>4, <1>5, <1>6, <1>7, <1>8, <1>9 DEF Next

LEMMA BothAlways == Spec => [](IInv /\ Distinct /\ Both)
  <1>1. Init => Distinct
    BY DEF Init, FreeCh, Distinct, OurCidsUnique, Given
  <1> QED BY <1>1, DistinctStep, InitBoth, StepBoth, InvAlways, PTL DEF Spec

\* service() answers every connection request at most once, grants a channel only to the
\* request that is open at the peer and only while the channel waits for its configuration,
\* and never sends a configuration request ahead of the grant.
THEOREM ResponsesAreBacked == Spec => []ResponsesBacked
  <1>1. Both => ResponsesBacked
    <2> SUFFICES ASSUME Both PROVE ResponsesBacked
      OBVIOUS
    <2>1. GrantBacked
      BY DEF Both, Talking, Talk, Responses, Backed, GrantBacked
    <2>2. ConfigAfterResponse
      BY DEF Both, Talking, Talk, Ordered, Timely, ConfigAfterResponse
    <2> QED BY <2>1, <2>2 DEF ResponsesBacked
  <1> QED BY <1>1, BothAlways, PTL

\* A channel counts as configured, and opens, only when the peer has answered and asked for
\* the configuration of that very channel, and no two live channels are confused.
THEOREM OpenIsAgreed == Spec => []OpenMeansAgreed
  <1>1. IInv /\ Distinct /\ Both => OpenMeansAgreed
    <2> SUFFICES ASSUME IInv, Distinct, Both PROVE OpenMeansAgreed
      OBVIOUS
    <2>1. CidsUnique
      BY DEF Distinct, Both, Apart, Live, CidsUnique
    <2>2. ASSUME link, NEW s \in Slots, Live(ch[s])
          PROVE  /\ ch[s].cfgRspRcvd => peer[ch[s].remote].answered /\ peer[ch[s].remote].other = ch[s].local
                 /\ ch[s].state = "OPEN" => ch[s].cfgRspRcvd /\ ch[s].cfgRspSent /\ peer[ch[s].remote].configured
      <3>1. Talk(ch, Outbound, pend, peer) /\ ch[s].remote \in PeerCids
        BY <2>2, Facts DEF Both, Talking
      <3>2. ch[s].cfgRspRcvd => peer[ch[s].remote].answered
        BY <3>1, <2>2 DEF Talk, Noted
      <3>3. ch[s].cfgRspRcvd => peer[ch[s].remote].other = ch[s].local
        BY <3>1, <3>2, <2>2 DEF Talk, Paired, AsNew
      <3>4. ch[s].state = "OPEN" => ch[s].cfgRspRcvd /\ ch[s].cfgRspSent /\ peer[ch[s].remote].configured
        BY <3>1, <2>2 DEF Talk, Noted
      <3> QED BY <3>2, <3>3, <3>4
    <2> QED BY <2>1, <2>2 DEF OpenMeansAgreed, Live
  <1> QED BY <1>1, BothAlways, PTL

=============================================================================
