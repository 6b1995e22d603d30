------------------------------ MODULE ConnPool ------------------------------
(***************************************************************************)
(* The pool of TCP connection slots behind WiFiClient and WiFiServer:      *)
(* refcounted handles on the sketch's side, lwip's control blocks and      *)
(* their callbacks on the other.  The sketch is one thread.  lwip runs     *)
(* only inside a service pass, and a pass runs whenever the sketch waits   *)
(* or transmits: so between two steps of a sketch call, never inside one.  *)
(*                                                                         *)
(* conn[s]    the slot WiFiConn s.  Each staged pbuf holds two bytes:      *)
(*            `rx` counts pbufs, `off` is the offset into the first.       *)
(* pcb[p]     lwip's control block p: whose slot its callbacks carry (cb), *)
(*            the bytes the receive window is down by, the pbufs of a      *)
(*            refused delivery, whether sent bytes are unacknowledged.     *)
(* handle[h]  the slot WiFiClient h points to, or None.                    *)
(* sketch     where the sketch's current call waits.                       *)
(***************************************************************************)
EXTENDS Integers, FiniteSets

CONSTANTS
  NumSlots,    \* WIFI_MAX_CONNS
  Pcbs,        \* MEMP_NUM_TCP_PCB control blocks
  Handles,     \* the WiFiClient objects of the sketch
  Ports,       \* ports the sketch's servers listen on
  None,        \* no slot, no control block
  RxMax,       \* WIFI_RX_MAX_PBUFS
  MaxDelivery, \* most pbufs one delivery has (lwip joins out-of-order segments)
  Window,      \* TCP_WND, in bytes
  RefMod,      \* refs is a uint8_t: 256
  StallAge,    \* clock ticks in the 30 s of the stall valve
  Broadcasts   \* whether the sketch broadcasts to its server's peers

Slots == 1..NumSlots

ASSUME PoolAssumption ==
  /\ NumSlots \in Nat \ {0} /\ RxMax \in Nat \ {0} /\ StallAge \in Nat \ {0}
  /\ MaxDelivery \in Nat \ {0} /\ Window \in Nat /\ Broadcasts \in BOOLEAN
  /\ Ports \subseteq Nat \ {0}      \* begin() and the getters refuse port 0
  /\ None \notin Slots /\ None \notin Pcbs
  /\ IsFiniteSet(Handles) /\ RefMod \in Nat /\ Cardinality(Handles) + 1 < RefMod

VARIABLES conn, pcb, handle, sketch, listening, linkUp
vars == <<conn, pcb, handle, sketch, listening, linkUp>>

ConnStates == {"FREE", "CONNECTING", "ESTABLISHED", "PEER_CLOSED"}

FreeConn == [state |-> "FREE", pcb |-> None, refs |-> 0, claimed |-> FALSE, port |-> 0,
             done |-> FALSE, ok |-> FALSE, rx |-> 0, off |-> 0, age |-> 0]
FreePcb  == [st |-> "free", cb |-> None, debit |-> 0, refused |-> 0,
             fin |-> FALSE, unacked |-> FALSE]
Idle     == [at |-> "idle"]

\* Bytes staged in slot record c.
AvailableBytes(c) == 2 * c.rx - c.off

Init ==
  /\ conn = [s \in Slots |-> FreeConn]
  /\ pcb = [p \in Pcbs |-> FreePcb]
  /\ handle = [h \in Handles |-> None]
  /\ sketch = Idle
  /\ listening = {}
  /\ linkUp = TRUE

-----------------------------------------------------------------------------
(* Pool operations.  An operator with a parameter c works on pool state c. *)

\* installCallbacks(): the slot and the control block point at each other.
InstalledConn(r, p) == [r EXCEPT !.pcb = p, !.age = 0]
InstalledPcb(st, s) == [FreePcb EXCEPT !.st = st, !.cb = s]

AddRef(c, s) == [c EXCEPT ![s].refs = (@ + 1) % RefMod]

\* Mutant: the slot is freed while a handle is left.
MutantReleasedEarly(c, s) ==
  IF c[s].refs <= 2 THEN [c EXCEPT ![s] = FreeConn]
  ELSE [c EXCEPT ![s].refs = @ - 1]

\* release() on a slot whose control block is gone or that has other handles.
Released(c, s) ==
  IF c[s].refs <= 1 THEN [c EXCEPT ![s] = FreeConn]
  ELSE [c EXCEPT ![s].refs = @ - 1]

\* Mutant: the callbacks stay on a block that closes.
MutantCloseKeepsCallbacks(p) ==
  {[pcb EXCEPT ![p] = FreePcb], [pcb EXCEPT ![p].st = "closing"]}

\* closeConn() on block p: callbacks off, then a FIN, or a reset (bytes were
\* unread, or tcp_close failed and tcp_abort freed the block).
CloseOutcomes(p) ==
  {[pcb EXCEPT ![p] = FreePcb], [pcb EXCEPT ![p] = [FreePcb EXCEPT !.st = "closing"]]}

\* connErr(), and what abortAll() does to a slot: the block is gone, staged
\* bytes stay readable, a slot without handles is freed.
Errored(r) ==
  IF r.refs = 0 THEN FreeConn
  ELSE [r EXCEPT !.pcb = None, !.state = "PEER_CLOSED", !.done = TRUE, !.ok = FALSE]

FreeSlots(c) == {s \in Slots : c[s].state = "FREE"}

\* The pool and the servers scan the slots in order and take the first that will do.
First(S) == {s \in S : \A t \in S : s <= t}

\* The slots allocEvicting() may take over when none is free: accepted and
\* never claimed; of those, one idle for longest.
Evictable == {s \in Slots : ~conn[s].claimed /\ conn[s].port # 0}
Victims == {s \in Evictable : \A t \in Evictable : conn[t].age <= conn[s].age}

\* connRecv() refuses a delivery of k pbufs that would take a chain past the
\* cap; an empty chain takes any delivery.
Refuses(r, k) == r.rx # 0 /\ r.rx + k > RxMax

\* consume(): n bytes read, pbufs that are read through freed.
Consumed(r, n) ==
  [r EXCEPT !.rx = @ - (r.off + n) \div 2, !.off = (@ + n) % 2, !.age = 0]

-----------------------------------------------------------------------------
(* WiFiClient and WiFiServer: the sketch's calls.                          *)

\* ~WiFiClient, operator= and the failure paths of connect(): handle h drops its
\* slot in pool state c and gets slot g.  The last handle of a live connection
\* closes it, which transmits; the pool frees the slot afterwards.
Detach(h, c, g) ==
  LET s == handle[h]
      last == s # None /\ c[s].refs = 1 /\ c[s].pcb # None
  IN  /\ handle' = [handle EXCEPT ![h] = IF last THEN None ELSE g]
      /\ IF last
         THEN /\ pcb' \in CloseOutcomes(c[s].pcb)
              /\ conn' = [c EXCEPT ![s].refs = 0, ![s].pcb = None]
              /\ sketch' = [at |-> "release", h |-> h, slot |-> s, give |-> g]
         ELSE /\ conn' = IF s = None THEN c ELSE Released(c, s)
              /\ sketch' = Idle
              /\ UNCHANGED pcb

\* release(), after closeConn() has returned: the slot is freed, and an
\* assignment completes.
FinishRelease ==
  /\ sketch.at = "release"
  /\ conn' = [conn EXCEPT ![sketch.slot] = FreeConn]
  /\ handle' = [handle EXCEPT ![sketch.h] = sketch.give]
  /\ sketch' = Idle
  /\ UNCHANGED <<pcb, listening, linkUp>>

\* ~WiFiClient, or assignment of a null handle.
Drop(h) ==
  /\ sketch.at = "idle" /\ handle[h] # None
  /\ Detach(h, conn, None)
  /\ UNCHANGED <<listening, linkUp>>

\* h = g: the source is referenced before the destination lets go.
Assign(h, g) ==
  /\ sketch.at = "idle" /\ h # g /\ handle[g] # None
  /\ Detach(h, AddRef(conn, handle[g]), handle[g])
  /\ UNCHANGED <<listening, linkUp>>

\* h = WiFiClient(slot s) from a getter of the server: the handle claims s.
Adopt(h, s) ==
  /\ Detach(h, AddRef([conn EXCEPT ![s].claimed = TRUE], s), s)
  /\ UNCHANGED <<listening, linkUp>>

ServerSlots(port) == {s \in Slots : conn[s].state # "FREE" /\ conn[s].port = port}

\* WiFiServer::accept(): the first connection no handle has claimed.
ServerAccept(h, port) ==
  /\ sketch.at = "idle"
  /\ \E s \in First({t \in ServerSlots(port) : ~conn[t].claimed}) : Adopt(h, s)

\* WiFiServer::available(): the first connection with bytes to read.
ServerAvailable(h, port) ==
  /\ sketch.at = "idle"
  /\ \E s \in First({t \in ServerSlots(port) : AvailableBytes(conn[t]) > 0}) : Adopt(h, s)

\* WiFiServer::begin() and end().
ServerBegin(port) ==
  /\ sketch.at = "idle" /\ listening' = listening \cup {port}
  /\ UNCHANGED <<conn, pcb, handle, sketch, linkUp>>
ServerEnd(port) ==
  /\ sketch.at = "idle" /\ listening' = listening \ {port}
  /\ UNCHANGED <<conn, pcb, handle, sketch, linkUp>>

\* WiFiServer::write(): offered to each established peer of this server; some
\* have no room for it.
ServerWrite(port) ==
  LET peers == {conn[s].pcb : s \in {t \in ServerSlots(port) :
                  conn[t].state = "ESTABLISHED" /\ conn[t].pcb # None}}
  IN  /\ Broadcasts /\ sketch.at = "idle"
      /\ \E took \in SUBSET peers :
           pcb' = [p \in Pcbs |-> [pcb[p] EXCEPT !.unacked = @ \/ p \in took]]
      /\ UNCHANGED <<conn, handle, sketch, listening, linkUp>>

\* WiFiClient::write(): also to a peer that has said goodbye.
Write(h) ==
  /\ sketch.at = "idle" /\ handle[h] # None
  /\ LET p == conn[handle[h]].pcb
     IN  p # None /\ pcb' = [pcb EXCEPT ![p].unacked = TRUE]
  /\ UNCHANGED <<conn, handle, sketch, listening, linkUp>>

\* WiFiClient::read(): n bytes leave the slot, and the window opens by as much.
Read(h, n) ==
  /\ sketch.at = "idle" /\ handle[h] # None
  /\ LET s == handle[h]
         p == conn[s].pcb
     IN  /\ n \in 1..AvailableBytes(conn[s])
         /\ conn' = [conn EXCEPT ![s] = Consumed(@, n)]
         /\ pcb' = IF p = None THEN pcb ELSE [pcb EXCEPT ![p].debit = @ - n]
  /\ UNCHANGED <<handle, sketch, listening, linkUp>>

\* connect() past its stop(), in pool state c: with the link up and a slot free,
\* the slot is reserved, referenced and claimed before anything can fail.
Reserve(h, c) ==
  IF linkUp /\ FreeSlots(c) # {}
  THEN \E s \in First(FreeSlots(c)) :
           /\ conn' = AddRef([c EXCEPT ![s].state = "CONNECTING", ![s].claimed = TRUE], s)
           /\ handle' = [handle EXCEPT ![h] = s]
           /\ sketch' = [at |-> "new", h |-> h]
  ELSE /\ conn' = c
       /\ handle' = [handle EXCEPT ![h] = None]
       /\ sketch' = Idle

\* stop() (dial is FALSE), or connect(), which stops the old connection first:
\* flush() waits for the send buffer.
Stop(h, dial) ==
  /\ sketch.at = "idle" /\ handle[h] # None
  /\ sketch' = [at |-> "flush", h |-> h, dial |-> dial]
  /\ UNCHANGED <<conn, pcb, handle, listening, linkUp>>

Connect(h) ==
  /\ sketch.at = "idle" /\ handle[h] = None
  /\ Reserve(h, conn)
  /\ UNCHANGED <<pcb, listening, linkUp>>

\* flush() ends, drained or not, and stop() closes what is left; the FIN goes out.
EndFlush ==
  /\ sketch.at = "flush"
  /\ LET s == handle[sketch.h]
     IN  /\ conn' = [conn EXCEPT ![s].pcb = None]
         /\ IF conn[s].pcb = None THEN UNCHANGED pcb
            ELSE pcb' \in CloseOutcomes(conn[s].pcb)
  /\ sketch' = [sketch EXCEPT !.at = "stop"]
  /\ UNCHANGED <<handle, listening, linkUp>>

\* stop(), after closeConn() has returned; connect() goes on from there.
FinishStop ==
  /\ sketch.at = "stop"
  /\ LET h == sketch.h
         c == Released([conn EXCEPT ![handle[h]].state = "PEER_CLOSED"], handle[h])
     IN  IF sketch.dial THEN Reserve(h, c)
         ELSE /\ conn' = c
              /\ handle' = [handle EXCEPT ![h] = None]
              /\ sketch' = Idle
  /\ UNCHANGED <<pcb, listening, linkUp>>

\* tcp_new() and tcp_connect() succeed, and connect() waits for its answer.
Dial(p) ==
  /\ sketch.at = "new" /\ pcb[p].st = "free"
  /\ LET s == handle[sketch.h]
     IN  /\ conn' = [conn EXCEPT ![s] = InstalledConn(@, p)]
         /\ pcb' = [pcb EXCEPT ![p] = InstalledPcb("syn", s)]
  /\ sketch' = [sketch EXCEPT !.at = "wait"]
  /\ UNCHANGED <<handle, listening, linkUp>>

\* tcp_new() fails, or tcp_connect() does and the abort undoes Dial.
DialFails ==
  /\ sketch.at = "new"
  /\ Detach(sketch.h, conn, None)
  /\ UNCHANGED <<listening, linkUp>>

\* connect() returns 1 and keeps the slot ...
Connects ==
  /\ sketch.at = "wait" /\ conn[handle[sketch.h]].done /\ conn[handle[sketch.h]].ok
  /\ sketch' = Idle
  /\ UNCHANGED <<conn, pcb, handle, listening, linkUp>>

\* ... or is refused ...
ConnectRefused ==
  /\ sketch.at = "wait" /\ conn[handle[sketch.h]].done /\ ~conn[handle[sketch.h]].ok
  /\ Detach(sketch.h, conn, None)
  /\ UNCHANGED <<listening, linkUp>>

\* ... or times out, even if its last pass connected it: tcp_abort() runs
\* connErr(), and the handle lets go of what is left.
ConnectTimesOut ==
  /\ sketch.at = "wait"
  /\ LET s == handle[sketch.h]
         p == conn[s].pcb
     IN  /\ conn' = Released(IF p = None THEN conn ELSE [conn EXCEPT ![s] = Errored(@)], s)
         /\ pcb' = IF p = None THEN pcb ELSE [pcb EXCEPT ![p] = FreePcb]
  /\ handle' = [handle EXCEPT ![sketch.h] = None]
  /\ sketch' = Idle
  /\ UNCHANGED <<listening, linkUp>>

SketchReturns ==
  \/ FinishRelease \/ EndFlush \/ FinishStop
  \/ (\E p \in Pcbs : Dial(p)) \/ DialFails
  \/ Connects \/ ConnectRefused \/ ConnectTimesOut

SketchCalls ==
  \/ \E h \in Handles :
       \/ Drop(h) \/ Connect(h) \/ Write(h)
       \/ \E g \in Handles : Assign(h, g)
       \/ \E n \in 1..Window : Read(h, n)
       \/ \E dial \in BOOLEAN : Stop(h, dial)
  \/ \E port \in Ports :
       \/ ServerBegin(port) \/ ServerEnd(port) \/ ServerWrite(port)
       \/ \E h \in Handles : ServerAccept(h, port) \/ ServerAvailable(h, port)

-----------------------------------------------------------------------------
(* A service pass: lwip's callbacks, the peers and the network.            *)

Attached(p) == pcb[p].cb # None

\* tcp_connected: clientConnected().
Connected(p) ==
  /\ linkUp /\ pcb[p].st = "syn" /\ Attached(p)
  /\ pcb' = [pcb EXCEPT ![p].st = "open"]
  /\ conn' = [conn EXCEPT ![pcb[p].cb] =
                [@ EXCEPT !.state = "ESTABLISHED", !.done = TRUE, !.ok = TRUE]]
  /\ UNCHANGED <<handle, sketch, listening, linkUp>>

\* acceptCb() on slot s, taken from its previous owner when the pool is full.
AcceptOn(p, s, port) ==
  /\ conn' = [conn EXCEPT ![s] = InstalledConn([FreeConn EXCEPT !.state = "ESTABLISHED",
                                   !.port = port, !.done = TRUE, !.ok = TRUE], p)]
  /\ pcb' = [q \in Pcbs |-> IF q = p THEN InstalledPcb("open", s)
                            ELSE IF q = conn[s].pcb THEN FreePcb ELSE pcb[q]]
  /\ UNCHANGED <<handle, sketch, listening, linkUp>>

\* A peer connects: the first free slot, else a victim's, else it is refused.
Accept(p, port) ==
  /\ linkUp /\ port \in listening /\ pcb[p].st = "free"
  /\ \E s \in IF FreeSlots(conn) # {} THEN First(FreeSlots(conn)) ELSE Victims :
       AcceptOn(p, s, port)

\* Mutants: a delivery past the cap is dropped; a refusal counts as activity.
MutantOfferDrops(p, k, debit) ==
  LET s == pcb[p].cb
      no == Refuses(conn[s], k)
  IN  /\ pcb' = [pcb EXCEPT ![p].refused = 0, ![p].debit = debit]
      /\ conn' = IF no THEN conn
                 ELSE [conn EXCEPT ![s].rx = @ + k, ![s].age = 0]
      /\ UNCHANGED <<handle, sketch, listening, linkUp>>
MutantOfferRefreshes(p, k, debit) ==
  LET s == pcb[p].cb
      no == Refuses(conn[s], k)
  IN  /\ pcb' = [pcb EXCEPT ![p].refused = IF no THEN k ELSE 0, ![p].debit = debit]
      /\ conn' = [conn EXCEPT ![s].rx = IF no THEN @ ELSE @ + k, ![s].age = 0]
      /\ UNCHANGED <<handle, sketch, listening, linkUp>>

\* connRecv() with data: k pbufs are staged, or left with lwip.
Offer(p, k, debit) ==
  LET s == pcb[p].cb
      no == Refuses(conn[s], k)
  IN  /\ pcb' = [pcb EXCEPT ![p].refused = IF no THEN k ELSE 0, ![p].debit = debit]
      /\ conn' = IF no THEN conn
                 ELSE [conn EXCEPT ![s].rx = @ + k, ![s].age = 0]
      /\ UNCHANGED <<handle, sketch, listening, linkUp>>

\* The peer's next bytes, within the window.
Deliver(p, k) ==
  /\ linkUp /\ pcb[p].st = "open" /\ Attached(p)
  /\ ~pcb[p].fin /\ pcb[p].refused = 0 /\ pcb[p].debit + 2 * k <= Window
  /\ Offer(p, k, pcb[p].debit + 2 * k)

\* lwip's fast timer offers a refused delivery again.
Reoffer(p) ==
  /\ pcb[p].refused # 0 /\ Attached(p)
  /\ Offer(p, pcb[p].refused, pcb[p].debit)

\* connRecv() without data: the peer's FIN, after everything it sent.
Fin(p) ==
  /\ linkUp /\ pcb[p].st = "open" /\ Attached(p) /\ ~pcb[p].fin /\ pcb[p].refused = 0
  /\ pcb' = [pcb EXCEPT ![p].fin = TRUE]
  /\ conn' = [conn EXCEPT ![pcb[p].cb].state = "PEER_CLOSED"]
  /\ UNCHANGED <<handle, sketch, listening, linkUp>>

\* connErr(): a reset, lwip's own timeouts, or tcp_new() killing a connection.
Fail(p) ==
  /\ pcb[p].st \in {"syn", "open"} /\ Attached(p)
  /\ conn' = [conn EXCEPT ![pcb[p].cb] = Errored(@)]
  /\ pcb' = [pcb EXCEPT ![p] = FreePcb]
  /\ UNCHANGED <<handle, sketch, listening, linkUp>>

\* connSent(): the peer acknowledged.
Sent(p) ==
  /\ linkUp /\ pcb[p].unacked /\ Attached(p)
  /\ pcb' = [pcb EXCEPT ![p].unacked = FALSE]
  /\ conn' = [conn EXCEPT ![pcb[p].cb].age = 0]
  /\ UNCHANGED <<handle, sketch, listening, linkUp>>

\* connPoll(): the stall valve aborts what no handle ever claimed.
Poll(p) ==
  /\ Attached(p)
  /\ LET r == conn[pcb[p].cb]
     IN  ~r.claimed /\ r.refs = 0 /\ r.age = StallAge
  /\ conn' = [conn EXCEPT ![pcb[p].cb] = FreeConn]
  /\ pcb' = [pcb EXCEPT ![p] = FreePcb]
  /\ UNCHANGED <<handle, sketch, listening, linkUp>>

\* lwip is done with a block the pool has closed.
ClosingEnds(p) ==
  /\ pcb[p].st = "closing" /\ pcb' = [pcb EXCEPT ![p] = FreePcb]
  /\ UNCHANGED <<conn, handle, sketch, listening, linkUp>>

\* linkLost(), or the sketch's disconnect(): abortAll() with the link down.
LinkDown ==
  /\ linkUp /\ linkUp' = FALSE
  /\ conn' = [s \in Slots |-> IF conn[s].pcb = None THEN conn[s] ELSE Errored(conn[s])]
  /\ pcb' = [p \in Pcbs |-> IF \E s \in Slots : conn[s].pcb = p THEN FreePcb ELSE pcb[p]]
  /\ UNCHANGED <<handle, sketch, listening>>

\* begin() or the sketch's loop() brings the link back.
LinkUp ==
  /\ ~linkUp /\ sketch.at = "idle" /\ linkUp' = TRUE
  /\ UNCHANGED <<conn, pcb, handle, sketch, listening>>

\* Time passes for every slot alike.
Tick ==
  /\ conn' = [s \in Slots |-> IF conn[s].state = "FREE" \/ conn[s].age = StallAge
                              THEN conn[s] ELSE [conn[s] EXCEPT !.age = @ + 1]]
  /\ UNCHANGED <<pcb, handle, sketch, listening, linkUp>>

ServicePass ==
  \/ \E p \in Pcbs : 
       \/ Connected(p) \/ Reoffer(p) \/ Fin(p) \/ Fail(p) \/ Sent(p) \/ Poll(p)
       \/ ClosingEnds(p)
       \/ \E port \in Ports : Accept(p, port)
       \/ \E k \in 1..MaxDelivery : Deliver(p, k)
  \/ LinkDown \/ LinkUp \/ Tick

Next == SketchCalls \/ SketchReturns \/ ServicePass

Spec == Init /\ [][Next]_vars

\* lwip's timers run in every service pass, and time passes.
Fairness == WF_vars(Tick) /\ \A p \in Pcbs : WF_vars(Poll(p)) /\ WF_vars(Reoffer(p))
FairSpec == Spec /\ Fairness
-----------------------------------------------------------------------------
(* Properties.                                                             *)

Holders == Cardinality(Handles) + 1

SketchStates ==
  {Idle}
    \cup [at : {"flush", "stop"}, h : Handles, dial : BOOLEAN]
    \cup [at : {"new", "wait"}, h : Handles]
    \cup [at : {"release"}, h : Handles, slot : Slots, give : Slots \cup {None}]

\* Every variable keeps its type: in particular a chain is never longer than the
\* cap, or than the one delivery an empty chain took (connRecv).
TypeOK ==
  /\ conn \in [Slots -> [state : ConnStates, pcb : Pcbs \cup {None}, refs : 0..Holders,
                         claimed : BOOLEAN, port : Ports \cup {0}, done : BOOLEAN,
                         ok : BOOLEAN, rx : 0..RxMax \cup 0..MaxDelivery,
                         off : 0..1, age : 0..StallAge]]
  /\ pcb \in [Pcbs -> [st : {"free", "syn", "open", "closing"}, cb : Slots \cup {None},
                       debit : 0..Window, refused : 0..MaxDelivery,
                       fin : BOOLEAN, unacked : BOOLEAN]]
  /\ handle \in [Handles -> Slots \cup {None}]
  /\ sketch \in SketchStates
  /\ listening \in SUBSET Ports
  /\ linkUp \in BOOLEAN

\* The references to slot s: the handles on it, and the one an assignment has
\* taken while its destination still lets go of its old slot.
References(s) ==
  Cardinality({h \in Handles : handle[h] = s})
    + IF sketch.at = "release" /\ sketch.give = s THEN 1 ELSE 0

\* addRef/release/adopt: the count of a slot is exactly the handles that point at
\* it, through every copy, assignment and failed connect; a slot with a handle is
\* claimed and never free, so no WiFiClient dangles.
RefsMatchHandles ==
  \A s \in Slots : /\ conn[s].refs = References(s)
                   /\ conn[s].refs # 0 => conn[s].claimed /\ conn[s].state # "FREE"

\* installCallbacks/detachCallbacks: lwip's callbacks carry slot s exactly while
\* s owns that control block, so no callback reaches a freed or reused slot and no
\* slot keeps a block lwip has freed.
CallbackOwnsSlot ==
  /\ \A p \in Pcbs : Attached(p) => conn[pcb[p].cb].pcb = p
  /\ \A s \in Slots : conn[s].pcb # None =>
       /\ conn[s].state # "FREE"
       /\ pcb[conn[s].pcb].cb = s /\ pcb[conn[s].pcb].st \in {"syn", "open"}

\* The pool's ordering rule: a slot in use can always be collected, by its handles,
\* by the evictor and the stall valve, or by the release() that is running.
EverySlotReapable ==
  \A s \in Slots : conn[s].state # "FREE" =>
    \/ conn[s].refs # 0
    \/ ~conn[s].claimed /\ conn[s].port # 0 /\ conn[s].pcb # None
    \/ sketch.at = "release" /\ sketch.slot = s

\* No slot dangles and none leaks, through evictions, failed connects and passes that run in
\* the middle of a release().
SlotsAccounted == TypeOK /\ RefsMatchHandles /\ EverySlotReapable

\* connRecv/consume: the window is closed by exactly the bytes the sketch can still
\* read and those of a refused delivery; none is lost, none is credited twice.
WindowConserved ==
  \A s \in Slots : conn[s].pcb # None =>
    pcb[conn[s].pcb].debit = AvailableBytes(conn[s]) + 2 * pcb[conn[s].pcb].refused

\* The stall valve: a connection no handle ever claims does not keep its slot
\* forever, whatever its peer sends (if the sketch sends it nothing).
UnclaimedEventuallyGone ==
  \A s \in Slots, p \in Pcbs :
    [](conn[s].pcb = p /\ ~conn[s].claimed
         => <>(conn[s].pcb # p \/ conn[s].claimed))

\* No refusal is permanent: if a connection's staged bytes are read out again and
\* again, a delivery connRecv refused is taken.
RefusedDataTaken ==
  \A p \in Pcbs :
    []<>(Attached(p) => conn[pcb[p].cb].rx = 0) => []<>(pcb[p].refused = 0)

\* Nothing stays on the receive path for ever: neither a connection nobody wants nor a
\* delivery somebody would read.
NothingStuck == UnclaimedEventuallyGone /\ RefusedDataTaken
=============================================================================
