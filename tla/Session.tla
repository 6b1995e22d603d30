------------------------------ MODULE Session ------------------------------
(***************************************************************************)
(* BtSession and BtSinkSession: who is connected to, when, and what the    *)
(* application is told.  A source walks its bonds, then asks around, waits *)
(* and starts again, and calls a lost peer back; a sink answers calls and  *)
(* opens a pairing window whenever an attempt is over.  Below a session    *)
(* run its attempt (A2dp), the link (LinkOps) and the bond table (Bonds);  *)
(* above it the application, which saves the table when told of an         *)
(* attempt's end and may call disconnect() from within any callback.  The  *)
(* power may fail at any time, also in the middle of a save.               *)
(*                                                                         *)
(* One device is a source or a sink for good.  Statistics, the number of   *)
(* pages per candidate and discoverability are left out.                   *)
(***************************************************************************)
EXTENDS A2dp, Bonds

CONSTANTS
  Matching,  \* peers whose stored name matches the target, or is empty
  MaxCalls,  \* bound: calls of peers
  MaxStops,  \* bound: disconnect()s of the application
  MaxFails   \* bound: power failures

ASSUME BoundsAssumption ==
  MaxBonds \in Nat \ {0} /\ MaxCalls \in Nat /\ MaxStops \in Nat /\ MaxFails \in Nat

\* A cell that was never written is no count, and no CRC of what a table can hold.
ASSUME BlankAssumption ==
  /\ Blank \notin 0..MaxBonds
  /\ \A count \in 0..MaxBonds, entries \in [1..MaxBonds -> Peers \cup {Blank}] :
       Blank # Crc(count, entries)

VARIABLES
  role,   \* "source" or "sink"
  att,    \* the attempt
  ses,    \* the session
  app,    \* what the application knows, and what has happened
  bonds,  \* the bond table, and whether it has changed since it was saved
  rom,    \* the image in EEPROM
  scan,   \* page scan: as wanted, and as the controller has it
  due,    \* the peer whose Connection_Complete may be on the way
  left    \* what is left of the bounds

vars == <<link, role, att, ses, app, bonds, rom, scan, due, left>>

\* What a tick or a call may change, as one record; the operators below map it.
Now == [link |-> link, att |-> att, ses |-> ses, app |-> app, bonds |-> bonds, rom |-> rom]
Become(z) ==
  /\ link' = z.link /\ att' = z.att /\ ses' = z.ses
  /\ app' = z.app /\ bonds' = z.bonds /\ rom' = z.rom

\* Mutant: scanning goes on while a link is up.
MutantWanted(z) ==
  \/ role = "source" /\ z.bonds.table # <<>> /\ z.ses.state # "MANUAL"
  \/ role = "sink" /\ z.ses.state = "LISTENING"

\* Page scan is wanted while no link is up and somebody may call.
Wanted(z) ==
  /\ ~IsUp(z.link)
  /\ \/ role = "source" /\ z.bonds.table # <<>> /\ z.ses.state # "MANUAL"
     \/ role = "sink" /\ z.ses.state = "LISTENING"

\* A page that starts makes its peer the one that may come.
PageDue(z) ==
  due' = IF z.link.op = "PAGE" /\ (link.op # "PAGE" \/ link.bd # z.link.bd) THEN z.link.bd ELSE due

-----------------------------------------------------------------------------
(* The application and its callbacks.  In one tick it calls disconnect()    *)
(* never, when told of an attempt's end, or when told of a stream.          *)

Moments == {"never", "attempt", "stream"}

WindowClosed(z, end) == IF z.ses.win THEN [z EXCEPT !.ses.win = FALSE, !.ses.end = end] ELSE z

\* disconnect()
Disconnected(z) ==
  [WindowClosed(z, "CANCELLED") EXCEPT
     !.att = Stopped, !.ses.state = "DISCONNECTING",
     !.app.stopped = TRUE, !.app.up = FALSE]

\* BondStoreEeprom::save()
Saved(z) ==
  IF z.bonds.dirty THEN [z EXCEPT !.rom = Image(z.bonds.table), !.bonds.dirty = FALSE] ELSE z

OnAttempt(z, when) == IF when = "attempt" THEN Disconnected(Saved(z)) ELSE Saved(z)
OnStream(z, up, when) ==
  LET y == [z EXCEPT !.app.up = up, !.app.peer = IF up THEN z.link.handle ELSE @]
  IN IF when = "stream" THEN Disconnected(y) ELSE y

-----------------------------------------------------------------------------
(* BtSession                                                                *)

BeginAttempt(z, kind, p) == [SourceStarted(z, kind, p) EXCEPT !.ses.state = "CONNECTING"]

\* The next bond that matches, else an inquiry, once; else nothing is left to try.
AdvanceBootWalk(z) ==
  LET t == z.bonds.table
      next == {i \in (z.ses.idx + 1)..Len(t) : t[i] \in Matching}
      i == Min(next)
  IN CASE next # {} ->
            BeginAttempt([z EXCEPT !.ses.idx = i, !.app.tried = @ \cup {t[i]}], "PAGE", t[i])
       [] next = {} /\ ~z.ses.inq ->
            BeginAttempt([z EXCEPT !.ses.idx = Max({@, Len(t)}), !.ses.inq = TRUE], "INQUIRY", None)
       [] OTHER -> [z EXCEPT !.ses.idx = Max({@, Len(t)})]

\* Mutant: the walk goes on where the last one ended.
MutantStartBootWalk(z) ==
  AdvanceBootWalk([z EXCEPT !.ses.boot = TRUE, !.ses.inq = FALSE, !.ses.lost = None,
                            !.app.tried = {}, !.app.moved = FALSE, !.app.peer = None])

StartBootWalk(z) ==
  AdvanceBootWalk([z EXCEPT !.ses.boot = TRUE, !.ses.idx = 0, !.ses.inq = FALSE, !.ses.lost = None,
                            !.app.tried = {}, !.app.moved = FALSE, !.app.peer = None])

\* Mutant: the stream is reported up whatever the first callback did.
MutantAttemptSucceeded(z, when) ==
  OnStream(OnAttempt([z EXCEPT !.ses.state = "STREAMING", !.ses.lost = None], when), TRUE, when)

AttemptSucceeded(z, when) ==
  LET y == OnAttempt([z EXCEPT !.ses.state = "STREAMING"], when)
      w == [y EXCEPT !.ses.lost = None]
  IN IF w.ses.state = "STREAMING" THEN OnStream(w, TRUE, when) ELSE w

\* Mutant: the state is settled after the callback.
MutantAttemptFailed(z, when) ==
  LET y == [OnAttempt(z, when) EXCEPT !.ses.state = "WAITING"]
  IN IF y.ses.boot /\ z.att.result = "CONNECT_FAILED" THEN AdvanceBootWalk(y) ELSE y

\* Only a page that found nobody sends the walk on.
AttemptFailed(z, when) ==
  LET y == OnAttempt([z EXCEPT !.ses.state = "WAITING"], when)
  IN IF y.ses.state = "WAITING" /\ y.ses.boot /\ z.att.result = "CONNECT_FAILED"
     THEN AdvanceBootWalk(y) ELSE y

\* Neither the attempt nor the link is busy.
Over(z) == ~Busy(z.att) /\ z.link.op = "NONE"

DisconnectEnds(z) == IF Over(z) THEN [z EXCEPT !.ses.state = "MANUAL"] ELSE z

\* BtSession::tick(), after the attempt's; late: the retry is due.  A loss ends the walk, whose
\* place is kept no longer.
SourceSession(z, late, when) ==
  CASE z.link.inboundUp /\ ~Busy(z.att) /\ z.ses.state = "WAITING" ->
         BeginAttempt(z, "INBOUND", z.link.bd)
    [] z.ses.state = "CONNECTING" /\ z.att.st = "STREAMING" -> AttemptSucceeded(z, when)
    [] z.ses.state = "CONNECTING" /\ Over(z) -> AttemptFailed(z, when)
    [] z.ses.state = "STREAMING" /\ z.att.result = "LOST" ->
         OnStream([z EXCEPT !.ses.lost = z.link.bd, !.ses.boot = FALSE, !.ses.state = "WAITING",
                            !.ses.idx = 0, !.ses.inq = FALSE,
                            !.app.tried = {}, !.app.moved = FALSE],
                  FALSE, when)
    [] z.ses.state = "WAITING" /\ ~z.link.inboundUp /\ late /\ Over(z) ->
         IF z.ses.lost # None THEN BeginAttempt(z, "PAGE", z.ses.lost) ELSE StartBootWalk(z)
    [] z.ses.state = "DISCONNECTING" -> DisconnectEnds(z)
    [] OTHER -> z

-----------------------------------------------------------------------------
(* BtSinkSession                                                            *)

\* openWindow(), refused unless listening with no link up.  PREPARE may have to be left out.
OpenWindow(z) ==
  IF z.ses.state = "LISTENING" /\ ~IsUp(z.link)
  THEN [z EXCEPT !.ses.win = TRUE, !.ses.end = "NONE", !.app.paired = FALSE,
                 !.link = Started(@, "PREPARE")]
  ELSE z

SinkSucceeded(z, when) ==
  LET x == [z EXCEPT !.ses.state = "STREAMING", !.app.paired = @ \/ z.ses.win]
      y == OnAttempt(WindowClosed(x, "PAIRED"), when)
  IN IF y.ses.state = "STREAMING" THEN OnStream(y, TRUE, when) ELSE y

\* BtSinkSession::tick(), after the attempt's.
SinkSession(z, when) ==
  CASE z.ses.state = "LISTENING" /\ z.link.inboundUp /\ ~Busy(z.att) ->
         [SinkStarted(z) EXCEPT !.ses.state = "CONNECTING"]
    [] z.ses.state = "CONNECTING" /\ z.att.st = "STREAMING" -> SinkSucceeded(z, when)
    [] z.ses.state = "CONNECTING" /\ Over(z) ->
         OnAttempt(OpenWindow([z EXCEPT !.ses.state = "LISTENING"]), when)
    [] /\ z.ses.state = "STREAMING"
       /\ z.att.result = "LOST" \/ (~Busy(z.att) /\ z.att.result = "OK") ->
         OnStream(OpenWindow([z EXCEPT !.ses.state = "LISTENING"]), FALSE, when)
    [] z.ses.state = "DISCONNECTING" -> DisconnectEnds(z)
    [] OTHER -> z

\* The window's deadline is looked at last; one that was opened in this tick has not passed.
Expired(z) == IF z.ses.state \in {ses.state, "CONNECTING"} THEN WindowClosed(z, "TIMEOUT") ELSE z

-----------------------------------------------------------------------------
(* A tick, and the calls of the application between two ticks.  A tick      *)
(* begins with the scan write that the last one asked for.                  *)

Outcomes(late, when) ==
  IF role = "source"
  THEN {SourceSession(y, late, when) : y \in SourceAdvanced(Now, late)}
  ELSE LET done == {SinkSession(y, when) : y \in SinkAdvanced(Now, late)}
       IN done \cup {Expired(y) : y \in done}

\* A callback that would not call disconnect() is no moment for it.
Tick(late) ==
  \E when \in Moments :
    /\ when # "never" => ses.state \in {"CONNECTING", "STREAMING"} /\ left.stops > 0
    /\ \E z \in Outcomes(late, when) :
         /\ when # "never" => z.app.stopped
         /\ left' = IF when = "never" THEN left ELSE [left EXCEPT !.stops = @ - 1]
         /\ Become(z)
         /\ PageDue(z)
         /\ scan' = [have |-> scan.want, want |-> Wanted(z)]
         /\ UNCHANGED role

\* disconnect() from the application's own loop
Disconnect ==
  /\ left.stops > 0
  /\ left' = [left EXCEPT !.stops = @ - 1]
  /\ Become(Disconnected(Now))
  /\ UNCHANGED <<role, scan, due>>

\* resume(), from MANUAL
Resume ==
  LET y == [Now EXCEPT !.app.stopped = FALSE]
      z == IF role = "source" THEN StartBootWalk(y) ELSE [y EXCEPT !.ses.state = "LISTENING"]
  IN /\ ses.state = "MANUAL"
     /\ Become(z)
     /\ PageDue(z)
     /\ UNCHANGED <<role, scan, left>>

\* enterPairing(): opens a window or extends it
EnterPairing ==
  /\ role = "sink"
  /\ Become(OpenWindow(Now))
  /\ UNCHANGED <<role, scan, due, left>>

-----------------------------------------------------------------------------
(* The link and the peers.                                                  *)

Above == <<role, att, ses, app, bonds, rom>>

\* A page that ends well has brought a link up; one that was given up may still do so.
Ends ==
  /\ OpEnds
  /\ link.op = "PAGE" /\ link'.result = "OK" => due = None
  /\ due' \in IF link.op = "PAGE" /\ link'.result = "FAILED" THEN {due, None} ELSE {due}
  /\ UNCHANGED Above /\ UNCHANGED <<scan, left>>

\* A peer calls: a source answers those it knows, a sink everyone.
Call(p) ==
  /\ scan.have /\ left.calls > 0
  /\ role = "source" => Contains(bonds.table, p)
  /\ CallAccepted(p)
  /\ due' = p
  /\ left' = [left EXCEPT !.calls = @ - 1]
  /\ UNCHANGED Above /\ UNCHANGED scan

Completes ==
  /\ due # None /\ due = link.bd
  /\ ComesUp
  /\ due' = None
  /\ UNCHANGED Above /\ UNCHANGED <<scan, left>>

Fades ==
  /\ Drops
  /\ UNCHANGED Above /\ UNCHANGED <<scan, due, left>>

\* What the bond table is told: a new key of the peer, a stored key that was taken, one refused.
Bond(t) ==
  /\ bonds' = [table |-> t, dirty |-> bonds.dirty \/ t # bonds.table]
  /\ app' = [app EXCEPT !.moved = @ \/ (ses.boot /\ t # bonds.table)]
  /\ UNCHANGED <<link, role, att, ses, rom, scan, due, left>>

NewKey ==
  /\ link.handle # None
  /\ bonds' = [table |-> Upsert(bonds.table, link.handle), dirty |-> TRUE]
  /\ app' = [app EXCEPT !.moved = @ \/ (ses.boot /\ bonds'.table # bonds.table)]
  /\ UNCHANGED <<link, role, att, ses, rom, scan, due, left>>

KeyAnswered ==
  /\ link.op = "PAIR" /\ link.handle # None
  /\ \/ Bond(Touch(bonds.table, link.bd))
     \/ Bond(Erase(bonds.table, link.bd))

-----------------------------------------------------------------------------
(* Power-on and power failure.                                              *)

Fresh ==
  [state |-> "LISTENING", boot |-> TRUE, idx |-> 0, inq |-> FALSE, lost |-> None,
   win |-> FALSE, end |-> "NONE"]
Unaware == [stopped |-> FALSE, up |-> FALSE, peer |-> None, tried |-> {}, moved |-> FALSE,
            paired |-> FALSE]

\* load(), begin() of the attempt and of the session
Booted(r, image) ==
  LET z == [link |-> Started(NoLink, "PREPARE"), att |-> NoAttempt, ses |-> Fresh,
            app |-> Unaware, bonds |-> [table |-> Load(image), dirty |-> FALSE], rom |-> image]
  IN IF r = "source" THEN StartBootWalk(z) ELSE OpenWindow(z)

\* The power fails between two ticks, or after n cells of what a tick saves.
Images(n) == {rom} \cup {Torn(rom, z.rom, n) : z \in Outcomes(FALSE, "never")}

PowerFails ==
  /\ left.fails > 0
  /\ \E n \in 0..(MaxBonds + 3) : \E image \in Images(n) : Become(Booted(role, image))
  /\ due' = None
  /\ scan' = [want |-> FALSE, have |-> FALSE]
  /\ left' = [calls |-> 0, stops |-> 0, fails |-> left.fails - 1]
  /\ UNCHANGED role

Tables == {t \in SeqOf(Peers, MaxBonds) : IsInjective(t)}

Init ==
  /\ role \in {"source", "sink"}
  /\ \E image \in {Erased} \cup {Image(t) : t \in Tables} :
       LET z == Booted(role, image)
       IN /\ link = z.link /\ att = z.att /\ ses = z.ses
          /\ app = z.app /\ bonds = z.bonds /\ rom = z.rom
  /\ due = None
  /\ scan = [want |-> FALSE, have |-> FALSE]
  /\ left = [calls |-> MaxCalls, stops |-> MaxStops, fails |-> MaxFails]

Links == Ends \/ (\E p \in Peers : Call(p)) \/ Completes \/ Fades
Next ==
  \/ \E late \in BOOLEAN : Tick(late)
  \/ Disconnect \/ Resume \/ EnterPairing
  \/ Links
  \/ NewKey \/ KeyAnswered
  \/ PowerFails

Spec == Init /\ [][Next]_vars

\* The loop ticks for ever and a clock passes every deadline; every operation of BtLink ends.
\* Nothing obliges a peer or the application.
FairSpec ==
  /\ Spec
  /\ WF_vars(Tick(TRUE)) /\ WF_vars(Ends)

-----------------------------------------------------------------------------
(* Properties.                                                              *)

TypeOK ==
  /\ LinkTypeOK /\ AttemptTypeOK(att)
  /\ role \in {"source", "sink"}
  /\ ses \in [state : IF role = "source"
                      THEN {"CONNECTING", "WAITING", "STREAMING", "DISCONNECTING", "MANUAL"}
                      ELSE {"LISTENING", "CONNECTING", "STREAMING", "DISCONNECTING", "MANUAL"},
              boot : BOOLEAN, idx : 0..MaxBonds, inq : BOOLEAN, lost : Peers \cup {None},
              win : BOOLEAN, end : {"NONE", "TIMEOUT", "PAIRED", "CANCELLED"}]
  /\ app \in [stopped : BOOLEAN, up : BOOLEAN, peer : Peers \cup {None}, tried : SUBSET Peers,
              moved : BOOLEAN, paired : BOOLEAN]
  /\ bonds \in [table : Tables, dirty : BOOLEAN]
  /\ scan \in [want : BOOLEAN, have : BOOLEAN]
  /\ due \in Peers \cup {None}
  /\ left \in [calls : 0..MaxCalls, stops : 0..MaxStops, fails : 0..MaxFails]

\* Once the application has called disconnect(), from its loop or from within a callback, the
\* session stays down until it is resumed: nothing that runs after the callback brings it back.
StopHolds == TypeOK /\ (app.stopped <=> ses.state \in {"DISCONNECTING", "MANUAL"})

\* The application believes a stream to be up exactly while the session streams: no report
\* without its counterpart.
StreamReported == app.up <=> ses.state = "STREAMING"

\* A pairing window is open only while a call could be answered or is being answered, and its
\* end is told as what happened on the wire: paired if and only if a stream came up in it.
WindowTold ==
  /\ ses.win => ses.state \in {"LISTENING", "CONNECTING"}
  /\ ~ses.win => (ses.end = "PAIRED" <=> app.paired)

\* The callbacks tell the application the truth.
ToldTheTruth == StreamReported /\ WindowTold

\* When a walk comes to ask around, every bond that matches has been paged, unless the table
\* was reordered under the walk.
NoBondSkipped ==
  ses.boot /\ ses.inq /\ ~app.moved =>
    \A i \in 1..Len(bonds.table) : bonds.table[i] \in Matching => bonds.table[i] \in app.tried

\* The peer that is called back is the one whose stream was lost, whoever has called since.
ReconnectIsForTheLost == ses.lost # None => ses.lost = app.peer

\* After a power failure, in the middle of a save too, the table is the one saved last, the one
\* being saved, or empty: never a mix.
SavedTableOrNone ==
  [][left'.fails < left.fails => bonds'.table \in {Load(rom), bonds.table, <<>>}]_vars

\* The session never rests in a state that it should only pass through.
Passes ==
  \A s \in {"CONNECTING", "WAITING", "DISCONNECTING"} : (ses.state = s) ~> (ses.state # s)

\* What a tick makes of an attempt that is over while the session streams.
Unseen == ses.state = "STREAMING" /\ ~Busy(att)

\* A stream that was lost or closed is noticed.  (One whose signalling failed is not: see
\* EveryEndIsSeen.)
LossIsSeen == (Unseen /\ att.result # "FAILED") ~> ~Unseen

\* Every wait and every loss leads on.
NothingHangs == Passes /\ LossIsSeen

\* "discoverable for a while after power-on and after any attempt ends (loss, clean close, OR a
\* failed pairing)", says BtSinkSession.h.
EveryEndIsSeen == Unseen ~> ~Unseen
=============================================================================
