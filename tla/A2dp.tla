-------------------------------- MODULE A2dp --------------------------------
(***************************************************************************)
(* A2dpSource and A2dpSink: one attempt to bring a stream up, from a page, *)
(* an inquiry or a link that came in, to STREAMING or to a result and no   *)
(* link.  An attempt is advanced by tick(); the operators here map a       *)
(* record z, with fields att and link, to what a call or a tick makes of   *)
(* it.  What the peer does on L2CAP, SDP and AVDTP is a choice; a deadline *)
(* that has passed (late) leaves no choice but to move on.  AVRCP, stream  *)
(* parameters and the delay report are left out.                           *)
(***************************************************************************)
EXTENDS LinkOps

\* kind: who is to be reached, an address, whoever an inquiry finds (an address from then on)
\* or the peer that has called; page: the address that is still to be paged; issued: the first
\* operation has begun.
NoAttempt == [st |-> "IDLE", result |-> "OK", kind |-> "PAGE", page |-> None, issued |-> FALSE]

SourceStates == {"IDLE", "LINKING", "PAIRING", "L2", "SDP", "AVDTP_WAIT", "AVDTP", "STREAMING",
                 "DISCONNECTING", "DONE"}
\* PAIR_FAILED, L2CAP_FAILED and AVDTP_FAILED are one, FAILED: nobody tells them apart.
Results == {"OK", "CONNECT_FAILED", "FAILED", "LOST", "STOPPED", "PENDING"}
AttemptTypeOK(a) ==
  a \in [st : SourceStates, result : Results, kind : {"PAGE", "INQUIRY", "INBOUND"},
         page : Peers \cup {None}, issued : BOOLEAN]

Busy(a) == a.st \notin {"IDLE", "DONE"}

\* The operation an attempt of this kind begins with.
Operated(l, kind, p) ==
  CASE kind = "PAGE" -> Paged(l, p)
    [] kind = "INQUIRY" -> Started(l, "INQUIRY")
    [] kind = "INBOUND" -> Started(InboundAcked(l), "PAIR")

Attempt(kind, p, idle) ==
  [st |-> IF kind = "INBOUND" THEN "PAIRING" ELSE "LINKING", result |-> "PENDING",
   kind |-> kind, page |-> IF idle \/ kind # "PAGE" THEN None ELSE p, issued |-> idle]

\* A2dpSource::start(), refused while an attempt runs.  The operation may have to wait.
SourceStarted(z, kind, p) ==
  IF Busy(z.att) THEN z
  ELSE [z EXCEPT !.att = Attempt(kind, p, z.link.op = "NONE"),
                 !.link = Operated(LostAcked(@), kind, p)]

\* A2dpSink::start(), refused too when no link has come in.
SinkStarted(z) ==
  IF Busy(z.att) \/ ~z.link.inboundUp THEN z
  ELSE SourceStarted(z, "INBOUND", z.link.bd)

\* An attempt that ends remembers its result alone.
Ending(st, result) == [NoAttempt EXCEPT !.st = st, !.result = result]
Stopped == Ending("DISCONNECTING", "STOPPED")

-----------------------------------------------------------------------------
(* tick(), after the link's own.                                            *)

Ended(z, r) == [z EXCEPT !.att = Ending("DISCONNECTING", r)]
Reached(z, st) ==
  [z EXCEPT !.att.st = st, !.att.result = IF st = "STREAMING" THEN "OK" ELSE @]

\* The inquiry's hit is paged; any peer may be the one.
Linking(z) ==
  CASE z.link.op # "NONE" -> {z}
    [] z.link.op = "NONE" /\ ~z.att.issued ->
         {[z EXCEPT !.att.issued = TRUE, !.att.page = None,
                    !.link = Operated(@, z.att.kind, z.att.page)]}
    [] z.link.op = "NONE" /\ z.att.issued /\ z.link.result # "OK" -> {Ended(z, "CONNECT_FAILED")}
    [] OTHER ->
         IF z.att.kind = "INQUIRY"
         THEN {[z EXCEPT !.att.kind = "PAGE", !.link = Paged(@, p)] : p \in Peers}
         ELSE {[z EXCEPT !.att.st = "PAIRING", !.link = Started(@, "PAIR")]}

Pairing(z, next) ==
  CASE z.link.op # "NONE" -> {z}
    [] z.link.op = "NONE" /\ ~z.att.issued ->
         {[z EXCEPT !.att.issued = TRUE, !.link = Started(@, "PAIR")]}
    [] z.link.op = "NONE" /\ z.att.issued /\ z.link.result # "OK" -> {Ended(z, "FAILED")}
    [] OTHER -> {Reached(z, next)}

\* Waiting for the peer: the attempt comes to one of the next stages, or fails, or stays.  A
\* stream takes a link to the peer.
Await(z, next, late) ==
  {Reached(z, st) : st \in {n \in next : n = "STREAMING" => z.link.handle # None}}
    \cup {Ended(z, "FAILED")} \cup (IF late THEN {} ELSE {z})

\* The attempt is over when there is neither operation nor handle; until then the link is
\* disconnected, again if another one has come up.
Disconnecting(z) ==
  IF z.link.op = "NONE" /\ z.link.handle = None THEN {[z EXCEPT !.att.st = "DONE"]}
  ELSE {[z EXCEPT !.link = Started(@, "DISCONNECT")]}

\* The link was lost under a live attempt.
LosesLink(z) == Busy(z.att) /\ z.att.st # "DISCONNECTING" /\ z.link.st = "LOST"
\* Mutant: the result is left as it was.
MutantBereft(z) == [z EXCEPT !.att = Ending("DONE", z.att.result), !.link = LostAcked(@)]

Bereft(z) ==
  [z EXCEPT !.att = Ending("DONE", "LOST"), !.link = LostAcked(@)]

\* A2dpSource::tick().  An outbound attempt asks for the peer's AVDTP version first, but an
\* SDP channel that does not open, or no answer, only costs time.
SourceAdvanced(z, late) ==
  CASE LosesLink(z) -> {Bereft(z)}
    [] ~LosesLink(z) /\ z.att.st = "LINKING" -> Linking(z)
    [] ~LosesLink(z) /\ z.att.st = "PAIRING" -> Pairing(z, "L2")
    [] ~LosesLink(z) /\ z.att.st = "L2" ->
         IF z.att.kind = "INBOUND" THEN {Reached(z, "AVDTP_WAIT")}
         ELSE Await(z, {"SDP", "AVDTP_WAIT"}, late)
    [] ~LosesLink(z) /\ z.att.st = "SDP" -> Await(z, {"AVDTP_WAIT"}, late)
    [] ~LosesLink(z) /\ z.att.st = "AVDTP_WAIT" -> Await(z, {"AVDTP"}, late)
    [] ~LosesLink(z) /\ z.att.st = "AVDTP" -> Await(z, {"STREAMING"}, late)
    [] z.att.st = "DISCONNECTING" -> Disconnecting(z)
    [] OTHER -> {z}

\* A2dpSink::tick().  The source may close a stream, which ends the attempt well, or AVDTP fails.
SinkAdvanced(z, late) ==
  CASE LosesLink(z) -> {Bereft(z)}
    [] ~LosesLink(z) /\ z.att.st = "PAIRING" -> Pairing(z, "AVDTP_WAIT")
    [] ~LosesLink(z) /\ z.att.st = "AVDTP_WAIT" -> Await(z, {"AVDTP"}, late)
    [] ~LosesLink(z) /\ z.att.st = "AVDTP" -> Await(z, {"STREAMING"}, late)
    [] ~LosesLink(z) /\ z.att.st = "STREAMING" ->
         {z, Ended(z, "OK"), Ended(z, "FAILED")}
    [] z.att.st = "DISCONNECTING" -> Disconnecting(z)
    [] OTHER -> {z}
=============================================================================
