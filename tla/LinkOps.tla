------------------------------ MODULE LinkOps -------------------------------
(***************************************************************************)
(* What BtLink promises the attempts and the sessions above it, and all    *)
(* they see of it: one operation at a time, each with a result; one link,  *)
(* named by its peer; and a flag for a link that came in.  BtLink is shown *)
(* to implement LinkSpec, and Session is built on its actions.             *)
(***************************************************************************)
EXTENDS Links

VARIABLE
  link    \* op(), result(), linkState(), peer(), handle() and inboundUp()

Ops == {"NONE", "PREPARE", "INQUIRY", "PAGE", "PAIR", "DISCONNECT"}

LinkTypeOK ==
  link \in [op : Ops, result : {"OK", "FAILED"}, st : {"NONE", "UP", "SECURE", "LOST"},
            bd : Peers \cup {None}, handle : Peers \cup {None}, inboundUp : BOOLEAN]

NoLink == [op |-> "NONE", result |-> "OK", st |-> "NONE", bd |-> None, handle |-> None,
           inboundUp |-> FALSE]
LinkInit == link = NoLink

-----------------------------------------------------------------------------
(* What a call of the owner makes of link l.  A start is refused while an   *)
(* operation runs.                                                          *)

Started(l, op) == IF l.op = "NONE" THEN [l EXCEPT !.op = op] ELSE l

\* startPage() also forgets the handle of a link accepted meanwhile.
Paged(l, p) ==
  IF l.op = "NONE" THEN [l EXCEPT !.op = "PAGE", !.bd = p, !.handle = None] ELSE l

LostAcked(l) == IF l.st = "LOST" THEN [l EXCEPT !.st = "NONE"] ELSE l
InboundAcked(l) == [l EXCEPT !.inboundUp = FALSE]

Calls ==
  \/ \E op \in {"PREPARE", "INQUIRY", "PAIR", "DISCONNECT"} : link' = Started(link, op)
  \/ \E p \in Peers : link' = Paged(link, p)
  \/ link' = LostAcked(link)
  \/ link' = Started(InboundAcked(link), "PAIR")

-----------------------------------------------------------------------------
(* What the engine and the events do between two calls.                     *)

\* An operation ends.  A pairing that ends well has secured the link; once a disconnect has
\* ended, the host holds no handle, whatever became of the link.
OpEnds ==
  /\ link.op # "NONE"
  /\ \E r \in {"OK", "FAILED"} :
       /\ link.op = "PREPARE" => r = "OK"
       /\ link.op = "PAIR" /\ r = "OK" => IsUp(link)
       /\ link' = [link EXCEPT !.op = "NONE", !.result = r,
                               !.handle = IF link.op = "DISCONNECT" THEN None ELSE @]

\* A call is accepted: only while no link is up and no page runs.
CallAccepted(p) ==
  /\ ~IsUp(link) /\ link.op # "PAGE"
  /\ link' = [link EXCEPT !.bd = p]

\* The link to the peer comes up; it came in unless a page is running.
ComesUp ==
  /\ link.bd # None /\ link.handle = None
  /\ link' = [link EXCEPT !.st = "UP", !.handle = link.bd,
                          !.inboundUp = @ \/ link.op # "PAGE"]

\* Encryption_Change does not look at the handle.
Secures == link' = [link EXCEPT !.st = "SECURE"]

Drops ==
  /\ link.handle # None
  /\ link' = [link EXCEPT !.st = "LOST", !.handle = None]

LinkNext == Calls \/ OpEnds \/ (\E p \in Peers : CallAccepted(p)) \/ ComesUp \/ Secures \/ Drops
LinkSpec == LinkInit /\ [][LinkNext]_link
=============================================================================
