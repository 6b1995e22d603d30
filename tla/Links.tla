------------------------------- MODULE Links --------------------------------
(***************************************************************************)
(* What BtLink and the layers above it have in common: whom a link may be  *)
(* to, and when it is up.                                                  *)
(***************************************************************************)
CONSTANTS
  Peers,  \* Bluetooth addresses
  None    \* no address, no handle

\* linkUp(), of any record with the link's state.
IsUp(l) == l.st \in {"UP", "SECURE"}
=============================================================================
