----------------------------- MODULE MCConnPool -----------------------------
(* Model values and symmetry for TLC.  Slots are numbers because the code scans   *)
(* them in order; handles and control blocks are interchangeable.                 *)
EXTENDS ConnPool, TLC
Symmetry == Permutations(Handles) \cup Permutations(Pcbs)
=============================================================================
