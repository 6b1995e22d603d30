------------------------------ MODULE MCBtLink ------------------------------
EXTENDS BtLink, TLC

Symmetry == Permutations(Peers)
=============================================================================
