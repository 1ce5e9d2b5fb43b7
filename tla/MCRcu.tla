-------------------------------- MODULE MCRcu --------------------------------
EXTENDS Rcu, TLC
Blocks == Permutations(Objects)
=============================================================================
