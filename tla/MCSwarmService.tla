--------------------------- MODULE MCSwarmService ---------------------------
EXTENDS SwarmService, TLC
SwarmSymmetry == Permutations(Swarms)
==============================================================================
