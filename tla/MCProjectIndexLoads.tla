------------------------ MODULE MCProjectIndexLoads ------------------------
EXTENDS ProjectIndexLoads, TLC

MCSymmetry == Permutations(Texts) \cup Permutations(Loads) \cup Permutations(Reads)
=============================================================================
