------------------------ MODULE MCHostCoordination ------------------------
EXTENDS HostCoordination, TLC

MCSymmetry == Permutations(Writers)

=============================================================================
