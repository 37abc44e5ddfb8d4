--------------------------- MODULE MCAgentReview ---------------------------
EXTENDS AgentReview, TLC

MCSymmetry == Permutations(Modules) \cup Permutations(Texts)
=============================================================================
