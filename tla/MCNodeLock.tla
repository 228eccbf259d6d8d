----------------------------- MODULE MCNodeLock -----------------------------
EXTENDS NodeLock, TLC

\* The accepted licenses are alike.
Symmetry == Permutations(Licenses \ Refused)
=============================================================================
