----------------------------- MODULE MCDestLock -----------------------------
EXTENDS DestLock, TLC
RunSymmetry == Permutations(Run) \cup Permutations(Inode)
=============================================================================
