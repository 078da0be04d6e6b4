---------------------------- MODULE MCVolumeMgr -----------------------------
EXTENDS VolumeMgr, TLC
TreeSymmetry == Permutations(Trees)
=============================================================================
