------------------------- MODULE MCFileTransaction -------------------------
EXTENDS FileTransaction, TLC

\* The temp names of rollback copies are interchangeable.
CopySymmetry == Permutations(CopyId)
=============================================================================
