--------------------------- MODULE MCAccountHomes ---------------------------
EXTENDS AccountHomes, TLC

Symmetry == Permutations(Name) \cup Permutations(Launcher)

=============================================================================
