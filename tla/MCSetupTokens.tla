--------------------------- MODULE MCSetupTokens ---------------------------
EXTENDS SetupTokens, TLC

Symmetry == Permutations(Account) \cup Permutations(Token)
                \cup Permutations(User)
=============================================================================
