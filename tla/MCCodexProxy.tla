---------------------------- MODULE MCCodexProxy ----------------------------
EXTENDS CodexProxy, TLC

\* Names of accounts only break ties, which the model leaves open.
Symmetry == Permutations(Account) \cup Permutations(Request)
=============================================================================
