-------------------------- MODULE MCClaudeRouting --------------------------
EXTENDS ClaudeRouting, TLC

\* Names of accounts only break ties, which the model leaves open.
Symmetry == Permutations(Account) \cup Permutations(Request)
                \cup Permutations(Prober)
=============================================================================
