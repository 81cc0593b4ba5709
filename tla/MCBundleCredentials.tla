------------------------ MODULE MCBundleCredentials ------------------------
(* Model values for BundleCredentials. *)
EXTENDS BundleCredentials, TLC

Symmetry == Permutations(Account) \cup Permutations(Prober)
=============================================================================
