------------------------- MODULE MCPreferencesCache -------------------------
(* Instances of PreferencesCache for TLC. *)
EXTENDS PreferencesCache, TLC

Symmetry == Permutations(Req) \cup Permutations(Node) \cup Permutations(User)
=============================================================================
