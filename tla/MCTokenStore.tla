----------------------------- MODULE MCTokenStore -----------------------------
(* Instances of TokenStore for TLC: two calls through any of two providers.  *)
(* Safety only (that calls end is checked in MCWaits), so calls, providers   *)
(* and spellings are interchangeable.                                        *)
EXTENDS TokenStore, TLC

TokenSpec == Init /\ [][Next]_vars

Symmetry == Permutations(Call) \cup Permutations(Provider) \cup Permutations(Listing)
===============================================================================
