---------------------------- MODULE MCManagedRules ----------------------------
(* Instances of ManagedRules for TLC. *)
EXTENDS ManagedRules, TLC

Sym == Permutations(Call) \cup Permutations(Key) \cup Permutations(Body)
         \cup Permutations(Process)
===============================================================================
