---------------------------- MODULE MCProxyMemory -----------------------------
(* Small instances of ProxyMemory. *)
EXTENDS ProxyMemory, TLC

ValueSymmetry == Permutations(Values)

==============================================================================
