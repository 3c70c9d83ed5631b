------------------------------- MODULE MCStartUp -------------------------------
(* Small instances of StartUp, and of EmbeddingGuard in it. *)
EXTENDS StartUp, TLC

ItemSymmetry == Permutations(Facts) \cup Permutations(Chunks)

\* The offline embedder and one remote model have the default dimension.
MCDim == [m \in Models |-> IF m = "A" THEN "d1024" ELSE "d256"]

==============================================================================
