---------------------------- MODULE MCGraphMemory -----------------------------
(* Small instances of GraphMemory. *)
EXTENDS GraphMemory, TLC

\* Two facts of one tenant about one subject, and one of another tenant that has
\* the same names.
MCFacts ==
    {[namespace |-> "t1", subject |-> "ada", object |-> "acme"],
     [namespace |-> "t1", subject |-> "ada", object |-> "bob"],
     [namespace |-> "t2", subject |-> "acme", object |-> "ada"]}

MCSetups == {s \in Setup : s.backend = "kuzu" => ~s.pro}

WorkerSymmetry == Permutations(Workers)

==============================================================================
