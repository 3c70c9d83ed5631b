----------------------------- MODULE MCRetrieval ------------------------------
(* Small instances of Retrieval, over MCFactMemory's. *)
EXTENDS Retrieval, MCFactMemory

\* The subject is a term; it has several words, of which the question has one; an object
\* is a term.
MCQuestions ==
    {[namespace |-> "t1", words |-> {"user"}, terms |-> {"user"}, newest |-> FALSE],
     [namespace |-> "t1", words |-> {"user", "a"}, terms |-> {}, newest |-> FALSE],
     [namespace |-> "t1", words |-> {"b"}, terms |-> {"b"}, newest |-> TRUE]}

MCFactType == [p \in {"works_at", "uses", "has_token"} |->
                  CASE p = "works_at" -> "identity" [] p = "uses" -> "project_fact"
                    [] OTHER -> "credential"]

MCCost == [v \in Values \cup {Redacted} |-> IF v = "a" THEN 2 ELSE 1]

==============================================================================
