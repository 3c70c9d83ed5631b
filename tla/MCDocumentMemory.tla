--------------------------- MODULE MCDocumentMemory ---------------------------
(* Small instances of DocumentMemory. *)
EXTENDS DocumentMemory, TLC

\* Documents that share a text, one of them with that text twice, in two namespaces.
MCDocuments == {<<"p", "q">>, <<"q">>, <<"q", "q">>}

MCUploads ==
    {[namespace |-> "t1", document |-> <<"p", "q">>],
     [namespace |-> "t1", document |-> <<"q", "q">>],
     [namespace |-> "t2", document |-> <<"q">>]}

WorkerSymmetry == Permutations(Workers)

==============================================================================
