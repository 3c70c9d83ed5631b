----------------------------- MODULE MCChatProxy ------------------------------
(* Small instances of ChatProxy: what the upstream may send. *)
EXTENDS ChatProxy, TLC

\* An event without text, one that two chunks share, and one with a character that they
\* share.
MCReplies == {<<"ping">>, <<"a", "b">>, <<"l", "t">>}

MCBytes == [c \in Chunks |-> CASE c = "ping" -> <<"other", "end">>
                             [] c = "a" -> <<"other", "end", "text">>
                             [] c = "b" -> <<"text", "end">>
                             [] c = "l" -> <<"lead">>
                             [] c = "t" -> <<"trail", "end">>]

==============================================================================
