----------------------------- MODULE MCFactMemory -----------------------------
(* Small instances of FactMemory: keys, and what extractors return. *)
EXTENDS FactMemory, TLC

Key(ns, predicate) == [namespace |-> ns, subject |-> "user", predicate |-> predicate]

Said(key, value) ==
    [key |-> key, value |-> value, credential |-> FALSE,
     replaces |-> "unset", hint |-> "unset"]

Works == Key("t1", "works_at")
Uses == Key("t1", "uses")
Elsewhere == Key("t2", "works_at")
Token == Key("t1", "has_token")

MCSingle == {"works_at"}

------------------------------------------------------------------------------
(* One worker: two tenants, both cardinalities, a replacing extraction, a       *)
(* credential, and a message that gives two values of one predicate.            *)

OneKeys == {Works, Uses, Elsewhere, Token}

OneMessages ==
    {<<Said(Works, "a")>>, <<Said(Works, "b")>>, <<Said(Elsewhere, "a")>>,
     <<Said(Uses, "b")>>,
     <<[Said(Uses, "a") EXCEPT !.replaces = "yes"]>>,
     <<Said(Works, "b"), Said(Works, "a")>>,
     <<Said(Uses, "a"), [Said(Token, "b") EXCEPT !.credential = TRUE]>>}

------------------------------------------------------------------------------
(* Two workers: what they say of one single-valued and one additive predicate. *)

TwoKeys == {Works, Uses}

TwoMessages ==
    {<<Said(Works, "a")>>, <<Said(Works, "b")>>, <<Said(Uses, "a")>>,
     <<Said(Works, "b"), [Said(Uses, "b") EXCEPT !.hint = "single"]>>}

\* Nobody re-embeds.
TwoNext ==
    \/ Tick
    \/ \E w \in Workers : Ingestion(w) \/ Forgetting(w) \/ EmbedRaises(w) \/ Crash(w)

TwoSpec == Init /\ [][TwoNext]_vars

WorkerSymmetry == Permutations(Workers)

==============================================================================
