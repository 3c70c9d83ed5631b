------------------------------- MODULE MCIntake -------------------------------
(* Small instances of Intake: every document of up to MaxLines lines, messages  *)
(* of up to three sentences, and answers of up to two items.                    *)
EXTENDS Intake, TLC

CONSTANT MaxLines

MCDocuments == BoundedSeq(Kinds, MaxLines)

\* A token and most of another, and a line larger than the target.
MCLineSize ==
    [k \in Kinds |-> CASE k = "blank" -> 0 [] k = "long" -> 13 [] k = "row" -> 4 [] OTHER -> 7]

------------------------------------------------------------------------------

MCPatterns == <<"works_at", "uses">>

Sentence(works, uses) == [p \in {"works_at", "uses"} |-> IF p = "uses" THEN uses ELSE works]

MCTexts ==
    BoundedSeq({Sentence("a", Silent), Sentence("b", "a"), Sentence(Silent, "b"),
                Sentence(Blank, Silent)}, 3)

MCAnswers ==
    {Prose} \cup
    BoundedSeq({[Stated(p, o) EXCEPT !.replaces = r] :
                    p \in {"works_at", "owes"}, o \in Objects, r \in {"yes", "no", "unset"}}
               \cup {[Stated("uses", "a") EXCEPT !.hint = h] : h \in {"single", "multi"}}
               \cup {[flaw |-> "partial"], [flaw |-> "scalar"]}, 2)

\* As installed, one predicate of each kind turned over, and one in both lists.
MCOverrides ==
    {[multi |-> m, single |-> s] :
        <<m, s>> \in {<<{}, {}>>, <<{"works_at"}, {"uses"}>>, <<{"owes"}, {"owes"}>>}}

==============================================================================
