------------------------------ MODULE Extraction ------------------------------
(***************************************************************************)
(* What becomes of a message before it is stored: the statements that the   *)
(* patterns of HeuristicFactExtractor find in its sentences, or that a      *)
(* model's answer lists (LLMFactExtractor), the cardinality of their        *)
(* predicates, and which of the objects believed so far they retire.        *)
(*                                                                         *)
(* One subject, its objects in normal form, one message at a time: how the  *)
(* store calls of several interleave is FactMemory, and so are credentials. *)
(***************************************************************************)
EXTENDS Naturals, Sequences, FiniteSets, SequencesExt

CONSTANTS
    Patterns,    \* the predicates that patterns find, in their order
    Additive,    \* predicates that the default registry calls MULTI
    Predicates,  \* predicates a statement may have
    Objects,
    Texts,       \* messages: sequences of sentences
    Answers,     \* a model's answers: sequences of items, or prose
    Overrides    \* [multi, single]: the predicates in the two variables of the environment

Silent == "silent"    \* a pattern does not match a sentence
Blank == "blank"      \* it matches, and nothing is left of its object
Prose == <<[flaw |-> "prose"]>>    \* an answer without an array

Statements == [predicate : Predicates, object : Objects,
               replaces : {"yes", "no", "unset"}, hint : {"single", "multi", "unset"}]

\* An item of an answer that lacks a field is "partial", one that is no object "scalar".
Items == Statements \cup {[flaw |-> "partial"], [flaw |-> "scalar"]}

ASSUME PatternsAssumption == Patterns \in Seq(Predicates) /\ Additive \subseteq Predicates
ASSUME TextsAssumption == Texts \subseteq Seq([ToSet(Patterns) -> Objects \cup {Silent, Blank}])
ASSUME AnswersAssumption == Answers \subseteq Seq(Items) \cup {Prose}
ASSUME OverridesAssumption ==
    Overrides \subseteq [multi : SUBSET Predicates, single : SUBSET Predicates]

VARIABLES
    overrides,  \* how this process is configured
    ear,        \* "idle", "store", "stored" or "raised"
    message,    \* its text, or the answer to it, and which extractor reads it
    found,      \* what the extractor returned
    before,     \* the objects believed of each predicate when the message came in
    believed    \* the objects believed now

hearing == <<overrides, ear, message, found, before, believed>>

------------------------------------------------------------------------------
(* HeuristicFactExtractor *)

Stated(predicate, object) ==
    [predicate |-> predicate, object |-> object, replaces |-> "unset", hint |-> "unset"]

\* Mutant of HearPattern: a predicate is heard once in a message.
HearPatternOnce(seen, p, sentence) ==
    IF sentence[p] \in {Silent, Blank} \/ \E s \in ToSet(seen) : s.predicate = p
    THEN seen ELSE Append(seen, Stated(p, sentence[p]))

\* Each statement is taken once, where it is first made.
HearPattern(seen, p, sentence) ==
    IF sentence[p] \in {Silent, Blank} \/ Stated(p, sentence[p]) \in ToSet(seen)
    THEN seen ELSE Append(seen, Stated(p, sentence[p]))

\* What a sentence says, pattern by pattern.
HearSentence(seen, sentence) ==
    LET Heard[n \in 0..Len(Patterns)] ==
            IF n = 0 THEN seen ELSE HearPattern(Heard[n - 1], Patterns[n], sentence)
    IN Heard[Len(Patterns)]

ByPatterns(text) ==
    LET Heard[n \in 0..Len(text)] ==
            IF n = 0 THEN <<>> ELSE HearSentence(Heard[n - 1], text[n])
    IN Heard[Len(text)]

------------------------------------------------------------------------------
(* LLMFactExtractor *)

\* Items that lack a field are skipped, and so is prose.
TakeItem(listed, item) == IF item \in Statements THEN Append(listed, item) ELSE listed

ByModel(answer) ==
    LET Listed[n \in 0..Len(answer)] ==
            IF n = 0 THEN <<>> ELSE TakeItem(Listed[n - 1], answer[n])
    IN Listed[Len(answer)]

\* item.get on what is no object raises out of the extractor.
Raises(answer) == [flaw |-> "scalar"] \in ToSet(answer)

------------------------------------------------------------------------------
(* Cardinality and contradiction *)

\* Both lists: the single-valued one is read last.  A predicate unknown to all is single.
IsSingle(predicate) ==
    \/ predicate \in overrides.single
    \/ predicate \notin overrides.multi \cup Additive

\* An explicit flag wins, then a hint, then the registry.
Retires(s) ==
    \/ s.replaces = "yes"
    \/ s.replaces = "unset" /\ s.hint = "single"
    \/ s.replaces = "unset" /\ s.hint = "unset" /\ IsSingle(s.predicate)

\* What is known already is skipped, and retires nothing.
Believe(beliefs, s) ==
    IF s.object \in beliefs[s.predicate] THEN beliefs
    ELSE [beliefs EXCEPT ![s.predicate] = IF Retires(s) THEN {s.object} ELSE @ \cup {s.object}]

\* The loop of ingest_message.
BelieveAll(beliefs, statements) ==
    LET After[n \in 0..Len(statements)] ==
            IF n = 0 THEN beliefs ELSE Believe(After[n - 1], statements[n])
    IN After[Len(statements)]

------------------------------------------------------------------------------

NoMessage == [by |-> "none", words |-> <<>>]

HearInit ==
    /\ overrides \in Overrides
    /\ ear = "idle"
    /\ message = NoMessage
    /\ found = <<>>
    /\ before = [p \in Predicates |-> {}]
    /\ believed = before

\* A message comes in, and its facts are extracted in one of two ways.
Hear(statements, by, words) ==
    /\ ear = "idle"
    /\ ear' = "store"
    /\ message' = [by |-> by, words |-> words]
    /\ found' = statements
    /\ before' = believed
    /\ UNCHANGED <<overrides, believed>>

HearText(text) == Hear(ByPatterns(text), "patterns", text)

HearAnswer(answer) == ~Raises(answer) /\ Hear(ByModel(answer), "model", answer)

\* The model cannot be reached, or its answer cannot be read: nothing is stored.
HearNothing(answer) ==
    /\ ear = "idle"
    /\ Raises(answer)
    /\ ear' = "raised"
    /\ UNCHANGED <<overrides, message, found, before, believed>>

Store ==
    /\ ear = "store"
    /\ believed' = BelieveAll(believed, found)
    /\ ear' = "stored"
    /\ UNCHANGED <<overrides, message, found, before>>

\* ingest_message returns, or raises, and forgets the message.
Return ==
    /\ ear \in {"stored", "raised"}
    /\ ear' = "idle"
    /\ message' = NoMessage
    /\ found' = <<>>
    /\ before' = [p \in Predicates |-> {}]
    /\ UNCHANGED <<overrides, believed>>

HearNext ==
    \/ \E text \in Texts : HearText(text)
    \/ \E answer \in Answers : HearAnswer(answer) \/ HearNothing(answer)
    \/ Store
    \/ Return

HearSpec == HearInit /\ [][HearNext]_hearing

------------------------------------------------------------------------------

IsText == message.by = "patterns"

\* Where the message says something about a predicate, and what.
SaysAt(n, p) ==
    IF IsText THEN p \in ToSet(Patterns) /\ message.words[n][p] \notin {Silent, Blank}
    ELSE message.words[n] \in Statements /\ message.words[n].predicate = p

SaidAt(n, p) == IF IsText THEN Stated(p, message.words[n][p]) ELSE message.words[n]

Times(p) == {n \in DOMAIN message.words : SaysAt(n, p)}

Said(p) == {SaidAt(n, p).object : n \in Times(p)}

Unflagged(p) == \A n \in Times(p) : Retires(SaidAt(n, p)) = IsSingle(p)

\* Of a single-valued predicate the last object said is believed, unless patterns found
\* the same statement earlier in the message, and one object alone is believed once
\* anything new was said; of an additive one, all that was said and believed ("the old
\* value's validity window is closed", "accumulates").
LastSaidWins ==
    \A p \in Predicates : ear = "stored" /\ Times(p) # {} /\ Unflagged(p) =>
        IF IsSingle(p)
        THEN /\ \A last \in Times(p) : (\A n \in Times(p) : n <= last) =>
                    \/ SaidAt(last, p).object \in believed[p]
                    \/ IsText /\ \E n \in Times(p) : n < last /\ SaidAt(n, p) = SaidAt(last, p)
             /\ Said(p) \subseteq before[p] \/ \E o \in Objects : believed[p] = {o}
        ELSE believed[p] = before[p] \cup Said(p)

==============================================================================
