----------------------------- MODULE Intake_proofs -----------------------------
(***************************************************************************)
(* What the two ways into DMem make of their input, for every document,     *)
(* message, answer and configuration.                                       *)
(***************************************************************************)
EXTENDS Intake, Induction, TLAPS

------------------------------------------------------------------------------
(* Each way into DMem behaves as its own specification says *)

LEMMA IntakeTakesEither == IntakeSpec => Spec /\ HearSpec
<1>1. IntakeInit => Init /\ HearInit
  BY DEF IntakeInit
<1>2. [IntakeNext]_<<vars, hearing>> => [Next]_vars /\ [HearNext]_hearing
  BY DEF IntakeNext, vars, hearing
<1>3. QED
  BY <1>1, <1>2, PTL DEF IntakeSpec, Spec, HearSpec

------------------------------------------------------------------------------
(* What patterns hear *)

Sentences == [ToSet(Patterns) -> Objects \cup {Silent, Blank}]

\* A sentence states s, by one of the first c patterns.
States(sentence, c, s) ==
    \E k \in 1..c : sentence[Patterns[k]] \notin {Silent, Blank} /\ s = Stated(Patterns[k], sentence[Patterns[k]])

\* Statement s is made in one of the sentences before the n-th, or in that by one of the
\* first c patterns.
MadeAt(text, n, c, m, s) ==
    m \in 1..n /\ States(text[m], IF m = n THEN c ELSE Len(Patterns), s)

\* What was heard when c patterns have read sentence n: each statement made so far, once,
\* in the order in which they were first made.
HeardSoFar(text, n, c, seen) ==
    /\ seen \in Seq(Statements)
    /\ \A s : s \in ToSet(seen) <=> \E m \in 1..n : MadeAt(text, n, c, m, s)
    /\ \A i, j \in DOMAIN seen : i < j =>
          /\ seen[i] # seen[j]
          /\ \E l, m \in 1..n : l <= m /\ MadeAt(text, n, c, l, seen[i])
                                 /\ MadeAt(text, n, c, m, seen[j])

LEMMA StatedIsStatement ==
    ASSUME NEW p \in Predicates, NEW o \in Objects
    PROVE  Stated(p, o) \in Statements
BY DEF Stated, Statements

LEMMA HearPatternType ==
    ASSUME NEW seen \in Seq(Statements), NEW sentence \in Sentences, NEW k \in 1..Len(Patterns)
    PROVE  HearPattern(seen, Patterns[k], sentence) \in Seq(Statements)
<1> DEFINE p == Patterns[k]
<1>1. p \in ToSet(Patterns) /\ p \in Predicates
  BY PatternsAssumption DEF ToSet
<1> HIDE DEF p
<1>2. CASE sentence[p] \in {Silent, Blank}
  BY <1>2 DEF HearPattern, p
<1>3. CASE sentence[p] \notin {Silent, Blank}
  <2>1. sentence[p] \in Objects
    BY <1>1, <1>3 DEF Sentences
  <2>2. Stated(p, sentence[p]) \in Statements
    BY <1>1, <2>1, StatedIsStatement
  <2>3. QED
    BY <2>2 DEF HearPattern, p
<1>4. QED
  BY <1>2, <1>3

\* The loop over the patterns, unfolded.
LEMMA SentenceLoop ==
    ASSUME NEW seen \in Seq(Statements), NEW sentence \in Sentences
    PROVE  \E f : /\ f \in [0..Len(Patterns) -> Seq(Statements)]
                  /\ f[0] = seen
                  /\ \A k \in 1..Len(Patterns) : f[k] = HearPattern(f[k - 1], Patterns[k], sentence)
                  /\ HearSentence(seen, sentence) = f[Len(Patterns)]
<1> DEFINE m == Len(Patterns)
           S == Seq(Statements)
           first == seen
           step == [k \in 1..m |-> [u \in S |-> HearPattern(u, Patterns[k], sentence)]]
           Loop(g) == [k \in 0..m |-> IF k = 0 THEN seen ELSE HearPattern(g[k - 1], Patterns[k], sentence)]
           Heard == CHOOSE g : g = Loop(g)
<1>1. m \in Nat /\ first \in S
  BY PatternsAssumption
<1>2. step \in Steps(1..m, S)
  <2>1. ASSUME NEW k \in 1..m, NEW u \in S PROVE HearPattern(u, Patterns[k], sentence) \in S
    BY <2>1, HearPatternType
  <2>2. QED
    BY <2>1 DEF Steps
<1>3. \A k \in 1..m : \A u \in S : step[k][u] = HearPattern(u, Patterns[k], sentence)
  OBVIOUS
<1>4. HearSentence(seen, sentence) = Heard[m]
  BY DEF HearSentence
<1>5. first = seen
  OBVIOUS
<1> HIDE DEF first, step, m, S
<1>6. PICK f : CountsTo(f, m, S, first, step)
  BY <1>1, <1>2, UptoRecursion
<1>7. f \in [0..m -> S] /\ f[0] = first /\ \A k \in 1..m : f[k] = step[k][f[k - 1]]
  BY <1>6 DEF CountsTo
<1>8. ASSUME NEW k \in 1..m PROVE f[k] = HearPattern(f[k - 1], Patterns[k], sentence)
  <2>1. k - 1 \in 0..m
    BY <1>1
  <2>2. QED
    BY <1>3, <1>7, <2>1
<1>9. f = Loop(f)
  BY <1>1, <1>5, <1>7, <1>8
<1>10. Heard = Loop(Heard)
  BY <1>9
<1> HIDE DEF Heard
<1>11. Heard[0] = first /\ \A k \in 1..m : Heard[k] = HearPattern(Heard[k - 1], Patterns[k], sentence)
  <2>1. ASSUME NEW k \in 0..m
        PROVE  Heard[k] = IF k = 0 THEN seen ELSE HearPattern(Heard[k - 1], Patterns[k], sentence)
    BY <1>10, Zenon
  <2>2. QED
    BY <1>1, <1>5, <2>1
<1> DEFINE T == {k \in 0..m : Heard[k] = f[k]}
<1>12. T = 0..m
  <2>1. T \in SUBSET (0..m) /\ 0 \in T
    BY <1>1, <1>7, <1>11
  <2>2. ASSUME NEW k \in T, k < m PROVE k + 1 \in T
    <3>1. k + 1 \in 1..m /\ Heard[k] = f[k] /\ (k + 1) - 1 = k
      BY <1>1, <2>2
    <3>2. Heard[k + 1] = f[k + 1]
      BY <1>8, <1>11, <3>1
    <3>3. QED
      BY <3>1, <3>2
  <2> HIDE DEF T
  <2>3. QED
    BY <1>1, <2>1, <2>2, UptoInduction
<1>13. Heard[m] = f[m]
  BY <1>1, <1>12
<1>14. QED
  BY <1>4, <1>5, <1>7, <1>8, <1>13 DEF m, S

LEMMA HearSentenceType ==
    ASSUME NEW seen \in Seq(Statements), NEW sentence \in Sentences
    PROVE  HearSentence(seen, sentence) \in Seq(Statements)
<1>1. Len(Patterns) \in 0..Len(Patterns)
  BY PatternsAssumption
<1>2. QED
  BY <1>1, SentenceLoop

\* The loop over the sentences.
LEMMA TextLoop ==
    ASSUME NEW text \in Texts
    PROVE  \E f : /\ f \in [0..Len(text) -> Seq(Statements)]
                  /\ f[0] = <<>>
                  /\ \A k \in 1..Len(text) : f[k] = HearSentence(f[k - 1], text[k])
                  /\ ByPatterns(text) = f[Len(text)]
<1> DEFINE m == Len(text)
           S == Seq(Statements)
           first == <<>>
           step == [k \in 1..m |-> [u \in S |-> HearSentence(u, text[k])]]
           Loop(g) == [k \in 0..m |-> IF k = 0 THEN <<>> ELSE HearSentence(g[k - 1], text[k])]
           Heard == CHOOSE g : g = Loop(g)
<1>1. m \in Nat /\ first \in S
  BY TextsAssumption
<1>2. step \in Steps(1..m, S)
  <2>1. ASSUME NEW k \in 1..m, NEW u \in S PROVE HearSentence(u, text[k]) \in S
    BY <2>1, TextsAssumption, HearSentenceType DEF Sentences
  <2>2. QED
    BY <2>1 DEF Steps
<1>3. \A k \in 1..m : \A u \in S : step[k][u] = HearSentence(u, text[k])
  OBVIOUS
<1>4. ByPatterns(text) = Heard[m]
  BY DEF ByPatterns
<1>5. first = <<>>
  OBVIOUS
<1> HIDE DEF first, step, m, S
<1>6. PICK f : CountsTo(f, m, S, first, step)
  BY <1>1, <1>2, UptoRecursion
<1>7. f \in [0..m -> S] /\ f[0] = first /\ \A k \in 1..m : f[k] = step[k][f[k - 1]]
  BY <1>6 DEF CountsTo
<1>8. ASSUME NEW k \in 1..m PROVE f[k] = HearSentence(f[k - 1], text[k])
  <2>1. k - 1 \in 0..m
    BY <1>1
  <2>2. QED
    BY <1>3, <1>7, <2>1
<1>9. f = Loop(f)
  BY <1>1, <1>5, <1>7, <1>8
<1>10. Heard = Loop(Heard)
  BY <1>9
<1> HIDE DEF Heard
<1>11. Heard[0] = first /\ \A k \in 1..m : Heard[k] = HearSentence(Heard[k - 1], text[k])
  <2>1. ASSUME NEW k \in 0..m
        PROVE  Heard[k] = IF k = 0 THEN <<>> ELSE HearSentence(Heard[k - 1], text[k])
    BY <1>10, Zenon
  <2>2. QED
    BY <1>1, <1>5, <2>1
<1> DEFINE T == {k \in 0..m : Heard[k] = f[k]}
<1>12. T = 0..m
  <2>1. T \in SUBSET (0..m) /\ 0 \in T
    BY <1>1, <1>7, <1>11
  <2>2. ASSUME NEW k \in T, k < m PROVE k + 1 \in T
    <3>1. k + 1 \in 1..m /\ Heard[k] = f[k] /\ (k + 1) - 1 = k
      BY <1>1, <2>2
    <3>2. Heard[k + 1] = f[k + 1]
      BY <1>8, <1>11, <3>1
    <3>3. QED
      BY <3>1, <3>2
  <2> HIDE DEF T
  <2>3. QED
    BY <1>1, <2>1, <2>2, UptoInduction
<1>13. Heard[m] = f[m]
  BY <1>1, <1>12
<1>14. QED
  BY <1>4, <1>5, <1>7, <1>8, <1>13 DEF m, S

\* The loop over the items of an answer.
LEMMA AnswerLoop ==
    ASSUME NEW answer \in Answers
    PROVE  \E f : /\ f \in [0..Len(answer) -> Seq(Statements)]
                  /\ f[0] = <<>>
                  /\ \A k \in 1..Len(answer) : f[k] = TakeItem(f[k - 1], answer[k])
                  /\ ByModel(answer) = f[Len(answer)]
<1> DEFINE m == Len(answer)
           S == Seq(Statements)
           first == <<>>
           step == [k \in 1..m |-> [u \in S |-> TakeItem(u, answer[k])]]
           Loop(g) == [k \in 0..m |-> IF k = 0 THEN <<>> ELSE TakeItem(g[k - 1], answer[k])]
           Listed == CHOOSE g : g = Loop(g)
<1>1. m \in Nat /\ first \in S
  BY AnswersAssumption DEF Prose
<1>2. step \in Steps(1..m, S)
  <2>1. ASSUME NEW k \in 1..m, NEW u \in S PROVE TakeItem(u, answer[k]) \in S
    BY <2>1 DEF TakeItem
  <2>2. QED
    BY <2>1 DEF Steps
<1>3. \A k \in 1..m : \A u \in S : step[k][u] = TakeItem(u, answer[k])
  OBVIOUS
<1>4. ByModel(answer) = Listed[m]
  BY DEF ByModel
<1>5. first = <<>>
  OBVIOUS
<1> HIDE DEF first, step, m, S
<1>6. PICK f : CountsTo(f, m, S, first, step)
  BY <1>1, <1>2, UptoRecursion
<1>7. f \in [0..m -> S] /\ f[0] = first /\ \A k \in 1..m : f[k] = step[k][f[k - 1]]
  BY <1>6 DEF CountsTo
<1>8. ASSUME NEW k \in 1..m PROVE f[k] = TakeItem(f[k - 1], answer[k])
  <2>1. k - 1 \in 0..m
    BY <1>1
  <2>2. QED
    BY <1>3, <1>7, <2>1
<1>9. f = Loop(f)
  BY <1>1, <1>5, <1>7, <1>8
<1>10. Listed = Loop(Listed)
  BY <1>9
<1> HIDE DEF Listed
<1>11. Listed[0] = first /\ \A k \in 1..m : Listed[k] = TakeItem(Listed[k - 1], answer[k])
  <2>1. ASSUME NEW k \in 0..m
        PROVE  Listed[k] = IF k = 0 THEN <<>> ELSE TakeItem(Listed[k - 1], answer[k])
    BY <1>10, Zenon
  <2>2. QED
    BY <1>1, <1>5, <2>1
<1> DEFINE T == {k \in 0..m : Listed[k] = f[k]}
<1>12. T = 0..m
  <2>1. T \in SUBSET (0..m) /\ 0 \in T
    BY <1>1, <1>7, <1>11
  <2>2. ASSUME NEW k \in T, k < m PROVE k + 1 \in T
    <3>1. k + 1 \in 1..m /\ Listed[k] = f[k] /\ (k + 1) - 1 = k
      BY <1>1, <2>2
    <3>2. Listed[k + 1] = f[k + 1]
      BY <1>8, <1>11, <3>1
    <3>3. QED
      BY <3>1, <3>2
  <2> HIDE DEF T
  <2>3. QED
    BY <1>1, <2>1, <2>2, UptoInduction
<1>13. Listed[m] = f[m]
  BY <1>1, <1>12
<1>14. QED
  BY <1>4, <1>5, <1>7, <1>8, <1>13 DEF m, S

Beliefs == [Predicates -> SUBSET Objects]

LEMMA BelieveType ==
    ASSUME NEW beliefs \in Beliefs, NEW s \in Statements
    PROVE  Believe(beliefs, s) \in Beliefs
BY DEF Believe, Beliefs, Statements

\* The loop of ingest_message.
LEMMA BelieveLoop ==
    ASSUME NEW beliefs \in Beliefs, NEW statements \in Seq(Statements)
    PROVE  \E f : /\ f \in [0..Len(statements) -> Beliefs]
                  /\ f[0] = beliefs
                  /\ \A k \in 1..Len(statements) : f[k] = Believe(f[k - 1], statements[k])
                  /\ BelieveAll(beliefs, statements) = f[Len(statements)]
<1> DEFINE m == Len(statements)
           S == Beliefs
           first == beliefs
           step == [k \in 1..m |-> [u \in S |-> Believe(u, statements[k])]]
           Loop(g) == [k \in 0..m |-> IF k = 0 THEN beliefs ELSE Believe(g[k - 1], statements[k])]
           After == CHOOSE g : g = Loop(g)
<1>1. m \in Nat /\ first \in S
  OBVIOUS
<1>2. step \in Steps(1..m, S)
  <2>1. ASSUME NEW k \in 1..m, NEW u \in S PROVE Believe(u, statements[k]) \in S
    BY <2>1, BelieveType
  <2>2. QED
    BY <2>1 DEF Steps
<1>3. \A k \in 1..m : \A u \in S : step[k][u] = Believe(u, statements[k])
  OBVIOUS
<1>4. BelieveAll(beliefs, statements) = After[m]
  BY DEF BelieveAll
<1>5. first = beliefs
  OBVIOUS
<1> HIDE DEF first, step, m, S
<1>6. PICK f : CountsTo(f, m, S, first, step)
  BY <1>1, <1>2, UptoRecursion
<1>7. f \in [0..m -> S] /\ f[0] = first /\ \A k \in 1..m : f[k] = step[k][f[k - 1]]
  BY <1>6 DEF CountsTo
<1>8. ASSUME NEW k \in 1..m PROVE f[k] = Believe(f[k - 1], statements[k])
  <2>1. k - 1 \in 0..m
    BY <1>1
  <2>2. QED
    BY <1>3, <1>7, <2>1
<1>9. f = Loop(f)
  BY <1>1, <1>5, <1>7, <1>8
<1>10. After = Loop(After)
  BY <1>9
<1> HIDE DEF After
<1>11. After[0] = first /\ \A k \in 1..m : After[k] = Believe(After[k - 1], statements[k])
  <2>1. ASSUME NEW k \in 0..m
        PROVE  After[k] = IF k = 0 THEN beliefs ELSE Believe(After[k - 1], statements[k])
    BY <1>10, Zenon
  <2>2. QED
    BY <1>1, <1>5, <2>1
<1> DEFINE T == {k \in 0..m : After[k] = f[k]}
<1>12. T = 0..m
  <2>1. T \in SUBSET (0..m) /\ 0 \in T
    BY <1>1, <1>7, <1>11
  <2>2. ASSUME NEW k \in T, k < m PROVE k + 1 \in T
    <3>1. k + 1 \in 1..m /\ After[k] = f[k] /\ (k + 1) - 1 = k
      BY <1>1, <2>2
    <3>2. After[k + 1] = f[k + 1]
      BY <1>8, <1>11, <3>1
    <3>3. QED
      BY <3>1, <3>2
  <2> HIDE DEF T
  <2>3. QED
    BY <1>1, <2>1, <2>2, UptoInduction
<1>13. After[m] = f[m]
  BY <1>1, <1>12
<1>14. QED
  BY <1>4, <1>5, <1>7, <1>8, <1>13 DEF m, S

LEMMA NextPattern ==
    ASSUME NEW text \in Texts, NEW n \in 1..Len(text), NEW c \in 1..Len(Patterns),
           NEW seen, HeardSoFar(text, n, c - 1, seen)
    PROVE  HeardSoFar(text, n, c, HearPattern(seen, Patterns[c], text[n]))
<1> DEFINE p == Patterns[c]
           s == Stated(p, text[n][p])
           new == text[n][p] \notin {Silent, Blank}
           next == HearPattern(seen, p, text[n])
           Made(m, x) == MadeAt(text, n, c - 1, m, x)
           MadeNow(m, x) == MadeAt(text, n, c, m, x)
<1>1. next \in Seq(Statements)
  BY TextsAssumption, HearPatternType DEF Sentences, HeardSoFar
<1>2. Len(Patterns) \in Nat /\ n \in Nat \ {0} /\ n \in 1..n
  BY PatternsAssumption, TextsAssumption
<1>3. ASSUME NEW m, NEW x PROVE MadeNow(m, x) <=> Made(m, x) \/ (m = n /\ new /\ x = s)
  <2>1. CASE m = n
    BY <1>2, <2>1 DEF MadeAt, States
  <2>2. CASE m # n
    BY <2>2 DEF MadeAt
  <2>3. QED
    BY <2>1, <2>2
<1>4. ASSUME NEW m, NEW x, MadeNow(m, x) PROVE m \in 1..n
  BY <1>4 DEF MadeAt
<1>5. /\ \A x : x \in ToSet(seen) <=> \E m \in 1..n : Made(m, x)
      /\ \A i, j \in DOMAIN seen : i < j =>
            seen[i] # seen[j] /\ \E l, m \in 1..n : l <= m /\ Made(l, seen[i]) /\ Made(m, seen[j])
      /\ seen \in Seq(Statements)
  BY DEF HeardSoFar
<1>6. next = IF ~new \/ s \in ToSet(seen) THEN seen ELSE Append(seen, s)
  BY DEF HearPattern
<1> HIDE DEF Made, MadeNow, s, new, p, next
<1>7. /\ \A x : x \in ToSet(next) <=> \E m \in 1..n : MadeNow(m, x)
      /\ \A i, j \in DOMAIN next : i < j =>
            next[i] # next[j] /\ \E l, m \in 1..n : l <= m /\ MadeNow(l, next[i]) /\ MadeNow(m, next[j])
  <2>1. CASE ~new \/ s \in ToSet(seen)
    BY <1>2, <1>3, <1>5, <1>6, <2>1
  <2>2. CASE new /\ s \notin ToSet(seen)
    <3>1. /\ DOMAIN next = 1..Len(seen) + 1
          /\ DOMAIN seen = 1..Len(seen)
          /\ next[Len(seen) + 1] = s
          /\ \A i \in DOMAIN seen : next[i] = seen[i]
          /\ Len(seen) \in Nat
      BY <1>5, <1>6, <2>2
    <3>2. ToSet(next) = ToSet(seen) \cup {s}
      BY <3>1 DEF ToSet
    <3>3. ASSUME NEW x PROVE x \in ToSet(next) <=> \E m \in 1..n : MadeNow(m, x)
      BY <1>2, <1>3, <1>5, <2>2, <3>2
    <3>4. ASSUME NEW i \in DOMAIN next, NEW j \in DOMAIN next, i < j
          PROVE  next[i] # next[j] /\ \E l, m \in 1..n : l <= m /\ MadeNow(l, next[i]) /\ MadeNow(m, next[j])
      <4>1. CASE j \in DOMAIN seen
        <5>1. i \in DOMAIN seen
          BY <3>1, <3>4, <4>1
        <5>2. QED
          BY <1>3, <1>5, <3>1, <3>4, <4>1, <5>1
      <4>2. CASE j = Len(seen) + 1
        <5>1. i \in DOMAIN seen /\ next[i] = seen[i] /\ next[j] = s
          BY <3>1, <3>4, <4>2
        <5>2. seen[i] \in ToSet(seen)
          BY <5>1 DEF ToSet
        <5>3. PICK l \in 1..n : Made(l, seen[i])
          BY <1>5, <5>2
        <5>4. MadeNow(l, next[i]) /\ MadeNow(n, next[j]) /\ l <= n
          BY <1>2, <1>3, <2>2, <5>1, <5>3
        <5>5. QED
          BY <1>2, <2>2, <5>1, <5>2, <5>4
      <4>3. QED
        BY <3>1, <4>1, <4>2
    <3>5. QED
      BY <3>3, <3>4
  <2>3. QED
    BY <2>1, <2>2
<1>8. QED
  BY <1>1, <1>7 DEF HeardSoFar, MadeNow, next, p

LEMMA NextSentence ==
    ASSUME NEW text \in Texts, NEW n \in 1..Len(text), NEW seen,
           HeardSoFar(text, n, 0, seen)
    PROVE  HeardSoFar(text, n, Len(Patterns), HearSentence(seen, text[n]))
<1> DEFINE m == Len(Patterns)
<1>1. m \in Nat /\ seen \in Seq(Statements) /\ text[n] \in Sentences
  BY PatternsAssumption, TextsAssumption DEF HeardSoFar, Sentences
<1>2. PICK f : /\ f[0] = seen
               /\ \A k \in 1..m : f[k] = HearPattern(f[k - 1], Patterns[k], text[n])
               /\ HearSentence(seen, text[n]) = f[m]
  BY <1>1, SentenceLoop
<1> DEFINE T == {k \in 0..m : HeardSoFar(text, n, k, f[k])}
<1>3. T = 0..m
  <2>1. T \in SUBSET (0..m) /\ 0 \in T
    BY <1>1, <1>2
  <2>2. ASSUME NEW k \in T, k < m PROVE k + 1 \in T
    <3>1. k + 1 \in 1..m /\ HeardSoFar(text, n, (k + 1) - 1, f[(k + 1) - 1])
      BY <1>1, <2>2
    <3>2. HeardSoFar(text, n, k + 1, f[k + 1])
      BY <1>2, <3>1, NextPattern
    <3>3. QED
      BY <3>1, <3>2
  <2> HIDE DEF T
  <2>3. QED
    BY <1>1, <2>1, <2>2, UptoInduction
<1>4. m \in T
  BY <1>1, <1>3
<1>5. QED
  BY <1>2, <1>4

LEMMA BetweenSentences ==
    ASSUME NEW text \in Texts, NEW n \in 0..Len(text) - 1, NEW seen,
           HeardSoFar(text, n, Len(Patterns), seen)
    PROVE  HeardSoFar(text, n + 1, 0, seen)
<1>1. n \in Nat
  BY TextsAssumption
<1>2. ASSUME NEW m, NEW x
      PROVE  MadeAt(text, n + 1, 0, m, x) <=> MadeAt(text, n, Len(Patterns), m, x)
  BY <1>1 DEF MadeAt, States
<1>3. ASSUME NEW m, NEW x, MadeAt(text, n, Len(Patterns), m, x) PROVE m \in 1..n
  BY <1>3 DEF MadeAt
<1>4. 1..n \subseteq 1..n + 1
  BY <1>1
<1>5. QED
  BY <1>2, <1>3, <1>4 DEF HeardSoFar

\* What the patterns find in a text.
LEMMA Heard ==
    ASSUME NEW text \in Texts
    PROVE  HeardSoFar(text, Len(text), Len(Patterns), ByPatterns(text))
<1> DEFINE m == Len(text)
<1>1. m \in Nat
  BY TextsAssumption
<1>2. PICK f : /\ f[0] = <<>>
               /\ \A k \in 1..m : f[k] = HearSentence(f[k - 1], text[k])
               /\ ByPatterns(text) = f[m]
  BY TextLoop
<1> DEFINE T == {k \in 0..m : HeardSoFar(text, k, Len(Patterns), f[k])}
<1>3. T = 0..m
  <2>1. T \in SUBSET (0..m) /\ 0 \in T
    <3>1. ASSUME NEW k, NEW x PROVE ~ MadeAt(text, 0, Len(Patterns), k, x)
      BY DEF MadeAt
    <3>2. HeardSoFar(text, 0, Len(Patterns), <<>>)
      BY <3>1 DEF HeardSoFar, ToSet
    <3>3. QED
      BY <1>1, <1>2, <3>2
  <2>2. ASSUME NEW k \in T, k < m PROVE k + 1 \in T
    <3>1. k + 1 \in 1..m /\ k \in 0..m - 1 /\ HeardSoFar(text, k, Len(Patterns), f[(k + 1) - 1])
      BY <1>1, <2>2
    <3>2. HeardSoFar(text, k + 1, Len(Patterns), f[k + 1])
      BY <1>2, <3>1, NextSentence, BetweenSentences
    <3>3. QED
      BY <3>1, <3>2
  <2> HIDE DEF T
  <2>3. QED
    BY <1>1, <2>1, <2>2, UptoInduction
<1>4. m \in T
  BY <1>1, <1>3
<1>5. QED
  BY <1>2, <1>4

------------------------------------------------------------------------------
(* What a model lists *)

\* What was listed of the first n items: the statements among them; after each come the
\* statements among the items after it.
ListedSoFar(answer, n, listed) ==
    /\ listed \in Seq(Statements)
    /\ \A i \in DOMAIN listed : \E m \in 1..n : answer[m] = listed[i]
    /\ \A m \in 1..n : answer[m] \in Statements =>
          \E i \in DOMAIN listed :
              /\ listed[i] = answer[m]
              /\ \A j \in DOMAIN listed : j > i => \E l \in m + 1..n : answer[l] = listed[j]

LEMMA NextItem ==
    ASSUME NEW answer \in Answers, NEW n \in 1..Len(answer), NEW listed,
           ListedSoFar(answer, n - 1, listed)
    PROVE  ListedSoFar(answer, n, TakeItem(listed, answer[n]))
<1> DEFINE x == answer[n]
           next == TakeItem(listed, x)
<1>1. n \in Nat \ {0} /\ listed \in Seq(Statements)
  BY AnswersAssumption DEF Prose, ListedSoFar
<1>2. next = IF x \in Statements THEN Append(listed, x) ELSE listed
  BY DEF TakeItem
<1> HIDE DEF next
<1>3. CASE x \notin Statements
  <2>1. next = listed
    BY <1>2, <1>3
  <2>2. ASSUME NEW m \in 1..n, answer[m] \in Statements
        PROVE  m \in 1..n - 1 /\ m + 1..n - 1 \subseteq m + 1..n
    BY <1>1, <1>3, <2>2
  <2>3. QED
    BY <1>1, <1>3, <2>1, <2>2 DEF ListedSoFar, next
<1>4. CASE x \in Statements
  <2>1. /\ next \in Seq(Statements)
        /\ DOMAIN next = 1..Len(listed) + 1
        /\ DOMAIN listed = 1..Len(listed)
        /\ next[Len(listed) + 1] = x
        /\ \A i \in DOMAIN listed : next[i] = listed[i]
        /\ Len(listed) \in Nat
    BY <1>1, <1>2, <1>4
  <2>2. ASSUME NEW i \in DOMAIN next PROVE \E m \in 1..n : answer[m] = next[i]
    <3>1. CASE i \in DOMAIN listed
      BY <1>1, <2>1, <3>1 DEF ListedSoFar
    <3>2. CASE i = Len(listed) + 1
      BY <1>1, <2>1, <3>2
    <3>3. QED
      BY <2>1, <3>1, <3>2
  <2>3. ASSUME NEW m \in 1..n, answer[m] \in Statements
        PROVE  \E i \in DOMAIN next :
                   /\ next[i] = answer[m]
                   /\ \A j \in DOMAIN next : j > i => \E l \in m + 1..n : answer[l] = next[j]
    <3>1. CASE m = n
      <4>1. Len(listed) + 1 \in DOMAIN next /\ next[Len(listed) + 1] = answer[m]
        BY <2>1, <3>1
      <4>2. \A j \in DOMAIN next : ~ (j > Len(listed) + 1)
        BY <2>1
      <4>3. QED
        BY <4>1, <4>2
    <3>2. CASE m # n
      <4>1. m \in 1..n - 1 /\ n \in m + 1..n
        BY <1>1, <3>2
      <4>2. PICK i \in DOMAIN listed :
                /\ listed[i] = answer[m]
                /\ \A j \in DOMAIN listed : j > i => \E l \in m + 1..n - 1 : answer[l] = listed[j]
        BY <2>3, <4>1 DEF ListedSoFar
      <4>3. i \in DOMAIN next /\ next[i] = answer[m]
        BY <2>1, <4>2
      <4>4. ASSUME NEW j \in DOMAIN next, j > i PROVE \E l \in m + 1..n : answer[l] = next[j]
        <5>1. CASE j \in DOMAIN listed
          <6>1. PICK l \in m + 1..n - 1 : answer[l] = listed[j]
            BY <4>2, <4>4, <5>1
          <6>2. l \in m + 1..n
            BY <1>1
          <6>3. QED
            BY <2>1, <5>1, <6>1, <6>2
        <5>2. CASE j = Len(listed) + 1
          BY <2>1, <4>1, <5>2
        <5>3. QED
          BY <2>1, <5>1, <5>2
      <4>5. QED
        BY <4>3, <4>4
    <3>3. QED
      BY <3>1, <3>2
  <2>4. QED
    BY <2>1, <2>2, <2>3 DEF ListedSoFar, next
<1>5. QED
  BY <1>3, <1>4

LEMMA Listed ==
    ASSUME NEW answer \in Answers
    PROVE  ListedSoFar(answer, Len(answer), ByModel(answer))
<1> DEFINE m == Len(answer)
<1>1. m \in Nat
  BY AnswersAssumption DEF Prose
<1>2. PICK f : /\ f[0] = <<>>
               /\ \A k \in 1..m : f[k] = TakeItem(f[k - 1], answer[k])
               /\ ByModel(answer) = f[m]
  BY AnswerLoop
<1> DEFINE T == {k \in 0..m : ListedSoFar(answer, k, f[k])}
<1>3. T = 0..m
  <2>1. T \in SUBSET (0..m) /\ 0 \in T
    <3>1. ListedSoFar(answer, 0, <<>>)
      BY DEF ListedSoFar
    <3>2. QED
      BY <1>1, <1>2, <3>1
  <2>2. ASSUME NEW k \in T, k < m PROVE k + 1 \in T
    <3>1. k + 1 \in 1..m /\ ListedSoFar(answer, (k + 1) - 1, f[(k + 1) - 1])
      BY <1>1, <2>2
    <3>2. ListedSoFar(answer, k + 1, f[k + 1])
      BY <1>2, <3>1, NextItem
    <3>3. QED
      BY <3>1, <3>2
  <2> HIDE DEF T
  <2>3. QED
    BY <1>1, <2>1, <2>2, UptoInduction
<1>4. m \in T
  BY <1>1, <1>3
<1>5. QED
  BY <1>2, <1>4

------------------------------------------------------------------------------
(* What is believed *)

\* The statements about p among the first k, and what became of the beliefs about it, when
\* all of them retire what is believed or none does.
Spoken(statements, p, k) == {i \in 1..k : statements[i].predicate = p}

BelievedSoFar(beliefs, statements, p, k, b) ==
    /\ b \in Beliefs
    /\ IsSingle(p) =>
          /\ \/ b[p] = beliefs[p] /\ \A i \in Spoken(statements, p, k) : statements[i].object \in beliefs[p]
             \/ \E o \in Objects : b[p] = {o}
          /\ \A i \in Spoken(statements, p, k) :
                (\A j \in Spoken(statements, p, k) : j <= i) => statements[i].object \in b[p]
    /\ ~IsSingle(p) =>
          b[p] = beliefs[p] \cup {statements[i].object : i \in Spoken(statements, p, k)}

LEMMA NextBelief ==
    ASSUME NEW beliefs \in Beliefs, NEW statements \in Seq(Statements), NEW p \in Predicates,
           NEW k \in 1..Len(statements), NEW b, BelievedSoFar(beliefs, statements, p, k - 1, b),
           statements[k].predicate = p => Retires(statements[k]) = IsSingle(p)
    PROVE  BelievedSoFar(beliefs, statements, p, k, Believe(b, statements[k]))
<1> DEFINE s == statements[k]
           next == Believe(b, s)
           Then == Spoken(statements, p, k - 1)
           Now == Spoken(statements, p, k)
<1>1. k \in Nat \ {0} /\ s \in Statements /\ b \in Beliefs /\ next \in Beliefs
  BY BelieveType DEF BelievedSoFar
<1>2. s.predicate \in Predicates /\ s.object \in Objects
  BY <1>1 DEF Statements
<1>3. CASE s.predicate # p
  <2>1. Now = Then
    BY <1>1, <1>3 DEF Spoken
  <2>2. next[p] = b[p]
    BY <1>1, <1>2, <1>3 DEF Believe, Beliefs
  <2>3. QED
    BY <1>1, <2>1, <2>2 DEF BelievedSoFar
<1>4. CASE s.predicate = p
  <2>1. Now = Then \cup {k} /\ \A i \in Then : i < k /\ i \in Nat
    BY <1>1, <1>4 DEF Spoken
  <2>2. next[p] = IF s.object \in b[p] THEN b[p]
                  ELSE IF IsSingle(p) THEN {s.object} ELSE b[p] \cup {s.object}
    BY <1>1, <1>4 DEF Believe, Beliefs
  <2>3. s.object \in next[p]
    BY <2>2
  <2> HIDE DEF Now, Then, next
  <2>4. ASSUME NEW i \in Now, \A j \in Now : j <= i PROVE i = k
    <3>1. k <= i /\ (i \in Then => i < k /\ i \in Nat)
      BY <2>1, <2>4
    <3>2. QED
      BY <1>1, <2>1, <3>1
  <2>5. ASSUME IsSingle(p)
        PROVE  \/ next[p] = beliefs[p] /\ \A i \in Now : statements[i].object \in beliefs[p]
               \/ \E o \in Objects : next[p] = {o}
    BY <1>2, <2>1, <2>2, <2>5 DEF BelievedSoFar, Then
  <2>6. ASSUME ~IsSingle(p)
        PROVE  next[p] = beliefs[p] \cup {statements[i].object : i \in Now}
    BY <2>1, <2>2, <2>6 DEF BelievedSoFar, Then
  <2>7. QED
    BY <1>1, <2>3, <2>4, <2>5, <2>6 DEF BelievedSoFar, Now, next
<1>5. QED
  BY <1>3, <1>4

LEMMA Believed ==
    ASSUME NEW beliefs \in Beliefs, NEW statements \in Seq(Statements), NEW p \in Predicates,
           \A k \in DOMAIN statements :
               statements[k].predicate = p => Retires(statements[k]) = IsSingle(p)
    PROVE  BelievedSoFar(beliefs, statements, p, Len(statements), BelieveAll(beliefs, statements))
<1> DEFINE m == Len(statements)
<1>1. m \in Nat
  OBVIOUS
<1>2. PICK f : /\ f[0] = beliefs
               /\ \A k \in 1..m : f[k] = Believe(f[k - 1], statements[k])
               /\ BelieveAll(beliefs, statements) = f[m]
  BY BelieveLoop
<1> DEFINE T == {k \in 0..m : BelievedSoFar(beliefs, statements, p, k, f[k])}
<1>3. T = 0..m
  <2>1. T \in SUBSET (0..m) /\ 0 \in T
    <3>1. Spoken(statements, p, 0) = {}
      BY DEF Spoken
    <3>2. BelievedSoFar(beliefs, statements, p, 0, beliefs)
      BY <3>1 DEF BelievedSoFar
    <3>3. QED
      BY <1>1, <1>2, <3>2
  <2>2. ASSUME NEW k \in T, k < m PROVE k + 1 \in T
    <3>1. k + 1 \in 1..m /\ BelievedSoFar(beliefs, statements, p, (k + 1) - 1, f[(k + 1) - 1])
      BY <1>1, <2>2
    <3>2. k + 1 \in DOMAIN statements
      BY <3>1
    <3>3. BelievedSoFar(beliefs, statements, p, k + 1, f[k + 1])
      BY <1>2, <3>1, <3>2, NextBelief
    <3>4. QED
      BY <3>1, <3>3
  <2> HIDE DEF T
  <2>3. QED
    BY <1>1, <2>1, <2>2, UptoInduction
<1>4. m \in T
  BY <1>1, <1>3
<1>5. QED
  BY <1>2, <1>4

------------------------------------------------------------------------------
(* The last word *)

Extracted ==
    \/ message.by = "patterns" /\ message.words \in Texts /\ found = ByPatterns(message.words)
    \/ message.by = "model" /\ message.words \in Answers /\ found = ByModel(message.words)

HearingInv ==
    /\ believed \in Beliefs
    /\ before \in Beliefs
    /\ ear \in {"store", "stored"} => Extracted
    /\ ear = "store" => before = believed
    /\ ear = "stored" => believed = BelieveAll(before, found)

\* The statements found about p are those that the message makes, and the last it makes
\* is the last found, unless patterns found it before.
Faithful(p) ==
    /\ found \in Seq(Statements)
    /\ \A i \in DOMAIN found :
          found[i].predicate = p => \E n \in Times(p) : found[i] = SaidAt(n, p)
    /\ \A n \in Times(p) : \E i \in DOMAIN found : found[i] = SaidAt(n, p)
    /\ \A last \in Times(p) : (\A n \in Times(p) : n <= last) =>
          \/ IsText /\ \E n \in Times(p) : n < last /\ SaidAt(n, p) = SaidAt(last, p)
          \/ \E i \in DOMAIN found :
                /\ found[i] = SaidAt(last, p)
                /\ \A j \in DOMAIN found : j > i => found[j].predicate # p
    /\ \A n \in Times(p) : SaidAt(n, p).predicate = p

LEMMA FaithfulText ==
    ASSUME message.by = "patterns", message.words \in Texts,
           found = ByPatterns(message.words), NEW p \in Predicates
    PROVE  Faithful(p)
<1> DEFINE text == message.words
           len == Len(text)
           Made(m, s) == MadeAt(text, len, Len(Patterns), m, s)
<1>1. len \in Nat /\ DOMAIN text = 1..len /\ Len(Patterns) \in Nat /\ DOMAIN Patterns = 1..Len(Patterns)
  BY TextsAssumption, PatternsAssumption
<1>2. /\ found \in Seq(Statements)
      /\ \A s : s \in ToSet(found) <=> \E m \in 1..len : Made(m, s)
      /\ \A i, j \in DOMAIN found : i < j =>
            found[i] # found[j] /\ \E l, m \in 1..len : l <= m /\ Made(l, found[i]) /\ Made(m, found[j])
  BY Heard DEF HeardSoFar
<1>3. IsText
  BY DEF IsText
<1>4. ASSUME NEW s, s.predicate = p, NEW m \in 1..len, Made(m, s)
      PROVE  m \in Times(p) /\ s = SaidAt(m, p)
  <2>1. PICK k \in 1..Len(Patterns) : text[m][Patterns[k]] \notin {Silent, Blank} /\ s = Stated(Patterns[k], text[m][Patterns[k]])
    BY <1>1, <1>4 DEF MadeAt, States
  <2>2. Patterns[k] = p
    BY <1>4, <2>1 DEF Stated
  <2>3. p \in ToSet(Patterns)
    BY <1>1, <2>2 DEF ToSet
  <2>4. QED
    BY <1>1, <1>3, <2>1, <2>2, <2>3 DEF Times, SaysAt, SaidAt
<1>5. ASSUME NEW n \in Times(p)
      PROVE  n \in 1..len /\ Made(n, SaidAt(n, p)) /\ SaidAt(n, p).predicate = p
  <2>1. n \in 1..len /\ p \in ToSet(Patterns) /\ text[n][p] \notin {Silent, Blank} /\ SaidAt(n, p) = Stated(p, text[n][p])
    BY <1>1, <1>3 DEF Times, SaysAt, SaidAt
  <2>2. PICK k \in 1..Len(Patterns) : Patterns[k] = p
    BY <1>1, <2>1 DEF ToSet
  <2>3. QED
    BY <1>1, <2>1, <2>2 DEF MadeAt, States, Stated
<1> HIDE DEF Made, len, text
<1>6. ASSUME NEW s PROVE s \in ToSet(found) <=> \E i \in DOMAIN found : found[i] = s
  BY DEF ToSet
<1>7. \A i \in DOMAIN found : found[i].predicate = p => \E n \in Times(p) : found[i] = SaidAt(n, p)
  BY <1>2, <1>4, <1>6
<1>8. \A n \in Times(p) : \E i \in DOMAIN found : found[i] = SaidAt(n, p)
  BY <1>2, <1>5, <1>6
<1>9. ASSUME NEW last \in Times(p), \A n \in Times(p) : n <= last,
             ~ \E n \in Times(p) : n < last /\ SaidAt(n, p) = SaidAt(last, p)
      PROVE  \E i \in DOMAIN found :
                 found[i] = SaidAt(last, p) /\ \A j \in DOMAIN found : j > i => found[j].predicate # p
  <2>1. PICK i \in DOMAIN found : found[i] = SaidAt(last, p)
    BY <1>8
  <2>2. ASSUME NEW j \in DOMAIN found, j > i, found[j].predicate = p PROVE FALSE
    <3>1. i \in Nat /\ j \in Nat /\ i < j
      BY <1>2, <2>2
    <3>2. PICK l \in 1..len, m \in 1..len : l <= m /\ Made(l, found[i]) /\ Made(m, found[j])
      BY <1>2, <3>1
    <3>3. l \in Times(p) /\ SaidAt(l, p) = SaidAt(last, p) /\ m \in Times(p) /\ found[j] = SaidAt(m, p)
      BY <1>4, <1>5, <2>1, <2>2, <3>2
    <3>4. l = last /\ m = last
      BY <1>1, <1>5, <1>9, <3>2, <3>3
    <3>5. found[i] = found[j]
      BY <2>1, <3>3, <3>4
    <3>6. QED
      BY <1>2, <3>1, <3>5
  <2>3. QED
    BY <2>1, <2>2
<1>10. QED
  BY <1>2, <1>3, <1>5, <1>7, <1>8, <1>9 DEF Faithful

LEMMA FaithfulAnswer ==
    ASSUME message.by = "model", message.words \in Answers,
           found = ByModel(message.words), NEW p \in Predicates
    PROVE  Faithful(p)
<1> DEFINE answer == message.words
           len == Len(answer)
<1>1. len \in Nat /\ DOMAIN answer = 1..len
  BY AnswersAssumption DEF Prose
<1>2. /\ found \in Seq(Statements)
      /\ \A i \in DOMAIN found : \E m \in 1..len : answer[m] = found[i]
      /\ \A m \in 1..len : answer[m] \in Statements =>
            \E i \in DOMAIN found :
                /\ found[i] = answer[m]
                /\ \A j \in DOMAIN found : j > i => \E l \in m + 1..len : answer[l] = found[j]
  BY Listed DEF ListedSoFar
<1>3. Times(p) = {n \in 1..len : answer[n] \in Statements /\ answer[n].predicate = p}
  BY <1>1 DEF Times, SaysAt, IsText
<1>4. \A n \in Times(p) : SaidAt(n, p) = answer[n] /\ n \in 1..len /\ answer[n] \in Statements /\ answer[n].predicate = p
  BY <1>3 DEF SaidAt, IsText
<1>5. \A i \in DOMAIN found : found[i] \in Statements
  BY <1>2
<1> HIDE DEF len, answer
<1>6. \A i \in DOMAIN found : found[i].predicate = p => \E n \in Times(p) : found[i] = SaidAt(n, p)
  BY <1>2, <1>3, <1>4, <1>5
<1>7. \A n \in Times(p) : \E i \in DOMAIN found : found[i] = SaidAt(n, p)
  BY <1>2, <1>4
<1>8. ASSUME NEW last \in Times(p), \A n \in Times(p) : n <= last
      PROVE  \E i \in DOMAIN found :
                 found[i] = SaidAt(last, p) /\ \A j \in DOMAIN found : j > i => found[j].predicate # p
  <2>1. PICK i \in DOMAIN found :
            /\ found[i] = answer[last]
            /\ \A j \in DOMAIN found : j > i => \E l \in last + 1..len : answer[l] = found[j]
    BY <1>2, <1>4
  <2>2. ASSUME NEW j \in DOMAIN found, j > i, found[j].predicate = p PROVE FALSE
    <3>1. PICK l \in last + 1..len : answer[l] = found[j]
      BY <2>1, <2>2
    <3>2. last \in 1..len
      BY <1>4
    <3>3. l \in 1..len /\ l > last
      BY <1>1, <3>1, <3>2
    <3>4. l \in Times(p)
      BY <1>3, <1>5, <2>2, <3>1, <3>3
    <3>5. QED
      BY <1>1, <1>8, <3>2, <3>3, <3>4
  <2>3. QED
    BY <1>4, <2>1, <2>2
<1>9. QED
  BY <1>2, <1>4, <1>6, <1>7, <1>8 DEF Faithful

LEMMA LastWord == HearingInv => LastSaidWins
<1>1. SUFFICES ASSUME HearingInv, ear = "stored", NEW p \in Predicates, Times(p) # {}, Unflagged(p)
               PROVE  IF IsSingle(p)
                      THEN /\ \A last \in Times(p) : (\A n \in Times(p) : n <= last) =>
                                  \/ SaidAt(last, p).object \in believed[p]
                                  \/ IsText /\ \E n \in Times(p) : n < last /\ SaidAt(n, p) = SaidAt(last, p)
                           /\ Said(p) \subseteq before[p] \/ \E o \in Objects : believed[p] = {o}
                      ELSE believed[p] = before[p] \cup Said(p)
  BY DEF LastSaidWins
<1>2. Faithful(p)
  BY <1>1, FaithfulText, FaithfulAnswer DEF HearingInv, Extracted
<1>3. found \in Seq(Statements)
  BY <1>2 DEF Faithful
<1>4. \A k \in DOMAIN found : found[k].predicate = p => Retires(found[k]) = IsSingle(p)
  BY <1>1, <1>2 DEF Faithful, Unflagged
<1>5. BelievedSoFar(before, found, p, Len(found), believed)
  BY <1>1, <1>3, <1>4, Believed DEF HearingInv
<1> DEFINE spoken == Spoken(found, p, Len(found))
<1>6. spoken = {i \in DOMAIN found : found[i].predicate = p}
  BY <1>3 DEF Spoken
<1> HIDE DEF spoken
<1>7. Said(p) = {found[i].object : i \in spoken}
  <2>1. \A i \in spoken : \E n \in Times(p) : found[i] = SaidAt(n, p)
    BY <1>2, <1>6 DEF Faithful
  <2>2. \A n \in Times(p) : \E i \in spoken : found[i] = SaidAt(n, p)
    BY <1>2, <1>6 DEF Faithful
  <2>3. QED
    BY <2>1, <2>2 DEF Said
<1>8. CASE IsSingle(p)
  <2>1. Said(p) \subseteq before[p] \/ \E o \in Objects : believed[p] = {o}
    BY <1>5, <1>7, <1>8 DEF BelievedSoFar, spoken
  <2>2. ASSUME NEW last \in Times(p), \A n \in Times(p) : n <= last,
               ~ (IsText /\ \E n \in Times(p) : n < last /\ SaidAt(n, p) = SaidAt(last, p))
        PROVE  SaidAt(last, p).object \in believed[p]
    <3>1. PICK i \in DOMAIN found :
              found[i] = SaidAt(last, p) /\ \A j \in DOMAIN found : j > i => found[j].predicate # p
      BY <1>2, <2>2 DEF Faithful
    <3>2. i \in spoken
      BY <1>2, <1>6, <3>1 DEF Faithful
    <3>3. \A j \in spoken : j <= i
      BY <1>3, <1>6, <3>1
    <3>4. QED
      BY <1>5, <1>8, <3>1, <3>2, <3>3 DEF BelievedSoFar, spoken
  <2>3. QED
    BY <1>8, <2>1, <2>2
<1>9. CASE ~IsSingle(p)
  BY <1>5, <1>7, <1>9 DEF BelievedSoFar, spoken
<1>10. QED
  BY <1>8, <1>9

LEMMA HearingIsInductive == HearSpec => []HearingInv
<1>1. HearInit => HearingInv
  BY DEF HearInit, HearingInv, Beliefs
<1>2. HearingInv /\ [HearNext]_hearing => HearingInv'
  <2> SUFFICES ASSUME HearingInv, [HearNext]_hearing PROVE HearingInv'
    OBVIOUS
  <2> USE DEF HearingInv
  <2>1. ASSUME NEW text \in Texts, HearText(text) PROVE HearingInv'
    BY <2>1 DEF HearText, Hear, Extracted
  <2>2. ASSUME NEW answer \in Answers, HearAnswer(answer) PROVE HearingInv'
    BY <2>2 DEF HearAnswer, Hear, Extracted
  <2>3. ASSUME NEW answer \in Answers, HearNothing(answer) PROVE HearingInv'
    BY <2>3 DEF HearNothing
  <2>4. CASE Store
    <3>1. found \in Seq(Statements)
      <4>1. CASE message.words \in Texts /\ found = ByPatterns(message.words)
        BY <4>1, Heard DEF HeardSoFar
      <4>2. CASE message.words \in Answers /\ found = ByModel(message.words)
        BY <4>2, Listed DEF ListedSoFar
      <4>3. QED
        BY <2>4, <4>1, <4>2 DEF Store, Extracted
    <3>2. BelieveAll(believed, found) \in Beliefs
      <4>1. Len(found) \in 0..Len(found)
        BY <3>1
      <4>2. QED
        BY <3>1, <4>1, BelieveLoop
    <3>3. QED
      BY <2>4, <3>2 DEF Store, Extracted, BelieveAll, Believe, Retires, IsSingle
  <2>5. CASE Return
    BY <2>5 DEF Return, Beliefs
  <2>6. CASE UNCHANGED hearing
    BY <2>6 DEF hearing, Extracted, BelieveAll, Believe, Retires, IsSingle
  <2>7. QED
    BY <2>1, <2>2, <2>3, <2>4, <2>5, <2>6 DEF HearNext
<1>3. QED
  BY <1>1, <1>2, PTL DEF HearSpec

\* LastSaidWins (ingest_message with HeuristicFactExtractor or LLMFactExtractor): after a
\* message the last object it states of a single-valued predicate is believed, alone once
\* the message said anything new, unless the patterns had found the same statement
\* earlier in it; of an additive predicate all that was said and believed is believed.
THEOREM LastWordTheorem == IntakeSpec => []LastSaidWins
<1>1. HearSpec => []LastSaidWins
  BY HearingIsInductive, LastWord, PTL
<1>2. QED
  BY <1>1, IntakeTakesEither, PTL

------------------------------------------------------------------------------
(* The passes over a document *)

Lines == SUBSET (1..Len(doc))

LEMMA SizeIsPositive ==
    ASSUME doc \in Seq(Kinds), NEW lines \in Lines
    PROVE  Size(lines) \in Nat \ {0}
<1> DEFINE f == [i \in DOMAIN doc |-> LineSize[doc[i]] + 1]
<1>1. f \in [1..Len(doc) -> Int] /\ IsFiniteSet(1..Len(doc))
  <2>1. \A i \in 1..Len(doc) : doc[i] \in Kinds
    OBVIOUS
  <2>2. \A i \in 1..Len(doc) : LineSize[doc[i]] + 1 \in Int
    BY <2>1, SizesAssumption
  <2>3. DOMAIN doc = 1..Len(doc) /\ Len(doc) \in Nat
    OBVIOUS
  <2>4. IsFiniteSet(1..Len(doc))
    BY <2>3, FS_Interval
  <2>5. QED
    BY <2>2, <2>3, <2>4
<1>2. SumFunctionOnSet(f, lines) \in Int
  BY <1>1, SumEquation DEF Lines
<1>3. QED
  BY <1>2 DEF Size, Tokens, Width

Holding == [out : Seq(Lines), buffer : Lines, held : Nat]

LEMMA EmptyType == Empty \in Holding
BY DEF Empty, Holding, Lines

LEMMA FlushType ==
    ASSUME NEW r \in Holding
    PROVE  Flush(r) \in Holding
<1>1. {} \in Lines
  BY DEF Lines
<1>2. r.out \in Seq(Lines) /\ r.buffer \in Lines
  BY DEF Holding
<1>3. Append(r.out, r.buffer) \in Seq(Lines)
  BY <1>2
<1>4. QED
  BY <1>1, <1>3 DEF Flush, Holding, Empty

LEMMA HoldType ==
    ASSUME doc \in Seq(Kinds), NEW r \in Holding, NEW lines \in Lines
    PROVE  Hold(r, lines) \in Holding
<1> DEFINE kept == IF Overflows(r, lines) THEN Flush(r) ELSE r
<1>1. kept \in Holding
  BY FlushType
<1>2. Size(lines) \in Nat
  BY SizeIsPositive
<1>3. Hold(r, lines) = [kept EXCEPT !.buffer = @ \cup lines, !.held = @ + Size(lines)]
  BY DEF Hold
<1> HIDE DEF kept
<1>4. kept.held + Size(lines) \in Nat
  BY <1>1, <1>2 DEF Holding
<1>5. kept.buffer \cup lines \in Lines
  <2>1. kept.buffer \in Lines
    BY <1>1 DEF Holding
  <2>2. QED
    BY <2>1 DEF Lines
<1>6. QED
  BY <1>1, <1>3, <1>4, <1>5 DEF Holding

LEMMA RunType ==
    ASSUME NEW lines \in Lines, NEW starts, NEW n
    PROVE  Run(lines, starts, n) \in Lines
BY DEF Run, Lines

\* The loop over the sentences of a paragraph.
LEMMA SentencesLoop ==
    ASSUME doc \in Seq(Kinds), NEW lines \in Lines
    PROVE  \E f : /\ f \in [0..Len(doc) -> Holding]
                  /\ f[0] = Empty
                  /\ \A n \in 1..Len(doc) : f[n] = (IF n \in SentenceStarts(lines) THEN Hold(f[n - 1], Run(lines, SentenceStarts(lines), n)) ELSE f[n - 1])
                  /\ HoldSentences(lines) = f[Len(doc)]
<1> DEFINE m == Len(doc)
           S == Holding
           first == Empty
           step == [n \in 1..m |-> [u \in S |-> (IF n \in SentenceStarts(lines) THEN Hold(u, Run(lines, SentenceStarts(lines), n)) ELSE u)]]
           Loop(g) == [n \in 0..m |-> IF n = 0 THEN Empty ELSE (IF n \in SentenceStarts(lines) THEN Hold(g[n - 1], Run(lines, SentenceStarts(lines), n)) ELSE g[n - 1])]
           Held == CHOOSE g : g = Loop(g)
<1>1. m \in Nat /\ first \in S
  BY EmptyType
<1>2. step \in Steps(1..m, S)
  <2>1. ASSUME NEW n \in 1..m, NEW u \in S PROVE (IF n \in SentenceStarts(lines) THEN Hold(u, Run(lines, SentenceStarts(lines), n)) ELSE u) \in S
    BY <2>1, HoldType, RunType
  <2>2. QED
    BY <2>1 DEF Steps
<1>3. \A n \in 1..m : \A u \in S : step[n][u] = (IF n \in SentenceStarts(lines) THEN Hold(u, Run(lines, SentenceStarts(lines), n)) ELSE u)
  OBVIOUS
<1>4. HoldSentences(lines) = Held[m]
  BY DEF HoldSentences
<1>5. first = Empty
  OBVIOUS
<1> HIDE DEF first, step, m, S
<1>6. PICK f : CountsTo(f, m, S, first, step)
  BY <1>1, <1>2, UptoRecursion
<1>7. f \in [0..m -> S] /\ f[0] = first /\ \A n \in 1..m : f[n] = step[n][f[n - 1]]
  BY <1>6 DEF CountsTo
<1>8. ASSUME NEW n \in 1..m PROVE f[n] = (IF n \in SentenceStarts(lines) THEN Hold(f[n - 1], Run(lines, SentenceStarts(lines), n)) ELSE f[n - 1])
  <2>1. n - 1 \in 0..m
    BY <1>1
  <2>2. QED
    BY <1>3, <1>7, <2>1
<1>9. f = Loop(f)
  BY <1>1, <1>5, <1>7, <1>8
<1>10. Held = Loop(Held)
  BY <1>9
<1> HIDE DEF Held
<1>11. Held[0] = first /\ \A n \in 1..m : Held[n] = (IF n \in SentenceStarts(lines) THEN Hold(Held[n - 1], Run(lines, SentenceStarts(lines), n)) ELSE Held[n - 1])
  <2>1. ASSUME NEW n \in 0..m
        PROVE  Held[n] = IF n = 0 THEN Empty ELSE (IF n \in SentenceStarts(lines) THEN Hold(Held[n - 1], Run(lines, SentenceStarts(lines), n)) ELSE Held[n - 1])
    BY <1>10, Zenon
  <2>2. QED
    BY <1>1, <1>5, <2>1
<1> DEFINE T == {n \in 0..m : Held[n] = f[n]}
<1>12. T = 0..m
  <2>1. T \in SUBSET (0..m) /\ 0 \in T
    BY <1>1, <1>7, <1>11
  <2>2. ASSUME NEW n \in T, n < m PROVE n + 1 \in T
    <3>1. n + 1 \in 1..m /\ Held[n] = f[n] /\ (n + 1) - 1 = n
      BY <1>1, <2>2
    <3>2. Held[n + 1] = f[n + 1]
      BY <1>8, <1>11, <3>1
    <3>3. QED
      BY <3>1, <3>2
  <2> HIDE DEF T
  <2>3. QED
    BY <1>1, <2>1, <2>2, UptoInduction
<1>13. Held[m] = f[m]
  BY <1>1, <1>12
<1>14. QED
  BY <1>4, <1>5, <1>7, <1>8, <1>13 DEF m, S

LEMMA PiecesType ==
    ASSUME doc \in Seq(Kinds), NEW lines \in Lines
    PROVE  Pieces(lines) \in Seq(Lines)
<1>1. Len(doc) \in 0..Len(doc)
  OBVIOUS
<1>2. HoldSentences(lines) \in Holding
  BY <1>1, SentencesLoop
<1>3. QED
  BY <1>2, FlushType DEF Pieces, Holding

LEMMA PlaceType ==
    ASSUME doc \in Seq(Kinds), NEW r \in Holding, NEW block \in Lines
    PROVE  Place(r, block) \in Holding
<1>1. [r EXCEPT !.out = @ \o Pieces(block)] \in Holding
  <2>1. r.out \in Seq(Lines) /\ Pieces(block) \in Seq(Lines)
    BY PiecesType DEF Holding
  <2>2. r.out \o Pieces(block) \in Seq(Lines)
    BY <2>1
  <2>3. QED
    BY <2>2 DEF Holding
<1>2. QED
  BY <1>1, HoldType, FlushType DEF Place

\* The loop over the blocks of a section.
LEMMA BlocksLoop ==
    ASSUME doc \in Seq(Kinds), NEW lines \in Lines
    PROVE  \E f : /\ f \in [0..Len(doc) -> Holding]
                  /\ f[0] = Empty
                  /\ \A n \in 1..Len(doc) : f[n] = (IF n \in BlockStarts(lines) THEN Place(f[n - 1], Run(lines, BlockStarts(lines), n)) ELSE f[n - 1])
                  /\ PlaceBlocks(lines) = f[Len(doc)]
<1> DEFINE m == Len(doc)
           S == Holding
           first == Empty
           step == [n \in 1..m |-> [u \in S |-> (IF n \in BlockStarts(lines) THEN Place(u, Run(lines, BlockStarts(lines), n)) ELSE u)]]
           Loop(g) == [n \in 0..m |-> IF n = 0 THEN Empty ELSE (IF n \in BlockStarts(lines) THEN Place(g[n - 1], Run(lines, BlockStarts(lines), n)) ELSE g[n - 1])]
           Placed == CHOOSE g : g = Loop(g)
<1>1. m \in Nat /\ first \in S
  BY EmptyType
<1>2. step \in Steps(1..m, S)
  <2>1. ASSUME NEW n \in 1..m, NEW u \in S PROVE (IF n \in BlockStarts(lines) THEN Place(u, Run(lines, BlockStarts(lines), n)) ELSE u) \in S
    BY <2>1, PlaceType, RunType
  <2>2. QED
    BY <2>1 DEF Steps
<1>3. \A n \in 1..m : \A u \in S : step[n][u] = (IF n \in BlockStarts(lines) THEN Place(u, Run(lines, BlockStarts(lines), n)) ELSE u)
  OBVIOUS
<1>4. PlaceBlocks(lines) = Placed[m]
  BY DEF PlaceBlocks
<1>5. first = Empty
  OBVIOUS
<1> HIDE DEF first, step, m, S
<1>6. PICK f : CountsTo(f, m, S, first, step)
  BY <1>1, <1>2, UptoRecursion
<1>7. f \in [0..m -> S] /\ f[0] = first /\ \A n \in 1..m : f[n] = step[n][f[n - 1]]
  BY <1>6 DEF CountsTo
<1>8. ASSUME NEW n \in 1..m PROVE f[n] = (IF n \in BlockStarts(lines) THEN Place(f[n - 1], Run(lines, BlockStarts(lines), n)) ELSE f[n - 1])
  <2>1. n - 1 \in 0..m
    BY <1>1
  <2>2. QED
    BY <1>3, <1>7, <2>1
<1>9. f = Loop(f)
  BY <1>1, <1>5, <1>7, <1>8
<1>10. Placed = Loop(Placed)
  BY <1>9
<1> HIDE DEF Placed
<1>11. Placed[0] = first /\ \A n \in 1..m : Placed[n] = (IF n \in BlockStarts(lines) THEN Place(Placed[n - 1], Run(lines, BlockStarts(lines), n)) ELSE Placed[n - 1])
  <2>1. ASSUME NEW n \in 0..m
        PROVE  Placed[n] = IF n = 0 THEN Empty ELSE (IF n \in BlockStarts(lines) THEN Place(Placed[n - 1], Run(lines, BlockStarts(lines), n)) ELSE Placed[n - 1])
    BY <1>10, Zenon
  <2>2. QED
    BY <1>1, <1>5, <2>1
<1> DEFINE T == {n \in 0..m : Placed[n] = f[n]}
<1>12. T = 0..m
  <2>1. T \in SUBSET (0..m) /\ 0 \in T
    BY <1>1, <1>7, <1>11
  <2>2. ASSUME NEW n \in T, n < m PROVE n + 1 \in T
    <3>1. n + 1 \in 1..m /\ Placed[n] = f[n] /\ (n + 1) - 1 = n
      BY <1>1, <2>2
    <3>2. Placed[n + 1] = f[n + 1]
      BY <1>8, <1>11, <3>1
    <3>3. QED
      BY <3>1, <3>2
  <2> HIDE DEF T
  <2>3. QED
    BY <1>1, <2>1, <2>2, UptoInduction
<1>13. Placed[m] = f[m]
  BY <1>1, <1>12
<1>14. QED
  BY <1>4, <1>5, <1>7, <1>8, <1>13 DEF m, S

------------------------------------------------------------------------------
(* Runs of lines: each line is in one, and a later run has later lines *)

Opens(lines, starts) ==
    starts \subseteq lines /\ \A i \in lines \ starts : i - 1 \in lines

LEMMA BlocksOpen ==
    ASSUME NEW lines \in Lines
    PROVE  Opens(lines, BlockStarts(lines)) /\ Opens(lines, SentenceStarts(lines))
BY DEF Opens, BlockStarts, SentenceStarts, Cuts, CutsSentence

LEMMA RunHasStart ==
    ASSUME NEW lines \in Lines, NEW starts, Opens(lines, starts), NEW i \in lines, doc \in Seq(Kinds)
    PROVE  \E s \in starts : i \in Run(lines, starts, s)
<1> DEFINE T == {s \in lines : s <= i /\ (s + 1..i) \cap starts = {}}
<1>1. lines \subseteq Nat \ {0} /\ i \in Nat
  BY DEF Lines
<1>2. i \in T /\ T \in SUBSET Nat
  <2>1. i + 1..i = {} /\ i <= i
    BY <1>1
  <2>2. T \subseteq lines
    OBVIOUS
  <2>3. QED
    BY <1>1, <2>1, <2>2
<1>3. PICK s \in T : \A t \in T : s <= t
  <2> HIDE DEF T
  <2>1. QED
    BY <1>2, Least
<1>4. s \in starts
  <2>1. SUFFICES ASSUME s \notin starts PROVE FALSE
    OBVIOUS
  <2>2. s - 1 \in lines /\ s - 1 <= i /\ s \in Nat
    BY <1>1, <2>1 DEF Opens
  <2>3. \A t \in (s - 1) + 1..i : t = s \/ t \in s + 1..i
    BY <1>1, <2>2
  <2>4. s - 1 \in T
    BY <2>1, <2>2, <2>3
  <2>5. QED
    BY <1>3, <2>2, <2>4
<1>5. QED
  BY <1>1, <1>4 DEF Run

LEMMA RunIsUnbroken ==
    ASSUME NEW lines \in Lines, NEW starts, Opens(lines, starts), doc \in Seq(Kinds),
           NEW s \in starts, NEW i \in Run(lines, starts, s)
    PROVE  s..i \subseteq Run(lines, starts, s)
<1>1. lines \subseteq Nat \ {0} /\ i \in lines /\ i >= s /\ s \in lines /\ (s + 1..i) \cap starts = {}
  BY DEF Lines, Run, Opens
<1> DEFINE Gaps == (s..i) \ lines
<1>2. ASSUME Gaps # {} PROVE FALSE
  <2>1. i \in Nat /\ Gaps \in SUBSET (0..i)
    BY <1>1
  <2>2. PICK k \in Gaps : \A l \in Gaps : l <= k
    <3> HIDE DEF Gaps
    <3>1. QED
      BY <1>2, <2>1, Greatest
  <2>3. k + 1 \in s + 1..i
    BY <1>1, <2>1, <2>2
  <2>4. k + 1 \in lines /\ k + 1 \notin starts
    BY <1>1, <2>1, <2>2, <2>3
  <2>5. (k + 1) - 1 = k
    BY <1>1, <2>2
  <2>6. QED
    BY <2>2, <2>4, <2>5 DEF Opens
<1>3. ASSUME NEW k \in s..i PROVE k \in lines /\ k >= s /\ (s + 1..k) \cap starts = {}
  BY <1>1, <1>2
<1>4. QED
  BY <1>3 DEF Run

\* The lines of the runs that begin up to line n.
ReadTo(lines, starts, n) == {i \in lines : \E s \in starts : s <= n /\ i \in Run(lines, starts, s)}

LEMMA ReadOn ==
    ASSUME NEW lines \in Lines, NEW starts, Opens(lines, starts), doc \in Seq(Kinds),
           NEW n \in 1..Len(doc)
    PROVE  /\ n \notin starts => ReadTo(lines, starts, n) = ReadTo(lines, starts, n - 1)
           /\ n \in starts =>
                 /\ ReadTo(lines, starts, n) = ReadTo(lines, starts, n - 1) \cup Run(lines, starts, n)
                 /\ n \in Run(lines, starts, n)
                 /\ \A i \in ReadTo(lines, starts, n - 1), j \in Run(lines, starts, n) : i < j
<1>1. lines \subseteq Nat /\ starts \subseteq Nat /\ starts \subseteq lines /\ n \in Nat
  BY DEF Lines, Opens
<1>2. \A s \in starts : (s <= n <=> s <= n - 1 \/ s = n)
  BY <1>1
<1>3. \A s : Run(lines, starts, s) \subseteq lines
  BY DEF Run
<1>4. CASE n \notin starts
  BY <1>2, <1>4 DEF ReadTo
<1>5. CASE n \in starts
  <2>1. ReadTo(lines, starts, n) = ReadTo(lines, starts, n - 1) \cup Run(lines, starts, n)
    BY <1>2, <1>3, <1>5 DEF ReadTo
  <2>2. n \in Run(lines, starts, n)
    BY <1>1, <1>5 DEF Run
  <2>3. ASSUME NEW i \in ReadTo(lines, starts, n - 1), NEW j \in Run(lines, starts, n)
        PROVE  i < j
    <3>1. PICK s \in starts : s <= n - 1 /\ i \in Run(lines, starts, s)
      BY DEF ReadTo
    <3>2. i \in Nat /\ j \in Nat /\ s \in Nat /\ i >= s /\ j >= n /\ n \notin s + 1..i
      BY <1>1, <1>5, <3>1 DEF Run
    <3>3. QED
      BY <1>1, <3>1, <3>2
  <2>4. QED
    BY <1>5, <2>1, <2>2, <2>3
<1>6. QED
  BY <1>4, <1>5

LEMMA ReadAll ==
    ASSUME NEW lines \in Lines, NEW starts, Opens(lines, starts), doc \in Seq(Kinds)
    PROVE  ReadTo(lines, starts, 0) = {} /\ ReadTo(lines, starts, Len(doc)) = lines
<1>1. \A s \in starts : s \in 1..Len(doc) /\ ~ (s <= 0) /\ s <= Len(doc)
  BY DEF Lines, Opens
<1>2. \A i \in lines : \E s \in starts : i \in Run(lines, starts, s)
  BY RunHasStart
<1>3. QED
  BY <1>1, <1>2 DEF ReadTo

------------------------------------------------------------------------------
(* No line is lost or repeated *)

\* The lines done so far are held, or in one of the sets that went out, none of them empty.
Parted(out, buffer, done) ==
    /\ buffer \subseteq done
    /\ \A k \in DOMAIN out : out[k] # {} /\ out[k] \subseteq done \ buffer
    /\ \A i \in done \ buffer : \E k \in DOMAIN out : i \in out[k]
    /\ \A k, l \in DOMAIN out : k # l => out[k] \cap out[l] = {}

LEMMA PartedFlush ==
    ASSUME NEW r \in Holding, NEW done, Parted(r.out, r.buffer, done)
    PROVE  Parted(Flush(r).out, {}, done)
<1>1. CASE r.buffer = {}
  BY <1>1 DEF Flush
<1>2. CASE r.buffer # {}
  <2> DEFINE out == r.out
             next == Append(r.out, r.buffer)
  <2>1. Flush(r).out = next /\ out \in Seq(Lines)
    BY <1>2 DEF Flush, Empty, Holding
  <2>2. /\ DOMAIN next = DOMAIN out \cup {Len(out) + 1}
        /\ next[Len(out) + 1] = r.buffer
        /\ \A k \in DOMAIN out : next[k] = out[k] /\ k # Len(out) + 1
    BY <2>1
  <2> HIDE DEF out, next
  <2>3. Parted(out, r.buffer, done)
    BY DEF out
  <2>4. Parted(next, {}, done)
    BY <1>2, <2>2, <2>3 DEF Parted
  <2>5. QED
    BY <2>1, <2>4
<1>3. QED
  BY <1>1, <1>2

LEMMA PartedHold ==
    ASSUME doc \in Seq(Kinds), NEW r \in Holding, NEW done, NEW lines \in Lines,
           Parted(r.out, r.buffer, done), done \cap lines = {}
    PROVE  Parted(Hold(r, lines).out, Hold(r, lines).buffer, done \cup lines)
<1> DEFINE kept == IF Overflows(r, lines) THEN Flush(r) ELSE r
<1>1. kept \in Holding
  BY FlushType
<1>2. Parted(kept.out, kept.buffer, done)
  <2>1. r.buffer # {} => Flush(r).buffer = {}
    BY DEF Flush, Empty
  <2>2. QED
    BY <2>1, PartedFlush DEF Overflows
<1>3. Hold(r, lines) = [kept EXCEPT !.buffer = @ \cup lines, !.held = @ + Size(lines)]
  BY DEF Hold
<1> HIDE DEF kept
<1>4. Hold(r, lines).out = kept.out /\ Hold(r, lines).buffer = kept.buffer \cup lines
  BY <1>1, <1>3 DEF Holding
<1>5. Parted(kept.out, kept.buffer \cup lines, done \cup lines)
  BY <1>2 DEF Parted
<1>6. QED
  BY <1>4, <1>5

LEMMA PartedPieces ==
    ASSUME doc \in Seq(Kinds), NEW lines \in Lines
    PROVE  Parted(Pieces(lines), {}, lines)
<1> DEFINE starts == SentenceStarts(lines)
           m == Len(doc)
<1>1. m \in Nat /\ Opens(lines, starts)
  BY BlocksOpen
<1>2. PICK f : /\ f \in [0..m -> Holding]
               /\ f[0] = Empty
               /\ \A n \in 1..m : f[n] = IF n \in starts THEN Hold(f[n - 1], Run(lines, starts, n)) ELSE f[n - 1]
               /\ HoldSentences(lines) = f[m]
  BY SentencesLoop
<1> DEFINE Done(n) == ReadTo(lines, starts, n)
           T == {n \in 0..m : Parted(f[n].out, f[n].buffer, Done(n))}
<1>3. T = 0..m
  <2>1. T \in SUBSET (0..m) /\ 0 \in T
    <3>1. Parted(f[0].out, f[0].buffer, Done(0))
      BY <1>1, <1>2, ReadAll DEF Parted, Empty
    <3>2. QED
      BY <1>1, <3>1
  <2>2. ASSUME NEW k \in T, k < m PROVE k + 1 \in T
    <3> DEFINE n == k + 1
    <3>1. n \in 1..m /\ n - 1 = k /\ f[k] \in Holding /\ Parted(f[k].out, f[k].buffer, Done(k))
      BY <1>1, <1>2, <2>2
    <3> HIDE DEF n, T
    <3>2. CASE n \notin starts
      <4>1. f[n] = f[k] /\ Done(n) = Done(k)
        BY <1>1, <1>2, <3>1, <3>2, ReadOn
      <4>2. QED
        BY <3>1, <4>1 DEF T, n
    <3>3. CASE n \in starts
      <4>1. f[n] = Hold(f[k], Run(lines, starts, n))
        BY <1>2, <3>1, <3>3
      <4>2. Done(n) = Done(k) \cup Run(lines, starts, n) /\ \A i \in Done(k), j \in Run(lines, starts, n) : i < j
        BY <1>1, <3>1, <3>3, ReadOn
      <4>3. Done(k) \cap Run(lines, starts, n) = {} /\ Run(lines, starts, n) \in Lines
        <5>1. Run(lines, starts, n) \in Lines /\ \A i \in Run(lines, starts, n) : i \in Nat
          BY RunType DEF Lines
        <5>2. QED
          BY <4>2, <5>1
      <4> HIDE DEF Done, starts, m
      <4>4. Parted(f[n].out, f[n].buffer, Done(n))
        BY <3>1, <4>1, <4>2, <4>3, PartedHold
      <4>5. QED
        BY <3>1, <4>4 DEF T, n
    <3>4. QED
      BY <3>2, <3>3 DEF n
  <2> HIDE DEF T
  <2>3. QED
    BY <1>1, <2>1, <2>2, UptoInduction
<1>4. m \in T
  BY <1>1, <1>3
<1>5. Parted(f[m].out, f[m].buffer, lines) /\ f[m] \in Holding
  BY <1>1, <1>2, <1>4, ReadAll
<1>6. QED
  BY <1>2, <1>5, PartedFlush DEF Pieces

------------------------------------------------------------------------------
(* Tables stay whole, and the order is kept *)

\* With a row, a set has the rows next to it that are in lines.
Joined(lines, set) ==
    \A i \in set : doc[i] = "row" =>
        \A j \in {i - 1, i + 1} \cap lines : doc[j] = "row" => j \in set

LEMMA BlockIsJoined ==
    ASSUME doc \in Seq(Kinds), NEW lines \in Lines, NEW s \in BlockStarts(lines)
    PROVE  Joined(lines, Run(lines, BlockStarts(lines), s))
<1> DEFINE starts == BlockStarts(lines)
           block == Run(lines, starts, s)
<1>1. SUFFICES ASSUME NEW i \in block, doc[i] = "row",
                      NEW j \in {i - 1, i + 1}, j \in lines, doc[j] = "row"
               PROVE  j \in block
  BY DEF Joined
<1>2. i \in lines /\ i >= s /\ (s + 1..i) \cap starts = {} /\ s \in lines /\ lines \subseteq Nat
  BY DEF Run, BlockStarts, Lines
<1>3. CASE j = i + 1
  <2>1. j - 1 = i
    BY <1>2, <1>3
  <2>2. j \notin starts
    BY <1>1, <1>2, <2>1 DEF BlockStarts, Cuts, Class
  <2>3. \A k \in s + 1..j : k \in s + 1..i \/ k = j
    BY <1>2, <1>3
  <2>4. (s + 1..j) \cap starts = {} /\ j >= s
    BY <1>2, <1>3, <2>2, <2>3
  <2>5. QED
    BY <1>1, <2>4 DEF Run
<1>4. CASE j = i - 1
  <2>1. i \notin starts
    BY <1>1, <1>2, <1>4 DEF BlockStarts, Cuts, Class
  <2>2. j >= s /\ s + 1..j \subseteq s + 1..i
    BY <1>2, <1>4, <2>1
  <2>3. QED
    BY <1>1, <1>2, <2>2 DEF Run
<1>5. QED
  BY <1>1, <1>3, <1>4

\* A block is all table or all prose.
LEMMA BlockHasClass ==
    ASSUME doc \in Seq(Kinds), NEW lines \in Lines, NEW s \in BlockStarts(lines),
           NEW i \in Run(lines, BlockStarts(lines), s)
    PROVE  Class(i) = Class(s)
<1> DEFINE starts == BlockStarts(lines)
           T == {k \in s..i : Class(k) # Class(s)}
<1>1. s..i \subseteq lines /\ i \in Nat /\ s \in Nat /\ i >= s /\ (s + 1..i) \cap starts = {}
  <2>1. s..i \subseteq Run(lines, starts, s)
    BY BlocksOpen, RunIsUnbroken
  <2>2. i \in lines /\ i >= s /\ (s + 1..i) \cap starts = {} /\ Run(lines, starts, s) \subseteq lines
    BY DEF Run
  <2>3. lines \subseteq Nat /\ s \in lines
    BY DEF BlockStarts, Lines
  <2>4. QED
    BY <2>1, <2>2, <2>3
<1>2. ASSUME T # {} PROVE FALSE
  <2>1. T \in SUBSET Nat
    BY <1>1
  <2>2. PICK k \in T : \A l \in T : k <= l
    <3> HIDE DEF T
    <3>1. QED
      BY <1>2, <2>1, Least
  <2>3. k # s /\ k \in s + 1..i /\ k - 1 \in s..i /\ ~ (k <= k - 1)
    BY <1>1, <2>2
  <2>4. Class(k - 1) = Class(s)
    BY <2>2, <2>3
  <2>5. k \in starts
    BY <1>1, <2>2, <2>3, <2>4 DEF BlockStarts, Cuts
  <2>6. QED
    BY <1>1, <2>3, <2>5
<1>3. QED
  BY <1>1, <1>2

\* What goes out of an oversized paragraph is a piece of it.
LEMMA OversizedIsPieces ==
    ASSUME doc \in Seq(Kinds), NEW lines \in Lines, lines \subseteq Text, NEW s \in BlockStarts(lines),
           Class(s) # "table", Size(Run(lines, BlockStarts(lines), s)) > Target,
           NEW piece \in SUBSET Run(lines, BlockStarts(lines), s), piece # {}
    PROVE  IsPiece(piece)
<1> DEFINE block == Run(lines, BlockStarts(lines), s)
<1>1. s \in block /\ block \subseteq 1..Len(doc) /\ Len(doc) \in Nat /\ s \in 1..Len(doc)
  <2>1. lines \subseteq 1..Len(doc) /\ Len(doc) \in Nat /\ s \in lines
    BY DEF Lines, BlockStarts
  <2>2. s + 1..s = {} /\ s >= s
    BY <2>1
  <2>3. QED
    BY <2>1, <2>2 DEF Run
<1>2. PICK b \in block : \A k \in block : k <= b
  <2>1. block \in SUBSET (0..Len(doc)) /\ block # {}
    BY <1>1
  <2> HIDE DEF block
  <2>2. QED
    BY <1>1, <2>1, Greatest
<1>3. s..b = block
  <2>1. s..b \subseteq block
    BY BlocksOpen, RunIsUnbroken
  <2>2. ASSUME NEW k \in block PROVE k \in s..b
    <3>1. k >= s /\ k <= b /\ k \in Nat /\ b \in Nat
      BY <1>1, <1>2 DEF Run
    <3>2. QED
      BY <1>1, <3>1
  <2>3. QED
    BY <2>1, <2>2
<1>4. \A k \in block : k \in Text /\ doc[k] # "row"
  <2>1. \A k \in block : Class(k) = Class(s) /\ k \in lines
    BY BlockHasClass DEF Run
  <2>2. QED
    BY <2>1 DEF Class
<1>5. PICK i \in piece : TRUE
  OBVIOUS
<1>6. s \in 1..i /\ b \in i..Len(doc)
  <2>1. i \in block
    OBVIOUS
  <2>2. i >= s /\ i <= b /\ i \in Nat /\ b \in 1..Len(doc)
    BY <1>1, <1>2, <2>1 DEF Run
  <2>3. QED
    BY <1>1, <2>2
<1>7. s..b \subseteq {j \in Text : doc[j] # "row"} /\ Size(s..b) > Target
  BY <1>3, <1>4
<1>8. QED
  BY <1>5, <1>6, <1>7 DEF IsPiece

Before(a, b) == \A i \in a, j \in b : i < j

\* The sets that went out and the lines held have tables whole, and but for pieces of
\* paragraphs are in order.
Tidy(lines, out, buffer) ==
    /\ Joined(lines, buffer)
    /\ \A k \in DOMAIN out :
          /\ Joined(lines, out[k])
          /\ IsPiece(out[k]) \/ Before(out[k], buffer)
          /\ \A l \in DOMAIN out : k < l => IsPiece(out[k]) \/ IsPiece(out[l]) \/ Before(out[k], out[l])

LEMMA TidyFlush ==
    ASSUME NEW r \in Holding, NEW lines, Tidy(lines, r.out, r.buffer)
    PROVE  Tidy(lines, Flush(r).out, Flush(r).buffer) /\ Flush(r).buffer = {}
<1>1. Joined(lines, {}) /\ \A a : Before(a, {})
  BY DEF Joined, Before
<1>2. CASE r.buffer = {}
  BY <1>2 DEF Flush
<1>3. CASE r.buffer # {}
  <2> DEFINE out == r.out
             next == Append(r.out, r.buffer)
  <2>1. Flush(r).out = next /\ Flush(r).buffer = {} /\ out \in Seq(Lines)
    BY <1>3 DEF Flush, Empty, Holding
  <2>2. /\ DOMAIN next = DOMAIN out \cup {Len(out) + 1}
        /\ next[Len(out) + 1] = r.buffer
        /\ \A k \in DOMAIN out : next[k] = out[k] /\ k < Len(out) + 1 /\ ~ (Len(out) + 1 < k)
    BY <2>1
  <2>3. ~ (Len(out) + 1 < Len(out) + 1)
    BY <2>1
  <2> HIDE DEF out, next
  <2>4. Tidy(lines, out, r.buffer)
    BY DEF out
  <2>5. Tidy(lines, next, {})
    <3>1. ASSUME NEW k \in DOMAIN next, NEW l \in DOMAIN next, k < l
          PROVE  IsPiece(next[k]) \/ IsPiece(next[l]) \/ Before(next[k], next[l])
      <4>1. k \in DOMAIN out
        BY <2>2, <2>3, <3>1
      <4>2. QED
        BY <2>2, <2>4, <3>1, <4>1 DEF Tidy
    <3>2. ASSUME NEW k \in DOMAIN next PROVE Joined(lines, next[k])
      BY <2>2, <2>4 DEF Tidy
    <3>3. QED
      BY <1>1, <3>1, <3>2 DEF Tidy
  <2>6. QED
    BY <2>1, <2>5
<1>4. QED
  BY <1>2, <1>3

LEMMA TidyHold ==
    ASSUME doc \in Seq(Kinds), NEW r \in Holding, NEW done, NEW lines, NEW block \in Lines,
           Tidy(lines, r.out, r.buffer), Parted(r.out, r.buffer, done),
           Joined(lines, block), Before(done, block)
    PROVE  Tidy(lines, Hold(r, block).out, Hold(r, block).buffer)
<1> DEFINE kept == IF Overflows(r, block) THEN Flush(r) ELSE r
<1>1. kept \in Holding
  BY FlushType
<1>2. Parted(kept.out, kept.buffer, done) /\ Tidy(lines, kept.out, kept.buffer)
  BY PartedFlush, TidyFlush
<1>3. Hold(r, block) = [kept EXCEPT !.buffer = @ \cup block, !.held = @ + Size(block)]
  BY DEF Hold
<1> HIDE DEF kept
<1>4. Hold(r, block).out = kept.out /\ Hold(r, block).buffer = kept.buffer \cup block
  BY <1>1, <1>3 DEF Holding
<1>5. Joined(lines, kept.buffer \cup block)
  BY <1>2 DEF Joined, Tidy
<1>6. ASSUME NEW k \in DOMAIN kept.out
      PROVE  IsPiece(kept.out[k]) \/ Before(kept.out[k], kept.buffer \cup block)
  <2>1. kept.out[k] \subseteq done
    BY <1>2 DEF Parted
  <2>2. QED
    BY <1>2, <2>1 DEF Tidy, Before
<1>7. QED
  BY <1>2, <1>4, <1>5, <1>6 DEF Tidy

LEMMA Concatenated ==
    ASSUME NEW S, NEW a \in Seq(S), NEW b \in Seq(S)
    PROVE  /\ \A k \in DOMAIN (a \o b) :
                 \/ k \in DOMAIN a /\ (a \o b)[k] = a[k]
                 \/ /\ k \notin DOMAIN a /\ k - Len(a) \in DOMAIN b
                    /\ (a \o b)[k] = b[k - Len(a)]
           /\ \A k \in DOMAIN a : k \in DOMAIN (a \o b) /\ (a \o b)[k] = a[k]
           /\ \A k \in DOMAIN b : /\ k + Len(a) \in DOMAIN (a \o b)
                                  /\ (a \o b)[k + Len(a)] = b[k]
           /\ \A k, l \in DOMAIN (a \o b) : k - Len(a) = l - Len(a) => k = l
OBVIOUS

\* One more block is placed.
PlacedSoFar(lines, done, r) ==
    r \in Holding /\ Parted(r.out, r.buffer, done) /\ Tidy(lines, r.out, r.buffer)

LEMMA NextPlace ==
    ASSUME doc \in Seq(Kinds), NEW lines \in Lines, lines \subseteq Text,
           NEW s \in BlockStarts(lines), NEW done, NEW r, PlacedSoFar(lines, done, r),
           Before(done, Run(lines, BlockStarts(lines), s))
    PROVE  PlacedSoFar(lines, done \cup Run(lines, BlockStarts(lines), s),
                       Place(r, Run(lines, BlockStarts(lines), s)))
<1> DEFINE block == Run(lines, BlockStarts(lines), s)
           held == Hold(r, block)
           all == done \cup block
           oversized == [r EXCEPT !.out = @ \o Pieces(block)]
<1>1. block \in Lines /\ Joined(lines, block) /\ r \in Holding
  BY RunType, BlockIsJoined DEF PlacedSoFar
<1>2. done \cap block = {}
  <2>1. \A i \in block : i \in Nat
    BY <1>1 DEF Lines
  <2>2. QED
    BY <2>1 DEF Before
<1>3. PlacedSoFar(lines, all, held)
  <2> HIDE DEF block
  <2>1. held \in Holding
    BY <1>1, HoldType
  <2>2. Parted(held.out, held.buffer, all)
    BY <1>1, <1>2, PartedHold DEF PlacedSoFar
  <2>3. Tidy(lines, held.out, held.buffer)
    BY <1>1, TidyHold DEF PlacedSoFar, block
  <2>4. QED
    BY <2>1, <2>2, <2>3 DEF PlacedSoFar
<1>4. PlacedSoFar(lines, all, Flush(held))
  <2> HIDE DEF held, all
  <2>1. Flush(held) \in Holding /\ Tidy(lines, Flush(held).out, Flush(held).buffer) /\ Flush(held).buffer = {}
    BY <1>3, FlushType, TidyFlush DEF PlacedSoFar
  <2>2. Parted(Flush(held).out, {}, all)
    BY <1>3, PartedFlush DEF PlacedSoFar
  <2>3. QED
    BY <2>1, <2>2 DEF PlacedSoFar
<1>5. ASSUME ~ \A i \in block : Class(i) = "table", Size(block) > Target
      PROVE  PlacedSoFar(lines, all, oversized)
  <2> DEFINE out == r.out
             pieces == Pieces(block)
             next == out \o pieces
  <2>1. out \in Seq(Lines) /\ pieces \in Seq(Lines)
    BY <1>1, PiecesType DEF Holding
  <2>2. Class(s) # "table"
    BY <1>5, BlockHasClass
  <2>3. Parted(pieces, {}, block)
    BY <1>1, PartedPieces
  <2>4. ASSUME NEW k \in DOMAIN pieces PROVE IsPiece(pieces[k]) /\ Joined(lines, pieces[k])
    <3>1. pieces[k] \in SUBSET block /\ pieces[k] # {}
      BY <2>3 DEF Parted
    <3>2. IsPiece(pieces[k])
      BY <1>5, <2>2, <3>1, OversizedIsPieces
    <3>3. \A i \in pieces[k] : doc[i] # "row"
      <4>1. \A i \in block : Class(i) # "table"
        BY <2>2, BlockHasClass
      <4>2. QED
        BY <3>1, <4>1 DEF Class
    <3>4. QED
      BY <3>2, <3>3 DEF Joined
  <2>5. oversized.out = next /\ oversized.buffer = r.buffer /\ oversized \in Holding
    <3>1. next \in Seq(Lines)
      BY <2>1
    <3>2. QED
      BY <1>1, <3>1 DEF Holding
  <2>6. Parted(out, r.buffer, done) /\ Tidy(lines, out, r.buffer)
    BY DEF PlacedSoFar
  <2>7. /\ \A k \in DOMAIN next :
              \/ k \in DOMAIN out /\ next[k] = out[k]
              \/ /\ k \notin DOMAIN out /\ k - Len(out) \in DOMAIN pieces
                 /\ next[k] = pieces[k - Len(out)]
        /\ \A k \in DOMAIN out : k \in DOMAIN next /\ next[k] = out[k]
        /\ \A k \in DOMAIN pieces : k + Len(out) \in DOMAIN next /\ next[k + Len(out)] = pieces[k]
        /\ \A k, l \in DOMAIN next : k - Len(out) = l - Len(out) => k = l
    <3> HIDE DEF out, pieces
    <3>1. QED
      BY <2>1, Concatenated
  <2> HIDE DEF out, pieces, next, block, oversized
  <2>8. Parted(next, r.buffer, done \cup block)
    <3>1. r.buffer \subseteq done \cup block
      BY <2>6 DEF Parted
    <3>2. ASSUME NEW k \in DOMAIN next PROVE next[k] # {} /\ next[k] \subseteq (done \cup block) \ r.buffer
      BY <1>2, <2>3, <2>6, <2>7 DEF Parted
    <3>3. ASSUME NEW i \in (done \cup block) \ r.buffer PROVE \E k \in DOMAIN next : i \in next[k]
      <4>1. CASE i \in block
        <5>1. PICK k \in DOMAIN pieces : i \in pieces[k]
          BY <2>3, <4>1 DEF Parted
        <5>2. QED
          BY <2>7, <5>1
      <4>2. CASE i \in done
        <5>1. PICK k \in DOMAIN out : i \in out[k]
          BY <2>6, <3>3, <4>2 DEF Parted
        <5>2. QED
          BY <2>7, <5>1
      <4>3. QED
        BY <3>3, <4>1, <4>2
    <3>4. ASSUME NEW k \in DOMAIN next, NEW l \in DOMAIN next, k # l PROVE next[k] \cap next[l] = {}
      <4>1. CASE k \in DOMAIN out /\ l \in DOMAIN out
        BY <2>6, <2>7, <3>4, <4>1 DEF Parted
      <4>2. CASE k \in DOMAIN out /\ l \notin DOMAIN out
        <5>1. next[k] \subseteq done /\ next[l] \subseteq block
          BY <2>3, <2>6, <2>7, <4>2 DEF Parted
        <5>2. QED
          BY <1>2, <5>1
      <4>3. CASE k \notin DOMAIN out /\ l \in DOMAIN out
        <5>1. next[l] \subseteq done /\ next[k] \subseteq block
          BY <2>3, <2>6, <2>7, <4>3 DEF Parted
        <5>2. QED
          BY <1>2, <5>1
      <4>4. CASE k \notin DOMAIN out /\ l \notin DOMAIN out
        <5>1. /\ k - Len(out) \in DOMAIN pieces /\ l - Len(out) \in DOMAIN pieces
              /\ k - Len(out) # l - Len(out)
              /\ next[k] = pieces[k - Len(out)] /\ next[l] = pieces[l - Len(out)]
          BY <2>7, <3>4, <4>4
        <5>2. QED
          BY <2>3, <5>1 DEF Parted
      <4>5. QED
        BY <4>1, <4>2, <4>3, <4>4
    <3>5. QED
      BY <3>1, <3>2, <3>3, <3>4 DEF Parted
  <2>9. Tidy(lines, next, r.buffer)
    <3>1. ASSUME NEW k \in DOMAIN next
          PROVE  /\ Joined(lines, next[k])
                 /\ IsPiece(next[k]) \/ Before(next[k], r.buffer)
                 /\ k \notin DOMAIN out => IsPiece(next[k])
      BY <2>4, <2>6, <2>7 DEF Tidy
    <3>2. ASSUME NEW k \in DOMAIN next, NEW l \in DOMAIN next, k < l
          PROVE  IsPiece(next[k]) \/ IsPiece(next[l]) \/ Before(next[k], next[l])
      <4>1. CASE k \in DOMAIN out /\ l \in DOMAIN out
        BY <2>6, <2>7, <3>2, <4>1 DEF Tidy
      <4>2. QED
        BY <3>1, <4>1
    <3>3. QED
      BY <2>6, <3>1, <3>2 DEF Tidy
  <2>10. QED
    BY <2>5, <2>8, <2>9 DEF PlacedSoFar
<1>6. QED
  BY <1>3, <1>4, <1>5 DEF Place

\* What a section is cut into.
Cut(lines, pieces) ==
    pieces \in Seq(Lines) /\ Parted(pieces, {}, lines) /\ Tidy(lines, pieces, {})

LEMMA SplitCuts ==
    ASSUME doc \in Seq(Kinds), NEW lines \in Lines, lines \subseteq Text, lines # {}
    PROVE  Cut(lines, Split(lines))
<1> DEFINE starts == BlockStarts(lines)
           m == Len(doc)
           Done(n) == ReadTo(lines, starts, n)
<1>1. m \in Nat /\ Opens(lines, starts)
  BY BlocksOpen
<1>2. PICK f : /\ f \in [0..m -> Holding]
               /\ f[0] = Empty
               /\ \A n \in 1..m : f[n] = IF n \in starts THEN Place(f[n - 1], Run(lines, starts, n)) ELSE f[n - 1]
               /\ PlaceBlocks(lines) = f[m]
  BY BlocksLoop
<1> DEFINE T == {n \in 0..m : PlacedSoFar(lines, Done(n), f[n])}
<1>3. T = 0..m
  <2>1. T \in SUBSET (0..m) /\ 0 \in T
    <3>1. Done(0) = {} /\ f[0] = Empty /\ Empty \in Holding /\ 0 \in 0..m
      BY <1>1, <1>2, ReadAll, EmptyType
    <3>2. Empty.out = <<>> /\ Empty.buffer = {}
      BY DEF Empty
    <3> HIDE DEF Done
    <3>3. PlacedSoFar(lines, Done(0), f[0])
      BY <3>1, <3>2 DEF PlacedSoFar, Parted, Tidy, Joined
    <3>4. QED
      BY <3>1, <3>3
  <2>2. ASSUME NEW k \in T, k < m PROVE k + 1 \in T
    <3> DEFINE n == k + 1
    <3>1. n \in 1..m /\ n - 1 = k /\ PlacedSoFar(lines, Done(k), f[k])
      BY <1>1, <1>2, <2>2
    <3> HIDE DEF n, T
    <3>2. CASE n \notin starts
      <4>1. f[n] = f[k] /\ Done(n) = Done(k)
        BY <1>1, <1>2, <3>1, <3>2, ReadOn
      <4>2. QED
        BY <3>1, <4>1 DEF T, n
    <3>3. CASE n \in starts
      <4>1. f[n] = Place(f[k], Run(lines, starts, n))
        BY <1>2, <3>1, <3>3
      <4>2. Done(n) = Done(k) \cup Run(lines, starts, n) /\ Before(Done(k), Run(lines, starts, n))
        BY <1>1, <3>1, <3>3, ReadOn DEF Before
      <4> HIDE DEF Done, m
      <4>3. PlacedSoFar(lines, Done(n), f[n])
        BY <3>1, <3>3, <4>1, <4>2, NextPlace
      <4>4. QED
        BY <3>1, <4>3 DEF T, n
    <3>4. QED
      BY <3>2, <3>3 DEF n
  <2> HIDE DEF T
  <2>3. QED
    BY <1>1, <2>1, <2>2, UptoInduction
<1>4. m \in T
  BY <1>1, <1>3
<1>5. PlacedSoFar(lines, lines, PlaceBlocks(lines))
  BY <1>1, <1>2, <1>4, ReadAll
<1> DEFINE cut == Flush(PlaceBlocks(lines))
<1>6. Cut(lines, cut.out)
  <2>1. cut \in Holding /\ Parted(cut.out, {}, lines)
    BY <1>5, FlushType, PartedFlush DEF PlacedSoFar
  <2>2. Tidy(lines, cut.out, {})
    BY <1>5, TidyFlush DEF PlacedSoFar
  <2> HIDE DEF cut
  <2>3. QED
    BY <2>1, <2>2 DEF Cut, Holding
<1>7. Cut(lines, <<lines>>)
  <2>1. <<lines>> \in Seq(Lines)
    OBVIOUS
  <2>2. DOMAIN <<lines>> = {1} /\ <<lines>>[1] = lines
    OBVIOUS
  <2>3. Parted(<<lines>>, {}, lines)
    BY <2>2 DEF Parted
  <2>4. Tidy(lines, <<lines>>, {})
    BY <2>2 DEF Tidy, Joined, Before
  <2>5. QED
    BY <2>1, <2>3, <2>4 DEF Cut
<1>8. QED
  BY <1>6, <1>7 DEF Split

------------------------------------------------------------------------------
(* Sections *)

Stacks == Seq(1..Len(doc))
Sections == [path : Stacks, lines : Lines]
Readers == [stack : Stacks, lines : Lines, out : Seq(Sections)]

\* What is popped: all from the top down to the first heading of a higher level.
LEMMA Popped ==
    ASSUME doc \in Seq(Kinds), NEW stack \in Stacks, NEW level
    PROVE  \E k \in 0..Len(stack) :
              /\ Enclosing(stack, level) = SubSeq(stack, 1, k)
              /\ k # 0 => Level(stack[k]) < level
              /\ \A n \in k + 1..Len(stack) : ~ (Level(stack[n]) < level)
<1> DEFINE S == {0} \cup {n \in DOMAIN stack : Level(stack[n]) < level}
           k == Max(S)
<1>1. Len(stack) \in Nat /\ DOMAIN stack = 1..Len(stack)
  BY DEF Stacks
<1>2. S \in SUBSET (0..Len(stack)) /\ S # {}
  BY <1>1
<1> HIDE DEF S
<1>3. PICK n \in S : \A i \in S : i <= n
  BY <1>1, <1>2, Greatest
<1>4. k \in S /\ \A i \in S : k >= i
  <2>1. \A i \in S : n >= i
    BY <1>1, <1>2, <1>3
  <2>2. QED
    BY <1>3, <2>1 DEF Max
<1>5. Enclosing(stack, level) = SubSeq(stack, 1, k)
  BY DEF Enclosing, S
<1> HIDE DEF k
<1>6. k \in 0..Len(stack) /\ (k # 0 => Level(stack[k]) < level)
  BY <1>1, <1>2, <1>4 DEF S
<1>7. ASSUME NEW i \in k + 1..Len(stack) PROVE ~ (Level(stack[i]) < level)
  <2>1. i \in DOMAIN stack /\ i \notin S
    BY <1>1, <1>4, <1>6
  <2>2. QED
    BY <2>1 DEF S
<1>8. QED
  BY <1>5, <1>6, <1>7

LEMMA FlushSectionType ==
    ASSUME NEW r \in Readers
    PROVE  FlushSection(r) \in Readers
<1>1. {} \in Lines
  BY DEF Lines
<1>2. r.out \in Seq(Sections) /\ [path |-> r.stack, lines |-> r.lines] \in Sections
  BY DEF Readers, Sections
<1>3. Append(r.out, [path |-> r.stack, lines |-> r.lines]) \in Seq(Sections)
  BY <1>2
<1>4. QED
  BY <1>1, <1>3 DEF FlushSection, Readers

LEMMA ReadLineType ==
    ASSUME doc \in Seq(Kinds), NEW r \in Readers, NEW i \in 1..Len(doc)
    PROVE  ReadLine(r, i) \in Readers
<1>1. r.stack \in Stacks /\ r.lines \in Lines
  BY DEF Readers
<1>2. Append(Enclosing(r.stack, Level(i)), i) \in Stacks
  <2>1. PICK k \in 0..Len(r.stack) : Enclosing(r.stack, Level(i)) = SubSeq(r.stack, 1, k)
    BY <1>1, Popped
  <2>2. SubSeq(r.stack, 1, k) \in Stacks
    BY <1>1 DEF Stacks
  <2>3. QED
    BY <2>1, <2>2 DEF Stacks
<1>3. r.lines \cup {i} \in Lines
  BY <1>1 DEF Lines
<1>4. QED
  BY <1>2, <1>3, FlushSectionType DEF ReadLine, Readers

FirstReader == [stack |-> <<>>, lines |-> {}, out |-> <<>>]

LEMMA FirstReaderType == FirstReader \in Readers
<1>1. {} \in Lines /\ <<>> \in Stacks
  BY DEF Lines, Stacks
<1>2. QED
  BY <1>1 DEF FirstReader, Readers

\* The loop over the lines of a document.
LEMMA LinesLoop ==
    ASSUME doc \in Seq(Kinds)
    PROVE  \E f : /\ f \in [0..Len(doc) -> Readers]
                  /\ f[0] = FirstReader
                  /\ \A n \in 1..Len(doc) : f[n] = ReadLine(f[n - 1], n)
                  /\ ReadLines = f[Len(doc)]
<1> DEFINE m == Len(doc)
           S == Readers
           first == FirstReader
           step == [n \in 1..m |-> [u \in S |-> ReadLine(u, n)]]
           Loop(g) == [n \in 0..m |-> IF n = 0 THEN FirstReader ELSE ReadLine(g[n - 1], n)]
           Read == CHOOSE g : g = Loop(g)
<1>1. m \in Nat /\ first \in S
  BY FirstReaderType
<1>2. step \in Steps(1..m, S)
  <2>1. ASSUME NEW n \in 1..m, NEW u \in S PROVE ReadLine(u, n) \in S
    BY <2>1, ReadLineType
  <2>2. QED
    BY <2>1 DEF Steps
<1>3. \A n \in 1..m : \A u \in S : step[n][u] = ReadLine(u, n)
  OBVIOUS
<1>4. ReadLines = Read[m]
  BY DEF ReadLines, FirstReader
<1>5. first = FirstReader
  OBVIOUS
<1> HIDE DEF first, step, m, S
<1>6. PICK f : CountsTo(f, m, S, first, step)
  BY <1>1, <1>2, UptoRecursion
<1>7. f \in [0..m -> S] /\ f[0] = first /\ \A n \in 1..m : f[n] = step[n][f[n - 1]]
  BY <1>6 DEF CountsTo
<1>8. ASSUME NEW n \in 1..m PROVE f[n] = ReadLine(f[n - 1], n)
  <2>1. n - 1 \in 0..m
    BY <1>1
  <2>2. QED
    BY <1>3, <1>7, <2>1
<1>9. f = Loop(f)
  BY <1>1, <1>5, <1>7, <1>8
<1>10. Read = Loop(Read)
  BY <1>9
<1> HIDE DEF Read
<1>11. Read[0] = first /\ \A n \in 1..m : Read[n] = ReadLine(Read[n - 1], n)
  <2>1. ASSUME NEW n \in 0..m
        PROVE  Read[n] = IF n = 0 THEN FirstReader ELSE ReadLine(Read[n - 1], n)
    BY <1>10, Zenon
  <2>2. QED
    BY <1>1, <1>5, <2>1
<1> DEFINE T == {n \in 0..m : Read[n] = f[n]}
<1>12. T = 0..m
  <2>1. T \in SUBSET (0..m) /\ 0 \in T
    BY <1>1, <1>7, <1>11
  <2>2. ASSUME NEW n \in T, n < m PROVE n + 1 \in T
    <3>1. n + 1 \in 1..m /\ Read[n] = f[n] /\ (n + 1) - 1 = n
      BY <1>1, <2>2
    <3>2. Read[n + 1] = f[n + 1]
      BY <1>8, <1>11, <3>1
    <3>3. QED
      BY <3>1, <3>2
  <2> HIDE DEF T
  <2>3. QED
    BY <1>1, <2>1, <2>2, UptoInduction
<1>13. Read[m] = f[m]
  BY <1>1, <1>12
<1>14. QED
  BY <1>4, <1>5, <1>7, <1>8, <1>13 DEF m, S

LEMMA KindsOfLines ==
    ASSUME doc \in Seq(Kinds)
    PROVE  /\ Len(doc) \in Nat /\ DOMAIN doc = 1..Len(doc)
           /\ Headings \in Lines /\ Body \in Lines /\ Text \in Lines
           /\ \A i \in 1..Len(doc) :
                 /\ IsHeading(i) <=> i \in Headings
                 /\ i \in Body <=> doc[i] # "blank" /\ ~IsHeading(i)
                 /\ doc[i] = "row" => i \in Text /\ i \in Body
                 /\ ~ (i \in Headings /\ i \in Body)
           /\ Headings \subseteq Nat
           /\ \A i \in Headings : i \in Nat /\ i <= Len(doc) /\ i >= 1
           /\ \A i \in Body : i \in Nat /\ i <= Len(doc) /\ i >= 1 /\ i \notin Headings
<1>1. Len(doc) \in Nat /\ DOMAIN doc = 1..Len(doc)
  OBVIOUS
<1>2. Headings \in Lines /\ Body \in Lines /\ Text \in Lines
  BY <1>1 DEF Headings, Body, Text, Lines
<1>3. ASSUME NEW i \in 1..Len(doc)
      PROVE  /\ IsHeading(i) <=> i \in Headings
             /\ i \in Body <=> doc[i] # "blank" /\ ~IsHeading(i)
             /\ doc[i] = "row" => i \in Text /\ i \in Body
  BY <1>1 DEF Headings, Body, Text, IsHeading
<1>4. \A i \in 1..Len(doc) : i \in Nat /\ i <= Len(doc) /\ i >= 1
  BY <1>1
<1>5. Headings \subseteq 1..Len(doc) /\ Body \subseteq 1..Len(doc)
  BY <1>2 DEF Lines
<1>6. QED
  BY <1>1, <1>2, <1>3, <1>4, <1>5

\* Heading h still encloses the lines after line n.
OpenAt(h, n) ==
    h \in Headings /\ h <= n /\ \A g \in Headings : g \in h + 1..n => Level(g) > Level(h)

Ascending(path) == \A a, b \in DOMAIN path : a < b => path[a] < path[b]

\* The stack when n lines are read.
Stacked(n, stack) ==
    /\ stack \in Stacks
    /\ \A h : h \in ToSet(stack) <=> OpenAt(h, n)
    /\ Ascending(stack)
    /\ \A a, b \in DOMAIN stack : a < b => Level(stack[a]) < Level(stack[b])

LEMMA StackAfterText ==
    ASSUME doc \in Seq(Kinds), NEW n \in 1..Len(doc), NEW stack, Stacked(n - 1, stack),
           ~IsHeading(n)
    PROVE  Stacked(n, stack)
<1>1. n \notin Headings /\ Headings \subseteq Nat /\ n \in Nat
  BY DEF Headings
<1>2. ASSUME NEW h PROVE OpenAt(h, n) <=> OpenAt(h, n - 1)
  <2>1. ASSUME h \in Headings PROVE (h <= n <=> h <= n - 1) /\ \A g \in Headings : g \in h + 1..n <=> g \in h + 1..n - 1
    BY <1>1, <2>1
  <2>2. QED
    BY <2>1 DEF OpenAt
<1>3. QED
  BY <1>2 DEF Stacked

LEMMA StackAfterHeading ==
    ASSUME doc \in Seq(Kinds), NEW n \in 1..Len(doc), NEW stack, Stacked(n - 1, stack),
           IsHeading(n)
    PROVE  Stacked(n, Append(Enclosing(stack, Level(n)), n))
<1>1. n \in Headings /\ Headings \subseteq Nat /\ n \in Nat /\ stack \in Stacks
  BY DEF Headings, Stacked
<1>2. \A i : Level(i) \in Nat
  BY DEF Level
<1>3. PICK k \in 0..Len(stack) :
         /\ Enclosing(stack, Level(n)) = SubSeq(stack, 1, k)
         /\ k # 0 => Level(stack[k]) < Level(n)
         /\ \A m \in k + 1..Len(stack) : ~ (Level(stack[m]) < Level(n))
  BY <1>1, Popped
<1> DEFINE kept == SubSeq(stack, 1, k)
           next == Append(kept, n)
<1>4. /\ kept \in Stacks /\ next \in Stacks
      /\ DOMAIN kept = 1..k /\ DOMAIN next = 1..k + 1
      /\ DOMAIN stack = 1..Len(stack) /\ Len(stack) \in Nat
      /\ next[k + 1] = n
      /\ \A a \in 1..k : next[a] = stack[a] /\ a \in DOMAIN stack
      /\ \A a \in DOMAIN stack : a \in 1..k \/ a \in k + 1..Len(stack)
  BY <1>1, <1>3 DEF Stacks
<1> HIDE DEF kept, next
<1>5. \A a \in DOMAIN stack : OpenAt(stack[a], n - 1) /\ stack[a] \in Headings /\ stack[a] < n
  <2>1. \A a \in DOMAIN stack : OpenAt(stack[a], n - 1)
    BY DEF Stacked, ToSet
  <2>2. ASSUME NEW a \in DOMAIN stack PROVE stack[a] \in Headings /\ stack[a] < n
    <3>1. stack[a] \in Headings /\ stack[a] <= n - 1
      BY <2>1 DEF OpenAt
    <3>2. stack[a] \in Nat
      BY <1>1, <3>1
    <3>3. QED
      BY <1>1, <3>1, <3>2
  <2>3. QED
    BY <2>1, <2>2
<1>6. ASSUME NEW a \in 1..k PROVE Level(stack[a]) < Level(n)
  <2>1. k \in DOMAIN stack /\ a \in DOMAIN stack /\ k # 0 /\ (a = k \/ a < k)
    BY <1>3, <1>4
  <2>2. Level(stack[k]) < Level(n) /\ (a < k => Level(stack[a]) < Level(stack[k]))
    BY <1>3, <2>1 DEF Stacked
  <2>3. QED
    BY <1>2, <2>1, <2>2
<1>7. ASSUME NEW h PROVE OpenAt(h, n) <=> h = n \/ (OpenAt(h, n - 1) /\ Level(h) < Level(n))
  <2>1. CASE h = n
    <3>1. n + 1..n = {} /\ n <= n
      BY <1>1
    <3>2. QED
      BY <1>1, <2>1, <3>1 DEF OpenAt
  <2>2. CASE h # n /\ h \in Headings
    <3>1. h \in Nat /\ (h <= n <=> h <= n - 1)
      BY <1>1, <2>2
    <3>2. h <= n - 1 => \A g \in Headings : g \in h + 1..n <=> g \in h + 1..n - 1 \/ g = n
      BY <1>1, <2>2
    <3>3. Level(n) > Level(h) <=> Level(h) < Level(n)
      BY <1>2
    <3>4. QED
      BY <1>1, <2>2, <3>1, <3>2, <3>3 DEF OpenAt
  <2>3. CASE h \notin Headings
    BY <1>1, <2>3 DEF OpenAt
  <2>4. QED
    BY <2>1, <2>2, <2>3
<1>8. ASSUME NEW h PROVE h \in ToSet(next) <=> OpenAt(h, n)
  <2>1. h \in ToSet(next) <=> h = n \/ \E a \in 1..k : h = stack[a]
    BY <1>3, <1>4 DEF ToSet
  <2>2. (\E a \in 1..k : h = stack[a]) <=> OpenAt(h, n - 1) /\ Level(h) < Level(n)
    <3>1. OpenAt(h, n - 1) <=> \E a \in DOMAIN stack : h = stack[a]
      BY DEF Stacked, ToSet
    <3>2. QED
      BY <1>3, <1>4, <1>5, <1>6, <3>1
  <2>3. QED
    BY <1>7, <2>1, <2>2
<1>9. ASSUME NEW a \in DOMAIN next, NEW b \in DOMAIN next, a < b
      PROVE  next[a] < next[b] /\ Level(next[a]) < Level(next[b])
  <2>1. a \in 1..k
    BY <1>3, <1>4, <1>9
  <2>2. CASE b = k + 1
    BY <1>4, <1>5, <1>6, <2>1, <2>2
  <2>3. CASE b \in 1..k
    BY <1>4, <1>9, <2>1, <2>3 DEF Stacked, Ascending
  <2>4. QED
    BY <1>3, <1>4, <2>2, <2>3
<1>10. QED
  BY <1>3, <1>4, <1>8, <1>9 DEF Stacked, Ascending, kept, next

\* The path names the headings that enclose line i.
Labelled(path, i) == ToSet(path) = {h \in DOMAIN doc : Encloses(h, i)} /\ Ascending(path)

\* The lines of text after the last heading, up to line n.
Current(n) == {i \in Body : i <= n /\ ~ \E g \in Headings : g \in i + 1..n}

LEMMA CurrentIsLabelled ==
    ASSUME doc \in Seq(Kinds), NEW n \in 0..Len(doc), NEW stack, Stacked(n, stack), NEW i \in Current(n)
    PROVE  Labelled(stack, i)
<1>1. i \in Nat /\ i <= n /\ i \notin Headings /\ Headings \subseteq DOMAIN doc /\ DOMAIN doc \subseteq Nat
  BY DEF Current, Body, Headings
<1>2. \A g \in Headings : ~ (g \in i + 1..n) /\ g # i
  BY <1>1 DEF Current
<1>3. ASSUME NEW h PROVE OpenAt(h, n) <=> Encloses(h, i)
  <2>1. ASSUME h \in Headings
        PROVE  (h <= n <=> h < i) /\ \A g \in Headings : g \in h + 1..n <=> g \in h + 1..i
    BY <1>1, <1>2, <2>1
  <2>2. QED
    BY <2>1 DEF OpenAt, Encloses
<1>4. \A h : OpenAt(h, n) => h \in DOMAIN doc
  BY <1>1 DEF OpenAt
<1>5. QED
  BY <1>3, <1>4 DEF Stacked, Labelled

LEMMA CurrentIsJoined ==
    ASSUME doc \in Seq(Kinds), NEW n \in 1..Len(doc), IsHeading(n) \/ n = Len(doc)
    PROVE  Joined(Body, Current(IF IsHeading(n) THEN n - 1 ELSE n))
<1> DEFINE m == IF IsHeading(n) THEN n - 1 ELSE n
<1>1. SUFFICES ASSUME NEW i \in Current(m), NEW j \in {i - 1, i + 1}, j \in Body, doc[j] = "row"
               PROVE  j \in Current(m)
  BY DEF Joined
<1>2. /\ i \in Body /\ i <= m /\ i \in Nat /\ i \notin Headings
      /\ \A g \in Headings : ~ (g \in i + 1..m)
      /\ Headings \subseteq Nat /\ j \in Nat /\ j <= Len(doc)
      /\ j \notin Headings /\ (IsHeading(n) => n \in Headings)
  <2>1. i \in Body /\ i <= m /\ \A g \in Headings : ~ (g \in i + 1..m)
    BY DEF Current
  <2>2. Headings \subseteq Nat /\ (IsHeading(n) => n \in Headings)
    BY KindsOfLines
  <2>3. \A k \in Body : k \in Nat /\ k <= Len(doc) /\ k \notin Headings
    BY KindsOfLines
  <2>4. QED
    BY <1>1, <2>1, <2>2, <2>3
<1>3. j <= m
  BY <1>1, <1>2
<1>4. ASSUME NEW g \in Headings, g \in j + 1..m PROVE FALSE
  BY <1>1, <1>2, <1>4
<1>5. QED
  BY <1>1, <1>3, <1>4 DEF Current

\* A section, or the chunks it is cut into: text of one path, with its tables whole.
Sound(path, lines) ==
    /\ lines # {} /\ lines \subseteq Text /\ Joined(Text, lines)
    /\ \A i \in lines \cap Body : Labelled(path, i)

\* The sections read when n lines are: sound, in order, and with the current one all text.
ReadSoFar(n, r) ==
    /\ r \in Readers
    /\ Stacked(n, r.stack)
    /\ r.lines = Current(n)
    /\ \A k \in DOMAIN r.out :
          /\ Sound(r.out[k].path, r.out[k].lines)
          /\ Before(r.out[k].lines, r.lines)
          /\ \A i \in r.out[k].lines : i \in Body /\ i <= n
          /\ \A l \in DOMAIN r.out : k < l => Before(r.out[k].lines, r.out[l].lines)
    /\ \A i \in Body : i <= n => i \in r.lines \/ \E k \in DOMAIN r.out : i \in r.out[k].lines

\* At a heading, and at the end, the current section goes out.
LEMMA SectionGoesOut ==
    ASSUME doc \in Seq(Kinds), NEW n \in 1..Len(doc), IsHeading(n) \/ n = Len(doc), NEW r,
           ReadSoFar(IF IsHeading(n) THEN n - 1 ELSE n, r)
    PROVE  LET m == IF IsHeading(n) THEN n - 1 ELSE n
               s == FlushSection(r)
           IN /\ s \in Readers /\ s.stack = r.stack /\ s.lines = {}
              /\ \A k \in DOMAIN s.out :
                    /\ Sound(s.out[k].path, s.out[k].lines)
                    /\ \A i \in s.out[k].lines : i \in Body /\ i <= m
                    /\ \A l \in DOMAIN s.out : k < l => Before(s.out[k].lines, s.out[l].lines)
              /\ \A i \in Body : i <= m => \E k \in DOMAIN s.out : i \in s.out[k].lines
<1> DEFINE m == IF IsHeading(n) THEN n - 1 ELSE n
           s == FlushSection(r)
           new == [path |-> r.stack, lines |-> r.lines]
           out == r.out
           next == Append(out, new)
<1>1. r \in Readers /\ s \in Readers /\ m \in 0..Len(doc)
  BY FlushSectionType DEF ReadSoFar
<1>2. \A i \in r.lines : i \in Body /\ i <= m
  BY DEF ReadSoFar, Current
<1>3. CASE r.lines = {}
  BY <1>1, <1>3 DEF FlushSection, ReadSoFar
<1>4. CASE r.lines # {}
  <2>1. s.stack = r.stack /\ s.lines = {} /\ s.out = next
    BY <1>1, <1>4 DEF FlushSection, Readers
  <2>2. out \in Seq(Sections) /\ new \in Sections
    BY <1>1 DEF Readers, Sections
  <2>3. /\ DOMAIN next = DOMAIN out \cup {Len(out) + 1}
        /\ next[Len(out) + 1] = new
        /\ \A k \in DOMAIN out : next[k] = out[k] /\ k < Len(out) + 1 /\ ~ (Len(out) + 1 < k)
        /\ ~ (Len(out) + 1 < Len(out) + 1)
    <3> HIDE DEF out, new
    <3>1. QED
      BY <2>2
  <2>4. Sound(new.path, new.lines)
    <3>1. r.lines = Current(m) /\ Stacked(m, r.stack)
      BY DEF ReadSoFar
    <3>2. \A i \in r.lines : Labelled(r.stack, i)
      BY <1>1, <3>1, CurrentIsLabelled
    <3>3. Body # {} /\ Text = Body
      BY <1>2, <1>4 DEF Text
    <3>4. Joined(Body, r.lines)
      BY <3>1, CurrentIsJoined
    <3>5. QED
      BY <1>2, <1>4, <3>2, <3>3, <3>4 DEF Sound
  <2>5. /\ \A k \in DOMAIN out :
              /\ Sound(out[k].path, out[k].lines)
              /\ Before(out[k].lines, new.lines)
              /\ \A i \in out[k].lines : i \in Body /\ i <= m
              /\ \A l \in DOMAIN out : k < l => Before(out[k].lines, out[l].lines)
        /\ \A i \in Body : i <= m => i \in new.lines \/ \E k \in DOMAIN out : i \in out[k].lines
        /\ \A i \in new.lines : i \in Body /\ i <= m
    BY <1>2 DEF ReadSoFar
  <2> HIDE DEF out, new, next, m, s
  <2>6. ASSUME NEW k \in DOMAIN next
        PROVE  /\ Sound(next[k].path, next[k].lines)
               /\ \A i \in next[k].lines : i \in Body /\ i <= m
               /\ \A l \in DOMAIN next : k < l => Before(next[k].lines, next[l].lines)
    BY <2>3, <2>4, <2>5
  <2>7. ASSUME NEW i \in Body, i <= m PROVE \E k \in DOMAIN next : i \in next[k].lines
    <3>1. CASE i \in new.lines
      BY <2>3, <3>1
    <3>2. CASE i \notin new.lines
      <4>1. PICK k \in DOMAIN out : i \in out[k].lines
        BY <2>5, <2>7, <3>2
      <4>2. QED
        BY <2>3, <4>1
    <3>3. QED
      BY <3>1, <3>2
  <2>8. QED
    BY <1>1, <2>1, <2>6, <2>7 DEF m, s
<1>5. QED
  BY <1>3, <1>4

LEMMA NextLine ==
    ASSUME doc \in Seq(Kinds), NEW n \in 1..Len(doc), NEW r, ReadSoFar(n - 1, r)
    PROVE  ReadSoFar(n, ReadLine(r, n))
<1>1. r \in Readers /\ ReadLine(r, n) \in Readers /\ n \in Nat
  BY ReadLineType DEF ReadSoFar
<1>2. /\ \A i \in Body : i \in Nat /\ (i <= n <=> i <= n - 1 \/ i = n)
      /\ \A i \in Headings : i \in Nat
  BY <1>1, KindsOfLines
<1>3. CASE IsHeading(n)
  <2> DEFINE s == FlushSection(r)
             next == [s EXCEPT !.stack = Append(Enclosing(r.stack, Level(n)), n)]
  <2>1. ReadLine(r, n) = next
    BY <1>3 DEF ReadLine, IsHeading
  <2>2. /\ s \in Readers /\ s.lines = {}
        /\ \A k \in DOMAIN s.out :
              /\ Sound(s.out[k].path, s.out[k].lines)
              /\ \A i \in s.out[k].lines : i \in Body /\ i <= n - 1
              /\ \A l \in DOMAIN s.out : k < l => Before(s.out[k].lines, s.out[l].lines)
        /\ \A i \in Body : i <= n - 1 => \E k \in DOMAIN s.out : i \in s.out[k].lines
    BY <1>3, SectionGoesOut
  <2> HIDE DEF s
  <2>3. next.lines = {} /\ next.out = s.out /\ next.stack = Append(Enclosing(r.stack, Level(n)), n)
    BY <2>2 DEF Readers
  <2>4. Current(n) = {}
    <3>1. n \in Headings /\ n \notin Body
      BY <1>3, KindsOfLines
    <3>2. \A i \in Body : i <= n => n \in i + 1..n
      BY <1>1, <1>2, <3>1
    <3>3. QED
      BY <3>1, <3>2 DEF Current
  <2>5. Stacked(n, next.stack)
    BY <1>3, <2>3, StackAfterHeading DEF ReadSoFar
  <2> HIDE DEF next
  <2>6. n \notin Body /\ \A k \in DOMAIN s.out : Before(s.out[k].lines, {})
    BY <1>3, KindsOfLines DEF Before
  <2>7. QED
    BY <1>1, <1>2, <2>1, <2>2, <2>3, <2>4, <2>5, <2>6 DEF ReadSoFar
<1>4. CASE ~IsHeading(n) /\ doc[n] = "blank"
  <2>1. ReadLine(r, n) = r
    BY <1>4 DEF ReadLine
  <2>2. n \notin Body /\ n \notin Headings
    BY <1>4, KindsOfLines
  <2>3. Current(n) = Current(n - 1)
    <3>1. \A i \in Body : \A g \in Headings : g \in i + 1..n <=> g \in i + 1..n - 1
      BY <1>1, <1>2, <2>2
    <3>2. QED
      BY <1>2, <2>2, <3>1 DEF Current
  <2>4. QED
    BY <1>2, <1>4, <2>1, <2>2, <2>3, StackAfterText DEF ReadSoFar
<1>5. CASE ~IsHeading(n) /\ doc[n] # "blank"
  <2> DEFINE next == [r EXCEPT !.lines = @ \cup {n}]
  <2>1. ReadLine(r, n) = next
    BY <1>5 DEF ReadLine
  <2>2. n \in Body /\ n \notin Headings
    BY <1>5, KindsOfLines
  <2>3. next.stack = r.stack /\ next.out = r.out /\ next.lines = r.lines \cup {n}
    BY <1>1 DEF Readers
  <2> HIDE DEF next
  <2>4. Current(n) = Current(n - 1) \cup {n}
    <3>1. \A i \in Body : \A g \in Headings : g \in i + 1..n <=> g \in i + 1..n - 1
      BY <1>1, <1>2, <2>2
    <3>2. \A g \in Headings : ~ (g \in n + 1..n)
      BY <1>1
    <3>3. QED
      BY <1>2, <2>2, <3>1, <3>2 DEF Current
  <2>5. \A k \in DOMAIN r.out : Before(r.out[k].lines, r.lines \cup {n})
    <3>1. ASSUME NEW k \in DOMAIN r.out, NEW i \in r.out[k].lines PROVE i < n
      <4>1. i \in Body /\ i <= n - 1
        BY DEF ReadSoFar
      <4>2. QED
        BY <1>1, <1>2, <4>1
    <3>2. QED
      BY <3>1 DEF ReadSoFar, Before
  <2>6. Stacked(n, r.stack)
    BY <1>5, StackAfterText DEF ReadSoFar
  <2>7. QED
    BY <1>1, <1>2, <2>1, <2>3, <2>4, <2>5, <2>6 DEF ReadSoFar
<1>6. QED
  BY <1>3, <1>4, <1>5

\* Sections, in order, that have all text between them.
Complete(sections) ==
    /\ sections \in Seq(Sections)
    /\ \A k \in DOMAIN sections :
          /\ Sound(sections[k].path, sections[k].lines)
          /\ \A l \in DOMAIN sections : k < l => Before(sections[k].lines, sections[l].lines)
    /\ \A i \in Text : \E k \in DOMAIN sections : i \in sections[k].lines

LEMMA AllLinesRead ==
    ASSUME doc \in Seq(Kinds)
    PROVE  ReadSoFar(Len(doc), ReadLines)
<1> DEFINE m == Len(doc)
<1>1. m \in Nat
  OBVIOUS
<1>2. PICK f : /\ f[0] = FirstReader
               /\ \A n \in 1..m : f[n] = ReadLine(f[n - 1], n)
               /\ ReadLines = f[m]
  BY LinesLoop
<1> DEFINE T == {n \in 0..m : ReadSoFar(n, f[n])}
<1>3. T = 0..m
  <2>1. ReadSoFar(0, FirstReader)
    <3>1. FirstReader \in Readers /\ FirstReader.stack = <<>> /\ FirstReader.lines = {} /\ FirstReader.out = <<>>
      BY FirstReaderType DEF FirstReader
    <3>2. \A i \in Body : ~ (i <= 0)
      BY KindsOfLines
    <3>3. \A h : ~ OpenAt(h, 0)
      <4>1. \A h \in Headings : ~ (h <= 0)
        BY KindsOfLines
      <4>2. QED
        BY <4>1 DEF OpenAt
    <3>4. Stacked(0, <<>>)
      BY <3>3 DEF Stacked, Stacks, Ascending, ToSet
    <3>5. Current(0) = {}
      BY <3>2 DEF Current
    <3>6. QED
      BY <3>1, <3>2, <3>4, <3>5 DEF ReadSoFar
  <2>2. T \in SUBSET (0..m) /\ 0 \in T
    BY <1>1, <1>2, <2>1
  <2>3. ASSUME NEW k \in T, k < m PROVE k + 1 \in T
    <3>1. k + 1 \in 1..m /\ ReadSoFar((k + 1) - 1, f[(k + 1) - 1])
      BY <1>1, <2>3
    <3>2. ReadSoFar(k + 1, f[k + 1])
      BY <1>2, <3>1, NextLine
    <3>3. QED
      BY <3>1, <3>2
  <2> HIDE DEF T
  <2>4. QED
    BY <1>1, <2>2, <2>3, UptoInduction
<1>4. m \in T
  BY <1>1, <1>3
<1>5. QED
  BY <1>2, <1>4

LEMMA ConceptsAreComplete ==
    ASSUME doc \in Seq(Kinds)
    PROVE  Complete(Concepts)
<1> DEFINE n == Len(doc)
           s == FlushSection(ReadLines)
           sections == s.out
           lines == {i \in DOMAIN doc : doc[i] # "blank"}
           whole == <<[path |-> <<>>, lines |-> lines]>>
<1>1. n \in Nat /\ DOMAIN doc = 1..n /\ Body \subseteq 1..n
  BY KindsOfLines DEF Lines
<1>2. /\ s \in Readers
      /\ \A k \in DOMAIN sections :
            /\ Sound(sections[k].path, sections[k].lines)
            /\ \A i \in sections[k].lines : i \in Body
            /\ \A l \in DOMAIN sections : k < l => Before(sections[k].lines, sections[l].lines)
      /\ \A i \in Body : \E k \in DOMAIN sections : i \in sections[k].lines
  <2>1. ReadSoFar(n, ReadLines)
    BY AllLinesRead
  <2>2. CASE n = 0
    <3>1. \A i : i \notin Body
      <4>1. 1..n = {}
        BY <2>2
      <4>2. QED
        BY <1>1, <4>1
    <3>2. ReadLines.lines = {}
      BY <2>1, <3>1 DEF ReadSoFar, Current
    <3>3. s = ReadLines
      BY <3>2 DEF FlushSection
    <3>4. QED
      BY <2>1, <3>1, <3>3 DEF ReadSoFar
  <2>3. CASE n # 0 /\ ~IsHeading(n)
    <3>1. n \in 1..n /\ \A i \in Body : i <= n
      BY <1>1, <2>3
    <3>2. QED
      BY <2>1, <2>3, <3>1, SectionGoesOut
  <2>4. CASE n # 0 /\ IsHeading(n)
    <3>1. ReadLines.lines = {}
      <4>1. n \in Headings /\ n \notin Body
        BY <1>1, <2>4, KindsOfLines
      <4>2. \A i \in Body : i <= n => n \in i + 1..n
        BY <1>1, <4>1
      <4>3. QED
        BY <2>1, <4>1, <4>2 DEF ReadSoFar, Current
    <3>2. s = ReadLines
      BY <3>1 DEF FlushSection
    <3>3. \A i \in Body : i <= n
      BY <1>1
    <3>4. QED
      BY <2>1, <3>1, <3>2, <3>3 DEF ReadSoFar
  <2>5. QED
    BY <2>2, <2>3, <2>4
<1>3. Concepts = IF sections = <<>> /\ lines # {} THEN whole ELSE sections
  BY DEF Concepts
<1> HIDE DEF sections, s
<1>4. sections \in Seq(Sections)
  BY <1>2 DEF Readers, sections
<1>5. CASE Body # {}
  <2>1. Text = Body /\ sections # <<>>
    BY <1>2, <1>5 DEF Text
  <2>2. QED
    BY <1>2, <1>3, <1>4, <2>1 DEF Complete
<1>6. CASE Body = {}
  <2>1. sections = <<>>
    <3>1. \A k \in DOMAIN sections : FALSE
      BY <1>2, <1>6 DEF Sound
    <3>2. QED
      BY <1>4, <3>1
  <2>2. Text = lines /\ lines \in Lines
    BY <1>1, <1>6 DEF Text, Body, Headings, Lines, IsHeading
  <2>3. CASE lines = {}
    BY <1>3, <2>1, <2>2, <2>3 DEF Complete
  <2>4. CASE lines # {}
    <3>1. whole \in Seq(Sections) /\ DOMAIN whole = {1} /\ whole[1].path = <<>> /\ whole[1].lines = lines
      <4>1. [path |-> <<>>, lines |-> lines] \in Sections
        BY <2>2 DEF Sections, Stacks
      <4> HIDE DEF lines
      <4>2. QED
        BY <4>1
    <3>2. Sound(<<>>, lines)
      BY <1>6, <2>2, <2>4 DEF Sound, Joined
    <3>3. Concepts = whole
      BY <1>3, <2>1, <2>4
    <3> HIDE DEF whole, lines
    <3>4. QED
      BY <2>2, <3>1, <3>2, <3>3 DEF Complete
  <2>5. QED
    BY <2>3, <2>4
<1>7. QED
  BY <1>5, <1>6

------------------------------------------------------------------------------
(* Reading a document *)

Chunks == [section : Stacks, lines : Lines]

\* Each line of text is in one of the sections left, or in one chunk made; the sections
\* come after the chunks.
Chunked(made, left) ==
    /\ made \in Seq(Chunks)
    /\ left \in Seq(Sections)
    /\ \A k \in DOMAIN left :
          /\ Sound(left[k].path, left[k].lines)
          /\ \A l \in DOMAIN left : k < l => Before(left[k].lines, left[l].lines)
    /\ \A n \in DOMAIN made :
          /\ Sound(made[n].section, made[n].lines)
          /\ \A k \in DOMAIN left : Before(made[n].lines, left[k].lines)
    /\ \A m, n \in DOMAIN made :
          /\ m # n => made[m].lines \cap made[n].lines = {}
          /\ m < n => IsPiece(made[m].lines) \/ IsPiece(made[n].lines) \/ Before(made[m].lines, made[n].lines)
    /\ \A i \in Text : \/ \E k \in DOMAIN left : i \in left[k].lines
                       \/ \E n \in DOMAIN made : i \in made[n].lines

LEMMA NextConcept ==
    ASSUME doc \in Seq(Kinds), NEW made, NEW left, Chunked(made, left), left # <<>>
    PROVE  LET pieces == Split(Head(left).lines)
           IN Chunked(made \o [n \in DOMAIN pieces |-> [section |-> Head(left).path, lines |-> pieces[n]]],
                      Tail(left))
<1> DEFINE first == Head(left)
           rest == Tail(left)
           lines == first.lines
           path == first.path
           pieces == Split(lines)
           new == [n \in DOMAIN pieces |-> [section |-> path, lines |-> pieces[n]]]
           next == made \o new
<1>1. /\ first = left[1] /\ 1 \in DOMAIN left /\ first \in Sections
      /\ rest \in Seq(Sections)
      /\ \A k \in DOMAIN rest : k + 1 \in DOMAIN left /\ rest[k] = left[k + 1] /\ k \in Nat /\ 1 < k + 1
      /\ \A k \in DOMAIN left : k = 1 \/ (k - 1 \in DOMAIN rest /\ rest[k - 1] = left[k])
  <2>1. left \in Seq(Sections)
    BY DEF Chunked
  <2>2. QED
    BY <2>1
<1>2. lines \in Lines /\ path \in Stacks
  BY <1>1 DEF Sections
<1>3. Sound(path, lines)
  BY <1>1 DEF Chunked
<1> HIDE DEF first, rest
<1>4. Cut(lines, pieces)
  <2>1. lines \subseteq Text /\ lines # {}
    BY <1>3 DEF Sound
  <2> HIDE DEF lines
  <2>2. QED
    BY <1>2, <2>1, SplitCuts
<1> HIDE DEF lines, path, pieces
<1>5. pieces \in Seq(Lines) /\ Parted(pieces, {}, lines) /\ Tidy(lines, pieces, {})
  BY <1>4 DEF Cut
<1>6. /\ new \in Seq(Chunks) /\ DOMAIN new = DOMAIN pieces
      /\ \A k \in DOMAIN pieces : new[k].section = path /\ new[k].lines = pieces[k]
  <2>1. \A k \in DOMAIN pieces : [section |-> path, lines |-> pieces[k]] \in Chunks
    BY <1>2, <1>5 DEF Chunks
  <2>2. new \in Seq(Chunks)
    BY <1>5, <2>1
  <2>3. QED
    BY <2>2
<1> HIDE DEF new
<1>7. made \in Seq(Chunks) /\ next \in Seq(Chunks)
  BY <1>6 DEF Chunked
<1>8. /\ \A k \in DOMAIN next :
            \/ k \in DOMAIN made /\ next[k] = made[k]
            \/ /\ k \notin DOMAIN made /\ k - Len(made) \in DOMAIN new
               /\ next[k] = new[k - Len(made)]
      /\ \A k \in DOMAIN made : k \in DOMAIN next /\ next[k] = made[k]
      /\ \A k \in DOMAIN new : k + Len(made) \in DOMAIN next /\ next[k + Len(made)] = new[k]
      /\ \A k, l \in DOMAIN next : k - Len(made) = l - Len(made) => k = l
  BY <1>6, <1>7, Concatenated
<1>9. \A k, l \in DOMAIN next : k < l =>
            /\ l \in DOMAIN made => k \in DOMAIN made
            /\ k - Len(made) < l - Len(made)
  BY <1>7
<1> HIDE DEF next
<1>10. ASSUME NEW k \in DOMAIN pieces PROVE Sound(path, pieces[k]) /\ pieces[k] \subseteq lines
  <2>1. pieces[k] # {} /\ pieces[k] \subseteq lines
    BY <1>5 DEF Parted
  <2>2. Joined(Text, pieces[k])
    <3>1. Joined(lines, pieces[k]) /\ Joined(Text, lines)
      BY <1>3, <1>5 DEF Tidy, Sound
    <3>2. QED
      BY <2>1, <3>1 DEF Joined
  <2>3. QED
    BY <1>3, <2>1, <2>2 DEF Sound
<1>11. \A n \in DOMAIN made : Sound(made[n].section, made[n].lines) /\ Before(made[n].lines, lines)
                             /\ \A k \in DOMAIN rest : Before(made[n].lines, rest[k].lines)
  BY <1>1 DEF Chunked, lines
<1>12. \A k \in DOMAIN rest : Before(lines, rest[k].lines)
  BY <1>1 DEF Chunked, lines
<1>13. ASSUME NEW k \in DOMAIN rest
       PROVE  /\ Sound(rest[k].path, rest[k].lines)
              /\ \A l \in DOMAIN rest : k < l => Before(rest[k].lines, rest[l].lines)
  <2>1. k + 1 \in DOMAIN left /\ rest[k] = left[k + 1]
    BY <1>1
  <2>2. ASSUME NEW l \in DOMAIN rest, k < l PROVE Before(rest[k].lines, rest[l].lines)
    <3>1. l + 1 \in DOMAIN left /\ rest[l] = left[l + 1] /\ k + 1 < l + 1
      BY <1>1, <2>2
    <3>2. QED
      BY <2>1, <3>1 DEF Chunked
  <2>3. QED
    BY <2>1, <2>2 DEF Chunked
<1>14. ASSUME NEW n \in DOMAIN next
       PROVE  /\ Sound(next[n].section, next[n].lines)
              /\ \A k \in DOMAIN rest : Before(next[n].lines, rest[k].lines)
  <2>1. CASE n \in DOMAIN made
    BY <1>8, <1>11, <2>1
  <2>2. CASE n \notin DOMAIN made
    <3>1. PICK k \in DOMAIN pieces : next[n].section = path /\ next[n].lines = pieces[k]
      BY <1>6, <1>8, <2>2
    <3>2. QED
      BY <1>10, <1>12, <3>1 DEF Before
  <2>3. QED
    BY <2>1, <2>2
<1>15. \A i \in lines : i \in Nat
  BY <1>2 DEF Lines
<1>16. ASSUME NEW m \in DOMAIN next, NEW n \in DOMAIN next
       PROVE  /\ m # n => next[m].lines \cap next[n].lines = {}
              /\ m < n => IsPiece(next[m].lines) \/ IsPiece(next[n].lines) \/ Before(next[m].lines, next[n].lines)
  <2>1. CASE m \in DOMAIN made /\ n \in DOMAIN made
    BY <1>8, <2>1 DEF Chunked
  <2>2. CASE m \in DOMAIN made /\ n \notin DOMAIN made
    <3>1. next[m].lines = made[m].lines /\ next[n].lines \subseteq lines
      BY <1>6, <1>8, <1>10, <2>2
    <3>2. Before(made[m].lines, lines)
      BY <1>11, <2>2
    <3>3. QED
      BY <1>15, <3>1, <3>2 DEF Before
  <2>3. CASE m \notin DOMAIN made /\ n \in DOMAIN made
    <3>1. next[n].lines = made[n].lines /\ next[m].lines \subseteq lines
      BY <1>6, <1>8, <1>10, <2>3
    <3>2. Before(made[n].lines, lines) /\ ~ (m < n)
      BY <1>9, <1>11, <2>3
    <3>3. QED
      BY <1>15, <3>1, <3>2 DEF Before
  <2>4. CASE m \notin DOMAIN made /\ n \notin DOMAIN made
    <3> DEFINE a == m - Len(made)
               b == n - Len(made)
    <3>1. a \in DOMAIN pieces /\ b \in DOMAIN pieces /\ next[m].lines = pieces[a] /\ next[n].lines = pieces[b]
      BY <1>6, <1>8, <2>4
    <3>2. (m # n => a # b) /\ (m < n => a < b)
      BY <1>8, <1>9
    <3> HIDE DEF a, b
    <3>3. QED
      BY <1>5, <3>1, <3>2 DEF Parted, Tidy
  <2>5. QED
    BY <2>1, <2>2, <2>3, <2>4
<1>17. ASSUME NEW i \in Text
       PROVE  (\E k \in DOMAIN rest : i \in rest[k].lines) \/ (\E n \in DOMAIN next : i \in next[n].lines)
  <2>1. CASE \E n \in DOMAIN made : i \in made[n].lines
    BY <1>8, <2>1
  <2>2. CASE \E k \in DOMAIN left : k # 1 /\ i \in left[k].lines
    BY <1>1, <2>2
  <2>3. CASE i \in lines
    <3>1. PICK k \in DOMAIN pieces : i \in pieces[k]
      BY <1>5, <2>3 DEF Parted
    <3>2. QED
      BY <1>6, <1>8, <3>1
  <2>4. QED
    BY <1>1, <2>1, <2>2, <2>3 DEF Chunked, lines
<1>18. Chunked(next, rest)
  BY <1>1, <1>7, <1>13, <1>14, <1>16, <1>17 DEF Chunked
<1>19. QED
  BY <1>18 DEF next, rest, new, pieces, path, lines, first

ReadingInv ==
    /\ phase \in {"structure", "chunk", "done"} => doc \in Seq(Kinds)
    /\ phase \in {"submit", "structure"} => chunks = <<>>
    /\ phase \in {"chunk", "done"} => Chunked(chunks, concepts)
    /\ phase = "done" => concepts = <<>>

\* What is said of the chunks depends on the document alone.
LEMMA SameDocument ==
    ASSUME doc' = doc, NEW made, NEW left, Chunked(made, left), chunks' = made, concepts' = left
    PROVE  Chunked(chunks, concepts)'
<1>1. Text' = Text /\ Body' = Body /\ Lines' = Lines /\ (DOMAIN doc)' = DOMAIN doc /\ Headings' = Headings
  BY DEF Text, Body, Headings, Lines, IsHeading
<1>2. Sections' = Sections /\ Chunks' = Chunks
  BY DEF Sections, Chunks, Stacks, Lines
<1>3. ASSUME NEW k \in DOMAIN concepts'
      PROVE  (Sound(concepts[k].path, concepts[k].lines))'
  BY <1>1, <1>3 DEF Chunked, Sound, Joined, Labelled, Encloses, Ascending, Level
<1>4. ASSUME NEW n \in DOMAIN chunks'
      PROVE  (Sound(chunks[n].section, chunks[n].lines))'
  BY <1>1, <1>4 DEF Chunked, Sound, Joined, Labelled, Encloses, Ascending, Level
<1>5. ASSUME NEW m \in DOMAIN chunks', NEW n \in DOMAIN chunks', m < n
      PROVE  (IsPiece(chunks[m].lines) \/ IsPiece(chunks[n].lines) \/ Before(chunks[m].lines, chunks[n].lines))'
  <2>1. ASSUME IsPiece(chunks'[m].lines) PROVE IsPiece(chunks[m].lines)'
    BY <1>1, <2>1 DEF IsPiece, Size, Width, Tokens
  <2>2. ASSUME IsPiece(chunks'[n].lines) PROVE IsPiece(chunks[n].lines)'
    BY <1>1, <2>2 DEF IsPiece, Size, Width, Tokens
  <2>3. IsPiece(chunks'[m].lines) \/ IsPiece(chunks'[n].lines) \/ Before(chunks'[m].lines, chunks'[n].lines)
    BY <1>5 DEF Chunked
  <2>4. QED
    BY <2>1, <2>2, <2>3 DEF Before
<1>6. QED
  BY <1>1, <1>2, <1>3, <1>4, <1>5 DEF Chunked, Before

LEMMA ReadingIsInductive == Spec => []ReadingInv
<1>1. Init => ReadingInv
  BY DEF Init, ReadingInv
<1>2. ReadingInv /\ [Next]_vars => ReadingInv'
  <2> SUFFICES ASSUME ReadingInv, [Next]_vars PROVE ReadingInv'
    OBVIOUS
  <2>1. ASSUME NEW form, NEW ocr, Submit(form, ocr) PROVE ReadingInv'
    BY <2>1, DocumentsAssumption DEF Submit, ReadingInv
  <2>2. CASE Structure
    <3>1. doc \in Seq(Kinds) /\ chunks = <<>>
      BY <2>2 DEF Structure, ReadingInv
    <3>2. Chunked(<<>>, Concepts)
      <4>1. <<>> \in Seq(Chunks) /\ DOMAIN <<>> = {}
        OBVIOUS
      <4>2. Complete(Concepts)
        BY <3>1, ConceptsAreComplete
      <4>3. QED
        BY <4>1, <4>2 DEF Chunked, Complete
    <3>3. Chunked(chunks, concepts)'
      BY <2>2, <3>1, <3>2, SameDocument DEF Structure
    <3>4. QED
      BY <2>2, <3>1, <3>3 DEF Structure, ReadingInv
  <2>3. CASE ChunkConcept
    <3> DEFINE pieces == Split(Head(concepts).lines)
               made == chunks \o [n \in DOMAIN pieces |-> [section |-> Head(concepts).path, lines |-> pieces[n]]]
               left == Tail(concepts)
    <3>1. doc \in Seq(Kinds) /\ Chunked(chunks, concepts) /\ concepts # <<>>
      BY <2>3 DEF ChunkConcept, ReadingInv
    <3>2. Chunked(made, left)
      BY <3>1, NextConcept
    <3>3. chunks' = made /\ concepts' = left /\ doc' = doc /\ phase' = "chunk"
      BY <2>3 DEF ChunkConcept
    <3> HIDE DEF made, left
    <3>4. Chunked(chunks, concepts)'
      BY <3>2, <3>3, SameDocument
    <3>5. QED
      BY <3>1, <3>3, <3>4 DEF ReadingInv
  <2>4. CASE Finish
    <3>1. Chunked(chunks, concepts)'
      BY <2>4, SameDocument DEF Finish, ReadingInv
    <3>2. QED
      BY <2>4, <3>1 DEF Finish, ReadingInv
  <2>5. CASE UNCHANGED vars
    <3>1. ASSUME Chunked(chunks, concepts) PROVE Chunked(chunks, concepts)'
      BY <2>5, <3>1, SameDocument DEF vars
    <3>2. QED
      BY <2>5, <3>1 DEF vars, ReadingInv
  <2>6. QED
    BY <2>1, <2>2, <2>3, <2>4, <2>5 DEF Next
<1>3. QED
  BY <1>1, <1>2, PTL DEF Spec

\* What holds of the chunks when all sections are cut.
LEMMA ReadingDone ==
    ASSUME ReadingInv, phase = "done"
    PROVE  doc \in Seq(Kinds) /\ Chunked(chunks, <<>>)
BY DEF ReadingInv

\* NothingLost (structure_markdown and chunk_concepts): each line of text of a document
\* is in exactly one chunk.
THEOREM NothingLostTheorem == IntakeSpec => []NothingLost
<1>1. ReadingInv => NothingLost
  <2>1. SUFFICES ASSUME ReadingInv, phase = "done", NEW i \in Text
                 PROVE  Cardinality({n \in DOMAIN chunks : i \in chunks[n].lines}) = 1
    BY DEF NothingLost
  <2>2. Chunked(chunks, <<>>)
    BY <2>1, ReadingDone
  <2>3. PICK n \in DOMAIN chunks : i \in chunks[n].lines
    BY <2>2 DEF Chunked
  <2>4. {m \in DOMAIN chunks : i \in chunks[m].lines} = {n}
    BY <2>2, <2>3 DEF Chunked
  <2>5. QED
    BY <2>4, FS_Singleton
<1>2. QED
  BY <1>1, IntakeTakesEither, ReadingIsInductive, PTL

\* SectionsKept (the heading stack of structure_markdown): a chunk is labelled with the
\* headings that enclose each line of its text, outermost first.
THEOREM SectionsTheorem == IntakeSpec => []SectionsKept
<1>1. ReadingInv => SectionsKept
  BY ReadingDone DEF SectionsKept, Chunked, Sound, Labelled, Ascending
<1>2. QED
  BY <1>1, IntakeTakesEither, ReadingIsInductive, PTL

\* TablesWhole (_segment_tables): rows that follow each other are in one chunk.
THEOREM TablesTheorem == IntakeSpec => []TablesWhole
<1>1. ReadingInv => TablesWhole
  <2>1. SUFFICES ASSUME ReadingInv, phase = "done",
                        NEW n \in DOMAIN chunks, NEW i \in chunks[n].lines, doc[i] = "row",
                        NEW j \in {i - 1, i + 1}, j \in DOMAIN doc, doc[j] = "row"
                 PROVE  j \in chunks[n].lines
    BY DEF TablesWhole
  <2>2. Joined(Text, chunks[n].lines) /\ doc \in Seq(Kinds)
    BY <2>1, ReadingDone DEF Chunked, Sound
  <2>3. j \in Text
    BY <2>1, <2>2, KindsOfLines
  <2>4. QED
    BY <2>1, <2>2, <2>3 DEF Joined
<1>2. QED
  BY <1>1, IntakeTakesEither, ReadingIsInductive, PTL

\* OrderKept (_split_oversized): but for the pieces of oversized paragraphs, each chunk
\* ends before the next begins.
THEOREM OrderTheorem == IntakeSpec => []OrderKept
<1>1. ReadingInv => OrderKept
  BY ReadingDone DEF OrderKept, Chunked, Before
<1>2. QED
  BY <1>1, IntakeTakesEither, ReadingIsInductive, PTL

------------------------------------------------------------------------------
(* The size of chunks *)

\* The characters of lines, a separator after each included.
Weigh(lines) == SumFunctionOnSet([i \in DOMAIN doc |-> LineSize[doc[i]] + 1], lines)

LEMMA WeightsAdd ==
    ASSUME doc \in Seq(Kinds), NEW a \in Lines, NEW b \in Lines
    PROVE  /\ Weigh(a) \in Nat
           /\ a \cap b = {} => Weigh(a \cup b) = Weigh(a) + Weigh(b)
           /\ b \subseteq a => Weigh(b) <= Weigh(a)
<1> DEFINE f == [i \in DOMAIN doc |-> LineSize[doc[i]] + 1]
           D == 1..Len(doc)
<1>1. f \in [D -> Nat] /\ f \in [D -> Int] /\ IsFiniteSet(D)
  <2>1. \A i \in 1..Len(doc) : doc[i] \in Kinds
    OBVIOUS
  <2>2. \A i \in 1..Len(doc) : LineSize[doc[i]] + 1 \in Nat
    BY <2>1, SizesAssumption
  <2>3. DOMAIN doc = 1..Len(doc) /\ Len(doc) \in Nat
    OBVIOUS
  <2>4. IsFiniteSet(1..Len(doc))
    BY <2>3, FS_Interval
  <2>5. QED
    BY <2>2, <2>3, <2>4
<1>2. a \in SUBSET D /\ b \in SUBSET D /\ \A c : Weigh(c) = SumFunctionOnSet(f, c)
  BY DEF Lines, Weigh
<1> HIDE DEF f, D
<1>3. {} \in SUBSET a
  OBVIOUS
<1>4. SumFunctionOnSet(f, a) \in Nat
  BY <1>1, <1>2, <1>3, SumOfPart
<1>5. a \cap b = {} => SumFunctionOnSet(f, a \cup b) = SumFunctionOnSet(f, a) + SumFunctionOnSet(f, b)
  BY <1>1, <1>2, SumOfUnion
<1>6. b \subseteq a => SumFunctionOnSet(f, b) <= SumFunctionOnSet(f, a)
  BY <1>1, <1>2, SumOfPart
<1>7. QED
  BY <1>2, <1>4, <1>5, <1>6

\* Tokens round down: under four characters each are lost.
LEMMA SizeOfWeight ==
    ASSUME doc \in Seq(Kinds), NEW lines \in Lines
    PROVE  /\ Weigh(lines) \in Nat
           /\ Size(lines) \in Nat /\ Size(lines) >= 1
           /\ Weigh(lines) <= 4 * Size(lines) + 4
<1>1. Weigh(lines) \in Nat
  BY WeightsAdd
<1>2. Size(lines) = IF Weigh(lines) - 1 < 4 THEN 1 ELSE (Weigh(lines) - 1) \div 4
  BY DEF Size, Tokens, Width, Weigh
<1>3. QED
  BY <1>1, <1>2

LEMMA CountLines ==
    ASSUME doc \in Seq(Kinds), NEW lines \in Lines
    PROVE  IsFiniteSet(lines) /\ Cardinality(lines) \in Nat
<1>1. IsFiniteSet(1..Len(doc))
  BY FS_Interval
<1>2. QED
  BY <1>1, FS_Subset, FS_CardinalityType DEF Lines

\* Lines have a block at least, and no more blocks than parts.
LEMMA CountParts ==
    ASSUME doc \in Seq(Kinds), NEW lines \in Lines, lines # {}
    PROVE  /\ Blocks(lines) \in Nat /\ Parts(lines) \in Nat
           /\ Parts(lines) >= 1 /\ Blocks(lines) <= Parts(lines)
<1> DEFINE parts == BlockStarts(lines) \cup SentenceStarts(lines)
<1>1. parts \in Lines /\ BlockStarts(lines) \in Lines /\ BlockStarts(lines) \in SUBSET parts
  BY DEF BlockStarts, SentenceStarts, Lines
<1>2. parts # {}
  <2>1. lines \in SUBSET Nat
    BY DEF Lines
  <2>2. PICK i \in lines : \A k \in lines : i <= k
    BY <2>1, Least
  <2>3. i - 1 \notin lines
    BY <2>1, <2>2
  <2>4. QED
    BY <2>3 DEF BlockStarts, Cuts
<1> HIDE DEF parts
<1>3. IsFiniteSet(parts) /\ Cardinality(parts) \in Nat /\ Cardinality(BlockStarts(lines)) \in Nat
  BY <1>1, CountLines
<1>4. Cardinality(parts) # 0
  BY <1>2, <1>3, FS_EmptySet
<1>5. Cardinality(BlockStarts(lines)) <= Cardinality(parts)
  BY <1>1, <1>3, FS_Subset
<1>6. QED
  BY <1>3, <1>4, <1>5 DEF Blocks, Parts, parts

\* Lines fit that were counted as no more than the target.
LEMMA CountedFits ==
    ASSUME doc \in Seq(Kinds), NEW lines \in Lines, lines # {}, NEW held \in Nat,
           held >= 1, held <= Target, Weigh(lines) <= 4 * held + 4 * Parts(lines)
    PROVE  Fits(lines)
<1> DEFINE w == Weigh(lines)
           b == Blocks(lines)
           p == Parts(lines)
           over == 5 * p - 2
<1>1. w \in Nat /\ b \in Nat /\ p \in Nat /\ p >= 1 /\ b <= p
  BY CountParts, SizeOfWeight
<1>2. Chars(lines) = w + b - 2
  <2>1. Width(lines) = w - 1
    BY DEF Width, Weigh
  <2>2. QED
    BY <1>1, <2>1 DEF Chars
<1>3. w <= 4 * held + 4 * p
  OBVIOUS
<1> HIDE DEF w, b, p
<1>4. w + b - 2 <= 4 * Target + over /\ over \in Nat /\ Target \in Nat
  BY <1>1, <1>3, SizesAssumption
<1> HIDE DEF over
<1>5. Tokens(w + b - 2) <= Target + over \div 4
  <2>1. CASE w + b - 2 < 4
    BY <1>4, <2>1 DEF Tokens
  <2>2. CASE ~ (w + b - 2 < 4)
    <3>1. Tokens(w + b - 2) = (w + b - 2) \div 4
      BY <2>2 DEF Tokens
    <3> DEFINE c == w + b - 2
    <3>2. c \in Nat /\ c <= 4 * Target + over
      BY <1>1, <1>4, <2>2
    <3> HIDE DEF c
    <3>3. c \div 4 <= Target + over \div 4
      BY <1>4, <3>2
    <3>4. QED
      BY <3>1, <3>3 DEF c
  <2>3. QED
    BY <2>1, <2>2
<1>6. QED
  BY <1>2, <1>5 DEF Fits, over, p

\* What is held for the next chunk: whole runs of lines, counted one by one.
Counted(starts, buffer, held) ==
    /\ buffer \in Lines /\ held \in Nat
    /\ buffer = {} <=> held = 0
    /\ \A i \in buffer \ starts : i - 1 \in buffer
    /\ Weigh(buffer) <= 4 * held + 4 * Cardinality(starts \cap buffer)
    /\ held <= Target \/ Cardinality(starts \cap buffer) = 1

LEMMA NothingCounted ==
    ASSUME doc \in Seq(Kinds), NEW starts
    PROVE  Counted(starts, {}, 0)
<1>1. {} \in Lines /\ starts \cap {} = {} /\ Weigh({}) \in Nat
  BY WeightsAdd DEF Lines
<1>2. {} \cap {} = {} /\ {} \cup {} = {}
  OBVIOUS
<1>3. Weigh({}) = 0
  <2>1. Weigh({}) = Weigh({}) + Weigh({})
    BY <1>1, <1>2, WeightsAdd
  <2>2. QED
    BY <1>1, <2>1
<1>4. QED
  BY <1>1, <1>3, FS_EmptySet, SizesAssumption DEF Counted

\* A run has one start, and no gap.
LEMMA RunIsWhole ==
    ASSUME doc \in Seq(Kinds), NEW lines \in Lines, NEW starts, Opens(lines, starts), NEW s \in starts
    PROVE  LET run == Run(lines, starts, s)
           IN /\ run \in Lines /\ s \in run
              /\ starts \cap run = {s}
              /\ \A i \in run \ starts : i - 1 \in run
<1> DEFINE run == Run(lines, starts, s)
<1>1. lines \in SUBSET Nat /\ s \in lines /\ s \in Nat
  BY DEF Lines, Opens
<1>2. s \in run
  <2>1. s + 1..s = {} /\ s >= s
    BY <1>1
  <2>2. QED
    BY <1>1, <2>1 DEF Run
<1>3. ASSUME NEW i \in run PROVE i \in starts => i = s
  <2>1. i \in Nat /\ i >= s /\ (s + 1..i) \cap starts = {}
    BY <1>1 DEF Run
  <2>2. QED
    BY <1>1, <2>1
<1>4. ASSUME NEW i \in run, i \notin starts PROVE i - 1 \in run
  <2>1. i \in Nat /\ i >= s /\ s..i \subseteq run /\ i # s
    BY <1>1, <1>4, RunIsUnbroken DEF Run
  <2>2. i - 1 \in s..i
    BY <1>1, <2>1
  <2>3. QED
    BY <2>1, <2>2
<1>5. run \in Lines
  BY RunType
<1>6. QED
  BY <1>2, <1>3, <1>4, <1>5

\* Holding a run keeps the count, which exceeds the target for one run alone.
LEMMA CountedHold ==
    ASSUME doc \in Seq(Kinds), NEW lines \in Lines, NEW starts, Opens(lines, starts), NEW s \in starts,
           NEW r \in Holding, Counted(starts, r.buffer, r.held),
           r.buffer \cap Run(lines, starts, s) = {}
    PROVE  LET run == Run(lines, starts, s)
               next == Hold(r, run)
           IN /\ Counted(starts, next.buffer, next.held)
              /\ next.held <= Target \/ (next.buffer = run /\ next.held = Size(run))
              /\ next.out = r.out \/ (r.buffer # {} /\ next.out = Append(r.out, r.buffer))
<1> DEFINE run == Run(lines, starts, s)
           next == Hold(r, run)
           kept == IF Overflows(r, run) THEN Flush(r) ELSE r
<1>1. /\ run \in Lines /\ s \in run /\ starts \cap run = {s}
      /\ \A i \in run \ starts : i - 1 \in run
  BY RunIsWhole
<1>2. r.buffer \cap run = {}
  OBVIOUS
<1> HIDE DEF run
<1>3. /\ Size(run) \in Nat /\ Size(run) >= 1 /\ Weigh(run) \in Nat /\ Weigh(run) <= 4 * Size(run) + 4
  BY <1>1, SizeOfWeight
<1>4. kept \in Holding /\ Counted(starts, kept.buffer, kept.held) /\ kept.buffer \cap run = {}
  <2>1. CASE Overflows(r, run)
    <3>1. kept = [out |-> Append(r.out, r.buffer), buffer |-> {}, held |-> 0]
      BY <2>1 DEF Flush, Empty, Overflows
    <3>2. kept \in Holding
      BY <2>1, FlushType
    <3>3. kept.buffer = {} /\ kept.held = 0
      BY <3>1
    <3>4. Counted(starts, {}, 0)
      BY NothingCounted
    <3> HIDE DEF kept
    <3>5. QED
      BY <3>2, <3>3, <3>4
  <2>2. CASE ~Overflows(r, run)
    BY <1>2, <2>2
  <2>3. QED
    BY <2>1, <2>2
<1>5. kept.buffer = {} \/ kept.held + Size(run) <= Target
  <2>1. CASE Overflows(r, run)
    BY <2>1 DEF Flush, Empty, Overflows
  <2>2. CASE ~Overflows(r, run)
    <3>1. r.held \in Nat /\ Target \in Nat
      BY SizesAssumption DEF Holding
    <3>2. QED
      BY <1>3, <2>2, <3>1 DEF Overflows
  <2>3. QED
    BY <2>1, <2>2
<1>6. kept.out = r.out \/ (r.buffer # {} /\ kept.out = Append(r.out, r.buffer))
  BY DEF Flush, Empty, Overflows
<1>7. next = [kept EXCEPT !.buffer = @ \cup run, !.held = @ + Size(run)]
  BY DEF Hold
<1> HIDE DEF kept, next
<1>8. next.out = kept.out /\ next.buffer = kept.buffer \cup run /\ next.held = kept.held + Size(run)
  BY <1>4, <1>7 DEF Holding
<1> DEFINE old == starts \cap kept.buffer
           new == starts \cap next.buffer
<1>9. /\ kept.buffer \in Lines /\ kept.held \in Nat
      /\ kept.buffer = {} <=> kept.held = 0
      /\ \A i \in kept.buffer \ starts : i - 1 \in kept.buffer
      /\ Weigh(kept.buffer) <= 4 * kept.held + 4 * Cardinality(old)
  BY <1>4 DEF Counted
<1>10. /\ Cardinality(old) \in Nat
       /\ Cardinality(new) = Cardinality(old) + 1
  <2>1. new = old \cup {s} /\ s \notin old
    BY <1>1, <1>4, <1>8
  <2>2. old \in Lines
    BY <1>9 DEF Lines
  <2>3. IsFiniteSet(old) /\ Cardinality(old) \in Nat
    BY <2>2, CountLines
  <2>4. QED
    BY <2>1, <2>3, FS_AddElement
<1>11. Weigh(next.buffer) = Weigh(kept.buffer) + Weigh(run) /\ Weigh(kept.buffer) \in Nat
  BY <1>1, <1>4, <1>8, <1>9, WeightsAdd
<1>12. next.buffer \in Lines /\ next.held \in Nat /\ next.buffer # {} /\ next.held # 0
  <2>1. next.buffer \in Lines /\ next.buffer # {}
    BY <1>1, <1>8, <1>9 DEF Lines
  <2>2. QED
    BY <1>3, <1>8, <1>9, <2>1
<1>13. \A i \in next.buffer \ starts : i - 1 \in next.buffer
  BY <1>1, <1>8, <1>9
<1> HIDE DEF old, new
<1>14. Weigh(next.buffer) <= 4 * next.held + 4 * Cardinality(new)
  <2> DEFINE w == Weigh(kept.buffer)
             v == Weigh(run)
             h == kept.held
             z == Size(run)
             c == Cardinality(old)
  <2>1. w \in Nat /\ v \in Nat /\ h \in Nat /\ z \in Nat /\ c \in Nat /\ w <= 4 * h + 4 * c /\ v <= 4 * z + 4
    BY <1>3, <1>9, <1>10, <1>11
  <2>2. Weigh(next.buffer) = w + v /\ next.held = h + z /\ Cardinality(new) = c + 1
    BY <1>8, <1>10, <1>11
  <2> HIDE DEF w, v, h, z, c
  <2>3. QED
    BY <2>1, <2>2
<1>15. CASE kept.buffer = {}
  <2>1. next.buffer = run /\ next.held = Size(run)
    BY <1>3, <1>8, <1>9, <1>15
  <2>2. new = {s}
    BY <1>1, <2>1 DEF new
  <2>3. Cardinality(new) = 1
    BY <2>2, FS_Singleton
  <2>4. QED
    BY <1>6, <1>8, <1>12, <1>13, <1>14, <2>1, <2>3 DEF Counted, run, next, new
<1>16. CASE kept.held + Size(run) <= Target
  BY <1>6, <1>8, <1>12, <1>13, <1>14, <1>16 DEF Counted, run, next, new
<1>17. QED
  BY <1>5, <1>15, <1>16

\* What goes out fits, and what is held can.
Fitting(starts, r) ==
    /\ r \in Holding
    /\ Counted(starts, r.buffer, r.held)
    /\ \A k \in DOMAIN r.out : Fits(r.out[k])

LEMMA AppendFits ==
    ASSUME NEW out \in Seq(Lines), NEW lines, Fits(lines),
           \A k \in DOMAIN out : Fits(out[k])
    PROVE  \A k \in DOMAIN Append(out, lines) : Fits(Append(out, lines)[k])
<1>1. \A k \in DOMAIN Append(out, lines) :
         \/ k \in DOMAIN out /\ Append(out, lines)[k] = out[k]
         \/ Append(out, lines)[k] = lines
  OBVIOUS
<1>2. QED
  BY <1>1

LEMMA FlushFits ==
    ASSUME doc \in Seq(Kinds), NEW starts, NEW r, Fitting(starts, r), r.buffer # {} => Fits(r.buffer)
    PROVE  Fitting(starts, Flush(r))
<1>1. CASE r.buffer = {}
  BY <1>1 DEF Flush
<1>2. CASE r.buffer # {}
  <2>1. Flush(r) = [out |-> Append(r.out, r.buffer), buffer |-> {}, held |-> 0]
    BY <1>2 DEF Flush, Empty
  <2>2. Flush(r) \in Holding
    BY FlushType DEF Fitting
  <2>3. r.out \in Seq(Lines) /\ \A k \in DOMAIN r.out : Fits(r.out[k])
    BY DEF Fitting, Holding
  <2>4. \A k \in DOMAIN Append(r.out, r.buffer) : Fits(Append(r.out, r.buffer)[k])
    BY <1>2, <2>3, AppendFits
  <2>5. QED
    BY <2>1, <2>2, <2>4, NothingCounted DEF Fitting
<1>3. QED
  BY <1>1, <1>2

\* The sentences held of a paragraph fit, or are one sentence.
LEMMA SentencesFit ==
    ASSUME doc \in Seq(Kinds), NEW block \in Lines, \A i, j \in block : Class(i) = Class(j),
           NEW buffer, NEW held, Counted(SentenceStarts(block), buffer, held),
           buffer \subseteq block, buffer # {}
    PROVE  Fits(buffer)
<1> DEFINE starts == SentenceStarts(block)
<1>1. /\ buffer \in Lines /\ held \in Nat /\ held # 0
      /\ \A i \in buffer \ starts : i - 1 \in buffer
      /\ Weigh(buffer) <= 4 * held + 4 * Cardinality(starts \cap buffer)
      /\ held <= Target \/ Cardinality(starts \cap buffer) = 1
  BY DEF Counted
<1>2. SentenceStarts(buffer) = starts \cap buffer
  BY <1>1 DEF SentenceStarts, CutsSentence
<1>3. BlockStarts(buffer) \subseteq SentenceStarts(buffer)
  BY DEF BlockStarts, SentenceStarts, Cuts, CutsSentence
<1>4. Parts(buffer) = Cardinality(starts \cap buffer)
  <2>1. BlockStarts(buffer) \cup SentenceStarts(buffer) = starts \cap buffer
    BY <1>2, <1>3
  <2>2. QED
    BY <2>1 DEF Parts
<1> HIDE DEF starts
<1>5. CASE Cardinality(starts \cap buffer) = 1
  BY <1>4, <1>5 DEF Fits
<1>6. CASE held <= Target
  <2>1. held >= 1
    BY <1>1
  <2>2. QED
    BY <1>1, <1>4, <1>6, <2>1, CountedFits
<1>7. QED
  BY <1>1, <1>5, <1>6

\* The blocks held of a section fit, unless they are one table.
LEMMA BlocksFit ==
    ASSUME doc \in Seq(Kinds), NEW lines \in Lines, NEW buffer, NEW held,
           Counted(BlockStarts(lines), buffer, held), held <= Target, buffer \subseteq lines, buffer # {}
    PROVE  Fits(buffer)
<1> DEFINE starts == BlockStarts(lines)
           parts == BlockStarts(buffer) \cup SentenceStarts(buffer)
<1>1. /\ buffer \in Lines /\ held \in Nat /\ held # 0
      /\ Weigh(buffer) <= 4 * held + 4 * Cardinality(starts \cap buffer)
  BY DEF Counted
<1>2. starts \cap buffer \in SUBSET parts
  BY DEF BlockStarts, Cuts
<1>3. parts \in Lines /\ starts \cap buffer \in Lines
  BY <1>1 DEF Lines, BlockStarts, SentenceStarts
<1>4. Parts(buffer) = Cardinality(parts)
  BY DEF Parts
<1> HIDE DEF starts, parts
<1>5. IsFiniteSet(parts) /\ Cardinality(parts) \in Nat /\ Cardinality(starts \cap buffer) \in Nat
  BY <1>3, CountLines
<1>6. Cardinality(starts \cap buffer) <= Cardinality(parts)
  BY <1>2, <1>5, FS_Subset
<1>7. held >= 1 /\ Weigh(buffer) \in Nat
  BY <1>1, SizeOfWeight
<1>8. Weigh(buffer) <= 4 * held + 4 * Parts(buffer)
  BY <1>1, <1>4, <1>5, <1>6, <1>7
<1>9. QED
  BY <1>1, <1>7, <1>8, CountedFits

LEMMA TableFits ==
    ASSUME doc \in Seq(Kinds), NEW lines \in Lines, NEW s \in BlockStarts(lines),
           \A i \in Run(lines, BlockStarts(lines), s) : Class(i) = "table"
    PROVE  Fits(Run(lines, BlockStarts(lines), s))
<1> DEFINE starts == BlockStarts(lines)
           run == Run(lines, starts, s)
<1>1. run \in Lines /\ s \in run /\ starts \cap run = {s} /\ \A i \in run \ starts : i - 1 \in run
  BY BlocksOpen, RunIsWhole
<1>2. s - 1 \notin run
  BY <1>1 DEF Run, Lines
<1>3. ASSUME NEW i \in run, i # s PROVE ~ Cuts(run, i)
  <2>1. i - 1 \in run
    BY <1>1, <1>3
  <2>2. QED
    BY <2>1 DEF Cuts
<1>4. BlockStarts(run) = {s}
  <2> HIDE DEF run
  <2>1. QED
    BY <1>1, <1>2, <1>3 DEF BlockStarts, Cuts
<1>5. Blocks(run) = 1
  BY <1>4, FS_Singleton DEF Blocks
<1>6. \A i \in run : doc[i] = "row"
  BY DEF Class
<1>7. QED
  BY <1>5, <1>6 DEF Fits

\* What Hold sends out fits if what was held does.
LEMMA HoldFits ==
    ASSUME doc \in Seq(Kinds), NEW lines \in Lines, NEW starts, Opens(lines, starts), NEW s \in starts,
           NEW r, Fitting(starts, r), r.buffer # {} => Fits(r.buffer),
           r.buffer \cap Run(lines, starts, s) = {}
    PROVE  LET run == Run(lines, starts, s)
               next == Hold(r, run)
           IN /\ Fitting(starts, next)
              /\ next.held <= Target \/ (next.buffer = run /\ next.held = Size(run))
              /\ next.buffer \subseteq r.buffer \cup run
<1> DEFINE run == Run(lines, starts, s)
           next == Hold(r, run)
<1>1. r \in Holding /\ Counted(starts, r.buffer, r.held) /\ \A k \in DOMAIN r.out : Fits(r.out[k])
  BY DEF Fitting
<1>2. /\ Counted(starts, next.buffer, next.held)
      /\ next.held <= Target \/ (next.buffer = run /\ next.held = Size(run))
      /\ next.out = r.out \/ (r.buffer # {} /\ next.out = Append(r.out, r.buffer))
  BY <1>1, CountedHold
<1>3. run \in Lines
  BY RunType
<1>4. next \in Holding
  BY <1>1, <1>3, HoldType
<1>5. r.out \in Seq(Lines)
  BY <1>1 DEF Holding
<1>6. \A k \in DOMAIN next.out : Fits(next.out[k])
  <2>1. CASE next.out = r.out
    BY <1>1, <2>1
  <2>2. CASE r.buffer # {} /\ next.out = Append(r.out, r.buffer)
    <3>1. \A k \in DOMAIN Append(r.out, r.buffer) : Fits(Append(r.out, r.buffer)[k])
      BY <1>1, <1>5, <2>2, AppendFits
    <3>2. QED
      BY <2>2, <3>1
  <2>3. QED
    BY <1>2, <2>1, <2>2
<1>7. next.buffer \subseteq r.buffer \cup run
  <2> DEFINE kept == IF Overflows(r, run) THEN Flush(r) ELSE r
  <2>1. kept \in Holding /\ kept.buffer \subseteq r.buffer
    BY <1>1, FlushType DEF Flush, Empty
  <2>2. next = [kept EXCEPT !.buffer = @ \cup run, !.held = @ + Size(run)]
    BY DEF Hold
  <2> HIDE DEF kept, next, run
  <2>3. QED
    BY <2>1, <2>2 DEF Holding
<1>8. QED
  BY <1>2, <1>4, <1>6, <1>7 DEF Fitting

LEMMA PiecesFit ==
    ASSUME doc \in Seq(Kinds), NEW block \in Lines, \A i, j \in block : Class(i) = Class(j)
    PROVE  \A k \in DOMAIN Pieces(block) : Fits(Pieces(block)[k])
<1> DEFINE starts == SentenceStarts(block)
           m == Len(doc)
           Done(n) == ReadTo(block, starts, n)
           Good(n, r) == Fitting(starts, r) /\ r.buffer \subseteq Done(n)
<1>1. m \in Nat /\ Opens(block, starts) /\ \A n : Done(n) \subseteq block
  BY BlocksOpen DEF ReadTo
<1>2. PICK f : /\ f \in [0..m -> Holding]
               /\ f[0] = Empty
               /\ \A n \in 1..m : f[n] = IF n \in starts THEN Hold(f[n - 1], Run(block, starts, n)) ELSE f[n - 1]
               /\ HoldSentences(block) = f[m]
  BY SentencesLoop
<1>3. ASSUME NEW n, NEW r, Good(n, r), r.buffer # {} PROVE Fits(r.buffer)
  <2>1. r.buffer \subseteq block /\ Counted(starts, r.buffer, r.held)
    BY <1>1, <1>3 DEF Fitting
  <2>2. QED
    BY <1>3, <2>1, SentencesFit
<1> DEFINE T == {n \in 0..m : Good(n, f[n])}
<1>4. T = 0..m
  <2>1. T \in SUBSET (0..m) /\ 0 \in T
    <3>1. Empty.buffer = {} /\ Empty.held = 0 /\ Empty.out = <<>>
      BY DEF Empty
    <3>2. Fitting(starts, Empty)
      BY <3>1, EmptyType, NothingCounted DEF Fitting
    <3>3. 0 \in 0..m /\ Good(0, f[0])
      BY <1>1, <1>2, <3>1, <3>2
    <3> HIDE DEF Good
    <3>4. QED
      BY <3>3
  <2>2. ASSUME NEW k \in T, k < m PROVE k + 1 \in T
    <3> DEFINE n == k + 1
               run == Run(block, starts, n)
    <3>1. n \in 1..m /\ n \in 0..m /\ n - 1 = k /\ Good(k, f[k])
      BY <1>1, <2>2
    <3> HIDE DEF n, T
    <3>2. CASE n \notin starts
      <4>1. f[n] = f[k] /\ Done(n) = Done(k)
        BY <1>1, <1>2, <3>1, <3>2, ReadOn
      <4>2. QED
        BY <3>1, <4>1 DEF T, n
    <3>3. CASE n \in starts
      <4>1. f[n] = Hold(f[k], run)
        BY <1>2, <3>1, <3>3
      <4>2. Done(n) = Done(k) \cup run /\ \A i \in Done(k), j \in run : i < j
        BY <1>1, <3>1, <3>3, ReadOn
      <4>3. Done(k) \cap run = {}
        <5>1. run \in Lines /\ \A i \in run : i \in Nat
          BY RunType DEF Lines
        <5>2. QED
          BY <4>2, <5>1
      <4>4. f[k].buffer \cap run = {} /\ Fitting(starts, f[k])
        BY <3>1, <4>3
      <4>5. f[k].buffer # {} => Fits(f[k].buffer)
        BY <1>3, <3>1
      <4> HIDE DEF Done, starts, m
      <4>6. Fitting(starts, f[n]) /\ f[n].buffer \subseteq f[k].buffer \cup run
        BY <1>1, <3>3, <4>1, <4>4, <4>5, HoldFits
      <4>7. Good(n, f[n])
        BY <3>1, <4>2, <4>6
      <4> HIDE DEF Good
      <4>8. QED
        BY <3>1, <4>7 DEF T, n
    <3>4. QED
      BY <3>2, <3>3
  <2> HIDE DEF T
  <2>3. QED
    BY <1>1, <2>1, <2>2, UptoInduction
<1>5. Good(m, f[m])
  <2>1. m \in T
    BY <1>1, <1>4
  <2> HIDE DEF Good
  <2>2. QED
    BY <2>1
<1>6. f[m].buffer # {} => Fits(f[m].buffer)
  BY <1>3, <1>5
<1>7. Fitting(starts, Flush(f[m]))
  BY <1>5, <1>6, FlushFits
<1>8. QED
  BY <1>2, <1>7 DEF Fitting, Pieces

\* Between two blocks, no more is held than the target.
LEMMA PlaceFits ==
    ASSUME doc \in Seq(Kinds), NEW lines \in Lines, NEW s \in BlockStarts(lines),
           NEW r, Fitting(BlockStarts(lines), r), r.held <= Target, r.buffer \subseteq lines,
           r.buffer \cap Run(lines, BlockStarts(lines), s) = {}
    PROVE  LET run == Run(lines, BlockStarts(lines), s)
               next == Place(r, run)
           IN /\ Fitting(BlockStarts(lines), next)
              /\ next.held <= Target
              /\ next.buffer \subseteq r.buffer \cup run
<1> DEFINE starts == BlockStarts(lines)
           run == Run(lines, starts, s)
           held == Hold(r, run)
           next == Place(r, run)
           oversized == [r EXCEPT !.out = @ \o Pieces(run)]
<1>1. Opens(lines, starts) /\ run \in Lines /\ run \subseteq lines
  BY BlocksOpen, RunType DEF Run
<1>2. r.buffer # {} => Fits(r.buffer)
  BY BlocksFit DEF Fitting
<1>3. /\ Fitting(starts, held)
      /\ held.held <= Target \/ (held.buffer = run /\ held.held = Size(run))
      /\ held.buffer \subseteq r.buffer \cup run
  BY <1>1, <1>2, HoldFits
<1>4. next = IF \A i \in run : Class(i) = "table" THEN Flush(held)
             ELSE IF Size(run) > Target THEN oversized ELSE held
  BY DEF Place
<1>5. CASE \A i \in run : Class(i) = "table"
  <2>1. Fits(run)
    BY <1>5, TableFits
  <2>2. held.buffer # {} => Fits(held.buffer)
    <3>1. CASE held.held <= Target
      <4>1. held.buffer \subseteq lines /\ Counted(starts, held.buffer, held.held)
        BY <1>1, <1>3 DEF Fitting
      <4> HIDE DEF held
      <4>2. QED
        BY <3>1, <4>1, BlocksFit
    <3>2. CASE held.buffer = run
      BY <2>1, <3>2
    <3>3. QED
      BY <1>3, <3>1, <3>2
  <2> HIDE DEF held
  <2>3. Fitting(starts, Flush(held))
    BY <1>3, <2>2, FlushFits
  <2>4. Flush(held).buffer = {}
    BY DEF Flush, Empty
  <2>5. Flush(held).held = 0
    BY <2>3, <2>4 DEF Fitting, Counted
  <2>6. QED
    BY <1>4, <1>5, <2>3, <2>4, <2>5, SizesAssumption
<1>6. CASE ~ (\A i \in run : Class(i) = "table") /\ Size(run) > Target
  <2>1. \A i, j \in run : Class(i) = Class(j)
    BY BlockHasClass
  <2>2. Pieces(run) \in Seq(Lines) /\ \A k \in DOMAIN Pieces(run) : Fits(Pieces(run)[k])
    BY <1>1, <2>1, PiecesType, PiecesFit
  <2>3. r \in Holding /\ r.out \in Seq(Lines) /\ \A k \in DOMAIN r.out : Fits(r.out[k])
    BY DEF Fitting, Holding
  <2> DEFINE pieces == Pieces(run)
             out == r.out \o pieces
  <2>4. out \in Seq(Lines) /\ \A k \in DOMAIN out : Fits(out[k])
    <3> HIDE DEF pieces
    <3>1. \A k \in DOMAIN out :
             \/ k \in DOMAIN r.out /\ out[k] = r.out[k]
             \/ /\ k \notin DOMAIN r.out /\ k - Len(r.out) \in DOMAIN pieces
                /\ out[k] = pieces[k - Len(r.out)]
      BY <2>2, <2>3, Concatenated DEF pieces
    <3>2. out \in Seq(Lines)
      BY <2>2, <2>3 DEF pieces
    <3> HIDE DEF out
    <3>3. QED
      BY <2>2, <2>3, <3>1, <3>2 DEF pieces
  <2>5. next = [r EXCEPT !.out = out]
    BY <1>4, <1>6, <2>3 DEF Holding
  <2> HIDE DEF out, pieces, next
  <2>6. next \in Holding /\ next.buffer = r.buffer /\ next.held = r.held /\ next.out = out
    BY <2>3, <2>4, <2>5 DEF Holding
  <2>7. QED
    BY <2>4, <2>6 DEF Fitting, next
<1>7. CASE ~ (\A i \in run : Class(i) = "table") /\ ~ (Size(run) > Target)
  <2>1. held.held <= Target
    BY <1>1, <1>3, <1>7, SizeOfWeight, SizesAssumption
  <2> HIDE DEF held
  <2>2. QED
    BY <1>3, <1>4, <1>7, <2>1
<1>8. QED
  BY <1>5, <1>6, <1>7

\* The chunks of a section fit.
LEMMA SplitFits ==
    ASSUME doc \in Seq(Kinds), NEW lines \in Lines, lines # {}
    PROVE  \A k \in DOMAIN Split(lines) : Fits(Split(lines)[k])
<1> DEFINE starts == BlockStarts(lines)
           m == Len(doc)
           Done(n) == ReadTo(lines, starts, n)
           Good(n, r) == Fitting(starts, r) /\ r.held <= Target /\ r.buffer \subseteq Done(n)
<1>1. m \in Nat /\ Opens(lines, starts) /\ \A n : Done(n) \subseteq lines
  BY BlocksOpen DEF ReadTo
<1>2. PICK f : /\ f \in [0..m -> Holding]
               /\ f[0] = Empty
               /\ \A n \in 1..m : f[n] = IF n \in starts THEN Place(f[n - 1], Run(lines, starts, n)) ELSE f[n - 1]
               /\ PlaceBlocks(lines) = f[m]
  BY BlocksLoop
<1> DEFINE T == {n \in 0..m : Good(n, f[n])}
<1>3. T = 0..m
  <2>1. T \in SUBSET (0..m) /\ 0 \in T
    <3>1. Empty.buffer = {} /\ Empty.held = 0 /\ Empty.out = <<>>
      BY DEF Empty
    <3>2. Fitting(starts, Empty)
      BY <3>1, EmptyType, NothingCounted DEF Fitting
    <3>3. 0 \in 0..m /\ Good(0, f[0])
      BY <1>1, <1>2, <3>1, <3>2, SizesAssumption
    <3> HIDE DEF Good
    <3>4. QED
      BY <3>3
  <2>2. ASSUME NEW k \in T, k < m PROVE k + 1 \in T
    <3> DEFINE n == k + 1
               run == Run(lines, starts, n)
    <3>1. n \in 1..m /\ n \in 0..m /\ n - 1 = k /\ Good(k, f[k])
      BY <1>1, <2>2
    <3> HIDE DEF n, T
    <3>2. CASE n \notin starts
      <4>1. f[n] = f[k] /\ Done(n) = Done(k)
        BY <1>1, <1>2, <3>1, <3>2, ReadOn
      <4>2. QED
        BY <3>1, <4>1 DEF T, n
    <3>3. CASE n \in starts
      <4>1. f[n] = Place(f[k], run)
        BY <1>2, <3>1, <3>3
      <4>2. Done(n) = Done(k) \cup run /\ \A i \in Done(k), j \in run : i < j
        BY <1>1, <3>1, <3>3, ReadOn
      <4>3. Done(k) \cap run = {}
        <5>1. run \in Lines /\ \A i \in run : i \in Nat
          BY RunType DEF Lines
        <5>2. QED
          BY <4>2, <5>1
      <4>4. f[k].buffer \cap run = {} /\ Fitting(starts, f[k]) /\ f[k].held <= Target /\ f[k].buffer \subseteq lines
        BY <1>1, <3>1, <4>3
      <4> HIDE DEF Done, m
      <4>5. Fitting(starts, f[n]) /\ f[n].held <= Target /\ f[n].buffer \subseteq f[k].buffer \cup run
        BY <3>3, <4>1, <4>4, PlaceFits
      <4>6. Good(n, f[n])
        BY <3>1, <4>2, <4>5
      <4> HIDE DEF Good
      <4>7. QED
        BY <3>1, <4>6 DEF T, n
    <3>4. QED
      BY <3>2, <3>3
  <2> HIDE DEF T
  <2>3. QED
    BY <1>1, <2>1, <2>2, UptoInduction
<1>4. Good(m, f[m])
  <2>1. m \in T
    BY <1>1, <1>3
  <2> HIDE DEF Good
  <2>2. QED
    BY <2>1
<1>5. f[m].buffer # {} => Fits(f[m].buffer)
  <2>1. f[m].buffer \subseteq lines /\ f[m].held <= Target /\ Counted(starts, f[m].buffer, f[m].held)
    BY <1>1, <1>4 DEF Fitting
  <2>2. QED
    BY <2>1, BlocksFit
<1>6. Fitting(starts, Flush(f[m]))
  BY <1>4, <1>5, FlushFits
<1> DEFINE span == Min(lines)..Max(lines)
<1>7. Split(lines) = IF Size(span) <= Target THEN <<lines>> ELSE Flush(f[m]).out
  BY <1>2 DEF Split
<1>8. ASSUME Size(span) <= Target PROVE Fits(lines)
  <2>1. lines \in SUBSET (0..m) /\ lines \in SUBSET Nat
    BY <1>1 DEF Lines
  <2>2. PICK a \in lines : \A k \in lines : a <= k
    BY <2>1, Least
  <2>3. PICK b \in lines : \A k \in lines : k <= b
    BY <1>1, <2>1, Greatest
  <2>4. Min(lines) = a
    <3>1. a \in Nat /\ \A k \in lines : k \in Nat
      BY <2>1
    <3>2. \A c \in lines : (\A k \in lines : c <= k) => c = a
      BY <2>2, <3>1
    <3>3. QED
      BY <2>2, <3>2 DEF Min
  <2>5. Max(lines) = b
    <3>1. b \in Nat /\ \A k \in lines : k \in Nat
      BY <2>1
    <3>2. \A c \in lines : (\A k \in lines : c >= k) => c = b
      BY <2>3, <3>1
    <3>3. QED
      BY <2>3, <3>1, <3>2 DEF Max
  <2>6. span \in Lines /\ lines \subseteq span
    BY <1>1, <2>2, <2>3, <2>4, <2>5 DEF Lines
  <2> HIDE DEF span
  <2>7. Weigh(lines) <= Weigh(span) /\ Weigh(lines) \in Nat /\ Weigh(span) \in Nat
    BY <2>6, WeightsAdd
  <2>8. Size(span) \in Nat /\ Size(span) >= 1 /\ Weigh(span) <= 4 * Size(span) + 4
    BY <2>6, SizeOfWeight
  <2>9. Parts(lines) \in Nat /\ Parts(lines) >= 1
    BY CountParts
  <2>10. Weigh(lines) <= 4 * Size(span) + 4 * Parts(lines)
    BY <2>7, <2>8, <2>9
  <2>11. QED
    BY <1>8, <2>8, <2>10, CountedFits
<1>9. CASE Size(span) <= Target
  <2>1. Split(lines) = <<lines>> /\ Fits(lines)
    BY <1>7, <1>8, <1>9
  <2>2. QED
    BY <2>1
<1>10. CASE ~ (Size(span) <= Target)
  BY <1>6, <1>7, <1>10 DEF Fitting
<1>11. QED
  BY <1>9, <1>10

\* SizeBound (chunk_concepts): a chunk is over the target by rounding and separators alone,
\* unless it is one table or one sentence.
THEOREM SizeTheorem == IntakeSpec => []SizeBound
<1> DEFINE Sizes == \A n \in DOMAIN chunks : Fits(chunks[n].lines)
<1>1. Init => Sizes
  BY DEF Init
<1>2. ASSUME ReadingInv, Sizes, [Next]_vars PROVE Sizes'
  <2>1. ASSUME doc' = doc, chunks' = chunks PROVE Sizes'
    <3>1. ASSUME NEW n \in DOMAIN chunks' PROVE Fits(chunks[n].lines)'
      <4>1. Fits(chunks'[n].lines)
        BY <1>2, <2>1, <3>1
      <4>2. QED
        BY <2>1, <4>1 DEF Fits, Tokens, Chars, Width, Blocks, Parts, BlockStarts, SentenceStarts, Cuts, CutsSentence, Class
    <3>2. QED
      BY <3>1
  <2>2. ASSUME NEW form, NEW ocr, Submit(form, ocr) PROVE Sizes'
    <3>1. chunks' = <<>>
      BY <1>2, <2>2 DEF Submit, ReadingInv
    <3>2. QED
      BY <3>1
  <2>3. CASE ChunkConcept
    <3> DEFINE lines == Head(concepts).lines
               pieces == Split(lines)
               new == [n \in DOMAIN pieces |-> [section |-> Head(concepts).path, lines |-> pieces[n]]]
               next == chunks \o new
    <3>1. doc \in Seq(Kinds) /\ Chunked(chunks, concepts) /\ concepts # <<>>
      BY <1>2, <2>3 DEF ChunkConcept, ReadingInv
    <3>2. lines \in Lines /\ lines # {}
      <4>1. concepts \in Seq(Sections) /\ Head(concepts) = concepts[1] /\ 1 \in DOMAIN concepts
        BY <3>1 DEF Chunked
      <4>2. Sound(concepts[1].path, concepts[1].lines) /\ concepts[1] \in Sections
        BY <3>1, <4>1 DEF Chunked
      <4>3. QED
        BY <4>1, <4>2 DEF Sections, Sound
    <3>3. chunks' = next /\ doc' = doc
      BY <2>3 DEF ChunkConcept
    <3>4. lines \subseteq Text
      <4>1. concepts \in Seq(Sections) /\ Head(concepts) = concepts[1] /\ 1 \in DOMAIN concepts
        BY <3>1 DEF Chunked
      <4>2. QED
        BY <3>1, <4>1 DEF Chunked, Sound
    <3> HIDE DEF lines
    <3>5. \A n \in DOMAIN pieces : Fits(pieces[n])
      BY <3>1, <3>2, SplitFits
    <3>6. pieces \in Seq(Lines)
      BY <3>1, <3>2, <3>4, SplitCuts DEF Cut
    <3> HIDE DEF pieces
    <3>7. new \in Seq({new[n] : n \in DOMAIN new}) /\ DOMAIN new = DOMAIN pieces
          /\ \A n \in DOMAIN pieces : new[n].lines = pieces[n]
      BY <3>6
    <3>8. chunks \in Seq(Chunks)
      BY <3>1 DEF Chunked
    <3> DEFINE S == Chunks \cup {new[n] : n \in DOMAIN new}
    <3>9. chunks \in Seq(S) /\ new \in Seq(S)
      BY <3>7, <3>8
    <3> HIDE DEF new, S
    <3>10. \A k \in DOMAIN next :
              \/ k \in DOMAIN chunks /\ next[k] = chunks[k]
              \/ k - Len(chunks) \in DOMAIN new /\ next[k] = new[k - Len(chunks)]
      BY <3>9, Concatenated
    <3> HIDE DEF next
    <3>11. \A k \in DOMAIN next : Fits(next[k].lines)
      BY <1>2, <3>5, <3>7, <3>10
    <3>12. ASSUME NEW n \in DOMAIN chunks' PROVE Fits(chunks[n].lines)'
      <4>1. Fits(chunks'[n].lines)
        BY <3>3, <3>11, <3>12
      <4>2. QED
        BY <3>3, <4>1 DEF Fits, Tokens, Chars, Width, Blocks, Parts, BlockStarts, SentenceStarts, Cuts, CutsSentence, Class
    <3>13. QED
      BY <3>12
  <2>4. QED
    BY <1>2, <2>1, <2>2, <2>3 DEF Next, Structure, Finish, vars
<1>3. Sizes => SizeBound
  BY DEF SizeBound
<1>4. QED
  BY <1>1, <1>2, <1>3, IntakeTakesEither, ReadingIsInductive, PTL DEF Spec

==============================================================================
