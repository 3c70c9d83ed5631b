------------------------ MODULE DocumentMemory_proofs ------------------------
(***************************************************************************)
(* Proofs about DocumentMemory, for any workers, namespaces, texts,        *)
(* documents and failures, in either store.                                *)
(***************************************************************************)
EXTENDS DocumentMemory, FiniteSetTheorems, FunctionTheorems, Induction, TLAPS

------------------------------------------------------------------------------
(* Lemmas on sequences and tables *)

\* How often a sequence has a text.
Count(texts, text) == Cardinality({n \in DOMAIN texts : texts[n] = text})

LEMMA Positions ==
    ASSUME NEW texts \in Seq(Texts), NEW S \in SUBSET DOMAIN texts
    PROVE  IsFiniteSet(S) /\ Cardinality(S) \in Nat
<1>1. DOMAIN texts = 1..Len(texts) /\ Len(texts) \in Int
  OBVIOUS
<1>2. IsFiniteSet(S)
  BY <1>1, FS_Interval, FS_Subset
<1>3. QED
  BY <1>2, FS_CardinalityType

LEMMA CountType ==
    ASSUME NEW texts \in Seq(Texts), NEW text
    PROVE  Count(texts, text) \in Nat
  BY Positions DEF Count

LEMMA CountEmpty == ASSUME NEW text PROVE Count(<<>>, text) = 0
<1>1. {n \in DOMAIN <<>> : <<>>[n] = text} = {}
  OBVIOUS
<1>2. QED
  BY <1>1, FS_EmptySet DEF Count

\* A text that is there occurs at least once.
LEMMA CountPositive ==
    ASSUME NEW texts \in Seq(Texts), NEW n \in DOMAIN texts
    PROVE  Count(texts, texts[n]) > 0
<1> DEFINE S == {m \in DOMAIN texts : texts[m] = texts[n]}
<1>1. S # {} /\ S \subseteq DOMAIN texts
  OBVIOUS
<1> HIDE DEF S
<1>2. Cardinality(S) \in Nat /\ Cardinality(S) # 0
  BY <1>1, Positions, FS_EmptySet
<1>3. QED
  BY <1>2 DEF Count, S

\* What the rows of a sequence of texts add to a table.
LEMMA WithRowsType ==
    ASSUME NEW table \in [Row -> Nat], NEW ns, NEW texts \in Seq(Texts)
    PROVE  /\ WithRows(table, ns, texts) \in [Row -> Nat]
           /\ \A row \in Row :
                 /\ WithRows(table, ns, texts)[row]
                    = table[row] + IF row.namespace # ns THEN 0 ELSE Count(texts, row.text)
                 /\ WithRows(table, ns, texts)[row] >= table[row]
<1>1. WithRows(table, ns, texts)
      = [row \in Row |->
            table[row] + IF row.namespace # ns THEN 0 ELSE Count(texts, row.text)]
  BY DEF WithRows, Count
<1>2. \A row \in Row : Count(texts, row.text) \in Nat
  BY CountType
<1>3. QED
  BY <1>1, <1>2

LEMMA WithRowsMonotone ==
    ASSUME NEW a \in [Row -> Nat], NEW b \in [Row -> Nat],
           \A row \in Row : a[row] <= b[row],
           NEW ns, NEW texts \in Seq(Texts)
    PROVE  \A row \in Row : WithRows(a, ns, texts)[row] <= WithRows(b, ns, texts)[row]
<1>1. \A row \in Row : Count(texts, row.text) \in Nat
  BY CountType
<1>2. /\ \A row \in Row : WithRows(a, ns, texts)[row]
                = a[row] + IF row.namespace # ns THEN 0 ELSE Count(texts, row.text)
      /\ \A row \in Row : WithRows(b, ns, texts)[row]
                = b[row] + IF row.namespace # ns THEN 0 ELSE Count(texts, row.text)
  BY WithRowsType
<1>3. QED
  BY <1>1, <1>2

LEMMA WithNoRows ==
    ASSUME NEW table \in [Row -> Nat], NEW ns
    PROVE  WithRows(table, ns, <<>>) = table
  BY CountEmpty DEF WithRows, Count

LEMMA NoRowsType == NoRows \in [Row -> Nat] /\ \A row \in Row : NoRows[row] = 0
  BY DEF NoRows

LEMMA HeadTail ==
    ASSUME NEW s \in Seq(Texts), s # <<>>
    PROVE  /\ Head(s) \in Texts /\ Tail(s) \in Seq(Texts)
           /\ Append(Tail(s), Head(s)) \in Seq(Texts)
           /\ <<Head(s)>> \in Seq(Texts)
           /\ Len(s) = 1 => Tail(s) = <<>>
<1>1. /\ Head(s) \in Texts /\ Tail(s) \in Seq(Texts)
      /\ Append(Tail(s), Head(s)) \in Seq(Texts)
      /\ <<Head(s)>> \in Seq(Texts)
  OBVIOUS
<1>2. Len(Tail(s)) = Len(s) - 1
  OBVIOUS
<1>3. QED
  BY <1>1, <1>2

LEMMA CountAppend ==
    ASSUME NEW s \in Seq(Texts), NEW e \in Texts, NEW text
    PROVE  Count(Append(s, e), text) = Count(s, text) + IF e = text THEN 1 ELSE 0
<1> DEFINE A == {n \in DOMAIN s : s[n] = text}
           B == {n \in DOMAIN Append(s, e) : Append(s, e)[n] = text}
<1>1. /\ DOMAIN s = 1..Len(s) /\ DOMAIN Append(s, e) = 1..(Len(s) + 1)
      /\ Len(s) \in Nat
      /\ Append(s, e)[Len(s) + 1] = e
      /\ \A n \in 1..Len(s) : Append(s, e)[n] = s[n]
  OBVIOUS
<1>2. Len(s) + 1 \notin A /\ A \subseteq DOMAIN s
  BY <1>1
<1>3. B = IF e = text THEN A \cup {Len(s) + 1} ELSE A
  BY <1>1
<1> HIDE DEF A, B
<1>4. IsFiniteSet(A) /\ Cardinality(A) \in Nat
  BY <1>2, Positions
<1>5. Cardinality(A \cup {Len(s) + 1}) = Cardinality(A) + 1
  BY <1>2, <1>4, FS_AddElement
<1>6. Cardinality(B) = Cardinality(A) + IF e = text THEN 1 ELSE 0
  BY <1>3, <1>4, <1>5
<1>7. QED
  BY <1>6 DEF Count, A, B

LEMMA CountHeadTail ==
    ASSUME NEW s \in Seq(Texts), s # <<>>, NEW text
    PROVE  /\ Count(s, text) = Count(<<Head(s)>>, text) + Count(Tail(s), text)
           /\ Count(<<Head(s)>>, text) = IF Head(s) = text THEN 1 ELSE 0
<1> DEFINE A == {n \in DOMAIN s : s[n] = text}
           H == {n \in DOMAIN <<Head(s)>> : <<Head(s)>>[n] = text}
           T == {n \in DOMAIN Tail(s) : Tail(s)[n] = text}
           later == {n \in 2..Len(s) : s[n] = text}
           shift == [n \in T |-> n + 1]
<1>1. /\ DOMAIN s = 1..Len(s) /\ DOMAIN Tail(s) = 1..(Len(s) - 1) /\ Head(s) = s[1]
      /\ Len(s) \in Nat \ {0}
      /\ \A n \in 1..(Len(s) - 1) : Tail(s)[n] = s[n + 1]
  OBVIOUS
<1>2. H = IF Head(s) = text THEN {1} ELSE {}
  BY <1>1
<1>3. IsFiniteSet(H) /\ Cardinality(H) = IF Head(s) = text THEN 1 ELSE 0
  <2> HIDE DEF H
  <2>1. QED
    BY <1>2, FS_EmptySet, FS_Singleton
<1>4. IsFiniteSet(T) /\ Cardinality(T) \in Nat
  <2>1. Tail(s) \in Seq(Texts) /\ T \subseteq DOMAIN Tail(s)
    OBVIOUS
  <2> HIDE DEF T
  <2>2. QED
    BY <2>1, Positions
<1>5. shift \in Bijection(T, later)
  <2>1. shift \in [T -> later] /\ \A a, b \in T : shift[a] = shift[b] => a = b
    BY <1>1
  <2>2. \A n \in later : n - 1 \in T /\ shift[n - 1] = n
    BY <1>1
  <2>3. \A n \in later : \E a \in T : shift[a] = n
    BY <2>2
  <2>4. QED
    BY <2>1, <2>3, Fun_IsBij
<1>6. IsFiniteSet(later) /\ Cardinality(later) = Cardinality(T)
  BY <1>4, <1>5, FS_Bijection DEF ExistsBijection
<1>7. A = H \cup later /\ H \cap later = {}
  BY <1>1, <1>2
<1> HIDE DEF A, H, T, later
<1>8. Cardinality(A) = Cardinality(H) + Cardinality(T)
  <2>1. Cardinality(H \cup later)
        = Cardinality(H) + Cardinality(later) - Cardinality(H \cap later)
    BY <1>3, <1>6, FS_Union
  <2>2. Cardinality(H \cap later) = 0
    BY <1>7, FS_EmptySet
  <2>3. QED
    BY <1>3, <1>4, <1>6, <1>7, <2>1, <2>2
<1>9. QED
  BY <1>3, <1>8 DEF Count, A, H, T

LEMMA CountPrefix ==
    ASSUME NEW s \in Seq(Texts), NEW n \in 0..Len(s), NEW text
    PROVE  Count(SubSeq(s, 1, n), text) <= Count(s, text)
<1> DEFINE A == {i \in DOMAIN s : s[i] = text}
           P == {i \in DOMAIN SubSeq(s, 1, n) : SubSeq(s, 1, n)[i] = text}
<1>1. /\ DOMAIN s = 1..Len(s) /\ Len(s) \in Nat
      /\ DOMAIN SubSeq(s, 1, n) = 1..n
      /\ \A i \in 1..n : SubSeq(s, 1, n)[i] = s[i]
  OBVIOUS
<1>2. P \subseteq A /\ A \subseteq DOMAIN s
  BY <1>1
<1> HIDE DEF A, P
<1>3. Cardinality(P) <= Cardinality(A)
  BY <1>2, Positions, FS_Subset
<1>4. QED
  BY <1>3 DEF Count, A, P

LEMMA Targets ==
    ASSUME NEW t \in Target
    PROVE  t # NoTarget /\ t.namespace \in Namespaces /\ t.document \in Seq(Texts)
  BY DocumentsAssumption DEF Target, NoTarget

------------------------------------------------------------------------------
(* Type correctness *)

LEMMA TypeInit == Init => TypeOK
  BY NoRowsType DEF Init, TypeOK, ListingOK

\* Workers that do not begin to re-embed leave the listings alone.
LEMMA ListingKept ==
    ASSUME ListingOK, UNCHANGED reembedding,
           \A w \in Workers : pc[w] # "reembed" \/ pc'[w] = pc[w]
    PROVE  ListingOK'
  BY DEF ListingOK, reembedding

\* A row that is found is missed no more.
LEMMA FoundType ==
    ASSUME ListingOK, NEW row \in Row, NEW missing \in SUBSET Workers,
           \A v \in missing : gone[v][row] > 0
    PROVE  /\ Found(row, missing) \in [Workers -> [Row -> Nat]]
           /\ \A v \in Workers : \A r \in Row :
                 Found(row, missing)[v][r]
                 = IF v \in missing /\ r = row THEN gone[v][r] - 1 ELSE gone[v][r]
<1>1. \A v \in Workers : gone[v] \in [Row -> Nat]
  BY DEF ListingOK
<1>2. ASSUME NEW v \in missing
      PROVE  /\ [gone[v] EXCEPT ![row] = @ - 1] \in [Row -> Nat]
             /\ \A r \in Row : [gone[v] EXCEPT ![row] = @ - 1][r]
                                = IF r = row THEN gone[v][r] - 1 ELSE gone[v][r]
  <2>1. v \in Workers /\ gone[v][row] \in Nat /\ gone[v][row] > 0
    BY <1>1
  <2>2. QED
    BY <1>1, <2>1
<1>3. QED
  BY <1>1, <1>2 DEF Found

\* A step of a worker that re-embeds.
Reembeds(w) ==
    \/ ListChunks(w) \/ EndReembed(w) \/ ReembedRaises(w)
    \/ \E row \in Row :
          RewriteChunk(w, row) \/ RestoreChunk(w, row) \/ RestoreRaises(w, row)

\* What re-embedding does to the tables and the listings.
LEMMA ReembedStep ==
    ASSUME TypeOK, NEW w \in Workers, Reembeds(w)
    PROVE  /\ ListingOK'
           /\ chunks' \in [Row -> Nat] /\ open' \in [Row -> Nat]
           /\ \A r \in Row : open'[r] <= chunks'[r]
           /\ store = "pgvector" => open' = NoRows
           /\ \/ UNCHANGED <<chunks, restored>>
              \/ \E row \in Row :
                    /\ chunks' = [chunks EXCEPT ![row] = @ + 1]
                    /\ restored' = [restored EXCEPT ![row] = @ + 1]
           /\ pc[w] # "check" /\ pc' \in [Workers -> {"idle", "check", "reembed"}]
           /\ pc'[w] # "check" /\ \A v \in Workers \ {w} : pc'[v] = pc[v]
           /\ UNCHANGED <<store, target, todo, fresh, overtaken, indexed>>
<1> USE DEF TypeOK
<1>1. /\ listing \in [Workers -> [Row -> Nat]] /\ gone \in [Workers -> [Row -> Nat]]
      /\ restored \in [Row -> Nat]
      /\ \A v \in Workers : \A r \in Row : gone[v][r] <= listing[v][r]
      /\ \A v \in Workers : pc[v] # "reembed" => listing[v] = NoRows
      /\ NoRows \in [Row -> Nat] /\ \A r \in Row : NoRows[r] = 0
  BY NoRowsType DEF ListingOK
<1>2. CASE ListChunks(w)
  <2>1. gone[w] \in [Row -> Nat] /\ \A r \in Row : gone[w][r] <= 0
    BY <1>1, <1>2 DEF ListChunks
  <2>2. /\ listing' \in [Workers -> [Row -> Nat]] /\ listing'[w] = chunks
        /\ \A v \in Workers \ {w} : listing'[v] = listing[v]
    BY <1>1, <1>2 DEF ListChunks
  <2>3. \A r \in Row : gone[w][r] <= chunks[r]
    BY <2>1
  <2>4. ListingOK'
    BY <1>1, <1>2, <2>2, <2>3 DEF ListChunks, ListingOK
  <2>5. QED
    BY <1>2, <2>4 DEF ListChunks
<1>3. CASE \E row \in Row : RewriteChunk(w, row)
  <2>0. PICK row \in Row : RewriteChunk(w, row)
    BY <1>3
  <2>1. /\ listing[w] \in [Row -> Nat] /\ listing[w][row] \in Nat /\ gone[w][row] \in Nat
        /\ listing[w][row] > gone[w][row]
        /\ pc[w] = "reembed" /\ listing' = [listing EXCEPT ![w][row] = @ - 1]
        /\ UNCHANGED <<pc, gone, restored>>
    BY <1>1, <2>0 DEF RewriteChunk, job
  <2>2. PICK rest : rest = [listing[w] EXCEPT ![row] = @ - 1]
    OBVIOUS
  <2>3. /\ rest \in [Row -> Nat] /\ gone[w][row] <= rest[row]
        /\ \A r \in Row \ {row} : rest[r] = listing[w][r]
    BY <2>1, <2>2
  <2>4. listing' = [listing EXCEPT ![w] = rest]
    BY <1>1, <2>1, <2>2
  <2>5. /\ listing' \in [Workers -> [Row -> Nat]] /\ listing'[w] = rest
        /\ \A v \in Workers \ {w} : listing'[v] = listing[v]
    BY <1>1, <2>3, <2>4
  <2>6. ListingOK'
    BY <1>1, <2>1, <2>3, <2>5 DEF ListingOK
  <2>7. QED
    BY <1>1, <2>0, <2>6 DEF RewriteChunk, job
\* A row that comes back is one row more.
<1>4. ASSUME NEW row \in Row, NEW missing \in SUBSET Workers, Restore(w, row, missing)
      PROVE  /\ chunks' \in [Row -> Nat] /\ restored' \in [Row -> Nat]
             /\ chunks'[row] = chunks[row] + 1
             /\ \A r \in Row \ {row} : chunks'[r] = chunks[r]
             /\ \A r \in Row : open[r] <= chunks'[r]
             /\ pc[w] = "reembed" /\ w \in missing
             /\ Found(row, missing) \in [Workers -> [Row -> Nat]]
             /\ \A v \in Workers : \A r \in Row : Found(row, missing)[v][r] <= gone[v][r]
             /\ Found(row, missing)[w][row] = gone[w][row] - 1
  <2>1. /\ chunks' = [chunks EXCEPT ![row] = @ + 1] /\ w \in missing /\ pc[w] = "reembed"
        /\ restored' = [restored EXCEPT ![row] = @ + 1]
        /\ \A v \in missing : gone[v][row] > 0
    BY <1>4 DEF Restore
  <2>2. /\ chunks' \in [Row -> Nat] /\ restored' \in [Row -> Nat]
        /\ chunks'[row] = chunks[row] + 1
        /\ \A r \in Row \ {row} : chunks'[r] = chunks[r]
    BY <1>1, <2>1
  <2>3. ASSUME NEW r \in Row PROVE open[r] <= chunks'[r]
    <3>1. open[r] \in Nat /\ chunks[r] \in Nat /\ open[r] <= chunks[r]
      OBVIOUS
    <3>2. chunks'[r] = chunks[r] \/ chunks'[r] = chunks[r] + 1
      BY <2>2
    <3>3. QED
      BY <3>1, <3>2
  <2>4. \A v \in Workers : \A r \in Row : gone[v][r] \in Nat
    BY <1>1
  <2>5. /\ Found(row, missing) \in [Workers -> [Row -> Nat]]
        /\ \A v \in Workers : \A r \in Row :
              Found(row, missing)[v][r]
              = IF v \in missing /\ r = row THEN gone[v][r] - 1 ELSE gone[v][r]
    BY <2>1, FoundType
  <2>6. ASSUME NEW v \in Workers, NEW r \in Row
        PROVE  Found(row, missing)[v][r] <= gone[v][r]
    <3>1. /\ gone[v][r] \in Nat
          /\ \/ Found(row, missing)[v][r] = gone[v][r]
             \/ Found(row, missing)[v][r] = gone[v][r] - 1
      BY <2>4, <2>5
    <3>2. QED
      BY <3>1
  <2>7. Found(row, missing)[w][row] = gone[w][row] - 1
    BY <2>1, <2>5
  <2>8. QED
    BY <2>1, <2>2, <2>3, <2>5, <2>6, <2>7
<1>5. CASE \E row \in Row : RestoreChunk(w, row)
  <2>0. PICK row \in Row : RestoreChunk(w, row)
    BY <1>5
  <2>1. PICK missing \in SUBSET Workers :
           /\ Restore(w, row, missing)
           /\ listing' = [listing EXCEPT ![w][row] = @ - 1]
           /\ gone' = Found(row, missing)
           /\ open' = NoRows
           /\ UNCHANGED <<store, job, overtaken, indexed>>
    BY <2>0 DEF RestoreChunk
  <2>2. PICK rest : rest = [listing[w] EXCEPT ![row] = @ - 1]
    OBVIOUS
  <2>3. /\ listing[w] \in [Row -> Nat] /\ listing[w][row] \in Nat /\ gone[w][row] \in Nat
        /\ gone[w][row] > 0 /\ gone[w][row] <= listing[w][row]
    BY <1>1, <2>1 DEF Restore
  <2>4. /\ rest \in [Row -> Nat] /\ rest[row] = listing[w][row] - 1
        /\ \A r \in Row \ {row} : rest[r] = listing[w][r]
    BY <2>2, <2>3
  <2>5. listing' = [listing EXCEPT ![w] = rest]
    BY <1>1, <2>1, <2>2
  <2>6. /\ listing' \in [Workers -> [Row -> Nat]] /\ listing'[w] = rest
        /\ \A v \in Workers \ {w} : listing'[v] = listing[v]
    BY <1>1, <2>4, <2>5
  <2>7. /\ gone' \in [Workers -> [Row -> Nat]]
        /\ \A v \in Workers : \A r \in Row : gone'[v][r] <= gone[v][r]
        /\ gone'[w][row] = gone[w][row] - 1
        /\ pc[w] = "reembed" /\ pc' = pc /\ restored' \in [Row -> Nat]
    BY <1>4, <2>1 DEF job
  <2>8. ASSUME NEW v \in Workers, NEW r \in Row
        PROVE  gone'[v][r] <= listing'[v][r]
    <3>1. /\ gone'[v][r] \in Nat /\ gone[v][r] \in Nat /\ listing[v][r] \in Nat
          /\ gone'[v][r] <= gone[v][r] /\ gone[v][r] <= listing[v][r]
      BY <1>1, <2>7
    <3>2. CASE v = w /\ r = row
      BY <2>3, <2>4, <2>6, <2>7, <3>1, <3>2
    <3>3. CASE ~(v = w /\ r = row)
      BY <2>4, <2>6, <3>1, <3>3
    <3>4. QED
      BY <3>2, <3>3
  <2>9. \A v \in Workers : pc'[v] # "reembed" => listing'[v] = NoRows
    BY <1>1, <2>6, <2>7
  <2>10. ListingOK'
    BY <2>6, <2>7, <2>8, <2>9 DEF ListingOK
  <2>11. /\ chunks' \in [Row -> Nat] /\ \A r \in Row : chunks'[r] \in Nat
         /\ chunks' = [chunks EXCEPT ![row] = @ + 1]
         /\ restored' = [restored EXCEPT ![row] = @ + 1]
    BY <1>4, <2>1 DEF Restore
  <2>12. open' = NoRows /\ \A r \in Row : open'[r] <= chunks'[r]
    BY <1>1, <2>1, <2>11
  <2>13. QED
    BY <1>1, <2>1, <2>7, <2>10, <2>11, <2>12 DEF job
<1>6. CASE EndReembed(w)
  <2>1. ListingOK'
    BY <1>1, <1>6 DEF EndReembed, reembedding, ListingOK
  <2>2. QED
    BY <1>1, <1>6, <2>1 DEF EndReembed, reembedding
<1>7. CASE ReembedRaises(w)
  <2>1. pc[w] = "reembed"
    BY <1>1, <1>7 DEF ReembedRaises
  <2>2. ListingOK'
    BY <1>1, <1>7 DEF ReembedRaises, ListingOK
  <2>3. QED
    BY <1>7, <2>1, <2>2 DEF ReembedRaises
<1>8. CASE \E row \in Row : RestoreRaises(w, row)
  <2>0. PICK row \in Row : RestoreRaises(w, row)
    BY <1>8
  <2>1. PICK missing \in SUBSET Workers :
           /\ store = "sqlite"
           /\ Restore(w, row, missing)
           /\ open' = [open EXCEPT ![row] = @ + 1]
           /\ pc' = [pc EXCEPT ![w] = "idle"]
           /\ listing' = [listing EXCEPT ![w] = NoRows]
           /\ gone' = [Found(row, missing) EXCEPT ![w] = NoRows]
           /\ UNCHANGED <<store, target, todo, fresh, overtaken, indexed>>
    BY <2>0 DEF RestoreRaises
  <2>2. PICK found : found = Found(row, missing)
    OBVIOUS
  <2>3. /\ found \in [Workers -> [Row -> Nat]]
        /\ \A v \in Workers : \A r \in Row : found[v][r] <= gone[v][r]
        /\ pc[w] = "reembed" /\ restored' \in [Row -> Nat]
    BY <1>4, <2>1, <2>2
  <2>4. /\ gone' \in [Workers -> [Row -> Nat]] /\ gone'[w] = NoRows
        /\ \A v \in Workers \ {w} : gone'[v] = found[v]
    BY <1>1, <2>1, <2>2, <2>3
  <2>5. /\ listing' \in [Workers -> [Row -> Nat]] /\ listing'[w] = NoRows
        /\ \A v \in Workers \ {w} : listing'[v] = listing[v]
    BY <1>1, <2>1
  <2>6. ASSUME NEW v \in Workers, NEW r \in Row
        PROVE  gone'[v][r] <= listing'[v][r]
    <3>1. /\ found[v][r] \in Nat /\ gone[v][r] \in Nat /\ listing[v][r] \in Nat
          /\ found[v][r] <= gone[v][r] /\ gone[v][r] <= listing[v][r]
      BY <1>1, <2>3
    <3>2. CASE v = w
      BY <1>1, <2>4, <2>5, <3>2
    <3>3. CASE v # w
      <4>1. gone'[v] = found[v] /\ listing'[v] = listing[v]
        BY <2>4, <2>5, <3>3
      <4>2. QED
        BY <3>1, <4>1
    <3>4. QED
      BY <3>2, <3>3
  <2>7. \A v \in Workers : pc'[v] # "reembed" => listing'[v] = NoRows
    BY <1>1, <2>1, <2>5
  <2>8. ListingOK'
    BY <2>3, <2>4, <2>5, <2>6, <2>7 DEF ListingOK
  <2>9. /\ chunks' \in [Row -> Nat] /\ chunks'[row] = chunks[row] + 1
        /\ \A r \in Row : open[r] <= chunks'[r]
        /\ chunks' = [chunks EXCEPT ![row] = @ + 1]
        /\ restored' = [restored EXCEPT ![row] = @ + 1]
    BY <1>4, <2>1 DEF Restore
  <2>10. open' \in [Row -> Nat] /\ \A r \in Row : open'[r] <= chunks'[r]
    BY <2>1, <2>9
  <2>11. QED
    BY <2>1, <2>3, <2>8, <2>9, <2>10
<1>9. QED
  BY <1>2, <1>3, <1>5, <1>6, <1>7, <1>8 DEF Reembeds

LEMMA TypeNext == TypeOK /\ [Next]_vars => TypeOK'
<1> SUFFICES ASSUME TypeOK, [Next]_vars
             PROVE  TypeOK'
  OBVIOUS
\* A worker that does not re-embed leaves the listings alone.
<1>0. ASSUME NEW w \in Workers, pc[w] # "reembed", UNCHANGED reembedding,
             \A v \in Workers \ {w} : pc'[v] = pc[v]
      PROVE  ListingOK'
  BY <1>0, ListingKept DEF TypeOK
<1>1. ASSUME NEW w \in Workers, NEW upload \in Uploads, IngestDocument(w, upload)
      PROVE  TypeOK'
  <2>1. upload \in Target /\ upload.document \in Seq(Texts)
    BY UploadsAssumption, Targets
  <2>2. ListingOK'
    BY <1>0, <1>1 DEF IngestDocument, TypeOK
  <2>3. QED
    BY <1>1, <2>1, <2>2 DEF IngestDocument, TypeOK
<1>2. ASSUME NEW w \in Workers, SkipChunk(w) \/ EmbedChunk(w)
      PROVE  TypeOK'
  <2>1. todo[w] \in Seq(Texts) /\ fresh[w] \in Seq(Texts) /\ todo[w] # <<>>
    BY <1>2 DEF SkipChunk, EmbedChunk, TypeOK
  <2>2. Tail(todo[w]) \in Seq(Texts) /\ Append(fresh[w], Head(todo[w])) \in Seq(Texts)
    BY <2>1
  <2>3. ListingOK'
    BY <1>0, <1>2 DEF SkipChunk, EmbedChunk
  <2>4. QED
    BY <1>2, <2>1, <2>2, <2>3 DEF SkipChunk, EmbedChunk, TypeOK
<1>3. ASSUME NEW w \in Workers, pc[w] = "check", todo[w] = <<>>, Return(w)
      PROVE  /\ pc' \in [Workers -> {"idle", "check", "reembed"}]
             /\ pc' = [pc EXCEPT ![w] = "idle"]
             /\ target' \in [Workers -> Target \cup {NoTarget}]
             /\ target' = [target EXCEPT ![w] = NoTarget]
             /\ overtaken' \in [Workers -> BOOLEAN]
             /\ indexed' \subseteq Target
             /\ \A v \in Workers \ {w} : pc'[v] = pc[v]
  BY <1>3 DEF Return, TypeOK
<1>4. ASSUME NEW w \in Workers, StoreNothing(w)
      PROVE  TypeOK'
  <2>1. ListingOK'
    BY <1>0, <1>3, <1>4 DEF StoreNothing
  <2>2. QED
    BY <1>3, <1>4, <2>1 DEF StoreNothing, TypeOK
<1>5. ASSUME NEW w \in Workers, StoreChunks(w)
      PROVE  TypeOK'
  <2>1. chunks' \in [Row -> Nat]
    BY <1>5, WithRowsType DEF StoreChunks, TypeOK
  <2>2. \A row \in Row : NoRows[row] <= chunks'[row]
    BY <2>1, NoRowsType
  <2>3. ListingOK'
    BY <1>0, <1>3, <1>5 DEF StoreChunks, Storing
  <2>4. QED
    BY <1>3, <1>5, <2>1, <2>2, <2>3, NoRowsType DEF StoreChunks, Storing, TypeOK
<1>6. ASSUME NEW w \in Workers, StoreChunk(w)
      PROVE  TypeOK'
  <2>1. fresh[w] \in Seq(Texts) /\ fresh[w] # <<>>
    BY <1>6 DEF StoreChunk, Storing, TypeOK
  <2>2. Tail(fresh[w]) \in Seq(Texts) /\ (Len(fresh[w]) = 1 => Tail(fresh[w]) = <<>>)
    BY <2>1, HeadTail
  <2>3. /\ chunks' \in [Row -> Nat]
        /\ \A row \in Row : chunks[row] <= chunks'[row]
    BY <1>6, <2>1, HeadTail, WithRowsType DEF StoreChunk, TypeOK
  <2>4. \A row \in Row : open'[row] <= chunks'[row]
    BY <1>6, <2>3 DEF StoreChunk, TypeOK
  <2>5. fresh' \in [Workers -> Seq(Texts)] /\ fresh'[w] = Tail(fresh[w])
        /\ fresh' = [fresh EXCEPT ![w] = Tail(@)]
    BY <1>6, <2>2 DEF StoreChunk, TypeOK
  <2>6. pc[w] = "check" /\ todo[w] = <<>> /\ UNCHANGED <<store, open, todo>>
    BY <1>6 DEF StoreChunk, Storing
  <2>7. CASE Len(fresh[w]) = 1
    <3>1. ListingOK'
      BY <1>0, <1>3, <1>6, <2>6, <2>7 DEF StoreChunk
    <3>2. QED
      BY <1>3, <1>6, <2>2, <2>3, <2>4, <2>5, <2>6, <2>7, <3>1 DEF StoreChunk, TypeOK
  <2>8. CASE Len(fresh[w]) # 1
    <3>1. ListingOK'
      BY <1>0, <1>6, <2>6, <2>8 DEF StoreChunk
    <3>2. QED
      BY <1>6, <2>3, <2>4, <2>5, <2>6, <2>8, <3>1 DEF StoreChunk, TypeOK
  <2>9. QED
    BY <2>7, <2>8
<1>7. ASSUME NEW w \in Workers, pc[w] = "check", Abandon(w), UNCHANGED reembedding,
             chunks' \in [Row -> Nat], open' \in [Row -> Nat],
             \A row \in Row : open'[row] <= chunks'[row],
             store = "pgvector" => open' = NoRows
      PROVE  TypeOK'
  <2>1. ListingOK'
    BY <1>0, <1>7 DEF Abandon, TypeOK
  <2>2. QED
    BY <1>7, <2>1 DEF Abandon, TypeOK
<1>8. ASSUME NEW w \in Workers, EmbedRaises(w)
      PROVE  TypeOK'
  BY <1>7, <1>8 DEF EmbedRaises, TypeOK
<1>9. ASSUME NEW w \in Workers, StoreRaises(w)
      PROVE  TypeOK'
  <2>1. PICK n \in 0..Len(fresh[w]) :
           /\ store = "pgvector" => n = 0
           /\ chunks' = WithRows(chunks, target[w].namespace, SubSeq(fresh[w], 1, n))
           /\ open' = WithRows(open, target[w].namespace, SubSeq(fresh[w], 1, n))
    BY <1>9 DEF StoreRaises
  <2>2. SubSeq(fresh[w], 1, n) \in Seq(Texts) /\ (n = 0 => SubSeq(fresh[w], 1, n) = <<>>)
    BY <1>9, <2>1 DEF StoreRaises, Storing, TypeOK
  <2>3. /\ chunks' \in [Row -> Nat] /\ open' \in [Row -> Nat]
        /\ \A row \in Row : open'[row] <= chunks'[row]
    BY <2>1, <2>2, WithRowsType, WithRowsMonotone DEF TypeOK
  <2>4. store = "pgvector" => open' = NoRows
    BY <2>1, <2>2, WithNoRows DEF TypeOK
  <2>5. QED
    BY <1>7, <1>9, <2>3, <2>4 DEF StoreRaises, Storing
<1>10. CASE Crash
  <2>1. chunks' \in [Row -> Nat]
    BY <1>10 DEF Crash, TypeOK
  <2>2. ListingOK'
    BY <1>10, NoRowsType DEF Crash, TypeOK, ListingOK
  <2>3. QED
    BY <1>10, <2>1, <2>2, NoRowsType DEF Crash, TypeOK
<1>11. ASSUME NEW w \in Workers, NEW ns \in Namespaces, ForgetNamespace(w, ns)
       PROVE  TypeOK'
  <2>1. ListingOK'
    BY <1>11 DEF ForgetNamespace, TypeOK, ListingOK, job
  <2>2. QED
    BY <1>11, <2>1, NoRowsType DEF ForgetNamespace, TypeOK, job
<1>12. ASSUME NEW w \in Workers, CommitElsewhere(w)
       PROVE  TypeOK'
  <2>1. ListingOK'
    BY <1>12, ListingKept DEF CommitElsewhere, TypeOK, job
  <2>2. QED
    BY <1>12, <2>1, NoRowsType DEF CommitElsewhere, TypeOK, job
<1>13. CASE UNCHANGED vars
  <2>1. ListingOK'
    BY <1>13, ListingKept DEF vars, TypeOK, job
  <2>2. QED
    BY <1>13, <2>1 DEF vars, job, TypeOK
<1>14. ASSUME NEW w \in Workers, Reembeds(w)
       PROVE  TypeOK'
  <2>1. /\ ListingOK'
        /\ chunks' \in [Row -> Nat] /\ open' \in [Row -> Nat]
        /\ \A r \in Row : open'[r] <= chunks'[r]
        /\ store = "pgvector" => open' = NoRows
        /\ pc[w] # "check" /\ pc' \in [Workers -> {"idle", "check", "reembed"}]
        /\ pc'[w] # "check" /\ \A v \in Workers \ {w} : pc'[v] = pc[v]
        /\ UNCHANGED <<store, target, todo, fresh, overtaken, indexed>>
    BY <1>14, ReembedStep
  <2>2. QED
    BY <2>1 DEF TypeOK
<1>15. QED
  BY <1>1, <1>2, <1>4, <1>5, <1>6, <1>8, <1>9, <1>10, <1>11, <1>12, <1>13, <1>14 DEF Next, Reembeds

\* The state is well formed in every behaviour of the document memory, and only
\* SQLite has rows that are not committed.
THEOREM DocumentTypeCorrect == Spec => []TypeOK
  BY TypeInit, TypeNext, PTL DEF Spec

------------------------------------------------------------------------------
(* What was indexed is stored *)

TextsOf(texts) == {texts[n] : n \in DOMAIN texts}

LEMMA TextsOfParts ==
    ASSUME NEW s \in Seq(Texts)
    PROVE  /\ s # <<>> => TextsOf(s) = {Head(s)} \cup TextsOf(Tail(s))
           /\ \A e : TextsOf(Append(s, e)) = TextsOf(s) \cup {e}
           /\ TextsOf(<<>>) = {}
<1>1. ASSUME s # <<>> PROVE TextsOf(s) = {Head(s)} \cup TextsOf(Tail(s))
  <2>1. /\ DOMAIN s = 1..Len(s) /\ DOMAIN Tail(s) = 1..(Len(s) - 1) /\ Head(s) = s[1]
        /\ Len(s) \in Nat \ {0}
        /\ \A n \in 1..(Len(s) - 1) : Tail(s)[n] = s[n + 1]
    BY <1>1
  <2>2. ASSUME NEW n \in DOMAIN s PROVE s[n] \in {Head(s)} \cup TextsOf(Tail(s))
    <3>1. n = 1 \/ n - 1 \in 1..(Len(s) - 1)
      BY <2>1
    <3>2. QED
      BY <2>1, <3>1 DEF TextsOf
  <2>3. QED
    BY <2>1, <2>2 DEF TextsOf
<1>2. ASSUME NEW e PROVE TextsOf(Append(s, e)) = TextsOf(s) \cup {e}
  <2>1. /\ DOMAIN s = 1..Len(s) /\ DOMAIN Append(s, e) = 1..(Len(s) + 1)
        /\ Len(s) \in Nat
        /\ Append(s, e)[Len(s) + 1] = e
        /\ \A n \in 1..Len(s) : Append(s, e)[n] = s[n]
    OBVIOUS
  <2>2. 1..(Len(s) + 1) = 1..Len(s) \cup {Len(s) + 1}
    BY <2>1
  <2>3. QED
    BY <2>1, <2>2 DEF TextsOf
<1>3. TextsOf(<<>>) = {}
  BY DEF TextsOf
<1>4. QED
  BY <1>1, <1>2, <1>3

\* The chunks of a document are rows, of its texts.
LEMMA RowsOfTarget ==
    ASSUME NEW t \in Target
    PROVE  /\ RowsOf(t) \subseteq Row
           /\ \A row \in RowsOf(t) :
                 row.namespace = t.namespace /\ row.text \in TextsOf(t.document)
<1>1. t.namespace \in Namespaces /\ t.document \in Seq(Texts)
  BY Targets
<1>2. \A n \in DOMAIN t.document : t.document[n] \in Texts
  BY <1>1
<1>3. QED
  BY <1>1, <1>2 DEF RowsOf, Row, TextsOf

\* Every chunk of the document that a worker ingests is stored, or the worker has it
\* in hand: embedded, or still to be checked.
Covered(w) ==
    pc[w] = "check" /\ ~overtaken[w] =>
        \A row \in RowsOf(target[w]) :
            chunks[row] > 0 \/ row.text \in TextsOf(fresh[w]) \cup TextsOf(todo[w])

StoredInv == IndexedIsStored /\ \A w \in Workers : Covered(w)

\* When rows only come, what is indexed stays so, and a worker that does not move
\* keeps what it has covered.
LEMMA MoreRows ==
    ASSUME TypeOK, StoredInv, \A row \in Row : chunks[row] <= chunks'[row],
           chunks' \in [Row -> Nat]
    PROVE  /\ \A t \in indexed : \A row \in RowsOf(t) : chunks'[row] > 0
           /\ \A w \in Workers :
                 UNCHANGED <<pc[w], target[w], todo[w], fresh[w], overtaken[w]>>
                 => Covered(w)'
<1>1. \A row \in Row : chunks[row] > 0 => chunks'[row] > 0
  BY DEF TypeOK
<1>2. \A t \in indexed : RowsOf(t) \subseteq Row
  BY RowsOfTarget DEF TypeOK
<1>3. \A w \in Workers : pc[w] = "check" => RowsOf(target[w]) \subseteq Row
  BY RowsOfTarget DEF TypeOK
<1>4. QED
  BY <1>1, <1>2, <1>3 DEF StoredInv, IndexedIsStored, Covered, RowsOf

\* Returning indexes the document, if all its chunks are stored now.
LEMMA ReturnStored ==
    ASSUME TypeOK, StoredInv, NEW w \in Workers, pc[w] = "check", Return(w),
           chunks' \in [Row -> Nat],
           \A row \in Row : chunks[row] <= chunks'[row],
           ~overtaken[w] => \A row \in RowsOf(target[w]) : chunks'[row] > 0,
           \A v \in Workers \ {w} : UNCHANGED <<todo[v], fresh[v]>>
    PROVE  StoredInv'
<1>1. \A v \in Workers \ {w} : UNCHANGED <<pc[v], target[v], overtaken[v]>>
  BY DEF Return, TypeOK
<1>2. \A v \in Workers \ {w} : Covered(v)'
  BY <1>1, MoreRows
<1>3. Covered(w)'
  BY DEF Return, Covered, TypeOK
<1>4. IndexedIsStored'
  <2>1. \A t \in indexed : \A row \in RowsOf(t) : chunks'[row] > 0
    BY MoreRows
  <2>2. QED
    BY <2>1 DEF Return, IndexedIsStored, RowsOf
<1>5. QED
  BY <1>2, <1>3, <1>4 DEF StoredInv

LEMMA StoredNext == TypeOK /\ StoredInv /\ [Next]_vars => StoredInv'
<1> SUFFICES ASSUME TypeOK, StoredInv, [Next]_vars
             PROVE  StoredInv'
  OBVIOUS
<1>0. TypeOK'
  BY TypeNext
<1>a. ASSUME UNCHANGED <<chunks, indexed>>, NEW w \in Workers, Covered(w)',
             \A v \in Workers \ {w} :
                 UNCHANGED <<pc[v], target[v], todo[v], fresh[v], overtaken[v]>>
      PROVE  StoredInv'
  <2>1. chunks' \in [Row -> Nat] /\ \A row \in Row : chunks[row] <= chunks'[row]
    BY <1>a DEF TypeOK
  <2>2. \A v \in Workers \ {w} : Covered(v)'
    BY <1>a, <2>1, MoreRows
  <2>3. IndexedIsStored'
    BY <1>a DEF StoredInv, IndexedIsStored, RowsOf
  <2>4. QED
    BY <1>a, <2>2, <2>3 DEF StoredInv
<1>1. ASSUME NEW w \in Workers, NEW upload \in Uploads, IngestDocument(w, upload)
      PROVE  StoredInv'
  <2>1. /\ pc'[w] = "check" /\ todo'[w] = upload.document
        /\ target'[w] = upload /\ upload \in Target
    BY <1>1, UploadsAssumption DEF IngestDocument, TypeOK
  <2>2. Covered(w)'
    BY <2>1, RowsOfTarget DEF Covered, TextsOf, RowsOf
  <2>3. QED
    BY <1>1, <1>a, <2>2 DEF IngestDocument, TypeOK
<1>2. ASSUME NEW w \in Workers, SkipChunk(w)
      PROVE  StoredInv'
  <2>1. /\ todo[w] \in Seq(Texts) /\ todo[w] # <<>> /\ pc[w] = "check"
        /\ todo'[w] = Tail(todo[w])
        /\ UNCHANGED <<chunks, pc, target, fresh, overtaken, indexed>>
        /\ chunks[[namespace |-> target[w].namespace, text |-> Head(todo[w])]] > 0
    BY <1>2 DEF SkipChunk, Exists, TypeOK
  <2>2. TextsOf(todo[w]) = {Head(todo[w])} \cup TextsOf(todo'[w])
    BY <2>1, TextsOfParts
  <2>3. \A row \in RowsOf(target[w]) :
           row = [namespace |-> target[w].namespace, text |-> row.text]
    BY DEF RowsOf
  <2>4. Covered(w)'
    BY <2>1, <2>2, <2>3 DEF StoredInv, Covered, RowsOf
  <2>5. QED
    BY <1>2, <1>a, <2>1, <2>4 DEF SkipChunk, TypeOK
<1>3. ASSUME NEW w \in Workers, EmbedChunk(w)
      PROVE  StoredInv'
  <2>1. /\ todo[w] \in Seq(Texts) /\ todo[w] # <<>> /\ pc[w] = "check"
        /\ fresh[w] \in Seq(Texts)
        /\ todo'[w] = Tail(todo[w]) /\ fresh'[w] = Append(fresh[w], Head(todo[w]))
        /\ UNCHANGED <<chunks, pc, target, overtaken, indexed>>
    BY <1>3 DEF EmbedChunk, TypeOK
  <2>2. /\ TextsOf(todo[w]) = {Head(todo[w])} \cup TextsOf(todo'[w])
        /\ TextsOf(fresh'[w]) = TextsOf(fresh[w]) \cup {Head(todo[w])}
    BY <2>1, TextsOfParts
  <2>3. Covered(w)'
    BY <2>1, <2>2 DEF StoredInv, Covered, RowsOf
  <2>4. QED
    BY <1>3, <1>a, <2>1, <2>3 DEF EmbedChunk, TypeOK
<1>4. ASSUME NEW w \in Workers, StoreNothing(w)
      PROVE  StoredInv'
  <2>1. /\ pc[w] = "check" /\ todo[w] = <<>> /\ fresh[w] = <<>> /\ Return(w)
        /\ UNCHANGED <<chunks, todo, fresh>>
    BY <1>4 DEF StoreNothing
  <2>2. ~overtaken[w] => \A row \in RowsOf(target[w]) : chunks[row] > 0
    BY <2>1, TextsOfParts DEF StoredInv, Covered, TextsOf
  <2>3. chunks' \in [Row -> Nat] /\ \A row \in Row : chunks[row] <= chunks'[row]
    BY <2>1 DEF TypeOK
  <2>4. QED
    BY <2>1, <2>2, <2>3, ReturnStored
<1>5. ASSUME NEW w \in Workers, NEW texts \in Seq(Texts), pc[w] = "check",
             chunks' = WithRows(chunks, target[w].namespace, texts)
      PROVE  /\ chunks' \in [Row -> Nat]
             /\ \A row \in Row : chunks[row] <= chunks'[row]
             /\ \A row \in RowsOf(target[w]) :
                   chunks[row] > 0 \/ row.text \in TextsOf(texts) => chunks'[row] > 0
  <2>1. chunks \in [Row -> Nat] /\ target[w] \in Target
    BY <1>5 DEF TypeOK
  <2>2. /\ chunks' \in [Row -> Nat]
        /\ \A row \in Row : chunks[row] <= chunks'[row]
    BY <1>5, <2>1, WithRowsType
  <2>3. ASSUME NEW row \in RowsOf(target[w]),
               chunks[row] > 0 \/ row.text \in TextsOf(texts)
        PROVE  chunks'[row] > 0
    <3>1. row \in Row /\ row.namespace = target[w].namespace
      BY <2>1, RowsOfTarget
    <3>2. /\ row.text \in TextsOf(texts) => Count(texts, row.text) > 0
          /\ Count(texts, row.text) \in Nat
      BY CountPositive, CountType DEF TextsOf
    <3>3. chunks'[row] = chunks[row] + Count(texts, row.text)
      BY <1>5, <2>1, <3>1, WithRowsType
    <3>4. chunks[row] \in Nat
      BY <2>1, <3>1
    <3>5. QED
      BY <2>3, <3>2, <3>3, <3>4
  <2>4. QED
    BY <2>2, <2>3
<1>6. ASSUME NEW w \in Workers, StoreChunks(w)
      PROVE  StoredInv'
  <2>1. /\ pc[w] = "check" /\ todo[w] = <<>> /\ Return(w)
        /\ fresh[w] \in Seq(Texts)
        /\ chunks' = WithRows(chunks, target[w].namespace, fresh[w])
        /\ \A v \in Workers \ {w} : UNCHANGED <<todo[v], fresh[v]>>
    BY <1>6 DEF StoreChunks, Storing, TypeOK
  <2>2. /\ chunks' \in [Row -> Nat]
        /\ \A row \in Row : chunks[row] <= chunks'[row]
        /\ \A row \in RowsOf(target[w]) :
              chunks[row] > 0 \/ row.text \in TextsOf(fresh[w]) => chunks'[row] > 0
    BY <1>5, <2>1
  <2>3. ~overtaken[w] => \A row \in RowsOf(target[w]) : chunks'[row] > 0
    <3>1. TextsOf(todo[w]) = {}
      BY <2>1 DEF TextsOf
    <3>2. QED
      BY <2>1, <2>2, <3>1 DEF StoredInv, Covered
  <2>4. QED
    BY <2>1, <2>2, <2>3, ReturnStored
<1>7. ASSUME NEW w \in Workers, StoreChunk(w)
      PROVE  StoredInv'
  <2>1. /\ pc[w] = "check" /\ todo[w] = <<>>
        /\ fresh[w] \in Seq(Texts) /\ fresh[w] # <<>>
        /\ <<Head(fresh[w])>> \in Seq(Texts)
        /\ Head(fresh[w]) \in TextsOf(<<Head(fresh[w])>>)
        /\ chunks' = WithRows(chunks, target[w].namespace, <<Head(fresh[w])>>)
        /\ fresh'[w] = Tail(fresh[w]) /\ todo' = todo
        /\ \A v \in Workers \ {w} : UNCHANGED <<todo[v], fresh[v]>>
    BY <1>7, HeadTail DEF StoreChunk, Storing, TypeOK, TextsOf
  <2>2. TextsOf(fresh[w]) = {Head(fresh[w])} \cup TextsOf(fresh'[w])
    BY <2>1, TextsOfParts
  <2>3. /\ chunks' \in [Row -> Nat]
        /\ \A row \in Row : chunks[row] <= chunks'[row]
        /\ \A row \in RowsOf(target[w]) :
              chunks[row] > 0 \/ row.text = Head(fresh[w]) => chunks'[row] > 0
    BY <1>5, <2>1
  <2>4. ~overtaken[w] =>
           \A row \in RowsOf(target[w]) :
              chunks'[row] > 0 \/ row.text \in TextsOf(fresh'[w])
    <3>1. TextsOf(todo[w]) = {}
      BY <2>1 DEF TextsOf
    <3>2. QED
      BY <2>1, <2>2, <2>3, <3>1 DEF StoredInv, Covered
  <2>5. CASE Len(fresh[w]) = 1
    <3>1. fresh'[w] = <<>>
      BY <2>1, <2>5, HeadTail
    <3>2. TextsOf(fresh'[w]) = {}
      BY <3>1 DEF TextsOf
    <3>3. Return(w)
      BY <1>7, <2>5 DEF StoreChunk
    <3>4. QED
      BY <2>1, <2>3, <2>4, <3>2, <3>3, ReturnStored
  <2>6. CASE Len(fresh[w]) # 1
    <3>1. UNCHANGED <<pc, target, indexed, overtaken>>
      BY <1>7, <2>6 DEF StoreChunk
    <3>2. Covered(w)'
      BY <2>1, <2>4, <3>1 DEF Covered, RowsOf
    <3>3. \A v \in Workers \ {w} : Covered(v)'
      BY <2>1, <2>3, <3>1, MoreRows
    <3>4. IndexedIsStored'
      BY <2>3, <3>1, MoreRows DEF IndexedIsStored, RowsOf
    <3>5. QED
      BY <3>2, <3>3, <3>4 DEF StoredInv
  <2>7. QED
    BY <2>5, <2>6
<1>8. ASSUME NEW w \in Workers, Abandon(w), chunks' \in [Row -> Nat],
             \A row \in Row : chunks[row] <= chunks'[row]
      PROVE  StoredInv'
  <2>1. Covered(w)'
    BY <1>8 DEF Abandon, Covered, TypeOK
  <2>2. \A v \in Workers \ {w} : Covered(v)'
    BY <1>8, MoreRows DEF Abandon, TypeOK
  <2>3. IndexedIsStored'
    BY <1>8, MoreRows DEF Abandon, IndexedIsStored, RowsOf
  <2>4. QED
    BY <2>1, <2>2, <2>3 DEF StoredInv
<1>9. ASSUME NEW w \in Workers, EmbedRaises(w)
      PROVE  StoredInv'
  <2>1. chunks' \in [Row -> Nat] /\ \A row \in Row : chunks[row] <= chunks'[row]
    BY <1>9 DEF EmbedRaises, TypeOK
  <2>2. QED
    BY <1>8, <1>9, <2>1 DEF EmbedRaises
<1>10. ASSUME NEW w \in Workers, StoreRaises(w)
       PROVE  StoredInv'
  <2>1. PICK n \in 0..Len(fresh[w]) :
           chunks' = WithRows(chunks, target[w].namespace, SubSeq(fresh[w], 1, n))
    BY <1>10 DEF StoreRaises
  <2>2. SubSeq(fresh[w], 1, n) \in Seq(Texts) /\ pc[w] = "check" /\ Abandon(w)
    BY <1>10, <2>1 DEF StoreRaises, Storing, TypeOK
  <2>3. QED
    BY <1>5, <1>8, <2>1, <2>2
<1>11. CASE Crash
  <2>1. \A w \in Workers : Covered(w)'
    BY <1>11 DEF Crash, Covered
  <2>2. ASSUME NEW t \in indexed, \A row \in RowsOf(t) : ~Gone(row), NEW row \in RowsOf(t)
        PROVE  chunks'[row] > 0
    <3>1. row \in Row /\ chunks[row] > 0
      BY RowsOfTarget DEF TypeOK, StoredInv, IndexedIsStored
    <3>2. chunks'[row] = chunks[row] - open[row] /\ open[row] <= chunks[row]
          /\ chunks[row] \in Nat /\ open[row] \in Nat
      BY <1>11, <3>1 DEF Crash, TypeOK
    <3>3. QED
      BY <2>2, <3>1, <3>2 DEF Gone
  <2>3. indexed' = {t \in indexed : \A row \in RowsOf(t) : ~Gone(row)}
    BY <1>11 DEF Crash
  <2>4. QED
    BY <2>1, <2>2, <2>3 DEF StoredInv, IndexedIsStored, RowsOf
<1>12. ASSUME NEW w \in Workers, NEW ns \in Namespaces, ForgetNamespace(w, ns)
       PROVE  StoredInv'
  <2>1. \A row \in Row : row.namespace # ns => chunks'[row] = chunks[row]
    BY <1>12 DEF ForgetNamespace
  <2>2. IndexedIsStored'
    <3>1. ASSUME NEW t \in indexed, t.namespace # ns, NEW row \in RowsOf(t)
          PROVE  chunks'[row] > 0
      <4>1. row \in Row /\ row.namespace # ns /\ chunks[row] > 0
        BY <3>1, RowsOfTarget DEF TypeOK, StoredInv, IndexedIsStored
      <4>2. QED
        BY <2>1, <4>1
    <3>2. indexed' = {t \in indexed : t.namespace # ns}
      BY <1>12 DEF ForgetNamespace
    <3>3. QED
      BY <3>1, <3>2 DEF IndexedIsStored, RowsOf
  <2>3. ASSUME NEW v \in Workers, pc[v] = "check", ~overtaken'[v], NEW row \in RowsOf(target[v])
        PROVE  chunks'[row] > 0 \/ row.text \in TextsOf(fresh[v]) \cup TextsOf(todo[v])
    <3>1. target[v] \in Target
      BY <2>3 DEF TypeOK
    <3>2. ~overtaken[v] /\ target[v].namespace # ns
      BY <1>12, <2>3, <3>1, Targets DEF ForgetNamespace
    <3>3. row \in Row /\ row.namespace # ns
      BY <3>1, <3>2, RowsOfTarget
    <3>4. QED
      BY <2>1, <2>3, <3>2, <3>3 DEF StoredInv, Covered
  <2>4. \A v \in Workers : Covered(v)'
    BY <1>12, <2>3 DEF ForgetNamespace, job, Covered, RowsOf
  <2>5. QED
    BY <2>2, <2>4 DEF StoredInv
<1>13. CASE (\E w \in Workers : CommitElsewhere(w)) \/ UNCHANGED vars
  <2>1. UNCHANGED <<chunks, indexed, pc, target, todo, fresh, overtaken>>
    BY <1>13 DEF CommitElsewhere, vars, job
  <2>2. QED
    BY <2>1 DEF StoredInv, IndexedIsStored, Covered, RowsOf, TextsOf
<1>14. ASSUME NEW w \in Workers, Reembeds(w)
       PROVE  StoredInv'
  <2>1. /\ chunks' \in [Row -> Nat]
        /\ pc'[w] # "check" /\ \A v \in Workers \ {w} : pc'[v] = pc[v]
        /\ UNCHANGED <<target, todo, fresh, overtaken, indexed>>
        /\ \/ UNCHANGED chunks
           \/ \E row \in Row : chunks' = [chunks EXCEPT ![row] = @ + 1]
    BY <1>14, ReembedStep
  <2>2. ASSUME NEW r \in Row PROVE chunks[r] <= chunks'[r]
    <3>1. chunks \in [Row -> Nat] /\ chunks[r] \in Nat
      BY DEF TypeOK
    <3>2. chunks'[r] = chunks[r] \/ chunks'[r] = chunks[r] + 1
      BY <2>1, <3>1
    <3>3. QED
      BY <3>1, <3>2
  <2>3. \A v \in Workers \ {w} : Covered(v)'
    BY <2>1, <2>2, MoreRows
  <2>4. Covered(w)'
    BY <2>1 DEF Covered
  <2>5. IndexedIsStored'
    BY <2>1, <2>2, MoreRows DEF IndexedIsStored, RowsOf
  <2>6. QED
    BY <2>3, <2>4, <2>5 DEF StoredInv
<1>15. QED
  BY <1>1, <1>2, <1>3, <1>4, <1>6, <1>7, <1>9, <1>10, <1>11, <1>12, <1>13, <1>14
  DEF Next, Reembeds

\* However ingestions of documents with chunks in common interleave and fail, what an
\* ingestion that returned left in the store is there until its namespace is forgotten.
THEOREM IndexedTheorem == Spec => []IndexedIsStored
<1>1. Init => StoredInv
  BY DEF Init, StoredInv, IndexedIsStored, Covered
<1>2. Spec => []StoredInv
  BY <1>1, StoredNext, TypeInit, TypeNext, PTL DEF Spec
<1>3. StoredInv => IndexedIsStored
  BY DEF StoredInv
<1>4. QED
  BY <1>2, <1>3, PTL

------------------------------------------------------------------------------
(* Sums over the workers, as the number of points under a function *)

Under(f) == {p \in Workers \X Nat : p[2] \in 1..f[p[1]]}

Sum(f) == Cardinality(Under(f))

\* A sum is at most the number of workers times a bound of its terms.
LEMMA SumBound ==
    ASSUME NEW m \in Nat, NEW f \in [Workers -> Nat], \A w \in Workers : f[w] <= m
    PROVE  /\ IsFiniteSet(Under(f)) /\ Sum(f) \in Nat
           /\ Sum(f) <= m * Cardinality(Workers)
<1> DEFINE box == Workers \X (1..m)
<1>1. IsFiniteSet(1..m) /\ Cardinality(1..m) = m
  BY FS_Interval
<1>2. IsFiniteSet(box) /\ Cardinality(box) = Cardinality(Workers) * m
  BY <1>1, FS_Product, WorkersAssumption
<1>3. Under(f) \subseteq box
  BY DEF Under
<1> HIDE DEF box
<1>4. /\ IsFiniteSet(Under(f)) /\ Cardinality(Under(f)) <= Cardinality(box)
      /\ Cardinality(Under(f)) \in Nat
  BY <1>2, <1>3, FS_Subset, FS_CardinalityType
<1>5. Cardinality(Workers) \in Nat
  BY FS_CardinalityType, WorkersAssumption
<1>6. QED
  BY <1>2, <1>4, <1>5 DEF Sum

LEMMA Column ==
    ASSUME NEW w, NEW k \in Nat
    PROVE  IsFiniteSet({w} \X (1..k)) /\ Cardinality({w} \X (1..k)) = k
<1>1. IsFiniteSet(1..k) /\ Cardinality(1..k) = k
  BY FS_Interval
<1>2. IsFiniteSet({w}) /\ Cardinality({w}) = 1
  BY FS_Singleton
<1>3. QED
  BY <1>1, <1>2, FS_Product

\* Changing one term changes the sum by as much.
LEMMA SumExcept ==
    ASSUME NEW f \in [Workers -> Nat], IsFiniteSet(Under(f)),
           NEW g \in [Workers -> Nat], NEW w \in Workers,
           \A v \in Workers \ {w} : g[v] = f[v]
    PROVE  /\ IsFiniteSet(Under(g))
           /\ Sum(f) \in Nat /\ Sum(g) \in Nat
           /\ Sum(g) + f[w] = Sum(f) + g[w]
<1> DEFINE rest == {p \in Under(f) : p[1] # w}
           column(k) == {w} \X (1..k)
<1>1. Under(f) = rest \cup column(f[w]) /\ Under(g) = rest \cup column(g[w])
  BY DEF Under
<1>2. \A k : rest \cap column(k) = {}
  OBVIOUS
<1>3. \A k \in Nat : IsFiniteSet(column(k)) /\ Cardinality(column(k)) = k
  BY Column
<1>4. IsFiniteSet(rest)
  BY FS_Subset
<1> HIDE DEF rest, column
<1>5. ASSUME NEW k \in Nat
      PROVE  /\ IsFiniteSet(rest \cup column(k))
             /\ Cardinality(rest \cup column(k)) = Cardinality(rest) + k
  <2>1. Cardinality(rest \cap column(k)) = 0
    BY <1>2, FS_EmptySet
  <2>2. IsFiniteSet(column(k)) /\ Cardinality(column(k)) = k
    BY <1>3
  <2>3. /\ IsFiniteSet(rest \cup column(k))
        /\ Cardinality(rest \cup column(k))
           = Cardinality(rest) + Cardinality(column(k)) - Cardinality(rest \cap column(k))
    BY <1>4, <2>2, FS_Union
  <2>4. Cardinality(rest) \in Nat
    BY <1>4, FS_CardinalityType
  <2>5. QED
    BY <2>1, <2>2, <2>3, <2>4
<1>6. Cardinality(rest) \in Nat /\ f[w] \in Nat /\ g[w] \in Nat
  BY <1>4, FS_CardinalityType
<1>7. /\ IsFiniteSet(Under(f)) /\ Cardinality(Under(f)) = Cardinality(rest) + f[w]
      /\ IsFiniteSet(Under(g)) /\ Cardinality(Under(g)) = Cardinality(rest) + g[w]
  BY <1>1, <1>5, <1>6
<1>8. QED
  BY <1>6, <1>7 DEF Sum

------------------------------------------------------------------------------
(* No bloat *)

\* The copies of a row that a worker has embedded and will store.
InHand(row) ==
    [w \in Workers |->
        IF target[w].namespace = row.namespace THEN Count(fresh[w], row.text) ELSE 0]

\* Copies stored or in hand are bounded by one document's for each worker and those that
\* re-embeddings brought back ...
Bounded(row) ==
    /\ IsFiniteSet(Under(InHand(row)))
    /\ \E d \in Documents :
          chunks[row] + Sum(InHand(row))
          <= Count(d, row.text) * Cardinality(Workers) + restored[row]

\* ... and what a worker has in hand is of its document.
FromDocument(w) ==
    \A text \in Texts :
        Count(fresh[w], text) + Count(todo[w], text) <= Count(target[w].document, text)

Hands == \A w \in Workers : pc[w] = "check" => FromDocument(w)

BloatInv == Hands /\ \A row \in Row : Bounded(row)

LEMMA InHandType ==
    ASSUME TypeOK, NEW row \in Row
    PROVE  InHand(row) \in [Workers -> Nat]
  BY CountType DEF TypeOK, InHand

\* A term is at most the sum.
LEMMA TermBound ==
    ASSUME NEW f \in [Workers -> Nat], IsFiniteSet(Under(f)), NEW w \in Workers
    PROVE  Sum(f) \in Nat /\ f[w] <= Sum(f)
<1>1. {w} \X (1..f[w]) \subseteq Under(f) /\ f[w] \in Nat
  BY DEF Under
<1>2. Cardinality({w} \X (1..f[w])) = f[w]
  BY <1>1, Column
<1>3. QED
  BY <1>1, <1>2, FS_Subset, FS_CardinalityType DEF Sum

\* A row that is not in the store is bounded: no worker has more in hand than its
\* document has, and one of the documents has the most.
AbsentIsBounded ==
    \A row \in Row :
        chunks[row] = 0 /\ IsFiniteSet(Under(InHand(row))) => Bounded(row)

LEMMA AbsentRow == TypeOK /\ Hands => AbsentIsBounded
<1> SUFFICES ASSUME TypeOK, Hands, NEW row \in Row,
                    chunks[row] = 0, IsFiniteSet(Under(InHand(row)))
             PROVE  Bounded(row)
  BY DEF AbsentIsBounded
<1> DEFINE f == InHand(row)
           bounds == {m \in Nat : \A w \in Workers : f[w] <= m}
<1>0. f \in [Workers -> Nat]
  BY InHandType
<1>1. ASSUME NEW m \in Nat, NEW d \in Documents, m <= Count(d, row.text),
             \A w \in Workers : f[w] <= m
      PROVE  Bounded(row)
  <2> HIDE DEF f
  <2>1. Count(d, row.text) \in Nat
    BY CountType, DocumentsAssumption
  <2>2. \A w \in Workers : f[w] <= Count(d, row.text)
    BY <1>0, <1>1, <2>1
  <2>3. Sum(f) \in Nat /\ Sum(f) <= Count(d, row.text) * Cardinality(Workers)
    BY <1>0, <2>1, <2>2, SumBound
  <2>4. PICK most : most = Count(d, row.text) * Cardinality(Workers)
    OBVIOUS
  <2>5. most \in Int /\ restored[row] \in Nat
    BY <2>1, <2>4, FS_CardinalityType, WorkersAssumption DEF TypeOK, ListingOK
  <2>6. chunks[row] + Sum(f) <= most + restored[row]
    BY <2>3, <2>4, <2>5
  <2>7. QED
    BY <2>4, <2>6 DEF Bounded, f
<1>2. ASSUME NEW w \in Workers, f[w] # 0
      PROVE  target[w].document \in Documents /\ f[w] <= Count(target[w].document, row.text)
  <2>1. pc[w] = "check"
    BY <1>2, CountEmpty DEF TypeOK, InHand
  <2>2. /\ target[w] \in Target /\ row.text \in Texts
        /\ fresh[w] \in Seq(Texts) /\ todo[w] \in Seq(Texts)
    BY <2>1 DEF TypeOK, Row
  <2>3. target[w].document \in Documents /\ target[w].document \in Seq(Texts)
    BY <2>2, DocumentsAssumption DEF Target
  <2>4. /\ Count(fresh[w], row.text) \in Nat /\ Count(todo[w], row.text) \in Nat
        /\ Count(target[w].document, row.text) \in Nat
    BY <2>2, <2>3, CountType
  <2>5. Count(fresh[w], row.text) + Count(todo[w], row.text)
        <= Count(target[w].document, row.text)
    BY <2>1, <2>2 DEF Hands, FromDocument
  <2>6. f[w] = Count(fresh[w], row.text)
    BY <1>2 DEF InHand
  <2>7. QED
    BY <2>3, <2>4, <2>5, <2>6
<1>3. CASE \A w \in Workers : f[w] = 0
  <2>1. PICK d \in Documents : TRUE
    BY DocumentsAssumption
  <2>2. Count(d, row.text) \in Nat
    BY CountType, DocumentsAssumption
  <2>3. QED
    BY <1>1, <1>3, <2>2
<1>4. ASSUME NEW v \in Workers, f[v] # 0
      PROVE  Bounded(row)
  <2>1. Sum(f) \in bounds
    BY <1>0, <1>4, TermBound
  <2>2. PICK m \in bounds : \A k \in bounds : m <= k
    BY <2>1, Least
  <2>3. m \in Nat /\ \A w \in Workers : f[w] <= m /\ f[w] \in Nat
    BY <1>0
  <2>4. m - 1 \notin bounds /\ m # 0
    BY <1>4, <2>2, <2>3
  <2>5. PICK w \in Workers : ~(f[w] <= m - 1)
    BY <2>3, <2>4
  <2>6. f[w] = m
    BY <2>3, <2>5
  <2>7. QED
    BY <1>1, <1>2, <2>3, <2>4, <2>6
<1>5. QED
  BY <1>3, <1>4

LEMMA AbsentRowNext == TypeOK' /\ Hands' => AbsentIsBounded'
  BY AbsentRow, PTL

\* What one worker does keeps the bound of a row, if the row is absent after it or the
\* worker takes out of its hand at least what it stores, or brings back what comes.
LEMMA BoundedStep ==
    ASSUME TypeOK, TypeOK', NEW row \in Row, Bounded(row), NEW w \in Workers,
           Hands',
           \A v \in Workers \ {w} : InHand(row)'[v] = InHand(row)[v],
           \/ chunks'[row] = 0
           \/ chunks'[row] + InHand(row)'[w] + restored[row]
              <= chunks[row] + InHand(row)[w] + restored'[row]
    PROVE  Bounded(row)'
<1>1. InHand(row) \in [Workers -> Nat]
  BY InHandType
<1>2. InHand(row)' \in [Workers -> Nat]
  BY CountType DEF TypeOK, InHand
<1>3. IsFiniteSet(Under(InHand(row)))
  BY DEF Bounded
<1>4. /\ IsFiniteSet(Under(InHand(row)'))
      /\ Sum(InHand(row)) \in Nat /\ Sum(InHand(row)') \in Nat
      /\ Sum(InHand(row)') + InHand(row)[w] = Sum(InHand(row)) + InHand(row)'[w]
  BY <1>1, <1>2, <1>3, SumExcept
<1>5. CASE chunks'[row] = 0
  <2>1. IsFiniteSet(Under(InHand(row)))'
    BY <1>4 DEF Under
  <2>2. QED
    BY <1>5, <2>1, AbsentRowNext DEF AbsentIsBounded
<1>6. CASE chunks'[row] + InHand(row)'[w] + restored[row]
           <= chunks[row] + InHand(row)[w] + restored'[row]
  <2>1. PICK d \in Documents :
           chunks[row] + Sum(InHand(row))
           <= Count(d, row.text) * Cardinality(Workers) + restored[row]
    BY DEF Bounded
  <2>2. /\ chunks[row] \in Nat /\ chunks'[row] \in Nat
        /\ restored[row] \in Nat /\ restored'[row] \in Nat
    BY DEF TypeOK, ListingOK
  <2>3. chunks'[row] + Sum(InHand(row)') + restored[row]
        <= chunks[row] + Sum(InHand(row)) + restored'[row]
    BY <1>1, <1>2, <1>4, <1>6, <2>2
  <2>4. PICK most : most = Count(d, row.text) * Cardinality(Workers)
    OBVIOUS
  <2>5. most \in Int
    BY <2>4, CountType, DocumentsAssumption, FS_CardinalityType, WorkersAssumption
  <2>6. chunks'[row] + Sum(InHand(row)') <= most + restored'[row]
    BY <1>4, <2>1, <2>2, <2>3, <2>4, <2>5
  <2>7. QED
    BY <1>4, <2>4, <2>6 DEF Bounded, Sum, Under
<1>7. QED
  BY <1>5, <1>6

LEMMA BloatNext == TypeOK /\ BloatInv /\ [Next]_vars => BloatInv'
<1> SUFFICES ASSUME TypeOK, BloatInv, [Next]_vars
             PROVE  BloatInv'
  OBVIOUS
<1>0. TypeOK'
  BY TypeNext
<1>a. ASSUME NEW w \in Workers,
             \A v \in Workers \ {w} : UNCHANGED <<pc[v], target[v], todo[v], fresh[v]>>,
             pc'[w] = "check" => FromDocument(w)',
             \A row \in Row :
                 \/ chunks'[row] = 0
                 \/ chunks'[row] + InHand(row)'[w] + restored[row]
                    <= chunks[row] + InHand(row)[w] + restored'[row]
      PROVE  BloatInv'
  <2>1. Hands'
    BY <1>a DEF BloatInv, Hands, FromDocument
  <2>2. \A row \in Row : \A v \in Workers \ {w} : InHand(row)'[v] = InHand(row)[v]
    BY <1>a DEF InHand
  <2>3. \A row \in Row : Bounded(row)'
    BY <1>0, <1>a, <2>1, <2>2, BoundedStep DEF BloatInv
  <2>4. QED
    BY <2>1, <2>3 DEF BloatInv
<1>b. ASSUME NEW w \in Workers, NEW row \in Row
      PROVE  /\ InHand(row)[w] = IF target[w].namespace = row.namespace
                                 THEN Count(fresh[w], row.text) ELSE 0
             /\ InHand(row)'[w] = IF target'[w].namespace = row.namespace
                                  THEN Count(fresh'[w], row.text) ELSE 0
             /\ InHand(row)[w] \in Nat /\ Count(fresh[w], row.text) \in Nat
             /\ fresh'[w] = <<>> => InHand(row)'[w] = 0
             /\ chunks[row] \in Nat /\ chunks'[row] \in Nat
             /\ row.text \in Texts
             /\ restored[row] \in Nat /\ restored'[row] \in Nat
             /\ InHand(row)'[w] \in Nat
  <2>1. restored[row] \in Nat /\ restored'[row] \in Nat
    BY <1>0 DEF TypeOK, ListingOK
  <2>2. QED
    BY <1>0, <2>1, InHandType, CountType, CountEmpty DEF InHand, TypeOK, Row
\* Nothing is brought back.
<1>e. ASSUME NEW w \in Workers, UNCHANGED restored,
             \A v \in Workers \ {w} : UNCHANGED <<pc[v], target[v], todo[v], fresh[v]>>,
             pc'[w] = "check" => FromDocument(w)',
             \A row \in Row : chunks'[row] + InHand(row)'[w] <= chunks[row] + InHand(row)[w]
      PROVE  BloatInv'
  <2>1. ASSUME NEW row \in Row
        PROVE  chunks'[row] + InHand(row)'[w] + restored[row]
               <= chunks[row] + InHand(row)[w] + restored'[row]
    BY <1>b, <1>e
  <2>2. QED
    BY <1>a, <1>e, <2>1
\* The worker's hand is empty after the step, and no row has come.
<1>c. ASSUME NEW w \in Workers, fresh'[w] = <<>>,
             \A v \in Workers \ {w} : UNCHANGED <<pc[v], target[v], todo[v], fresh[v]>>,
             pc'[w] = "check" => FromDocument(w)', UNCHANGED <<chunks, restored>>
      PROVE  BloatInv'
  <2>1. ASSUME NEW row \in Row
        PROVE  chunks'[row] + InHand(row)'[w] <= chunks[row] + InHand(row)[w]
    BY <1>b, <1>c
  <2>2. QED
    BY <1>e, <1>c, <2>1
<1>1. ASSUME NEW w \in Workers, NEW upload \in Uploads, IngestDocument(w, upload)
      PROVE  BloatInv'
  <2>0. PICK d \in Documents : d = upload.document
    BY UploadsAssumption DEF Target
  <2>1. /\ target'[w].document = d /\ todo'[w] = d /\ fresh'[w] = <<>>
        /\ chunks' = chunks /\ restored' = restored
        /\ \A v \in Workers \ {w} : UNCHANGED <<pc[v], target[v], todo[v], fresh[v]>>
    BY <1>1, <2>0 DEF IngestDocument, TypeOK, reembedding
  <2>2. FromDocument(w)'
    <3>1. ASSUME NEW text \in Texts
          PROVE  Count(<<>>, text) + Count(d, text) <= Count(d, text)
      BY CountEmpty, CountType, DocumentsAssumption
    <3>2. QED
      BY <2>1, <3>1 DEF FromDocument
  <2>3. QED
    BY <1>c, <2>1, <2>2
<1>2. ASSUME NEW w \in Workers, SkipChunk(w)
      PROVE  BloatInv'
  <2>1. /\ pc[w] = "check" /\ target' = target /\ fresh' = fresh /\ chunks' = chunks
        /\ restored' = restored
        /\ todo[w] \in Seq(Texts) /\ todo[w] # <<>> /\ todo'[w] = Tail(todo[w])
        /\ fresh[w] \in Seq(Texts) /\ target[w].document \in Seq(Texts)
        /\ \A v \in Workers \ {w} : UNCHANGED <<pc[v], target[v], todo[v], fresh[v]>>
    BY <1>2, Targets DEF SkipChunk, TypeOK, reembedding
  <2>2. ASSUME NEW text \in Texts
        PROVE  Count(fresh'[w], text) + Count(todo'[w], text)
               <= Count(target'[w].document, text)
    <3>1. Count(todo[w], text) = Count(<<Head(todo[w])>>, text) + Count(Tail(todo[w]), text)
      BY <2>1, CountHeadTail
    <3>2. /\ Count(<<Head(todo[w])>>, text) \in Nat /\ Count(Tail(todo[w]), text) \in Nat
          /\ Count(fresh[w], text) \in Nat /\ Count(target[w].document, text) \in Nat
      BY <2>1, HeadTail, CountType
    <3>3. Count(fresh[w], text) + Count(todo[w], text) <= Count(target[w].document, text)
      BY <2>1 DEF BloatInv, Hands, FromDocument
    <3>4. QED
      BY <2>1, <3>1, <3>2, <3>3
  <2>3. \A row \in Row : InHand(row)'[w] = InHand(row)[w]
    BY <2>1, <1>b
  <2>4. ASSUME NEW row \in Row
        PROVE  chunks'[row] + InHand(row)'[w] <= chunks[row] + InHand(row)[w]
    BY <2>1, <2>3, <1>b
  <2>5. QED
    BY <1>e, <2>1, <2>2, <2>4 DEF FromDocument
<1>3. ASSUME NEW w \in Workers, EmbedChunk(w)
      PROVE  BloatInv'
  <2>1. /\ pc[w] = "check" /\ target' = target /\ chunks' = chunks /\ restored' = restored
        /\ todo[w] \in Seq(Texts) /\ todo[w] # <<>> /\ todo'[w] = Tail(todo[w])
        /\ fresh[w] \in Seq(Texts) /\ fresh'[w] = Append(fresh[w], Head(todo[w]))
        /\ target[w].document \in Seq(Texts) /\ target[w].namespace \in Namespaces
        /\ Head(todo[w]) \in Texts
        /\ \A v \in Workers \ {w} : UNCHANGED <<pc[v], target[v], todo[v], fresh[v]>>
    BY <1>3, Targets, HeadTail DEF EmbedChunk, TypeOK, reembedding
  <2>2. ASSUME NEW text \in Texts
        PROVE  /\ Count(fresh'[w], text)
                  = Count(fresh[w], text) + IF Head(todo[w]) = text THEN 1 ELSE 0
               /\ Count(fresh'[w], text) + Count(todo'[w], text)
                  <= Count(target'[w].document, text)
    <3>1. /\ Count(todo[w], text)
             = Count(<<Head(todo[w])>>, text) + Count(Tail(todo[w]), text)
          /\ Count(<<Head(todo[w])>>, text) = IF Head(todo[w]) = text THEN 1 ELSE 0
          /\ Count(Append(fresh[w], Head(todo[w])), text)
             = Count(fresh[w], text) + IF Head(todo[w]) = text THEN 1 ELSE 0
      BY <2>1, CountHeadTail, CountAppend
    <3>2. /\ Count(Tail(todo[w]), text) \in Nat
          /\ Count(fresh[w], text) \in Nat /\ Count(target[w].document, text) \in Nat
      BY <2>1, HeadTail, CountType
    <3>3. Count(fresh[w], text) + Count(todo[w], text) <= Count(target[w].document, text)
      BY <2>1 DEF BloatInv, Hands, FromDocument
    <3>4. QED
      BY <2>1, <3>1, <3>2, <3>3
  <2>3. PICK embedded : embedded = [namespace |-> target[w].namespace, text |-> Head(todo[w])]
    OBVIOUS
  <2>4. chunks[embedded] = 0 /\ embedded \in Row
    <3>1. embedded \in Row
      BY <2>1, <2>3 DEF Row
    <3>2. ~(chunks[embedded] > 0) /\ chunks[embedded] \in Nat
      BY <1>3, <2>3, <3>1 DEF EmbedChunk, Exists, TypeOK
    <3>3. QED
      BY <3>1, <3>2
  <2>5. ASSUME NEW row \in Row, row # embedded
        PROVE  chunks'[row] + InHand(row)'[w] <= chunks[row] + InHand(row)[w]
    <3>1. row.namespace # target[w].namespace \/ row.text # Head(todo[w])
      BY <2>3, <2>5 DEF Row
    <3>2. row.text \in Texts /\ Count(fresh[w], row.text) \in Nat
      BY <1>b
    <3>3. row.text # Head(todo[w]) => Count(fresh'[w], row.text) = Count(fresh[w], row.text)
      BY <2>2, <3>2
    <3>4. InHand(row)'[w] = InHand(row)[w]
      <4>1. /\ InHand(row)[w] = IF target[w].namespace = row.namespace
                               THEN Count(fresh[w], row.text) ELSE 0
            /\ InHand(row)'[w] = IF target[w].namespace = row.namespace
                                THEN Count(fresh'[w], row.text) ELSE 0
        BY <2>1, <1>b
      <4>2. CASE target[w].namespace = row.namespace
        BY <3>1, <3>3, <4>1, <4>2
      <4>3. CASE target[w].namespace # row.namespace
        BY <4>1, <4>3
      <4>4. QED
        BY <4>2, <4>3
    <3>5. QED
      BY <2>1, <3>4, <1>b
  <2>6. ASSUME NEW row \in Row
        PROVE  \/ chunks'[row] = 0
               \/ chunks'[row] + InHand(row)'[w] + restored[row]
                  <= chunks[row] + InHand(row)[w] + restored'[row]
    <3>1. CASE row = embedded
      BY <2>1, <2>4, <3>1
    <3>2. CASE row # embedded
      <4>1. chunks'[row] + InHand(row)'[w] <= chunks[row] + InHand(row)[w]
        BY <2>5, <3>2
      <4>2. QED
        BY <2>1, <4>1, <1>b
    <3>3. QED
      BY <3>1, <3>2
  <2>7. QED
    BY <1>a, <2>1, <2>2, <2>6 DEF FromDocument
<1>4. ASSUME NEW w \in Workers, StoreNothing(w)
      PROVE  BloatInv'
  <2>1. /\ fresh'[w] = <<>> /\ chunks' = chunks /\ pc'[w] = "idle" /\ restored' = restored
        /\ \A v \in Workers \ {w} : UNCHANGED <<pc[v], target[v], todo[v], fresh[v]>>
    BY <1>4 DEF StoreNothing, Return, TypeOK, reembedding
  <2>2. QED
    BY <1>c, <2>1
\* What is stored comes out of the worker's hand.
<1>5. ASSUME NEW w \in Workers, NEW texts \in Seq(Texts), NEW row \in Row,
             chunks' = WithRows(chunks, target[w].namespace, texts),
             \/ InHand(row)'[w] = 0 /\ Count(texts, row.text) <= Count(fresh[w], row.text)
             \/ /\ InHand(row)'[w] = IF target[w].namespace = row.namespace
                                     THEN Count(fresh'[w], row.text) ELSE 0
                /\ Count(texts, row.text) + Count(fresh'[w], row.text)
                   = Count(fresh[w], row.text)
      PROVE  chunks'[row] + InHand(row)'[w] <= chunks[row] + InHand(row)[w]
  <2>0. PICK ns : ns = target[w].namespace
    OBVIOUS
  <2>1. chunks'[row] = chunks[row] + IF row.namespace # target[w].namespace THEN 0
                                     ELSE Count(texts, row.text)
    <3>1. chunks \in [Row -> Nat] /\ chunks' = WithRows(chunks, ns, texts)
      BY <1>5, <2>0 DEF TypeOK
    <3>2. QED
      BY <2>0, <3>1 DEF WithRows, Count
  <2>2. /\ Count(texts, row.text) \in Nat /\ Count(fresh[w], row.text) \in Nat
        /\ Count(fresh'[w], row.text) \in Nat
    BY <1>0, CountType DEF TypeOK
  <2>3. QED
    BY <1>5, <1>b, <2>1, <2>2
<1>6. ASSUME NEW w \in Workers, StoreChunks(w)
      PROVE  BloatInv'
  <2>1. /\ fresh'[w] = <<>> /\ pc'[w] = "idle" /\ fresh[w] \in Seq(Texts)
        /\ restored' = restored
        /\ chunks' = WithRows(chunks, target[w].namespace, fresh[w])
        /\ \A v \in Workers \ {w} : UNCHANGED <<pc[v], target[v], todo[v], fresh[v]>>
    BY <1>6 DEF StoreChunks, Return, TypeOK, reembedding
  <2>2. ASSUME NEW row \in Row
        PROVE  chunks'[row] + InHand(row)'[w] <= chunks[row] + InHand(row)[w]
    <3>1. InHand(row)'[w] = 0 /\ Count(fresh[w], row.text) <= Count(fresh[w], row.text)
      BY <1>b, <2>1
    <3>2. QED
      BY <1>5, <2>1, <3>1
  <2>3. QED
    BY <1>e, <2>1, <2>2
<1>7. ASSUME NEW w \in Workers, StoreChunk(w)
      PROVE  BloatInv'
  <2>1. /\ fresh[w] \in Seq(Texts) /\ fresh[w] # <<>> /\ fresh'[w] = Tail(fresh[w])
        /\ <<Head(fresh[w])>> \in Seq(Texts) /\ todo' = todo
        /\ chunks' = WithRows(chunks, target[w].namespace, <<Head(fresh[w])>>)
        /\ \A v \in Workers \ {w} : UNCHANGED <<pc[v], target[v], todo[v], fresh[v]>>
        /\ Len(fresh[w]) = 1 => pc'[w] = "idle" /\ fresh'[w] = <<>>
        /\ Len(fresh[w]) # 1 => target' = target
        /\ pc[w] = "check" /\ restored' = restored
    BY <1>7, HeadTail DEF StoreChunk, Storing, Return, TypeOK, reembedding
  <2>2. \A text : Count(<<Head(fresh[w])>>, text) + Count(fresh'[w], text)
                  = Count(fresh[w], text)
    BY <2>1, CountHeadTail
  <2>3. ASSUME NEW row \in Row
        PROVE  chunks'[row] + InHand(row)'[w] <= chunks[row] + InHand(row)[w]
    <3>1. CASE Len(fresh[w]) = 1
      <4>1. InHand(row)'[w] = 0 /\ Count(fresh'[w], row.text) = 0
        BY <1>b, <2>1, <3>1, CountEmpty
      <4>2. Count(<<Head(fresh[w])>>, row.text) <= Count(fresh[w], row.text)
        <5>1. /\ Count(<<Head(fresh[w])>>, row.text) \in Nat
              /\ Count(fresh[w], row.text) \in Nat
          BY <2>1, CountType
        <5>2. QED
          BY <2>2, <4>1, <5>1
      <4>3. QED
        BY <1>5, <2>1, <4>1, <4>2
    <3>2. CASE Len(fresh[w]) # 1
      <4>1. InHand(row)'[w] = IF target[w].namespace = row.namespace
                              THEN Count(fresh'[w], row.text) ELSE 0
        BY <1>b, <2>1, <3>2
      <4>2. Count(<<Head(fresh[w])>>, row.text) + Count(fresh'[w], row.text)
            = Count(fresh[w], row.text)
        BY <2>2
      <4>3. QED
        BY <1>5, <2>1, <4>1, <4>2
    <3>3. QED
      BY <3>1, <3>2
  <2>4. ASSUME pc'[w] = "check", NEW text \in Texts
        PROVE  Count(fresh'[w], text) + Count(todo'[w], text)
               <= Count(target'[w].document, text)
    <3>1. target' = target
      BY <2>1, <2>4
    <3>2. Count(fresh[w], text) + Count(todo[w], text) <= Count(target[w].document, text)
      BY <2>1 DEF BloatInv, Hands, FromDocument
    <3>3. /\ Count(<<Head(fresh[w])>>, text) \in Nat /\ Count(fresh'[w], text) \in Nat
          /\ Count(todo[w], text) \in Nat /\ Count(target[w].document, text) \in Nat
      BY <1>0, <2>1, CountType, Targets DEF TypeOK
    <3>4. QED
      BY <2>1, <2>2, <3>1, <3>2, <3>3
  <2>5. QED
    BY <1>e, <2>1, <2>3, <2>4 DEF FromDocument
<1>8. ASSUME NEW w \in Workers, EmbedRaises(w)
      PROVE  BloatInv'
  <2>1. /\ fresh'[w] = <<>> /\ chunks' = chunks /\ pc'[w] = "idle" /\ restored' = restored
        /\ \A v \in Workers \ {w} : UNCHANGED <<pc[v], target[v], todo[v], fresh[v]>>
    BY <1>8 DEF EmbedRaises, Abandon, TypeOK, reembedding
  <2>2. QED
    BY <1>c, <2>1
<1>9. ASSUME NEW w \in Workers, StoreRaises(w)
      PROVE  BloatInv'
  <2>1. PICK n \in 0..Len(fresh[w]) :
           chunks' = WithRows(chunks, target[w].namespace, SubSeq(fresh[w], 1, n))
    BY <1>9 DEF StoreRaises
  <2>2. /\ fresh'[w] = <<>> /\ pc'[w] = "idle" /\ fresh[w] \in Seq(Texts)
        /\ restored' = restored
        /\ \A v \in Workers \ {w} : UNCHANGED <<pc[v], target[v], todo[v], fresh[v]>>
    BY <1>9 DEF StoreRaises, Abandon, TypeOK, reembedding
  <2>3. n \in 0..Len(fresh[w]) /\ SubSeq(fresh[w], 1, n) \in Seq(Texts)
    BY <2>1, <2>2
  <2>4. ASSUME NEW row \in Row
        PROVE  chunks'[row] + InHand(row)'[w] <= chunks[row] + InHand(row)[w]
    <3>1. /\ InHand(row)'[w] = 0
          /\ Count(SubSeq(fresh[w], 1, n), row.text) <= Count(fresh[w], row.text)
      BY <1>b, <2>2, <2>3, CountPrefix
    <3>2. QED
      BY <1>5, <2>1, <2>3, <3>1
  <2>5. QED
    BY <1>e, <2>2, <2>4
<1>10. CASE Crash
  <2>1. Hands'
    BY <1>10 DEF Crash, Hands
  <2>2. ASSUME NEW row \in Row
        PROVE  Bounded(row)'
    <3>1. InHand(row)' \in [Workers -> Nat] /\ \A w \in Workers : InHand(row)'[w] <= 0
      BY <1>10, CountEmpty DEF Crash, InHand
    <3>2. /\ IsFiniteSet(Under(InHand(row)')) /\ Sum(InHand(row)') \in Nat
          /\ Sum(InHand(row)') <= 0 * Cardinality(Workers)
      BY <3>1, SumBound
    <3>3. Cardinality(Workers) \in Nat
      BY FS_CardinalityType, WorkersAssumption
    <3>4. Sum(InHand(row)') = 0
      BY <3>2, <3>3
    <3>5. /\ chunks'[row] = chunks[row] - open[row]
          /\ chunks[row] \in Nat /\ open[row] \in Nat /\ open[row] <= chunks[row]
          /\ restored'[row] = restored[row] /\ restored[row] \in Nat
      BY <1>10 DEF Crash, TypeOK, ListingOK
    <3>6. PICK d \in Documents :
             chunks[row] + Sum(InHand(row))
             <= Count(d, row.text) * Cardinality(Workers) + restored[row]
      BY DEF BloatInv, Bounded
    <3>7. Sum(InHand(row)) \in Nat
      BY FS_CardinalityType DEF BloatInv, Bounded, Sum
    <3>8. PICK most : most = Count(d, row.text) * Cardinality(Workers)
      OBVIOUS
    <3>9. most \in Int
      BY <3>3, <3>8, CountType, DocumentsAssumption
    <3>10. chunks'[row] + Sum(InHand(row)') <= most + restored'[row]
      BY <3>4, <3>5, <3>6, <3>7, <3>8, <3>9
    <3>11. QED
      BY <3>2, <3>8, <3>10 DEF Bounded, Sum, Under
  <2>3. QED
    BY <2>1, <2>2 DEF BloatInv
<1>11. ASSUME NEW w \in Workers, NEW ns \in Namespaces, ForgetNamespace(w, ns)
       PROVE  BloatInv'
  <2>1. UNCHANGED <<pc, target, todo, fresh>>
    BY <1>11 DEF ForgetNamespace, job
  <2>2. \A row \in Row :
           \/ chunks'[row] = 0
           \/ chunks'[row] = chunks[row] /\ restored'[row] = restored[row]
    BY <1>11 DEF ForgetNamespace
  <2>3. pc'[w] = "check" => FromDocument(w)'
    BY <2>1 DEF BloatInv, Hands, FromDocument
  <2>4. ASSUME NEW row \in Row
        PROVE  \/ chunks'[row] = 0
               \/ chunks'[row] + InHand(row)'[w] + restored[row]
                  <= chunks[row] + InHand(row)[w] + restored'[row]
    <3>1. InHand(row)'[w] = InHand(row)[w]
      BY <2>1, <1>b
    <3>2. QED
      BY <2>2, <3>1, <1>b
  <2>5. QED
    BY <1>a, <2>1, <2>3, <2>4
<1>12. CASE (\E w \in Workers : CommitElsewhere(w)) \/ UNCHANGED vars
  <2>1. UNCHANGED <<chunks, pc, target, todo, fresh, restored>>
    BY <1>12 DEF CommitElsewhere, vars, job, reembedding
  <2>2. QED
    BY <2>1 DEF BloatInv, Hands, FromDocument, Bounded, InHand, Sum, Under
<1>13. ASSUME NEW w \in Workers, Reembeds(w)
       PROVE  BloatInv'
  <2>1. /\ pc'[w] # "check" /\ \A v \in Workers \ {w} : pc'[v] = pc[v]
        /\ UNCHANGED <<target, todo, fresh>>
        /\ \/ UNCHANGED <<chunks, restored>>
           \/ \E row \in Row : /\ chunks' = [chunks EXCEPT ![row] = @ + 1]
                               /\ restored' = [restored EXCEPT ![row] = @ + 1]
    BY <1>13, ReembedStep
  <2>2. /\ chunks \in [Row -> Nat] /\ restored \in [Row -> Nat]
    BY DEF TypeOK, ListingOK
  <2>3. ASSUME NEW row \in Row
        PROVE  chunks'[row] + restored[row] = chunks[row] + restored'[row]
    BY <2>1, <2>2
  <2>4. ASSUME NEW row \in Row
        PROVE  chunks'[row] + InHand(row)'[w] + restored[row]
               <= chunks[row] + InHand(row)[w] + restored'[row]
    <3>1. InHand(row)'[w] = InHand(row)[w]
      BY <2>1, <1>b
    <3>2. QED
      BY <2>3, <3>1, <1>b
  <2>5. QED
    BY <1>a, <2>1, <2>4
<1>14. QED
  BY <1>1, <1>2, <1>3, <1>4, <1>6, <1>7, <1>8, <1>9, <1>10, <1>11, <1>12, <1>13
  DEF Next, Reembeds

LEMMA BloatInit == Init => BloatInv
<1> SUFFICES ASSUME Init, NEW row \in Row
             PROVE  Bounded(row)
  BY DEF Init, BloatInv, Hands
<1>1. InHand(row) \in [Workers -> Nat] /\ \A w \in Workers : InHand(row)[w] <= 0
  BY CountEmpty DEF Init, InHand
<1>2. IsFiniteSet(Under(InHand(row)))
  BY <1>1, SumBound
<1>3. TypeOK /\ Hands /\ chunks[row] = 0
  BY TypeInit, NoRowsType DEF Init, Hands
<1>4. QED
  BY <1>2, <1>3, AbsentRow DEF AbsentIsBounded

\* Ingesting documents again, in part or in whole, by any number of workers and with
\* calls that fail midway, never multiplies a chunk beyond one document's copies of it
\* for each worker and the forgotten rows that re-embeddings brought back.
THEOREM BloatTheorem == Spec => []NoBloat
<1>1. Spec => [](TypeOK /\ BloatInv)
  BY TypeInit, TypeNext, BloatInit, BloatNext, PTL DEF Spec
<1>2. TypeOK /\ BloatInv => NoBloat
  <2> SUFFICES ASSUME TypeOK, BloatInv, NEW row \in Row
               PROVE  \E most \in Occurrences(row.text) :
                         chunks[row] <= most * Cardinality(Workers) + restored[row]
    BY DEF NoBloat
  <2>1. PICK d \in Documents :
           chunks[row] + Sum(InHand(row))
           <= Count(d, row.text) * Cardinality(Workers) + restored[row]
    BY DEF BloatInv, Bounded
  <2>2. Sum(InHand(row)) \in Nat /\ chunks[row] \in Nat /\ restored[row] \in Nat
    BY FS_CardinalityType DEF BloatInv, Bounded, Sum, TypeOK, ListingOK
  <2>3. Cardinality(Workers) \in Nat /\ Count(d, row.text) \in Nat
    BY FS_CardinalityType, WorkersAssumption, CountType, DocumentsAssumption
  <2>4. PICK most : most = Count(d, row.text) * Cardinality(Workers)
    OBVIOUS
  <2>5. most \in Int
    BY <2>3, <2>4
  <2>6. chunks[row] <= most + restored[row]
    BY <2>1, <2>2, <2>4, <2>5
  <2>7. Count(d, row.text) \in Occurrences(row.text)
    BY DEF Occurrences, Count
  <2>8. QED
    BY <2>4, <2>6, <2>7
<1>3. QED
  BY <1>1, <1>2, PTL

==============================================================================
