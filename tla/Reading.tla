------------------------------- MODULE Reading -------------------------------
(***************************************************************************)
(* What becomes of a document before it is indexed: its text is found or    *)
(* asked of the OCR endpoint, structure_markdown cuts it into sections at   *)
(* its headings, and chunk_concepts cuts the sections into chunks.  What    *)
(* happens to the chunks is DocumentMemory.                                 *)
(*                                                                         *)
(* A document is a sequence of lines, each reduced to its kind; a line is   *)
(* named by its number and a heading stands for its title.  The two passes  *)
(* are sequential and local: each is one loop over the lines.               *)
(***************************************************************************)
EXTENDS Naturals, Sequences, FiniteSets, SequencesExt

CONSTANTS
    Documents,  \* sequences of kinds of lines
    LineSize,   \* the characters of a line of each kind
    Target      \* target_tokens

\* A "part" is prose that ends without ending its sentence, a "text" ends it.
Kinds == {"h1", "h2", "blank", "row", "part", "text", "long"}

ASSUME DocumentsAssumption == Documents \subseteq Seq(Kinds)
ASSUME SizesAssumption == LineSize \in [Kinds -> Nat] /\ Target \in Nat

VARIABLES
    doc,       \* the lines of the markdown
    phase,     \* "submit", "structure", "chunk", "done" or "raised"
    concepts,  \* sections: their path of headings and their non-blank lines
    chunks     \* the chunks: their section and their lines

vars == <<doc, phase, concepts, chunks>>

Level(i) == IF doc[i] = "h1" THEN 1 ELSE 2
IsHeading(i) == doc[i] \in {"h1", "h2"}

\* The characters of lines that follow each other.
Width(lines) == SumFunctionOnSet([i \in DOMAIN doc |-> LineSize[doc[i]] + 1], lines) - 1

\* _approx_tokens
Tokens(chars) == IF chars < 4 THEN 1 ELSE chars \div 4

Size(lines) == Tokens(Width(lines))

------------------------------------------------------------------------------
(* structure_markdown *)

\* Ends the section being read, unless it is blank.
FlushSection(r) ==
    IF r.lines = {} THEN r
    ELSE [r EXCEPT !.out = Append(@, [path |-> r.stack, lines |-> r.lines]), !.lines = {}]

\* Mutant of Enclosing: a heading of the same level still encloses the new one.
EnclosingSiblings(stack, level) ==
    SubSeq(stack, 1, Max({0} \cup {n \in DOMAIN stack : Level(stack[n]) <= level}))

\* The headings that still enclose a heading of this level: those above it on the stack
\* are popped.
Enclosing(stack, level) ==
    SubSeq(stack, 1, Max({0} \cup {n \in DOMAIN stack : Level(stack[n]) < level}))

ReadLine(r, i) ==
    CASE IsHeading(i) ->
            [FlushSection(r) EXCEPT !.stack = Append(Enclosing(r.stack, Level(i)), i)]
      [] doc[i] = "blank" -> r
      [] OTHER -> [r EXCEPT !.lines = @ \cup {i}]

ReadLines ==
    LET Read[n \in 0..Len(doc)] ==
            IF n = 0 THEN [stack |-> <<>>, lines |-> {}, out |-> <<>>]
            ELSE ReadLine(Read[n - 1], n)
    IN Read[Len(doc)]

\* A document without a section is one concept, headings included, of the default title.
Concepts ==
    LET found == FlushSection(ReadLines).out
        lines == {i \in DOMAIN doc : doc[i] # "blank"}
    IN IF found = <<>> /\ lines # {} THEN <<[path |-> <<>>, lines |-> lines]>> ELSE found

------------------------------------------------------------------------------
(* chunk_concepts *)

Class(i) == IF doc[i] = "row" THEN "table" ELSE "prose"

\* Mutant of Cuts: each row is a table.
CutsEachRow(lines, i) == i - 1 \notin lines \/ Class(i - 1) # Class(i) \/ Class(i) = "table"

\* A block begins: after a blank line, or a change between table and prose.
Cuts(lines, i) == i - 1 \notin lines \/ Class(i - 1) # Class(i)

\* A sentence begins: the line before ends one.
CutsSentence(lines, i) == i - 1 \notin lines \/ doc[i - 1] \in {"text", "long"}

BlockStarts(lines) == {i \in lines : Cuts(lines, i)}
SentenceStarts(lines) == {i \in lines : CutsSentence(lines, i)}

\* The lines from a start to before the next.
Run(lines, starts, s) == {i \in lines : i >= s /\ (s + 1..i) \cap starts = {}}

\* The chunks made, and the lines and tokens held for the next.
Empty == [out |-> <<>>, buffer |-> {}, held |-> 0]

Flush(r) ==
    IF r.buffer = {} THEN r ELSE [Empty EXCEPT !.out = Append(r.out, r.buffer)]

\* Mutant of Overflows: what is held is measured before the block is added.
OverflowsAlready(r, lines) == r.held > Target

Overflows(r, lines) == r.buffer # {} /\ r.held + Size(lines) > Target

\* Mutant of Hold: what does not fit goes out, and what is held stays.
HoldFirst(r, lines) ==
    IF Overflows(r, lines) THEN [r EXCEPT !.out = Append(@, lines)]
    ELSE [r EXCEPT !.buffer = @ \cup lines, !.held = @ + Size(lines)]

\* Lines are held for the next chunk, after those held before if they fit together.
Hold(r, lines) ==
    LET kept == IF Overflows(r, lines) THEN Flush(r) ELSE r
    IN [kept EXCEPT !.buffer = @ \cup lines, !.held = @ + Size(lines)]

\* Sentences packed into pieces that fit.
HoldSentences(lines) ==
    LET Held[n \in 0..Len(doc)] ==
            IF n = 0 THEN Empty
            ELSE IF n \in SentenceStarts(lines)
                 THEN Hold(Held[n - 1], Run(lines, SentenceStarts(lines), n))
                 ELSE Held[n - 1]
    IN Held[Len(doc)]

Pieces(lines) == Flush(HoldSentences(lines)).out

\* Mutant of Place: an oversized paragraph drops what is held.
PlaceAfresh(r, block) ==
    IF \A i \in block : Class(i) = "table" THEN Flush(Hold(r, block))
    ELSE IF Size(block) > Target THEN [Empty EXCEPT !.out = r.out \o Pieces(block)]
    ELSE Hold(r, block)

\* A table ends its chunk.  An oversized paragraph goes out in pieces, ahead of what is
\* held.
Place(r, block) ==
    IF \A i \in block : Class(i) = "table" THEN Flush(Hold(r, block))
    ELSE IF Size(block) > Target THEN [r EXCEPT !.out = @ \o Pieces(block)]
    ELSE Hold(r, block)

PlaceBlocks(lines) ==
    LET Placed[n \in 0..Len(doc)] ==
            IF n = 0 THEN Empty
            ELSE IF n \in BlockStarts(lines)
                 THEN Place(Placed[n - 1], Run(lines, BlockStarts(lines), n))
                 ELSE Placed[n - 1]
    IN Placed[Len(doc)]

\* A section that fits, blank lines included, is kept whole.
Split(lines) ==
    IF Size(Min(lines)..Max(lines)) <= Target THEN <<lines>>
    ELSE Flush(PlaceBlocks(lines)).out

------------------------------------------------------------------------------

Init ==
    /\ doc = <<>>
    /\ phase = "submit"
    /\ concepts = <<>>
    /\ chunks = <<>>

Readable(form, ocr) == form \in {"str", "text bytes"} \/ (form = "bytes" /\ ocr)

\* A str is markdown, text bytes are decoded, other bytes go to the OCR endpoint, and
\* without one ValueError or TypeError is raised.
Submit(form, ocr) ==
    /\ phase = "submit"
    /\ IF Readable(form, ocr)
       THEN phase' = "structure" /\ doc' \in Documents
       ELSE phase' = "raised" /\ UNCHANGED doc
    /\ UNCHANGED <<concepts, chunks>>

Structure ==
    /\ phase = "structure"
    /\ phase' = "chunk"
    /\ concepts' = Concepts
    /\ UNCHANGED <<doc, chunks>>

ChunkConcept ==
    /\ phase = "chunk" /\ concepts # <<>>
    /\ LET pieces == Split(Head(concepts).lines)
       IN chunks' = chunks \o [n \in DOMAIN pieces |->
                                [section |-> Head(concepts).path, lines |-> pieces[n]]]
    /\ concepts' = Tail(concepts)
    /\ UNCHANGED <<doc, phase>>

Finish ==
    /\ phase = "chunk" /\ concepts = <<>>
    /\ phase' = "done"
    /\ UNCHANGED <<doc, concepts, chunks>>

Next ==
    \/ \E form \in {"str", "text bytes", "bytes", "other"}, ocr \in BOOLEAN : Submit(form, ocr)
    \/ Structure
    \/ ChunkConcept
    \/ Finish

Spec == Init /\ [][Next]_vars

------------------------------------------------------------------------------

Headings == {i \in DOMAIN doc : IsHeading(i)}
Body == {i \in DOMAIN doc : doc[i] # "blank" /\ ~IsHeading(i)}

\* The text to index: without any, the headings.
Text == IF Body # {} THEN Body ELSE Headings

\* Each line of text is in one chunk: sections, buffers and splits neither lose nor
\* repeat any ("so no text is lost").
NothingLost ==
    phase = "done" =>
        \A i \in Text : Cardinality({n \in DOMAIN chunks : i \in chunks[n].lines}) = 1

\* The headings that enclose a line: those before it that no heading of their level or
\* above has ended.
Encloses(h, i) ==
    /\ h \in Headings /\ h < i
    /\ \A g \in Headings : g \in h + 1..i => Level(g) > Level(h)

\* A chunk holds text of one section, and is labelled with the headings that enclose it,
\* in their order ("respecting concept boundaries").
SectionsKept ==
    phase = "done" =>
        \A n \in DOMAIN chunks : \A i \in chunks[n].lines \cap Body :
            LET path == chunks[n].section
            IN /\ ToSet(path) = {h \in DOMAIN doc : Encloses(h, i)}
               /\ \A a, b \in DOMAIN path : a < b => path[a] < path[b]

\* Rows of one table are in one chunk ("a table is never cut across chunks").
TablesWhole ==
    phase = "done" =>
        \A n \in DOMAIN chunks : \A i \in chunks[n].lines :
            doc[i] = "row" => \A j \in {i - 1, i + 1} \cap DOMAIN doc :
                doc[j] = "row" => j \in chunks[n].lines

\* The number of blocks of a chunk, and of blocks and sentences.
Blocks(lines) == Cardinality(BlockStarts(lines))
Parts(lines) == Cardinality(BlockStarts(lines) \cup SentenceStarts(lines))

\* The characters of a chunk's text: its blocks are joined by a blank line.
Chars(lines) == Width(lines) + Blocks(lines) - 1

\* A chunk is at most the target, or over it by what rounding and separators take from the
\* sum of its parts, under five characters for each; or it is one table, or one sentence.
Fits(lines) ==
    \/ Tokens(Chars(lines)) <= Target + (5 * Parts(lines) - 2) \div 4
    \/ Blocks(lines) = 1 /\ \A i \in lines : doc[i] = "row"
    \/ Parts(lines) = 1

\* Only one table or one sentence makes a chunk larger than the target by more than
\* rounding ("a section larger than the target is split").
SizeBound ==
    phase = "done" => \A n \in DOMAIN chunks : Fits(chunks[n].lines)

\* The chunk is a piece of a paragraph too large for one.
IsPiece(lines) ==
    \E i \in lines : \E a \in 1..i, b \in i..Len(doc) :
        a..b \subseteq {j \in Text : doc[j] # "row"} /\ Size(a..b) > Target

\* Chunks come in the order of the document: each ends before the next begins.  Only
\* pieces of an oversized paragraph may come before text that precedes them.
OrderKept ==
    phase = "done" =>
        \A m, n \in DOMAIN chunks : m < n /\ ~IsPiece(chunks[m].lines) /\ ~IsPiece(chunks[n].lines) =>
            \A i \in chunks[m].lines, j \in chunks[n].lines : i < j

==============================================================================
