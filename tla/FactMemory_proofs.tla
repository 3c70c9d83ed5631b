-------------------------- MODULE FactMemory_proofs --------------------------
(***************************************************************************)
(* Proofs about FactMemory and Retrieval.                                  *)
(*                                                                         *)
(* First for any workers, keys, messages and bounds.  The typing theorem   *)
(* holds of every behaviour; the others assume that nobody re-embeds:      *)
(* reembed writes back rows it listed earlier.                             *)
(*                                                                         *)
(* Then when operations do not overlap: one worker, which may ingest,      *)
(* forget, re-embed and fail anywhere.  What holds of the rows, and that   *)
(* it implements FactLedger: every store call changes the objects that are *)
(* believed, and those that were, as one step of the ledger does, or       *)
(* leaves both alone.                                                      *)
(*                                                                         *)
(* Last of Retrieval: reading changes no fact, so what is proved of the    *)
(* fact memory holds while it is read; a changed fact is flagged; a handoff *)
(* fits its budget and has no credential; the current fact comes first.    *)
(***************************************************************************)
EXTENDS Retrieval, FiniteSetTheorems, Induction, TLAPS

------------------------------------------------------------------------------
(* Lemmas on rows and sequences *)

\* The head and the tail of the extractions that remain.
LEMMA HeadTail ==
    ASSUME NEW s \in Seq(Extraction), s # <<>>
    PROVE  Head(s) \in Extraction /\ Tail(s) \in Seq(Extraction)
  OBVIOUS

\* What Ingestion stores for an extraction is an object a row may hold.
LEMMA StoredValueType ==
    ASSUME NEW ex \in Extraction
    PROVE  /\ StoredValue(ex) \in Values \cup {Redacted}
           /\ Embeds(ex) \in BOOLEAN
           /\ ex.key \in Keys
  BY DEF StoredValue, Embeds, Extraction

\* The four ways the table changes keep it a table of rows.
LEMMA TableType ==
    ASSUME facts \in [DOMAIN facts -> Row]
    PROVE  /\ \A id, row : row \in Row =>
                 /\ DOMAIN WithRow(id, row) = DOMAIN facts \cup {id}
                 /\ WithRow(id, row) \in [DOMAIN facts \cup {id} -> Row]
           /\ \A ids :
                 /\ DOMAIN WithoutRows(ids) = DOMAIN facts \ ids
                 /\ WithoutRows(ids) \in [DOMAIN facts \ ids -> Row]
           /\ \A id, t : t \in Nat =>
                 /\ DOMAIN Closed(id, t) = DOMAIN facts
                 /\ Closed(id, t) \in [DOMAIN facts -> Row]
<1>1. \A id, row : row \in Row =>
         /\ DOMAIN WithRow(id, row) = DOMAIN facts \cup {id}
         /\ WithRow(id, row) \in [DOMAIN facts \cup {id} -> Row]
  BY DEF WithRow
<1>2. \A ids :
         /\ DOMAIN WithoutRows(ids) = DOMAIN facts \ ids
         /\ WithoutRows(ids) \in [DOMAIN facts \ ids -> Row]
  BY DEF WithoutRows
<1>3. \A id, t : t \in Nat =>
         /\ DOMAIN Closed(id, t) = DOMAIN facts
         /\ Closed(id, t) \in [DOMAIN facts -> Row]
  <2>1. \A i \in DOMAIN facts, t \in Nat : [facts[i] EXCEPT !.to = t] \in Row
    BY DEF Row
  <2>2. QED
    BY <2>1 DEF Closed
<1>4. QED
  BY <1>1, <1>2, <1>3

------------------------------------------------------------------------------
(* Type correctness *)

\* The next extraction keeps the types of the locals it changes.
LEMMA NextExtractionType ==
    ASSUME TypeOK, NEW w \in Workers, todo[w] # <<>>, NextExtraction(w)
    PROVE  /\ pc' \in [Workers -> {"idle", "dedup", "find", "write", "reembed"}]
           /\ todo' \in [Workers -> Seq(Extraction)]
           /\ retired' = [retired EXCEPT ![w] = {}]
           /\ last' = [last EXCEPT ![w] = NoFact]
           /\ UNCHANGED <<now, closing, snapshot>>
  BY HeadTail DEF TypeOK, NextExtraction

\* A worker that handles an extraction has one, and only a worker that is closing
\* or storing holds rows to close, rows closed or a link.
Busy ==
    \A w \in Workers :
        /\ pc[w] \in {"dedup", "find", "write"} => todo[w] # <<>>
        /\ pc[w] # "write" => closing[w] = {} /\ retired[w] = {} /\ last[w] = NoFact

\* TypeOK, with what makes it inductive.
TypeInv == TypeOK /\ Busy

LEMMA TypeInit == Init => TypeInv
  BY DEF Init, TypeInv, TypeOK, Busy, NoFact, Id

LEMMA TypeNext == TypeInv /\ [Next]_vars => TypeInv'
<1> SUFFICES ASSUME TypeInv, [Next]_vars
             PROVE  TypeInv'
  OBVIOUS
<1> USE DEF TypeInv, Busy
<1>1. ASSUME NEW w \in Workers, NEW m \in Messages, IngestMessage(w, m)
      PROVE  TypeInv'
  <2>1. m \in Seq(Extraction) /\ m # <<>>
    BY MessagesAssumption
  <2>2. QED
    BY <1>1, <2>1 DEF IngestMessage, TypeOK, Id
<1>2. ASSUME NEW w \in Workers, SkipExtraction(w)
      PROVE  TypeInv'
  <2>1. todo[w] # <<>>
    BY <1>2 DEF SkipExtraction
  <2>2. TypeOK'
    BY <1>2, <2>1, NextExtractionType DEF SkipExtraction, TypeOK, Id
  <2>3. Busy'
    BY <1>2, <2>1 DEF SkipExtraction, NextExtraction, TypeOK
  <2>4. QED
    BY <2>2, <2>3
<1>3. ASSUME NEW w \in Workers, FindNoDuplicate(w)
      PROVE  TypeInv'
  BY <1>3 DEF FindNoDuplicate, TypeOK, Id
<1>4. ASSUME NEW w \in Workers, FindCurrentFacts(w)
      PROVE  TypeInv'
  BY <1>4 DEF FindCurrentFacts, CurrentOf, Current, TypeOK, Id
<1>5. ASSUME NEW w \in Workers, NEW id \in closing[w], CloseFact(w, id)
      PROVE  TypeInv'
  <2>1. id \in Id /\ now[w] \in Nat
    BY <1>5 DEF TypeOK
  <2>2. DOMAIN facts' = DOMAIN facts /\ facts' \in [DOMAIN facts -> Row]
    BY <1>5, <2>1, TableType DEF CloseFact, TypeOK
  <2>3. QED
    BY <1>5, <2>1, <2>2 DEF CloseFact, TypeOK, Id
<1>6. ASSUME NEW w \in Workers, UpsertFact(w)
      PROVE  TypeInv'
  <2>1. todo[w] # <<>> /\ todo[w] \in Seq(Extraction)
    BY <1>6 DEF UpsertFact, TypeOK
  <2>2. Head(todo[w]) \in Extraction
    BY <2>1, HeadTail
  <2>3. NewRow(w) \in Row
    BY <2>2, StoredValueType DEF NewRow, Row, TypeOK, Open, NoFact, Id
  <2>4. /\ DOMAIN facts' = DOMAIN facts \cup {nextId}
        /\ facts' \in [DOMAIN facts \cup {nextId} -> Row]
    BY <1>6, <2>3, TableType DEF UpsertFact, TypeOK
  <2>5. /\ nextId' = nextId + 1
        /\ nextId' \in Nat \ {0}
        /\ Id' = Id \cup {nextId}
    BY <1>6 DEF UpsertFact, TypeOK, Id
  <2>6. TypeOK'
    <3>1. NextExtraction(w)
      BY <1>6 DEF UpsertFact
    <3>2. /\ pc' \in [Workers -> {"idle", "dedup", "find", "write", "reembed"}]
          /\ todo' \in [Workers -> Seq(Extraction)]
          /\ retired' = [retired EXCEPT ![w] = {}]
          /\ last' = [last EXCEPT ![w] = NoFact]
          /\ UNCHANGED <<now, closing, snapshot>>
      BY <2>1, <3>1, NextExtractionType
    <3>3. excused' \subseteq Keys /\ clock' = clock
      BY <1>6 DEF UpsertFact, TypeOK
    <3>4. QED
      BY <2>4, <2>5, <3>2, <3>3 DEF TypeOK
  <2>7. Busy'
    BY <1>6, <2>1 DEF UpsertFact, NextExtraction, TypeOK
  <2>8. QED
    BY <2>6, <2>7
<1>7. ASSUME NEW w \in Workers, pc[w] # "idle", Abandon(w)
      PROVE  TypeInv'
  <2>1. retired[w] # {} => todo[w] \in Seq(Extraction) /\ todo[w] # <<>>
    BY <1>7 DEF TypeOK
  <2>2. excused' \subseteq Keys
    BY <1>7, <2>1, HeadTail, StoredValueType DEF Abandon, TypeOK
  <2>3. QED
    BY <1>7, <2>2 DEF Abandon, TypeOK, NoFact, Id
<1>8. ASSUME NEW w \in Workers, EmbedRaises(w) \/ Crash(w)
      PROVE  TypeInv'
  BY <1>8, <1>7 DEF EmbedRaises, Crash
<1>9. ASSUME NEW ids \in SUBSET DOMAIN facts, Erase(ids)
      PROVE  TypeInv'
  <2>1. DOMAIN facts' = DOMAIN facts \ ids /\ facts' \in [DOMAIN facts \ ids -> Row]
    BY <1>9, TableType DEF Erase, TypeOK
  <2>2. excused' \subseteq Keys
    BY <1>9 DEF Erase, TypeOK, Row
  <2>3. QED
    BY <1>9, <2>1, <2>2 DEF Erase, TypeOK, local, Id
<1>10. ASSUME NEW w \in Workers, Forgetting(w)
       PROVE  TypeInv'
  BY <1>10, <1>9 DEF Forgetting, ForgetFact, ForgetMatching, ForgetNamespace
<1>11. ASSUME NEW w \in Workers, ListFacts(w)
       PROVE  TypeInv'
  BY <1>11 DEF ListFacts, TypeOK, Id
<1>12. ASSUME NEW w \in Workers, NEW id \in DOMAIN snapshot[w], RewriteFact(w, id)
       PROVE  TypeInv'
  <2>1. snapshot[w][id] \in Row /\ id \in Id
    BY DEF TypeOK
  <2>2. [snapshot[w][id] EXCEPT !.embedded = TRUE] \in Row
    BY <2>1 DEF Row
  <2>3. /\ DOMAIN facts' = DOMAIN facts \cup {id}
        /\ facts' \in [DOMAIN facts \cup {id} -> Row]
    BY <1>12, <2>2, TableType DEF RewriteFact, TypeOK
  <2>4. \A v \in Workers : /\ DOMAIN snapshot'[v] \subseteq Id
                           /\ snapshot'[v] \in [DOMAIN snapshot'[v] -> Row]
    BY <1>12 DEF RewriteFact, TypeOK
  <2>5. QED
    BY <1>12, <2>1, <2>3, <2>4 DEF RewriteFact, TypeOK, Id
<1>13. ASSUME NEW w \in Workers, EndReembed(w)
       PROVE  TypeInv'
  BY <1>13 DEF EndReembed, TypeOK, Id
<1>14. CASE Tick
  BY <1>14 DEF Tick, TypeOK, local, Id
<1>15. CASE UNCHANGED vars
  BY <1>15 DEF vars, local, TypeOK, Id
<1>16. QED
  BY <1>1, <1>2, <1>3, <1>4, <1>5, <1>6, <1>8, <1>10, <1>11, <1>12, <1>13, <1>14,
     <1>15 DEF Next, Ingestion, Reembedding

\* The state is well formed in every behaviour of the fact memory.
THEOREM TypeCorrect == Spec => []TypeOK
<1>1. Spec => []TypeInv
  BY TypeInit, TypeNext, PTL DEF Spec
<1>2. TypeInv => TypeOK
  BY DEF TypeInv
<1>3. QED
  BY <1>1, <1>2, PTL

------------------------------------------------------------------------------
(* The history of rows, when nobody re-embeds *)

NoReembed == \A w \in Workers : pc[w] # "reembed"

\* What a step may do to the row that bears an id.
OnlyCloses(id) ==
    \/ facts'[id] = facts[id]
    \/ /\ facts[id].to = Open
       /\ facts'[id].to # Open
       /\ facts'[id] = [facts[id] EXCEPT !.to = facts'[id].to]

StaysErased == \A id \in Id : id \notin DOMAIN facts => id \notin DOMAIN facts'

Monotone ==
    /\ nextId <= nextId'
    /\ StaysErased
    /\ \A id \in DOMAIN facts \cap DOMAIN facts' : OnlyCloses(id)

\* A step that leaves the table alone is monotone.
LEMMA UnchangedTable ==
    ASSUME TypeInv, UNCHANGED <<facts, nextId>>
    PROVE  Monotone
  BY DEF TypeInv, TypeOK, Monotone, StaysErased, OnlyCloses

\* Without re-embedding no step but an insertion adds a row, and no step changes a
\* row but by closing its window.
LEMMA RowSteps ==
    ASSUME TypeInv, NoReembed, [Next]_vars
    PROVE  Monotone
<1>1. ASSUME NEW w \in Workers, NEW id \in closing[w], CloseFact(w, id)
      PROVE  Monotone
  <2>1. /\ facts' = Closed(id, now[w])
        /\ nextId' = nextId
        /\ now[w] # Open
    BY <1>1 DEF CloseFact, TypeInv, TypeOK, Open
  <2>2. DOMAIN facts' = DOMAIN facts
    BY <2>1 DEF Closed
  <2>3. ASSUME NEW i \in DOMAIN facts
        PROVE  OnlyCloses(i)
    <3>1. facts[i] \in Row
      BY DEF TypeInv, TypeOK
    <3>2. CASE i = id /\ facts[i].to = Open
      <4>1. facts'[i] = [facts[i] EXCEPT !.to = now[w]]
        BY <2>1, <3>2 DEF Closed
      <4>2. facts'[i].to = now[w]
        BY <3>1, <4>1 DEF Row
      <4>3. QED
        BY <2>1, <3>2, <4>1, <4>2 DEF OnlyCloses
    <3>3. CASE ~(i = id /\ facts[i].to = Open)
      BY <2>1, <3>3 DEF Closed, OnlyCloses
    <3>4. QED
      BY <3>2, <3>3
  <2>4. QED
    BY <2>1, <2>2, <2>3 DEF Monotone, StaysErased, TypeInv, TypeOK
<1>2. ASSUME NEW w \in Workers, UpsertFact(w)
      PROVE  Monotone
  <2>1. /\ nextId \in Nat
        /\ nextId' = nextId + 1
        /\ nextId \notin Id
        /\ facts' = WithRow(nextId, NewRow(w))
    BY <1>2 DEF UpsertFact, TypeInv, TypeOK, Id
  <2>2. DOMAIN facts' = DOMAIN facts \cup {nextId}
    BY <2>1 DEF WithRow
  <2>3. \A i \in DOMAIN facts : facts'[i] = facts[i]
    BY <2>1 DEF WithRow, TypeInv, TypeOK
  <2>4. QED
    BY <2>1, <2>2, <2>3 DEF Monotone, StaysErased, OnlyCloses
<1>3. ASSUME NEW ids, Erase(ids)
      PROVE  Monotone
  <2>1. facts' = WithoutRows(ids) /\ nextId' = nextId
    BY <1>3 DEF Erase
  <2>2. /\ DOMAIN facts' = DOMAIN facts \ ids
        /\ \A i \in DOMAIN facts' : facts'[i] = facts[i]
    BY <2>1 DEF WithoutRows
  <2>3. QED
    BY <2>1, <2>2 DEF Monotone, StaysErased, OnlyCloses, TypeInv, TypeOK
<1>4. ASSUME NEW w \in Workers, Forgetting(w)
      PROVE  Monotone
  BY <1>3, <1>4 DEF Forgetting, ForgetFact, ForgetMatching, ForgetNamespace
<1>5. ASSUME NEW w \in Workers, NEW m \in Messages, IngestMessage(w, m)
      PROVE  Monotone
  BY <1>5, UnchangedTable DEF IngestMessage
<1>6. ASSUME NEW w \in Workers,
             SkipExtraction(w) \/ FindNoDuplicate(w) \/ FindCurrentFacts(w)
      PROVE  Monotone
  BY <1>6, UnchangedTable DEF SkipExtraction, FindNoDuplicate, FindCurrentFacts
<1>7. ASSUME NEW w \in Workers, EmbedRaises(w) \/ Crash(w)
      PROVE  Monotone
  BY <1>7, UnchangedTable DEF EmbedRaises, Crash, Abandon
<1>8. ASSUME NEW w \in Workers, Reembedding(w)
      PROVE  Monotone
  BY <1>8, UnchangedTable DEF Reembedding, ListFacts, RewriteFact, EndReembed, NoReembed
<1>9. CASE Tick \/ UNCHANGED vars
  BY <1>9, UnchangedTable DEF Tick, vars
<1>10. QED
  BY <1>1, <1>2, <1>4, <1>5, <1>6, <1>7, <1>8, <1>9 DEF Next, Ingestion

\* Nobody starts to re-embed when it is not one of the operations in use.
LEMMA NoReembedNext ==
    ASSUME "reembed" \notin Ops, TypeInv, NoReembed, [Next]_vars
    PROVE  NoReembed'
<1> USE DEF NoReembed
<1>1. ASSUME NEW w \in Workers, Ingestion(w)
      PROVE  NoReembed'
  BY <1>1 DEF Ingestion, IngestMessage, SkipExtraction, FindNoDuplicate,
              FindCurrentFacts, CloseFact, UpsertFact, NextExtraction, TypeInv, TypeOK
<1>2. ASSUME NEW w \in Workers, Forgetting(w)
      PROVE  NoReembed'
  BY <1>2 DEF Forgetting, ForgetFact, ForgetMatching, ForgetNamespace, Erase, local
<1>3. ASSUME NEW w \in Workers, Reembedding(w)
      PROVE  NoReembed'
  BY <1>3 DEF Reembedding, ListFacts, RewriteFact, EndReembed
<1>4. ASSUME NEW w \in Workers, EmbedRaises(w) \/ Crash(w)
      PROVE  NoReembed'
  BY <1>4 DEF EmbedRaises, Crash, Abandon, TypeInv, TypeOK
<1>5. CASE Tick \/ UNCHANGED vars
  BY <1>5 DEF Tick, vars, local
<1>6. QED
  BY <1>1, <1>2, <1>3, <1>4, <1>5 DEF Next

LEMMA BaseInvariant ==
    ASSUME "reembed" \notin Ops
    PROVE  Spec => [](TypeInv /\ NoReembed)
<1>1. Init => NoReembed
  BY DEF Init, NoReembed
<1>2. QED
  BY <1>1, TypeInit, TypeNext, NoReembedNext, PTL DEF Spec

\* However workers interleave and fail, a closed row is final, and no row changes
\* its key, object, start or link.
THEOREM HistoryTheorem ==
    ASSUME "reembed" \notin Ops
    PROVE  Spec => HistoryIsFinal
<1>1. TypeInv /\ NoReembed /\ [Next]_vars =>
         [\A id \in DOMAIN facts \cap DOMAIN facts' : OnlyCloses(id)]_vars
  BY RowSteps DEF Monotone
<1>2. QED
  BY <1>1, BaseInvariant, PTL DEF Spec, HistoryIsFinal, OnlyCloses

\* What was forgotten does not come back, whatever ingestion was under way.
THEOREM ErasureTheorem ==
    ASSUME "reembed" \notin Ops
    PROVE  Spec => ErasedForever
<1>1. TypeInv /\ NoReembed /\ [Next]_vars => [StaysErased]_vars
  BY RowSteps DEF Monotone
<1>2. QED
  BY <1>1, BaseInvariant, PTL DEF Spec, ErasedForever, StaysErased

------------------------------------------------------------------------------
(* Supersedes links, when nobody re-embeds *)

\* The rows a worker has closed or is about to close belong to the key it stores,
\* the closed ones are closed, and its link is one of them.
WorkerLinks(w) ==
    /\ \A id \in (closing[w] \cup retired[w]) \cap DOMAIN facts :
          facts[id].key = Head(todo[w]).key
    /\ \A id \in retired[w] \cap DOMAIN facts : facts[id].to # Open
    /\ last[w] # NoFact => last[w] \in retired[w]

LinkInv == LinksAreSettled /\ \A w \in Workers : WorkerLinks(w)

\* Across a monotone step a row keeps its key and link, and stays closed.
LEMMA RowKeeps ==
    ASSUME TypeInv, Monotone, NEW id \in Id, id \in DOMAIN facts'
    PROVE  /\ id \in DOMAIN facts
           /\ facts'[id].key = facts[id].key
           /\ facts'[id].value = facts[id].value
           /\ facts'[id].supersedes = facts[id].supersedes
           /\ facts[id].to # Open => facts'[id].to # Open
<1>1. id \in DOMAIN facts
  BY DEF Monotone, StaysErased
<1>2. facts[id] \in Row /\ OnlyCloses(id)
  BY <1>1 DEF TypeInv, TypeOK, Monotone
<1>3. ASSUME NEW t, facts'[id] = [facts[id] EXCEPT !.to = t]
      PROVE  /\ facts'[id].key = facts[id].key
             /\ facts'[id].value = facts[id].value
             /\ facts'[id].supersedes = facts[id].supersedes
  BY <1>2, <1>3 DEF Row
<1>4. QED
  BY <1>1, <1>2, <1>3 DEF OnlyCloses

\* A worker that does not move keeps its links across a monotone step.
LEMMA LinksKept ==
    ASSUME TypeInv, Monotone, NEW w \in Workers, WorkerLinks(w),
           todo'[w] = todo[w], closing'[w] = closing[w],
           retired'[w] = retired[w], last'[w] = last[w]
    PROVE  WorkerLinks(w)'
<1>1. closing[w] \cup retired[w] \subseteq Id
  BY DEF TypeInv, TypeOK
<1>2. QED
  BY <1>1, RowKeeps DEF WorkerLinks

\* A worker without rows in hand has nothing to link.
LEMMA LinksEmpty ==
    ASSUME NEW w \in Workers, closing'[w] = {}, retired'[w] = {}, last'[w] = NoFact
    PROVE  WorkerLinks(w)'
  BY DEF WorkerLinks

\* The links of the rows already stored survive a monotone step.
LEMMA StoredLinks ==
    ASSUME TypeInv, Monotone, LinksAreSettled, DOMAIN facts' \subseteq DOMAIN facts
    PROVE  LinksAreSettled'
<1> SUFFICES ASSUME NEW id \in DOMAIN facts', facts'[id].supersedes # NoFact
             PROVE  /\ facts'[id].supersedes < id
                    /\ facts'[id].supersedes \in DOMAIN facts' =>
                          /\ facts'[facts'[id].supersedes].key = facts'[id].key
                          /\ facts'[facts'[id].supersedes].to # Open
  BY DEF LinksAreSettled
<1> DEFINE old == facts[id].supersedes
<1>1. id \in DOMAIN facts /\ id \in Id
  BY DEF TypeInv, TypeOK
<1>2. facts'[id].supersedes = old /\ facts'[id].key = facts[id].key
  BY <1>1, RowKeeps
<1>3. old < id /\ old # NoFact /\ old \in Nat
  BY <1>1, <1>2 DEF LinksAreSettled, TypeInv, TypeOK, Row
<1>4. old \in Id
  BY <1>1, <1>3 DEF NoFact, Id, TypeInv, TypeOK
<1>5. old \in DOMAIN facts' =>
         /\ old \in DOMAIN facts
         /\ facts'[old].key = facts[old].key
         /\ facts[old].to # Open => facts'[old].to # Open
  BY <1>4, RowKeeps
<1>6. old \in DOMAIN facts => facts[old].key = facts[id].key /\ facts[old].to # Open
  BY <1>1, <1>3 DEF LinksAreSettled
<1>7. QED
  BY <1>2, <1>3, <1>5, <1>6

LEMMA LinkInit == Init => LinkInv
  BY DEF Init, LinkInv, LinksAreSettled, WorkerLinks, NoFact

LEMMA LinkNext ==
    ASSUME TypeInv, NoReembed, LinkInv, [Next]_vars
    PROVE  LinkInv'
<1>0. Monotone
  BY RowSteps
<1> USE DEF LinkInv
<1>1. ASSUME UNCHANGED facts, NEW w \in Workers, WorkerLinks(w)',
             \A v \in Workers \ {w} :
                 /\ todo'[v] = todo[v] /\ closing'[v] = closing[v]
                 /\ retired'[v] = retired[v] /\ last'[v] = last[v]
      PROVE  LinkInv'
  <2>1. LinksAreSettled'
    BY <1>0, <1>1, StoredLinks
  <2>2. \A v \in Workers \ {w} : WorkerLinks(v)'
    BY <1>0, <1>1, LinksKept
  <2>3. QED
    BY <1>1, <2>1, <2>2
<1>2. ASSUME NEW w \in Workers, NEW m \in Messages, IngestMessage(w, m)
      PROVE  LinkInv'
  <2>1. closing'[w] = {} /\ retired'[w] = {} /\ last'[w] = NoFact
    BY <1>2 DEF IngestMessage, TypeInv, Busy
  <2>2. QED
    BY <1>1, <1>2, <2>1, LinksEmpty DEF IngestMessage, TypeInv, TypeOK
<1>3. ASSUME NEW w \in Workers, SkipExtraction(w)
      PROVE  LinkInv'
  <2>1. closing'[w] = {} /\ retired'[w] = {} /\ last'[w] = NoFact
    BY <1>3 DEF SkipExtraction, NextExtraction, TypeInv, TypeOK, Busy
  <2>2. QED
    BY <1>1, <1>3, <2>1, LinksEmpty DEF SkipExtraction, NextExtraction, TypeInv, TypeOK
<1>4. ASSUME NEW w \in Workers, FindNoDuplicate(w)
      PROVE  LinkInv'
  <2>1. closing'[w] = {} /\ retired'[w] = {} /\ last'[w] = NoFact
    BY <1>4 DEF FindNoDuplicate, TypeInv, Busy
  <2>2. QED
    BY <1>1, <1>4, <2>1, LinksEmpty DEF FindNoDuplicate
<1>5. ASSUME NEW w \in Workers, FindCurrentFacts(w)
      PROVE  LinkInv'
  <2>1. /\ closing'[w] \subseteq CurrentOf(Head(todo[w]).key)
        /\ retired'[w] = {} /\ last'[w] = NoFact
        /\ facts' = facts /\ todo' = todo
    BY <1>5 DEF FindCurrentFacts, TypeInv, TypeOK, Busy
  <2>2. WorkerLinks(w)'
    BY <2>1 DEF WorkerLinks, CurrentOf
  <2>3. QED
    BY <1>1, <1>5, <2>1, <2>2 DEF FindCurrentFacts, TypeInv, TypeOK
<1>6. ASSUME NEW w \in Workers, NEW id \in closing[w], CloseFact(w, id)
      PROVE  LinkInv'
  <2>1. /\ DOMAIN facts' = DOMAIN facts
        /\ id \in Id
        /\ closing'[w] \subseteq closing[w]
        /\ retired'[w] = retired[w] \cup {id}
        /\ last'[w] = id
        /\ todo' = todo
    BY <1>6 DEF CloseFact, Closed, TypeInv, TypeOK
  <2>2. id \in DOMAIN facts => facts'[id].to # Open
    <3> SUFFICES ASSUME id \in DOMAIN facts
                 PROVE  facts'[id].to # Open
      OBVIOUS
    <3>1. facts[id] \in Row /\ now[w] # Open /\ facts' = Closed(id, now[w])
      BY <1>6 DEF CloseFact, TypeInv, TypeOK, Open
    <3>2. [facts[id] EXCEPT !.to = now[w]].to = now[w]
      BY <3>1 DEF Row
    <3>3. QED
      BY <3>1, <3>2 DEF Closed
  <2>3. WorkerLinks(w)'
    <3>1. closing[w] \cup retired[w] \subseteq Id
      BY DEF TypeInv, TypeOK
    <3>2. WorkerLinks(w)
      OBVIOUS
    <3>3. \A i \in (closing'[w] \cup retired'[w]) \cap DOMAIN facts' :
             facts'[i].key = Head(todo'[w]).key
      BY <1>0, <2>1, <3>1, <3>2, RowKeeps DEF WorkerLinks
    <3>4. \A i \in retired'[w] \cap DOMAIN facts' : facts'[i].to # Open
      BY <1>0, <2>1, <2>2, <3>1, <3>2, RowKeeps DEF WorkerLinks
    <3>5. QED
      BY <2>1, <3>3, <3>4 DEF WorkerLinks
  <2>4. \A v \in Workers \ {w} : WorkerLinks(v)'
    BY <1>0, <1>6, LinksKept DEF CloseFact, TypeInv, TypeOK
  <2>5. LinksAreSettled'
    BY <1>0, <2>1, StoredLinks
  <2>6. QED
    BY <2>3, <2>4, <2>5
<1>7. ASSUME NEW w \in Workers, UpsertFact(w)
      PROVE  LinkInv'
  <2>1. /\ facts' = WithRow(nextId, NewRow(w))
        /\ DOMAIN facts' = DOMAIN facts \cup {nextId}
        /\ nextId \in Nat /\ nextId \notin DOMAIN facts
        /\ todo[w] # <<>>
    BY <1>7 DEF UpsertFact, WithRow, TypeInv, TypeOK, Id, Busy
  <2>2. \A id \in DOMAIN facts : id \in Id /\ facts'[id] = facts[id]
    BY <2>1 DEF WithRow, TypeInv, TypeOK
  <2>3. /\ facts'[nextId].key = Head(todo[w]).key
        /\ facts'[nextId].supersedes = last[w]
    BY <2>1 DEF WithRow, NewRow
  <2>4. LinksAreSettled'
    <3>1. ASSUME NEW id \in DOMAIN facts, facts'[id].supersedes # NoFact
          PROVE  /\ facts'[id].supersedes < id
                 /\ facts'[id].supersedes \in DOMAIN facts' =>
                       /\ facts'[facts'[id].supersedes].key = facts'[id].key
                       /\ facts'[facts'[id].supersedes].to # Open
      <4>1. facts[id].supersedes \in Nat /\ id < nextId
        BY <2>2 DEF TypeInv, TypeOK, Row, Id
      <4>2. QED
        BY <2>1, <2>2, <3>1, <4>1 DEF LinksAreSettled
    <3>2. ASSUME last[w] # NoFact
          PROVE  /\ last[w] < nextId
                 /\ last[w] \in DOMAIN facts' =>
                       /\ facts'[last[w]].key = Head(todo[w]).key
                       /\ facts'[last[w]].to # Open
      <4>1. last[w] \in Id /\ last[w] \in retired[w]
        BY <3>2 DEF TypeInv, TypeOK, WorkerLinks
      <4>2. last[w] < nextId
        BY <2>1, <4>1 DEF Id
      <4>3. QED
        BY <2>1, <2>2, <4>1, <4>2 DEF WorkerLinks
    <3>3. QED
      BY <2>1, <2>3, <3>1, <3>2 DEF LinksAreSettled
  <2>5. WorkerLinks(w)'
    BY <1>7, LinksEmpty DEF UpsertFact, NextExtraction, TypeInv, TypeOK
  <2>6. \A v \in Workers \ {w} : WorkerLinks(v)'
    BY <1>0, <1>7, LinksKept DEF UpsertFact, NextExtraction, TypeInv, TypeOK
  <2>7. QED
    BY <2>4, <2>5, <2>6
<1>8. ASSUME NEW w \in Workers, EmbedRaises(w) \/ Crash(w)
      PROVE  LinkInv'
  <2>1. Abandon(w)
    BY <1>8 DEF EmbedRaises, Crash
  <2>2. WorkerLinks(w)'
    BY <2>1, LinksEmpty DEF Abandon, TypeInv, TypeOK
  <2>3. QED
    BY <1>1, <2>1, <2>2 DEF Abandon, TypeInv, TypeOK
<1>9. ASSUME DOMAIN facts' \subseteq DOMAIN facts, UNCHANGED local
      PROVE  LinkInv'
  <2>1. LinksAreSettled'
    BY <1>0, <1>9, StoredLinks
  <2>2. \A v \in Workers : WorkerLinks(v)'
    BY <1>0, <1>9, LinksKept DEF local
  <2>3. QED
    BY <2>1, <2>2
<1>10. ASSUME NEW w \in Workers, Forgetting(w)
       PROVE  LinkInv'
  <2>1. ASSUME NEW ids, Erase(ids)
        PROVE  LinkInv'
    BY <1>9, <2>1 DEF Erase, WithoutRows
  <2>2. QED
    BY <1>10, <2>1 DEF Forgetting, ForgetFact, ForgetMatching, ForgetNamespace
<1>11. ASSUME NEW w \in Workers, ListFacts(w)
       PROVE  LinkInv'
  <2>1. WorkerLinks(w)'
    BY <1>0, <1>11, LinksKept DEF ListFacts
  <2>2. QED
    BY <1>1, <1>11, <2>1 DEF ListFacts
<1>12. CASE Tick \/ UNCHANGED vars
  BY <1>9, <1>12 DEF Tick, vars
<1>13. QED
  BY <1>2, <1>3, <1>4, <1>5, <1>6, <1>7, <1>8, <1>10, <1>11, <1>12
  DEF Next, Ingestion, Reembedding, RewriteFact, EndReembed, NoReembed

\* However workers interleave and fail, a link names an older, closed row of the
\* same key, or a row that has been erased.
THEOREM LinksTheorem ==
    ASSUME "reembed" \notin Ops
    PROVE  Spec => []LinksAreSettled
<1>1. Spec => [](TypeInv /\ NoReembed /\ LinkInv)
  BY BaseInvariant, LinkInit, LinkNext, PTL DEF Spec
<1>2. LinkInv => LinksAreSettled
  BY DEF LinkInv
<1>3. QED
  BY <1>1, <1>2, PTL

------------------------------------------------------------------------------
(* No value is lost silently, when nobody re-embeds *)

Explained(key) == key \in excused \/ \E w \in Workers : Writing(w, key)

Filled(key) == CurrentOf(key) # {} \/ Explained(key)

Stored(key) == \E id \in DOMAIN facts : facts[id].key = key

\* NoSilentGap, key by key.
GapInv == \A key \in Keys : Stored(key) => Filled(key)

\* A step that leaves the table alone may only add explanations.
LEMMA GapKept ==
    ASSUME GapInv, facts' = facts,
           \A key \in Keys : Explained(key) => Explained(key)'
    PROVE  GapInv'
  BY DEF GapInv, Stored, Filled, CurrentOf, Current

\* The worker that moves explains nothing before, the others move nothing.
LEMMA OthersExplain ==
    ASSUME NEW w \in Workers, pc[w] = "write" => retired[w] = {},
           excused \subseteq excused',
           \A v \in Workers \ {w} :
               pc'[v] = pc[v] /\ retired'[v] = retired[v] /\ todo'[v] = todo[v]
    PROVE  \A key \in Keys : Explained(key) => Explained(key)'
  BY DEF Explained, Writing

LEMMA GapInit == Init => GapInv
  BY DEF Init, GapInv, Stored

LEMMA GapNext ==
    ASSUME TypeInv, NoReembed, LinkInv, GapInv, [Next]_vars
    PROVE  GapInv'
<1>1. ASSUME NEW w \in Workers, NEW m \in Messages, IngestMessage(w, m)
      PROVE  GapInv'
  <2>1. \A key \in Keys : Explained(key) => Explained(key)'
    BY <1>1, OthersExplain DEF IngestMessage, TypeInv, TypeOK
  <2>2. QED
    BY <1>1, <2>1, GapKept DEF IngestMessage
<1>2. ASSUME NEW w \in Workers, SkipExtraction(w) \/ FindNoDuplicate(w)
      PROVE  GapInv'
  <2>3. /\ pc[w] # "write" /\ excused' = excused
        /\ \A v \in Workers \ {w} :
              pc'[v] = pc[v] /\ retired'[v] = retired[v] /\ todo'[v] = todo[v]
    BY <1>2 DEF SkipExtraction, FindNoDuplicate, NextExtraction, TypeInv, TypeOK
  <2>1. \A key \in Keys : Explained(key) => Explained(key)'
    BY <2>3, OthersExplain
  <2>2. QED
    BY <1>2, <2>1, GapKept DEF SkipExtraction, FindNoDuplicate
<1>3. ASSUME NEW w \in Workers, FindCurrentFacts(w)
      PROVE  GapInv'
  <2>1. \A key \in Keys : Explained(key) => Explained(key)'
    BY <1>3, OthersExplain DEF FindCurrentFacts, TypeInv, TypeOK
  <2>2. QED
    BY <1>3, <2>1, GapKept DEF FindCurrentFacts
<1>4. ASSUME NEW w \in Workers, NEW old \in closing[w], CloseFact(w, old)
      PROVE  GapInv'
  <2>1. /\ facts' = Closed(old, now[w])
        /\ DOMAIN facts' = DOMAIN facts
        /\ pc' = pc /\ todo' = todo /\ excused' = excused
        /\ retired' = [retired EXCEPT ![w] = @ \cup {old}]
        /\ pc[w] = "write"
    BY <1>4 DEF CloseFact, Closed
  <2>2. \A key : Explained(key) => Explained(key)'
    BY <2>1 DEF Explained, Writing, TypeInv, TypeOK
  <2>3. \A id \in DOMAIN facts : facts'[id].key = facts[id].key
    BY <2>1, RowSteps, RowKeeps DEF TypeInv, TypeOK
  <2>4. old \in DOMAIN facts => facts[old].key = Head(todo[w]).key
    BY <1>4 DEF LinkInv, WorkerLinks
  <2>5. ASSUME NEW key \in Keys, Stored(key)
        PROVE  Filled(key)'
    <3>1. CASE key = Head(todo[w]).key
      BY <2>1, <3>1 DEF Filled, Explained, Writing, TypeInv, TypeOK
    <3>2. CASE key # Head(todo[w]).key
      <4>1. ASSUME NEW id \in CurrentOf(key)
            PROVE  id \in CurrentOf(key)'
        BY <2>1, <2>4, <3>2, <4>1 DEF CurrentOf, Current, Closed
      <4>2. QED
        BY <2>2, <2>5, <4>1 DEF GapInv, Filled
    <3>3. QED
      BY <3>1, <3>2
  <2>6. QED
    BY <2>1, <2>3, <2>5 DEF GapInv, Stored
<1>5. ASSUME NEW w \in Workers, UpsertFact(w)
      PROVE  GapInv'
  <2>1. /\ facts' = WithRow(nextId, NewRow(w))
        /\ DOMAIN facts' = DOMAIN facts \cup {nextId}
        /\ nextId \notin DOMAIN facts
        /\ excused' = excused \ {Head(todo[w]).key}
    BY <1>5 DEF UpsertFact, WithRow, TypeInv, TypeOK, Id
  <2>2. \A id \in DOMAIN facts : facts'[id] = facts[id]
    BY <2>1 DEF WithRow
  <2>3. facts'[nextId].key = Head(todo[w]).key /\ facts'[nextId].to = Open
    BY <2>1 DEF WithRow, NewRow
  <2>4. ASSUME NEW key \in Keys, Stored(key)'
        PROVE  Filled(key)'
    <3>1. CASE key = Head(todo[w]).key
      <4>1. nextId \in CurrentOf(key)'
        BY <2>1, <2>3, <3>1 DEF CurrentOf, Current
      <4>2. QED
        BY <4>1 DEF Filled
    <3>2. CASE key # Head(todo[w]).key
      <4>1. Stored(key)
        BY <2>1, <2>2, <2>3, <2>4, <3>2 DEF Stored
      <4>2. Explained(key) => Explained(key)'
        BY <1>5, <2>1, <3>2
        DEF Explained, Writing, UpsertFact, NextExtraction, TypeInv, TypeOK
      <4>3. CurrentOf(key) \subseteq CurrentOf(key)'
        BY <2>1, <2>2 DEF CurrentOf, Current
      <4>4. QED
        BY <4>1, <4>2, <4>3 DEF GapInv, Filled
    <3>3. QED
      BY <3>1, <3>2
  <2>5. QED
    BY <2>4 DEF GapInv
<1>6. ASSUME NEW w \in Workers, EmbedRaises(w) \/ Crash(w)
      PROVE  GapInv'
  <2>1. Abandon(w)
    BY <1>6 DEF EmbedRaises, Crash
  <2>2. \A key \in Keys : Explained(key) => Explained(key)'
    BY <2>1 DEF Abandon, Explained, Writing, TypeInv, TypeOK
  <2>3. QED
    BY <2>1, <2>2, GapKept DEF Abandon
<1>7. ASSUME NEW ids \in SUBSET DOMAIN facts, Erase(ids)
      PROVE  GapInv'
  <2>1. /\ DOMAIN facts' = DOMAIN facts \ ids
        /\ \A id \in DOMAIN facts' : facts'[id] = facts[id]
        /\ excused' = excused \cup {facts[id].key : id \in ids}
        /\ pc' = pc /\ todo' = todo /\ retired' = retired
    BY <1>7 DEF Erase, WithoutRows, local
  <2>2. \A key : Explained(key) => Explained(key)'
    BY <2>1 DEF Explained, Writing
  <2>3. ASSUME NEW key \in Keys, Stored(key)'
        PROVE  Filled(key)'
    <3>1. Filled(key)
      BY <2>1, <2>3 DEF GapInv, Stored
    <3>2. CASE Explained(key)
      BY <2>2, <3>2 DEF Filled
    <3>3. ASSUME NEW id \in CurrentOf(key)
          PROVE  Filled(key)'
      <4>1. CASE id \in ids
        BY <2>1, <3>3, <4>1 DEF Filled, Explained, CurrentOf
      <4>2. CASE id \notin ids
        BY <2>1, <3>3, <4>2 DEF Filled, CurrentOf, Current
      <4>3. QED
        BY <4>1, <4>2
    <3>4. QED
      BY <3>1, <3>2, <3>3 DEF Filled
  <2>4. QED
    BY <2>3 DEF GapInv
<1>8. ASSUME NEW w \in Workers, Forgetting(w)
      PROVE  GapInv'
  BY <1>7, <1>8 DEF Forgetting, ForgetFact, ForgetMatching, ForgetNamespace
<1>9. ASSUME NEW w \in Workers, ListFacts(w)
      PROVE  GapInv'
  <2>1. \A key \in Keys : Explained(key) => Explained(key)'
    BY <1>9, OthersExplain DEF ListFacts, TypeInv, TypeOK
  <2>2. QED
    BY <1>9, <2>1, GapKept DEF ListFacts
<1>10. CASE Tick \/ UNCHANGED vars
  <2>1. \A key \in Keys : Explained(key) => Explained(key)'
    BY <1>10 DEF Tick, vars, local, Explained, Writing
  <2>2. QED
    BY <1>10, <2>1, GapKept DEF Tick, vars
<1>11. QED
  BY <1>1, <1>2, <1>3, <1>4, <1>5, <1>6, <1>8, <1>9, <1>10
  DEF Next, Ingestion, Reembedding, RewriteFact, EndReembed, NoReembed

\* However workers interleave, only a failure between closing and storing, or an
\* erasure, leaves a key whose rows are all closed once its writers are done.
THEOREM NoSilentGapTheorem ==
    ASSUME "reembed" \notin Ops
    PROVE  Spec => []NoSilentGap
<1>1. Spec => [](TypeInv /\ NoReembed /\ LinkInv /\ GapInv)
  BY BaseInvariant, LinkInit, LinkNext, GapInit, GapNext, PTL DEF Spec
<1>2. TypeInv /\ GapInv => NoSilentGap
  BY DEF TypeInv, TypeOK, Row, GapInv, Stored, Filled, Explained, NoSilentGap
<1>3. QED
  BY <1>1, <1>2, PTL

------------------------------------------------------------------------------
(* One worker *)

\* Two rows that differ at most in their vector.
SameFact(r, s) ==
    r.key = s.key /\ r.value = s.value /\ r.from = s.from /\ r.to = s.to

\* Windows end after they begin and no later than the message being handled.
Windows(w) ==
    \A id \in DOMAIN facts :
        /\ facts[id].from <= now[w]
        /\ facts[id].to <= now[w]
        /\ facts[id].to # Open => facts[id].from <= facts[id].to

RowInv(w) == NoDuplicates /\ Timeline /\ Windows(w)

\* What the worker knows between two calls is still true at the second.
Informed(w) ==
    /\ pc[w] \in {"find", "write"} =>
          \A i \in CurrentOf(Head(todo[w]).key) :
              facts[i].value # StoredValue(Head(todo[w]))
    /\ pc[w] = "write" /\ Supersedes(Head(todo[w])) =>
          CurrentOf(Head(todo[w]).key) \subseteq closing[w]
    /\ pc[w] = "reembed" =>
          \A id \in DOMAIN snapshot[w] :
              id \in DOMAIN facts /\ snapshot[w][id] = facts[id]

\* What remains of a message comes from a message.
Faithful(w) ==
    \A n \in 1..Len(todo[w]) :
        todo[w][n].key \in Exclusive => Supersedes(todo[w][n])

SoloInv(w) == RowInv(w) /\ Informed(w) /\ Faithful(w) /\ now[w] <= clock

------------------------------------------------------------------------------

\* Rows keep their invariants when rows only go, or get a vector.
LEMMA RowsKept ==
    ASSUME TypeOK, TypeOK', NEW w \in Workers, RowInv(w),
           DOMAIN facts' \subseteq DOMAIN facts,
           \A id \in DOMAIN facts' : SameFact(facts'[id], facts[id]),
           now[w] <= now'[w]
    PROVE  RowInv(w)'
<1>1. Current' \subseteq Current
  BY DEF Current, SameFact
<1>2. NoDuplicates'
  BY <1>1 DEF RowInv, NoDuplicates, Current, SameFact
<1>3. Timeline'
  BY DEF RowInv, Timeline, SameFact, Exclusive, Supersedes
<1>4. Windows(w)'
  <2> SUFFICES ASSUME NEW id \in DOMAIN facts'
               PROVE  /\ facts'[id].from <= now'[w]
                      /\ facts'[id].to <= now'[w]
                      /\ facts'[id].to # Open => facts'[id].from <= facts'[id].to
    BY DEF Windows
  <2>1. /\ facts[id].from <= now[w]
        /\ facts[id].to <= now[w]
        /\ facts[id].to # Open => facts[id].from <= facts[id].to
    BY DEF RowInv, Windows
  <2>2. facts[id].from \in Nat /\ facts[id].to \in Nat /\ now[w] \in Nat /\ now'[w] \in Nat
    BY DEF TypeOK, Row
  <2>3. QED
    BY <2>1, <2>2 DEF SameFact
<1>5. QED
  BY <1>2, <1>3, <1>4 DEF RowInv

LEMMA SoloInit == ASSUME NEW w \in Workers, Init PROVE SoloInv(w)
  BY DEF Init, SoloInv, RowInv, NoDuplicates, Timeline, Windows, Informed, Faithful,
         Current, CurrentOf

\* The head of what remains of a message is one of its extractions.
LEMMA HeadFaithful ==
    ASSUME TypeOK, NEW w \in Workers, Faithful(w), todo[w] # <<>>
    PROVE  /\ Head(todo[w]).key \in Exclusive => Supersedes(Head(todo[w]))
           /\ todo'[w] = Tail(todo[w]) => Faithful(w)'
<1>1. todo[w] \in Seq(Extraction)
  BY DEF TypeOK
<1>2. Head(todo[w]) = todo[w][1] /\ 1 \in 1..Len(todo[w])
  BY <1>1
<1>3. todo'[w] = Tail(todo[w]) => Faithful(w)'
  <2> HAVE todo'[w] = Tail(todo[w])
  <2>1. \A n \in 1..Len(Tail(todo[w])) :
           Tail(todo[w])[n] = todo[w][n + 1] /\ n + 1 \in 1..Len(todo[w])
    BY <1>1
  <2>2. QED
    BY <2>1 DEF Faithful, Exclusive, Supersedes
<1>4. QED
  BY <1>2, <1>3 DEF Faithful

LEMMA SoloNext ==
    ASSUME NEW s, Workers = {s}, TypeInv, SoloInv(s), [Next]_vars
    PROVE  SoloInv(s)'
<1>0. TypeOK /\ TypeInv' /\ TypeOK' /\ s \in Workers
  BY TypeNext DEF TypeInv
<1> USE <1>0 DEF SoloInv
<1>a. clock \in Nat /\ now[s] \in Nat
  BY DEF TypeOK
<1>1. ASSUME NEW m \in Messages, IngestMessage(s, m)
      PROVE  SoloInv(s)'
  <2>1. facts' = facts /\ now'[s] = clock /\ clock' = clock /\ todo'[s] = m
    BY <1>1 DEF IngestMessage, TypeOK
  <2>2. RowInv(s)'
    BY <1>a, <2>1, RowsKept DEF SameFact
  <2>3. Informed(s)'
    BY <1>1 DEF Informed, IngestMessage, TypeOK
  <2>4. m \in Seq(Extraction)
    BY MessagesAssumption
  <2>5. Faithful(s)'
    BY <2>1, <2>4 DEF Faithful, Exclusive, Supersedes
  <2>6. QED
    BY <1>a, <2>1, <2>2, <2>3, <2>5
<1>2. ASSUME SkipExtraction(s)
      PROVE  SoloInv(s)'
  <2>1. /\ facts' = facts /\ now' = now /\ clock' = clock
        /\ todo'[s] = Tail(todo[s]) /\ todo[s] # <<>>
        /\ pc'[s] \in {"idle", "dedup"}
    BY <1>2 DEF SkipExtraction, NextExtraction, TypeInv, Busy, TypeOK
  <2>2. RowInv(s)'
    BY <1>a, <2>1, RowsKept DEF SameFact
  <2>3. Informed(s)' /\ Faithful(s)'
    BY <2>1, HeadFaithful DEF Informed
  <2>4. QED
    BY <2>1, <2>2, <2>3
<1>3. ASSUME FindNoDuplicate(s)
      PROVE  SoloInv(s)'
  <2>1. /\ facts' = facts /\ now' = now /\ clock' = clock /\ todo' = todo
        /\ ~Known(Head(todo[s]))
        /\ pc'[s] = IF Supersedes(Head(todo[s])) THEN "find" ELSE "write"
    BY <1>3 DEF FindNoDuplicate, TypeOK
  <2>2. RowInv(s)'
    BY <1>a, <2>1, RowsKept DEF SameFact
  <2>3. Informed(s)'
    BY <2>1 DEF Informed, Known, CurrentOf, Current, StoredValue, Supersedes
  <2>4. Faithful(s)'
    BY <2>1 DEF Faithful, Exclusive, Supersedes
  <2>5. QED
    BY <2>1, <2>2, <2>3, <2>4
<1>4. ASSUME FindCurrentFacts(s)
      PROVE  SoloInv(s)'
  <2>1. /\ facts' = facts /\ now' = now /\ clock' = clock /\ todo' = todo
        /\ pc[s] = "find" /\ pc'[s] = "write"
        /\ closing'[s] = {id \in CurrentOf(Head(todo[s]).key) :
                             facts[id].value # StoredValue(Head(todo[s]))}
    BY <1>4 DEF FindCurrentFacts, TypeOK
  <2>2. RowInv(s)'
    BY <1>a, <2>1, RowsKept DEF SameFact
  <2>3. Informed(s)'
    BY <2>1 DEF Informed, CurrentOf, Current, StoredValue, Supersedes
  <2>4. Faithful(s)'
    BY <2>1 DEF Faithful, Exclusive, Supersedes
  <2>5. QED
    BY <2>1, <2>2, <2>3, <2>4
<1>5. ASSUME NEW id \in closing[s], CloseFact(s, id)
      PROVE  SoloInv(s)'
  <2>1. /\ facts' = Closed(id, now[s]) /\ DOMAIN facts' = DOMAIN facts
        /\ now' = now /\ clock' = clock /\ todo' = todo /\ pc' = pc
        /\ pc[s] = "write" /\ closing'[s] = closing[s] \ {id}
        /\ now[s] # Open
    BY <1>5 DEF CloseFact, Closed, TypeOK, Open
  <2>2. \A i \in DOMAIN facts : facts[i] \in Row
    BY DEF TypeOK
  <2>3. ASSUME NEW i \in DOMAIN facts
        PROVE  /\ facts'[i].key = facts[i].key /\ facts'[i].value = facts[i].value
               /\ facts'[i].from = facts[i].from
               /\ i # id \/ facts[i].to # Open => facts'[i].to = facts[i].to
               /\ i = id /\ facts[i].to = Open => facts'[i].to = now[s]
    BY <2>1, <2>2 DEF Closed, Row
  <2>4. Current' = Current \ {id}
    BY <2>1, <2>3 DEF Current
  <2>5. NoDuplicates'
    BY <2>1, <2>3, <2>4 DEF RowInv, NoDuplicates, Current
  <2>6. Timeline'
    BY <2>1, <2>3 DEF RowInv, Timeline, Exclusive, Supersedes
  <2>7. Windows(s)'
    BY <1>a, <2>1, <2>3 DEF RowInv, Windows
  <2>8. Informed(s)'
    <3>1. \A key : CurrentOf(key)' \subseteq CurrentOf(key) \ {id}
      BY <2>3, <2>4 DEF CurrentOf, Current
    <3>2. \A i \in CurrentOf(Head(todo[s]).key) : i \in DOMAIN facts
      BY DEF CurrentOf, Current
    <3>3. QED
      BY <2>1, <2>3, <3>1, <3>2 DEF Informed, StoredValue, Supersedes
  <2>9. Faithful(s)'
    BY <2>1 DEF Faithful, Exclusive, Supersedes
  <2>10. QED
    BY <2>1, <2>5, <2>6, <2>7, <2>8, <2>9 DEF RowInv
<1>6. ASSUME UpsertFact(s)
      PROVE  SoloInv(s)'
  <2> DEFINE ex == Head(todo[s])
  <2>1. /\ facts' = WithRow(nextId, NewRow(s))
        /\ DOMAIN facts' = DOMAIN facts \cup {nextId}
        /\ nextId \notin DOMAIN facts
        /\ \A i \in DOMAIN facts : i < nextId
        /\ now' = now /\ clock' = clock
        /\ pc[s] = "write" /\ closing[s] = {}
        /\ todo[s] # <<>> /\ todo'[s] = Tail(todo[s])
        /\ pc'[s] \in {"idle", "dedup"}
    BY <1>6
    DEF UpsertFact, NextExtraction, WithRow, TypeInv, Busy, TypeOK, Id
  <2>2. \A i \in DOMAIN facts : facts'[i] = facts[i] /\ facts[i] \in Row
    BY <2>1 DEF WithRow, TypeOK
  <2>3. facts'[nextId] = NewRow(s)
    BY <2>1 DEF WithRow
  <2>4. /\ NewRow(s).key = ex.key /\ NewRow(s).value = StoredValue(ex)
        /\ NewRow(s).from = now[s] /\ NewRow(s).to = Open
    BY DEF NewRow
  <2>5. \A i \in CurrentOf(ex.key) : facts[i].value # StoredValue(ex)
    BY <2>1 DEF Informed
  <2>6. ex.key \in Exclusive => CurrentOf(ex.key) = {}
    BY <2>1, HeadFaithful DEF Informed
  <2>7. NoDuplicates'
    <3>1. Current' = Current \cup {nextId}
      BY <2>1, <2>2, <2>3, <2>4 DEF Current
    <3>2. \A i \in Current :
             ~(facts'[i].key = facts'[nextId].key /\ facts'[i].value = facts'[nextId].value)
      BY <2>2, <2>3, <2>4, <2>5 DEF CurrentOf, Current
    <3>3. QED
      BY <2>2, <3>1, <3>2 DEF RowInv, NoDuplicates, Current
  <2>8. Timeline'
    <3> SUFFICES ASSUME NEW i \in DOMAIN facts', NEW j \in DOMAIN facts',
                        i < j, facts'[i].key = facts'[j].key,
                        facts'[i].key \in Exclusive
                 PROVE  /\ facts'[i].to # Open
                        /\ facts'[i].from <= facts'[i].to
                        /\ facts'[i].to <= facts'[j].from
      BY DEF Timeline, Exclusive, Supersedes
    <3>1. CASE j \in DOMAIN facts
      <4>1. i \in DOMAIN facts
        BY <2>1, <3>1 DEF TypeOK, Id
      <4>2. QED
        BY <2>2, <3>1, <4>1 DEF RowInv, Timeline
    <3>2. CASE j = nextId
      <4>1. i \in DOMAIN facts
        BY <2>1, <3>2 DEF TypeOK
      <4>2. facts[i].to # Open
        BY <2>2, <2>3, <2>4, <2>6, <3>2, <4>1 DEF CurrentOf, Current
      <4>3. QED
        BY <2>2, <2>3, <2>4, <3>2, <4>1, <4>2 DEF RowInv, Windows
    <3>3. QED
      BY <2>1, <3>1, <3>2
  <2>9. Windows(s)'
    BY <1>a, <2>1, <2>2, <2>3, <2>4 DEF RowInv, Windows, Open
  <2>10. Informed(s)' /\ Faithful(s)'
    BY <2>1, HeadFaithful DEF Informed
  <2>11. QED
    BY <2>1, <2>7, <2>8, <2>9, <2>10 DEF RowInv
<1>7. ASSUME EmbedRaises(s) \/ Crash(s)
      PROVE  SoloInv(s)'
  <2>1. /\ facts' = facts /\ now' = now /\ clock' = clock
        /\ todo'[s] = <<>> /\ pc'[s] = "idle"
    BY <1>7 DEF EmbedRaises, Crash, Abandon, TypeOK
  <2>2. RowInv(s)'
    BY <1>a, <2>1, RowsKept DEF SameFact
  <2>3. Informed(s)' /\ Faithful(s)'
    BY <2>1 DEF Informed, Faithful
  <2>4. QED
    BY <2>1, <2>2, <2>3
<1>8. ASSUME NEW ids \in SUBSET DOMAIN facts, Erase(ids), pc[s] = "idle"
      PROVE  SoloInv(s)'
  <2>1. /\ DOMAIN facts' = DOMAIN facts \ ids
        /\ \A i \in DOMAIN facts' : facts'[i] = facts[i]
        /\ now' = now /\ clock' = clock /\ todo' = todo /\ pc' = pc
    BY <1>8 DEF Erase, WithoutRows, local
  <2>2. RowInv(s)'
    BY <1>a, <2>1, RowsKept DEF SameFact
  <2>3. Informed(s)' /\ Faithful(s)'
    BY <1>8, <2>1 DEF Informed, Faithful, Exclusive, Supersedes
  <2>4. QED
    BY <2>1, <2>2, <2>3
<1>9. ASSUME Forgetting(s)
      PROVE  SoloInv(s)'
  BY <1>8, <1>9 DEF Forgetting, ForgetFact, ForgetMatching, ForgetNamespace
<1>10. ASSUME ListFacts(s)
       PROVE  SoloInv(s)'
  <2>1. /\ facts' = facts /\ now' = now /\ clock' = clock /\ todo' = todo
        /\ pc'[s] = "reembed" /\ snapshot'[s] = facts
    BY <1>10 DEF ListFacts, TypeOK
  <2>2. RowInv(s)'
    BY <1>a, <2>1, RowsKept DEF SameFact
  <2>3. Informed(s)' /\ Faithful(s)'
    BY <2>1 DEF Informed, Faithful, Exclusive, Supersedes
  <2>4. QED
    BY <2>1, <2>2, <2>3
<1>11. ASSUME NEW id \in DOMAIN snapshot[s], RewriteFact(s, id)
       PROVE  SoloInv(s)'
  <2>1. /\ facts' = WithRow(id, [snapshot[s][id] EXCEPT !.embedded = TRUE])
        /\ now' = now /\ clock' = clock /\ todo' = todo /\ pc' = pc
        /\ pc[s] = "reembed"
        /\ snapshot'[s] = [i \in DOMAIN snapshot[s] \ {id} |-> snapshot[s][i]]
    BY <1>11 DEF RewriteFact, TypeOK
  <2>2. id \in DOMAIN facts /\ snapshot[s][id] = facts[id] /\ facts[id] \in Row
    BY <2>1 DEF Informed, TypeOK
  <2>3. /\ DOMAIN facts' = DOMAIN facts
        /\ \A i \in DOMAIN facts : i # id => facts'[i] = facts[i]
        /\ facts'[id] = [facts[id] EXCEPT !.embedded = TRUE]
    BY <2>1, <2>2 DEF WithRow
  <2>4. SameFact(facts'[id], facts[id])
    BY <2>2, <2>3 DEF SameFact, Row
  <2>5. RowInv(s)'
    <3>1. \A i \in DOMAIN facts' : SameFact(facts'[i], facts[i])
      BY <2>3, <2>4 DEF SameFact
    <3>2. now[s] <= now'[s] /\ DOMAIN facts' \subseteq DOMAIN facts
      BY <1>a, <2>1, <2>3
    <3>3. QED
      BY <3>1, <3>2, RowsKept
  <2>6. Informed(s)'
    <3>1. \A i \in DOMAIN snapshot'[s] :
             /\ i \in DOMAIN snapshot[s] /\ i # id
             /\ snapshot'[s][i] = snapshot[s][i]
      BY <2>1
    <3>2. \A i \in DOMAIN snapshot[s] : i \in DOMAIN facts /\ snapshot[s][i] = facts[i]
      BY <2>1 DEF Informed
    <3>3. QED
      BY <2>1, <2>3, <3>1, <3>2 DEF Informed
  <2>7. Faithful(s)'
    BY <2>1 DEF Faithful, Exclusive, Supersedes
  <2>8. QED
    BY <2>1, <2>5, <2>6, <2>7
<1>12. ASSUME EndReembed(s)
       PROVE  SoloInv(s)'
  <2>1. /\ facts' = facts /\ now' = now /\ clock' = clock /\ todo' = todo
        /\ pc'[s] = "idle"
    BY <1>12 DEF EndReembed, TypeOK
  <2>2. RowInv(s)'
    BY <1>a, <2>1, RowsKept DEF SameFact
  <2>3. Informed(s)' /\ Faithful(s)'
    BY <2>1 DEF Informed, Faithful, Exclusive, Supersedes
  <2>4. QED
    BY <2>1, <2>2, <2>3
<1>13. CASE Tick \/ UNCHANGED vars
  <2>1. /\ facts' = facts /\ now' = now /\ todo' = todo /\ pc' = pc
        /\ closing' = closing /\ snapshot' = snapshot
        /\ clock' = clock \/ clock' = clock + 1
    BY <1>13 DEF Tick, vars, local
  <2>2. RowInv(s)'
    BY <1>a, <2>1, RowsKept DEF SameFact
  <2>3. Informed(s)' /\ Faithful(s)'
    BY <2>1 DEF Informed, Faithful, Exclusive, Supersedes, CurrentOf, Current, StoredValue
  <2>4. QED
    BY <1>a, <2>1, <2>2, <2>3
<1>14. QED
  BY <1>1, <1>2, <1>3, <1>4, <1>5, <1>6, <1>7, <1>9, <1>10, <1>11, <1>12, <1>13
  DEF Next, Ingestion, Reembedding

------------------------------------------------------------------------------

LEMMA SoloInvariant ==
    ASSUME NEW s, Workers = {s}
    PROVE  Spec => [](TypeInv /\ SoloInv(s))
<1>1. Init => SoloInv(s)
  BY SoloInit
<1>2. TypeInv /\ SoloInv(s) /\ [Next]_vars => SoloInv(s)'
  BY SoloNext
<1>3. QED
  BY <1>1, <1>2, TypeInit, TypeNext, PTL DEF Spec

\* With one worker, whatever it does and wherever it fails, no object is current
\* twice for one subject and predicate.
THEOREM DedupTheorem ==
    ASSUME NEW s, Workers = {s}
    PROVE  Spec => []NoDuplicates
<1>1. SoloInv(s) => NoDuplicates
  BY DEF SoloInv, RowInv
<1>2. QED
  BY <1>1, SoloInvariant, PTL

\* With one worker the validity windows of a key that every extraction replaces
\* are disjoint and ordered, so the key has at most one value at any time.
THEOREM TimelineTheorem ==
    ASSUME NEW s, Workers = {s}
    PROVE  Spec => []Timeline
<1>1. SoloInv(s) => Timeline
  BY DEF SoloInv, RowInv
<1>2. QED
  BY <1>1, SoloInvariant, PTL

------------------------------------------------------------------------------
(* The ledger *)

\* A row that the ledger counts as current.
Believed(s, id) == facts[id].to = Open \/ id \in retired[s]

\* What the worker has in hand between two calls: an extraction that supersedes, when
\* it looks for rows to close, and then the rows it has found current and
\* not closed, those it has closed, and no object believed twice.
InHand(s) ==
    /\ pc[s] = "find" => Supersedes(Head(todo[s]))
    /\ pc[s] = "write" =>
           LET ex == Head(todo[s]) IN
           /\ closing[s] # {} \/ retired[s] # {} => Supersedes(ex)
           /\ closing[s] \subseteq CurrentOf(ex.key)
           /\ \A id \in retired[s] :
                 /\ id \in DOMAIN facts
                 /\ facts[id].to # Open
                 /\ facts[id].key = ex.key
           /\ \A id \in closing[s] \cup retired[s] : facts[id].value # StoredValue(ex)
           /\ \A i, j \in DOMAIN facts :
                 /\ Believed(s, i) /\ Believed(s, j)
                 /\ facts[i].key = facts[j].key /\ facts[i].value = facts[j].value
                 => i = j

LEMMA InHandNext ==
    ASSUME NEW s, Workers = {s}, TypeInv, SoloInv(s), InHand(s), [Next]_vars
    PROVE  InHand(s)'
<1>0. s \in Workers /\ TypeOK
  BY DEF TypeInv
<1> USE <1>0
<1>1. CASE pc'[s] \notin {"find", "write"}
  BY <1>1 DEF InHand
<1>2. CASE FindNoDuplicate(s)
  <2>1. /\ facts' = facts /\ todo' = todo
        /\ closing'[s] = {} /\ retired'[s] = {}
        /\ pc'[s] = "find" => Supersedes(Head(todo[s]))
    BY <1>2 DEF FindNoDuplicate, TypeInv, Busy
  <2>2. QED
    BY <2>1 DEF InHand, Believed, SoloInv, RowInv, NoDuplicates, Current, CurrentOf, Supersedes
<1>3. CASE FindCurrentFacts(s)
  <2> DEFINE ex == Head(todo[s])
  <2>1. /\ facts' = facts /\ todo' = todo
        /\ closing'[s] = {id \in CurrentOf(ex.key) : facts[id].value # StoredValue(ex)}
        /\ retired'[s] = {}
        /\ pc'[s] = "write" /\ Supersedes(ex)
    BY <1>3 DEF InHand, FindCurrentFacts, TypeInv, TypeOK, Busy
  <2>2. QED
    BY <2>1 DEF InHand, Believed, SoloInv, RowInv, NoDuplicates, Current, CurrentOf, Supersedes
<1>4. ASSUME NEW id \in closing[s], CloseFact(s, id)
      PROVE  InHand(s)'
  <2> DEFINE ex == Head(todo[s])
  <2>1. /\ facts' = Closed(id, now[s]) /\ DOMAIN facts' = DOMAIN facts
        /\ todo' = todo /\ pc[s] = "write" /\ pc'[s] = "write"
        /\ closing'[s] = closing[s] \ {id}
        /\ retired'[s] = retired[s] \cup {id}
        /\ now[s] # Open
    BY <1>4 DEF CloseFact, Closed, TypeOK, Open
  <2>2. id \in DOMAIN facts /\ facts[id].to = Open /\ facts[id].key = ex.key
    BY <2>1 DEF InHand, CurrentOf, Current
  <2>3. \A i \in DOMAIN facts :
           /\ facts'[i].key = facts[i].key /\ facts'[i].value = facts[i].value
           /\ facts'[i].to = IF i = id THEN now[s] ELSE facts[i].to
    BY <2>1, <2>2 DEF Closed, TypeOK, Row
  <2>4. \A i \in DOMAIN facts : Believed(s, i)' <=> Believed(s, i)
    BY <2>1, <2>2, <2>3 DEF Believed
  <2>5. closing[s] \subseteq CurrentOf(ex.key)
    BY <2>1 DEF InHand
  <2>6. closing'[s] \subseteq CurrentOf(ex.key)'
    BY <2>1, <2>3, <2>5 DEF CurrentOf, Current
  <2>7. \A i \in retired'[s] :
           i \in DOMAIN facts' /\ facts'[i].to # Open /\ facts'[i].key = ex.key
    BY <2>1, <2>2, <2>3 DEF InHand
  <2>8. \A i \in closing'[s] \cup retired'[s] :
           i \in DOMAIN facts /\ facts[i].value # StoredValue(ex)
    BY <2>1, <2>2, <2>5 DEF InHand, CurrentOf, Current
  <2>9. Supersedes(ex)
    BY <2>1 DEF InHand
  <2>10. \A i, j \in DOMAIN facts' :
            /\ Believed(s, i)' /\ Believed(s, j)'
            /\ facts'[i].key = facts'[j].key /\ facts'[i].value = facts'[j].value
            => i = j
    BY <2>1, <2>3, <2>4 DEF InHand
  <2>11. Head(todo'[s]) = ex /\ (Supersedes(ex) => Supersedes(ex)')
    BY <2>1 DEF Supersedes
  <2>12. StoredValue(ex)' = StoredValue(ex)
    BY <2>1 DEF StoredValue
  <2>13. \A i \in closing'[s] \cup retired'[s] : facts'[i].value # StoredValue(ex)
    BY <2>3, <2>8
  <2>14. QED
    BY <2>1, <2>6, <2>7, <2>9, <2>10, <2>11, <2>12, <2>13 DEF InHand
<1>5. CASE Tick \/ UNCHANGED vars
  BY <1>5 DEF Tick, vars, local, InHand, Believed, CurrentOf, Current, StoredValue, Supersedes
<1>6. ASSUME pc'[s] \in {"find", "write"}, ~(Tick \/ UNCHANGED vars)
      PROVE  \/ FindNoDuplicate(s) \/ FindCurrentFacts(s)
             \/ \E id \in closing[s] : CloseFact(s, id)
  <2>1. \A m \in Messages : ~IngestMessage(s, m)
    BY <1>6 DEF IngestMessage, TypeOK
  <2>2. ~SkipExtraction(s) /\ ~UpsertFact(s)
    BY <1>6 DEF SkipExtraction, UpsertFact, NextExtraction, TypeOK
  <2>3. ~Forgetting(s)
    BY <1>6 DEF Forgetting, ForgetFact, ForgetMatching, ForgetNamespace, Erase, local
  <2>4. ~Reembedding(s)
    BY <1>6 DEF Reembedding, ListFacts, RewriteFact, EndReembed, TypeOK
  <2>5. ~EmbedRaises(s) /\ ~Crash(s)
    BY <1>6 DEF EmbedRaises, Crash, Abandon, TypeOK
  <2>6. QED
    BY <1>6, <2>1, <2>2, <2>3, <2>4, <2>5 DEF Next, Ingestion
<1>7. QED
  BY <1>1, <1>2, <1>3, <1>4, <1>5, <1>6

LEMMA InHandInvariant ==
    ASSUME NEW s, Workers = {s}
    PROVE  Spec => [](TypeInv /\ SoloInv(s) /\ InHand(s))
<1>1. Init => InHand(s)
  BY DEF Init, InHand
<1>2. TypeInv /\ SoloInv(s) /\ InHand(s) /\ [Next]_vars => InHand(s)'
  BY InHandNext
<1>3. QED
  BY <1>1, <1>2, SoloInvariant, PTL DEF Spec

------------------------------------------------------------------------------
(* The ledger that a table shows *)

\* An object is held by a row that is believed, and past by one that is not.
LEMMA View ==
    ASSUME NEW s, Workers = {s}, NEW k
    PROVE  /\ Held(k) = {facts[id].value : id \in {i \in DOMAIN facts :
                            facts[i].key = k /\ Believed(s, i)}}
           /\ Past(k) = {facts[id].value : id \in {i \in DOMAIN facts :
                            facts[i].key = k /\ ~Believed(s, i)}}
<1>1. InFlight = retired[s]
  BY DEF InFlight
<1>2. QED
  BY <1>1 DEF Held, Past, Believed

LEMMA ViewNext ==
    ASSUME NEW s, Workers = {s}, NEW k
    PROVE  /\ Held(k)' = {facts'[id].value : id \in {i \in DOMAIN facts' :
                             facts'[i].key = k /\ Believed(s, i)'}}
           /\ Past(k)' = {facts'[id].value : id \in {i \in DOMAIN facts' :
                             facts'[i].key = k /\ ~Believed(s, i)'}}
<1>1. InFlight' = retired'[s]
  BY DEF InFlight
<1>2. QED
  BY <1>1 DEF Held, Past, Believed

\* What is believed can be an object of the ledger.
LEMMA ViewType ==
    ASSUME TypeOK, NEW k
    PROVE  Held(k) \subseteq Values \cup {Redacted} /\ Past(k) \subseteq Values \cup {Redacted}
  BY DEF TypeOK, Row, Held, Past

\* The ledger sees of a key what its rows say and whether they are believed.
LEMMA SameHeld ==
    ASSUME NEW s, Workers = {s}, NEW k,
           {i \in DOMAIN facts' : facts'[i].key = k /\ Believed(s, i)'}
           = {i \in DOMAIN facts : facts[i].key = k /\ Believed(s, i)},
           \A i \in DOMAIN facts \cap DOMAIN facts' : facts'[i].value = facts[i].value
    PROVE  Held(k)' = Held(k)
<1> DEFINE H == {i \in DOMAIN facts : facts[i].key = k /\ Believed(s, i)}
<1>1. /\ Held(k) = {facts[id].value : id \in H}
      /\ Held(k)' = {facts'[id].value : id \in H}
  BY View, ViewNext
<1>2. \A id \in H : facts'[id].value = facts[id].value
  OBVIOUS
<1> HIDE DEF H
<1>3. QED
  BY <1>1, <1>2

LEMMA SamePast ==
    ASSUME NEW s, Workers = {s}, NEW k,
           {i \in DOMAIN facts' : facts'[i].key = k /\ ~Believed(s, i)'}
           = {i \in DOMAIN facts : facts[i].key = k /\ ~Believed(s, i)},
           \A i \in DOMAIN facts \cap DOMAIN facts' : facts'[i].value = facts[i].value
    PROVE  Past(k)' = Past(k)
<1> DEFINE P == {i \in DOMAIN facts : facts[i].key = k /\ ~Believed(s, i)}
<1>1. /\ Past(k) = {facts[id].value : id \in P}
      /\ Past(k)' = {facts'[id].value : id \in P}
  BY View, ViewNext
<1>2. \A id \in P : facts'[id].value = facts[id].value
  OBVIOUS
<1> HIDE DEF P
<1>3. QED
  BY <1>1, <1>2

LEMMA SameKey ==
    ASSUME NEW s, Workers = {s}, NEW k,
           \A i \in DOMAIN facts' : facts'[i].key = k <=> i \in DOMAIN facts /\ facts[i].key = k,
           \A i \in DOMAIN facts : facts[i].key = k =>
              /\ i \in DOMAIN facts'
              /\ Believed(s, i)' <=> Believed(s, i),
           \A i \in DOMAIN facts \cap DOMAIN facts' : facts'[i].value = facts[i].value
    PROVE  Held(k)' = Held(k) /\ Past(k)' = Past(k)
<1>1. {i \in DOMAIN facts' : facts'[i].key = k /\ Believed(s, i)'}
      = {i \in DOMAIN facts : facts[i].key = k /\ Believed(s, i)}
  OBVIOUS
<1>2. {i \in DOMAIN facts' : facts'[i].key = k /\ ~Believed(s, i)'}
      = {i \in DOMAIN facts : facts[i].key = k /\ ~Believed(s, i)}
  OBVIOUS
<1>3. QED
  BY <1>1, <1>2, SameHeld, SamePast

------------------------------------------------------------------------------
(* One step of the table is one step of the ledger *)

\* A step of the ledger, or none.
LedgerStep ==
    [Ledger!Next]_<<[k \in Keys |-> Held(k)], [k \in Keys |-> Past(k)]>>

LEMMA Stutter ==
    ASSUME \A k \in Keys : Held(k)' = Held(k) /\ Past(k)' = Past(k)
    PROVE  LedgerStep
  BY DEF LedgerStep

LEMMA Replaces ==
    ASSUME NEW k \in Keys, NEW v \in Values \cup {Redacted},
           v \notin Held(k), Held(k)' = {v}, Past(k)' = Past(k) \cup Held(k),
           \A j \in Keys \ {k} : Held(j)' = Held(j) /\ Past(j)' = Past(j)
    PROVE  LedgerStep
<1>1. Ledger!Replace(k, v)
  BY DEF Ledger!Replace
<1>2. QED
  BY <1>1 DEF LedgerStep, Ledger!Next

LEMMA Accumulates ==
    ASSUME NEW k \in Keys, NEW v \in Values \cup {Redacted}, k \notin Exclusive,
           v \notin Held(k), Held(k)' = Held(k) \cup {v}, Past(k)' = Past(k),
           \A j \in Keys \ {k} : Held(j)' = Held(j) /\ Past(j)' = Past(j)
    PROVE  LedgerStep
<1>1. Ledger!Accumulate(k, v)
  BY DEF Ledger!Accumulate
<1>2. QED
  BY <1>1 DEF LedgerStep, Ledger!Next

LEMMA Loses ==
    ASSUME NEW k \in Keys, NEW lost \in SUBSET Held(k),
           Held(k)' = Held(k) \ lost, Past(k)' = Past(k) \cup lost,
           \A j \in Keys \ {k} : Held(j)' = Held(j) /\ Past(j)' = Past(j)
    PROVE  LedgerStep
<1>1. Ledger!Lose(k, lost)
  BY DEF Ledger!Lose
<1>2. QED
  BY <1>1 DEF LedgerStep, Ledger!Next

LEMMA ForgetsOne ==
    ASSUME NEW k \in Keys, NEW v \in Values \cup {Redacted},
           \/ Held(k)' = Held(k) \ {v} /\ Past(k)' = Past(k)
           \/ Held(k)' = Held(k) /\ Past(k)' = Past(k) \ {v},
           \A j \in Keys \ {k} : Held(j)' = Held(j) /\ Past(j)' = Past(j)
    PROVE  LedgerStep
<1>1. Ledger!ForgetOne(k, v)
  BY DEF Ledger!ForgetOne
<1>2. QED
  BY <1>1 DEF LedgerStep, Ledger!Next

LEMMA Forgets ==
    ASSUME NEW key \in Keys, NEW value \in Values \cup {Redacted},
           NEW given \in SUBSET {"subject", "predicate", "object"},
           \A k \in Keys :
              /\ Held(k)' = {v \in Held(k) : ~Ledger!Picks(k, v, key, value, given)}
              /\ Past(k)' = {v \in Past(k) : ~Ledger!Picks(k, v, key, value, given)}
    PROVE  LedgerStep
<1>1. Ledger!Forget(key, value, given)
  BY DEF Ledger!Forget
<1>2. QED
  BY <1>1 DEF LedgerStep, Ledger!Next

\* A row closed or rewritten, or a table left alone: the ledger stays as it is.
LEMMA SameLedger ==
    ASSUME NEW s, Workers = {s}, DOMAIN facts' = DOMAIN facts,
           \A i \in DOMAIN facts :
              /\ facts'[i].key = facts[i].key /\ facts'[i].value = facts[i].value
              /\ Believed(s, i)' <=> Believed(s, i)
    PROVE  LedgerStep
  BY SameKey, Stutter

\* Storing a fact replaces every other object of its key, when the extraction
\* supersedes, or joins them.
LEMMA UpsertStep ==
    ASSUME NEW s, Workers = {s}, TypeInv, SoloInv(s), InHand(s), UpsertFact(s)
    PROVE  LedgerStep
<1>0. s \in Workers /\ TypeOK
  BY DEF TypeInv
<1>n. PICK id : id = nextId
  OBVIOUS
<1>1. /\ facts' = WithRow(id, NewRow(s))
      /\ id \notin DOMAIN facts
      /\ retired'[s] = {} /\ closing[s] = {}
      /\ pc[s] = "write" /\ todo[s] # <<>>
  BY <1>0, <1>n DEF UpsertFact, NextExtraction, TypeInv, Busy, TypeOK, Id
<1>2. Head(todo[s]).key \in Keys /\ StoredValue(Head(todo[s])) \in Values \cup {Redacted}
  BY <1>0, <1>1, HeadTail, StoredValueType DEF TypeOK
<1>3. PICK k \in Keys : k = Head(todo[s]).key
  BY <1>2
<1>4. PICK v \in Values \cup {Redacted} : v = StoredValue(Head(todo[s]))
  BY <1>2
<1>5. /\ DOMAIN facts' = DOMAIN facts \cup {id}
      /\ \A i \in DOMAIN facts : facts'[i] = facts[i]
      /\ facts'[id].key = k /\ facts'[id].value = v /\ facts'[id].to = Open
  BY <1>1, <1>3, <1>4 DEF WithRow, NewRow
<1>6. \A i \in retired[s] : i \in DOMAIN facts /\ facts[i].key = k /\ facts[i].to # Open
  BY <1>1, <1>3 DEF InHand
<1>7. \A i \in DOMAIN facts : facts[i].key = k /\ Believed(s, i) => facts[i].value # v
  BY <1>1, <1>3, <1>4 DEF InHand, SoloInv, Informed, Believed, CurrentOf, Current
<1>8. v \notin Held(k)
  BY <1>7, View
<1>9. ASSUME NEW j \in Keys \ {k}
      PROVE  Held(j)' = Held(j) /\ Past(j)' = Past(j)
  <2>1. \A i \in DOMAIN facts : facts[i].key = j => (Believed(s, i)' <=> Believed(s, i))
    BY <1>1, <1>5, <1>6 DEF Believed
  <2>2. QED
    BY <1>1, <1>5, <2>1, SameKey
<1>10. CASE Supersedes(Head(todo[s]))
  <2>1. \A i \in DOMAIN facts : facts[i].key = k => facts[i].to # Open
    BY <1>1, <1>3, <1>10 DEF SoloInv, Informed, CurrentOf, Current
  <2>2. \A i \in DOMAIN facts' : facts'[i].key = k => (Believed(s, i)' <=> i = id)
    BY <1>1, <1>5, <2>1 DEF Believed
  <2>3. Held(k)' = {v}
    BY <1>1, <1>5, <2>2, ViewNext
  <2>4. Past(k)' = {facts[i].value : i \in {j \in DOMAIN facts : facts[j].key = k}}
    BY <1>1, <1>5, <2>2, ViewNext
  <2>5. Past(k)' = Past(k) \cup Held(k)
    BY <2>4, View
  <2>6. QED
    BY <1>8, <1>9, <2>3, <2>5, Replaces
<1>11. CASE ~Supersedes(Head(todo[s]))
  <2>1. retired[s] = {}
    BY <1>1, <1>11 DEF InHand
  <2>2. k \notin Exclusive
    BY <1>0, <1>1, <1>3, <1>11, HeadFaithful DEF SoloInv
  <2>3. \A i \in DOMAIN facts : Believed(s, i)' <=> Believed(s, i)
    BY <1>1, <1>5, <2>1 DEF Believed
  <2>4. Believed(s, id)'
    BY <1>5 DEF Believed
  <2>5. Held(k)' = Held(k) \cup {v}
    BY <1>1, <1>5, <2>3, <2>4, View, ViewNext
  <2>6. Past(k)' = Past(k)
    <3>1. {i \in DOMAIN facts' : facts'[i].key = k /\ ~Believed(s, i)'}
          = {i \in DOMAIN facts : facts[i].key = k /\ ~Believed(s, i)}
      BY <1>1, <1>5, <2>3, <2>4
    <3>2. QED
      BY <1>5, <3>1, SamePast
  <2>7. QED
    BY <1>8, <1>9, <2>2, <2>5, <2>6, Accumulates
<1>12. QED
  BY <1>10, <1>11

\* A failure loses the objects whose rows the worker had closed.
LEMMA AbandonStep ==
    ASSUME NEW s, Workers = {s}, TypeInv, InHand(s), Abandon(s)
    PROVE  LedgerStep
<1>0. s \in Workers /\ TypeOK
  BY DEF TypeInv
<1>1. facts' = facts /\ retired'[s] = {}
  BY <1>0 DEF Abandon, TypeOK
<1>2. CASE retired[s] = {}
  BY <1>1, <1>2, SameLedger DEF Believed
<1>3. CASE retired[s] # {}
  <2>1. pc[s] = "write" /\ todo[s] # <<>> /\ todo[s] \in Seq(Extraction)
    BY <1>0, <1>3 DEF TypeInv, Busy, TypeOK
  <2>2. Head(todo[s]).key \in Keys
    BY <2>1, HeadTail, StoredValueType
  <2>3. PICK k \in Keys : k = Head(todo[s]).key
    BY <2>2
  <2>4. \A i \in retired[s] : i \in DOMAIN facts /\ facts[i].key = k /\ facts[i].to # Open
    BY <2>1, <2>3 DEF InHand
  <2>5. PICK lost : lost = {facts[i].value : i \in retired[s]}
    OBVIOUS
  <2>6. \A i, j \in DOMAIN facts :
           /\ Believed(s, i) /\ Believed(s, j)
           /\ facts[i].key = facts[j].key /\ facts[i].value = facts[j].value
           => i = j
    BY <2>1 DEF InHand
  <2>7. \A i \in DOMAIN facts :
           /\ Believed(s, i)' <=> facts[i].to = Open
           /\ Believed(s, i) <=> Believed(s, i)' \/ i \in retired[s]
    BY <1>1 DEF Believed
  <2>8. lost \subseteq Held(k)
    BY <2>4, <2>5, <2>7, View
  <2>9. Held(k)' = Held(k) \ lost
    BY <1>1, <2>4, <2>5, <2>6, <2>7, View, ViewNext
  <2>10. Past(k)' = Past(k) \cup lost
    BY <1>1, <2>4, <2>5, <2>7, View, ViewNext
  <2>11. \A j \in Keys \ {k} : Held(j)' = Held(j) /\ Past(j)' = Past(j)
    BY <1>1, <2>4, <2>7, SameKey
  <2>12. QED
    BY <2>8, <2>9, <2>10, <2>11, Loses
<1>4. QED
  BY <1>2, <1>3

\* Forgetting one row takes its object, which no other row holds, or which another
\* row may have held before.
LEMMA ForgetFactStep ==
    ASSUME NEW s, Workers = {s}, TypeInv, SoloInv(s), NEW id \in DOMAIN facts,
           ForgetFact(s, id)
    PROVE  LedgerStep
<1>0. s \in Workers /\ TypeOK /\ facts[id] \in Row
  BY DEF TypeInv, TypeOK
<1>1. /\ DOMAIN facts' = DOMAIN facts \ {id}
      /\ \A i \in DOMAIN facts' : facts'[i] = facts[i]
      /\ retired[s] = {} /\ retired'[s] = {}
  BY <1>0 DEF ForgetFact, Erase, WithoutRows, local, TypeInv, Busy
<1>2. \A i \in DOMAIN facts' :
         /\ Believed(s, i)' <=> Believed(s, i)
         /\ Believed(s, i) <=> facts[i].to = Open
  BY <1>1 DEF Believed
<1>3. PICK k \in Keys : k = facts[id].key
  BY <1>0 DEF Row
<1>4. PICK v \in Values \cup {Redacted} : v = facts[id].value
  BY <1>0 DEF Row
<1>5. \A j \in Keys \ {k} : Held(j)' = Held(j) /\ Past(j)' = Past(j)
  BY <1>1, <1>2, <1>3, SameKey
<1>6. CASE facts[id].to = Open
  <2>1. \A i \in DOMAIN facts :
           facts[i].key = k /\ facts[i].value = v /\ Believed(s, i) <=> i = id
    BY <1>1, <1>3, <1>4, <1>6 DEF SoloInv, RowInv, NoDuplicates, Current, Believed
  <2>2. Held(k)' = Held(k) \ {v}
    BY <1>1, <1>2, <2>1, View, ViewNext
  <2>3. {i \in DOMAIN facts' : facts'[i].key = k /\ ~Believed(s, i)'}
        = {i \in DOMAIN facts : facts[i].key = k /\ ~Believed(s, i)}
    BY <1>1, <1>2, <2>1
  <2>4. Past(k)' = Past(k)
    BY <1>1, <2>3, SamePast
  <2>5. QED
    BY <1>5, <2>2, <2>4, ForgetsOne
<1>7. CASE facts[id].to # Open
  <2>1. ~Believed(s, id)
    BY <1>1, <1>7 DEF Believed
  <2>2. {i \in DOMAIN facts' : facts'[i].key = k /\ Believed(s, i)'}
        = {i \in DOMAIN facts : facts[i].key = k /\ Believed(s, i)}
    BY <1>1, <1>2, <2>1
  <2>3. Held(k)' = Held(k)
    BY <1>1, <2>2, SameHeld
  <2> DEFINE again == \E i \in DOMAIN facts' :
                         facts'[i].key = k /\ facts'[i].value = v /\ ~Believed(s, i)'
  <2>4. CASE again
    <3>1. Past(k)' \subseteq Past(k)
      BY <1>1, <1>2, View, ViewNext
    <3>2. v \in Past(k)'
      BY <2>4, ViewNext
    <3>3. Past(k) \ {v} \subseteq Past(k)'
      BY <1>1, <1>2, <1>4, View, ViewNext
    <3>4. Past(k)' = Past(k)
      BY <3>1, <3>2, <3>3
    <3>5. QED
      BY <1>5, <2>3, <3>4, Stutter
  <2>5. CASE ~again
    <3>1. Past(k)' = Past(k) \ {v}
      BY <1>1, <1>2, <1>4, <2>5, View, ViewNext
    <3>2. QED
      BY <1>5, <2>3, <3>1, ForgetsOne
  <2>6. QED
    BY <2>4, <2>5
<1>8. QED
  BY <1>6, <1>7

\* Forgetting by fields takes every object that the fields pick, and no other.
LEMMA ForgetMatchingStep ==
    ASSUME NEW s, Workers = {s}, TypeInv, pc[s] = "idle",
           NEW key \in Keys, NEW value \in Values \cup {Redacted},
           NEW given \in SUBSET {"subject", "predicate", "object"},
           Erase({id \in DOMAIN facts :
                     Ledger!Picks(facts[id].key, facts[id].value, key, value, given)})
    PROVE  LedgerStep
<1> DEFINE Picked(id) == Ledger!Picks(facts[id].key, facts[id].value, key, value, given)
<1>1. /\ DOMAIN facts' = {id \in DOMAIN facts : ~Picked(id)}
      /\ \A i \in DOMAIN facts' : facts'[i] = facts[i]
      /\ retired' = retired
  BY DEF Erase, WithoutRows, local
<1>2. \A i \in DOMAIN facts' : Believed(s, i)' <=> Believed(s, i)
  BY <1>1 DEF Believed
<1>3. ASSUME NEW k \in Keys
      PROVE  /\ Held(k)' = {v \in Held(k) : ~Ledger!Picks(k, v, key, value, given)}
             /\ Past(k)' = {v \in Past(k) : ~Ledger!Picks(k, v, key, value, given)}
  BY <1>1, <1>2, View, ViewNext
<1>4. QED
  BY <1>3, Forgets

LEMMA StepImplements ==
    ASSUME NEW s, Workers = {s}, TypeInv, SoloInv(s), InHand(s), [Next]_vars
    PROVE  LedgerStep
<1>0. s \in Workers /\ TypeOK
  BY DEF TypeInv
<1> USE <1>0
<1>1. ASSUME UNCHANGED <<facts, retired>>
      PROVE  LedgerStep
  BY <1>1, SameLedger DEF Believed
<1>2. ASSUME NEW m \in Messages, IngestMessage(s, m)
      PROVE  LedgerStep
  BY <1>1, <1>2 DEF IngestMessage
<1>3. CASE SkipExtraction(s)
  <2>1. retired'[s] = retired[s] /\ facts' = facts
    BY <1>3 DEF SkipExtraction, NextExtraction, TypeInv, TypeOK, Busy
  <2>2. QED
    BY <2>1, SameLedger DEF Believed
<1>4. CASE FindNoDuplicate(s) \/ FindCurrentFacts(s)
  BY <1>1, <1>4 DEF FindNoDuplicate, FindCurrentFacts
<1>5. ASSUME NEW id \in closing[s], CloseFact(s, id)
      PROVE  LedgerStep
  <2>1. id \in DOMAIN facts /\ facts[id].to = Open /\ now[s] # Open
    BY <1>5 DEF InHand, CloseFact, CurrentOf, Current, TypeOK, Open
  <2>2. /\ DOMAIN facts' = DOMAIN facts
        /\ \A i \in DOMAIN facts :
              /\ facts'[i].key = facts[i].key /\ facts'[i].value = facts[i].value
              /\ facts'[i].to = IF i = id THEN now[s] ELSE facts[i].to
    BY <1>5, <2>1 DEF CloseFact, Closed, TypeOK, Row
  <2>3. retired'[s] = retired[s] \cup {id}
    BY <1>5 DEF CloseFact, TypeOK
  <2>4. \A i \in DOMAIN facts : Believed(s, i)' <=> Believed(s, i)
    BY <2>1, <2>2, <2>3 DEF Believed
  <2>5. QED
    BY <2>2, <2>4, SameLedger
<1>6. CASE UpsertFact(s)
  BY <1>6, UpsertStep
<1>7. CASE EmbedRaises(s) \/ Crash(s)
  BY <1>7, AbandonStep DEF EmbedRaises, Crash
<1>8. ASSUME NEW id \in DOMAIN facts, ForgetFact(s, id)
      PROVE  LedgerStep
  BY <1>8, ForgetFactStep
<1>9. ASSUME NEW key \in Keys, NEW value \in Values \cup {Redacted},
             NEW given \in SUBSET {"subject", "predicate", "object"},
             ForgetMatching(s, key, value, given)
      PROVE  LedgerStep
  <2>1. {id \in DOMAIN facts : /\ facts[id].key.namespace = key.namespace
                               /\ Matches(facts[id], key, value, given)}
        = {id \in DOMAIN facts :
              Ledger!Picks(facts[id].key, facts[id].value, key, value, given)}
    BY DEF Matches, Ledger!Picks
  <2>2. QED
    BY <1>9, <2>1, ForgetMatchingStep DEF ForgetMatching
<1>10. ASSUME NEW key \in Keys, ForgetNamespace(s, key.namespace)
       PROVE  LedgerStep
  <2>1. {id \in DOMAIN facts : facts[id].key.namespace = key.namespace}
        = {id \in DOMAIN facts :
              Ledger!Picks(facts[id].key, facts[id].value, key, Redacted, {})}
    BY DEF Ledger!Picks
  <2>2. QED
    BY <1>10, <2>1, ForgetMatchingStep DEF ForgetNamespace
<1>11. CASE ListFacts(s) \/ EndReembed(s)
  BY <1>1, <1>11 DEF ListFacts, EndReembed
<1>12. ASSUME NEW id \in DOMAIN snapshot[s], RewriteFact(s, id)
       PROVE  LedgerStep
  <2>1. id \in DOMAIN facts /\ snapshot[s][id] = facts[id] /\ facts[id] \in Row
    BY <1>12 DEF RewriteFact, SoloInv, Informed, TypeOK
  <2>2. /\ DOMAIN facts' = DOMAIN facts
        /\ \A i \in DOMAIN facts : SameFact(facts'[i], facts[i])
        /\ retired' = retired
    BY <1>12, <2>1 DEF RewriteFact, WithRow, SameFact, Row
  <2>3. QED
    BY <2>2, SameLedger DEF Believed, SameFact
<1>13. CASE Tick \/ UNCHANGED vars
  BY <1>1, <1>13 DEF Tick, vars, local
<1>14. QED
  BY <1>2, <1>3, <1>4, <1>5, <1>6, <1>7, <1>8, <1>9, <1>10, <1>11, <1>12, <1>13
  DEF Next, Ingestion, Forgetting, Reembedding

\* With one worker, for any keys, messages, policy and failures, the fact memory
\* implements the ledger: an extraction is learned, replaced or lost as a whole, in
\* one step, although ingestion makes several store calls; forgetting takes what it
\* names, and re-embedding changes nothing that is believed.
THEOREM LedgerTheorem ==
    ASSUME NEW s, Workers = {s}
    PROVE  Spec => ImplementsLedger
<1>1. Init => Ledger!Init
  BY DEF Init, Ledger!Init, Held, Past
<1>2. TypeInv /\ SoloInv(s) /\ InHand(s) /\ [Next]_vars =>
         [Ledger!Next]_<<[k \in Keys |-> Held(k)], [k \in Keys |-> Past(k)]>>
  BY StepImplements DEF LedgerStep
<1>3. QED
  BY <1>1, <1>2, InHandInvariant, PTL DEF Spec, ImplementsLedger, Ledger!Spec

------------------------------------------------------------------------------
(* Reading *)

\* A retrieval changes no fact: the memory that is read is FactMemory's, whatever
\* is asked (HybridRetriever.retrieve only searches).
THEOREM ReaderImplementsMemory == ReaderSpec => Spec
<1>1. [ReaderNext]_<<vars, reader>> => [Next]_vars
  BY DEF ReaderNext, Write, Retrieve, SearchKeywords, SearchGraph, RetrieveFails, Return
<1>2. QED
  BY <1>1, PTL DEF ReaderSpec, Spec

\* One worker whose facts are being retrieved implements the ledger, call by call
\* (ingest_message and forget beside retrieve).
THEOREM ReadLedgerTheorem ==
    ASSUME NEW s, Workers = {s}
    PROVE  ReaderSpec => ImplementsLedger
<1>1. Spec => ImplementsLedger
  BY LedgerTheorem
<1>2. QED
  BY <1>1, ReaderImplementsMemory

------------------------------------------------------------------------------
(* What was found *)

\* What a hit says of a fact that no step has changed since is still so.
HitHolds(id) ==
    LET said == hits[id].payload IN
    said.key \notin touched =>
        /\ id \in DOMAIN facts
        /\ facts[id].key = said.key
        /\ facts[id].value = said.value
        /\ facts[id].to = said.to

HitInv(id) ==
    /\ id \in Nat
    /\ hits[id] = [payload |-> hits[id].payload, score |-> hits[id].score]
    /\ HitHolds(id)

HitsInv ==
    /\ reading = "idle" => DOMAIN hits = {}
    /\ IsFiniteSet(DOMAIN hits)
    /\ \A id \in DOMAIN hits : HitInv(id)

LEMMA FactsFinite == TypeOK => DOMAIN facts \subseteq Nat /\ IsFiniteSet(DOMAIN facts)
<1> SUFFICES ASSUME TypeOK PROVE DOMAIN facts \subseteq Nat /\ IsFiniteSet(DOMAIN facts)
  OBVIOUS
<1>1. nextId - 1 \in Int /\ 1 \in Int /\ DOMAIN facts \subseteq 1..(nextId - 1)
  BY DEF TypeOK, Id
<1>2. IsFiniteSet(1..(nextId - 1))
  BY <1>1, FS_Interval
<1>3. QED
  BY <1>1, <1>2, FS_Subset

LEMMA FoundFacts ==
    /\ \A q : DOMAIN VectorSearch(q) \subseteq DOMAIN facts
    /\ DOMAIN KeywordSearch \subseteq DOMAIN facts
    /\ DOMAIN GraphNeighbors \subseteq DOMAIN facts
    /\ \A id \in DOMAIN GraphNeighbors : facts[id].to = Open
  BY DEF VectorSearch, KeywordSearch, GraphNeighbors, Ranked, InNamespace

\* A search whose payloads tell the truth adds hits that hold, and leaves the others.
LEMMA FusedHolds ==
    ASSUME TypeOK, HitsInv, NEW found, NEW weight, NEW payloads,
           DOMAIN found \subseteq DOMAIN facts,
           \A id \in DOMAIN found :
               /\ payloads[id].key = facts[id].key
               /\ payloads[id].value = facts[id].value
               /\ payloads[id].to = facts[id].to,
           hits' = Fused(found, weight, payloads),
           reading' # "idle",
           UNCHANGED <<facts, touched>>
    PROVE  HitsInv'
<1>1. DOMAIN hits' = DOMAIN hits \cup DOMAIN found
  BY DEF Fused
<1>2. DOMAIN facts \subseteq Nat /\ IsFiniteSet(DOMAIN facts)
  BY FactsFinite
<1>3. IsFiniteSet(DOMAIN hits')
  <2>1. IsFiniteSet(DOMAIN found)
    BY <1>2, FS_Subset
  <2>2. QED
    BY <1>1, <2>1, FS_Union DEF HitsInv
<1>4. ASSUME NEW id \in DOMAIN hits'
      PROVE  HitInv(id)'
  <2>1. CASE id \notin DOMAIN found
    <3>1. id \in DOMAIN hits /\ hits'[id] = hits[id]
      BY <1>1, <1>4, <2>1 DEF Fused
    <3>2. QED
      BY <3>1 DEF HitsInv, HitInv, HitHolds
  <2>2. CASE id \in DOMAIN found /\ id \in DOMAIN hits
    <3>1. HitInv(id)
      BY <2>2 DEF HitsInv
    <3>2. PICK p, c : hits[id] = [payload |-> p, score |-> c]
      BY <3>1 DEF HitInv
    <3>3. PICK d : hits'[id] = [hits[id] EXCEPT !.score = d]
      BY <1>1, <2>2 DEF Fused, Hit
    <3>4. hits'[id] = [payload |-> p, score |-> d] /\ hits[id].payload = p
      BY <3>2, <3>3
    <3>5. QED
      BY <3>1, <3>4 DEF HitInv, HitHolds
  <2>3. CASE id \in DOMAIN found /\ id \notin DOMAIN hits
    <3>1. PICK d : hits'[id] = [[payload |-> payloads[id], score |-> 0] EXCEPT !.score = d]
      BY <1>1, <2>3 DEF Fused, Hit
    <3>2. hits'[id] = [payload |-> payloads[id], score |-> d]
      BY <3>1
    <3>3. QED
      BY <1>2, <2>3, <3>2 DEF HitInv, HitHolds
  <2>4. QED
    BY <2>1, <2>2, <2>3
<1>5. QED
  BY <1>3, <1>4 DEF HitsInv

LEMMA PayloadsHold ==
    /\ \A id \in DOMAIN facts :
          /\ Payloads[id].key = facts[id].key
          /\ Payloads[id].value = facts[id].value
          /\ Payloads[id].to = facts[id].to
    /\ \A id \in DOMAIN facts : facts[id].to = Open =>
          /\ GraphPayloads[id].key = facts[id].key
          /\ GraphPayloads[id].value = facts[id].value
          /\ GraphPayloads[id].to = facts[id].to
  BY DEF Payloads, GraphPayloads, GraphPayload, Payload

LEMMA HitsInit == ReaderInit => HitsInv
  BY FS_EmptySet DEF ReaderInit, HitsInv

LEMMA HitsNext == TypeOK /\ HitsInv /\ [ReaderNext]_<<vars, reader>> => HitsInv'
<1> SUFFICES ASSUME TypeOK, HitsInv, [ReaderNext]_<<vars, reader>>
             PROVE  HitsInv'
  OBVIOUS
<1>1. ASSUME NEW q \in Queries, Retrieve(q)
      PROVE  HitsInv'
  BY <1>1, FusedHolds, FoundFacts, PayloadsHold DEF Retrieve, vars
<1>2. CASE SearchKeywords
  BY <1>2, FusedHolds, FoundFacts, PayloadsHold DEF SearchKeywords, vars
<1>3. CASE SearchGraph
  BY <1>3, FusedHolds, FoundFacts, PayloadsHold DEF SearchGraph, vars
<1>4. CASE RetrieveFails \/ Return
  BY <1>4, FS_EmptySet DEF RetrieveFails, Return, HitsInv
<1>5. CASE Write
  <2>1. CASE reading = "idle"
    BY <1>5, <2>1 DEF Write, HitsInv
  <2>2. CASE reading # "idle"
    <3>1. touched' = touched \cup TouchedKeys /\ UNCHANGED <<reading, hits>>
      BY <1>5, <2>2 DEF Write
    <3>2. ASSUME NEW id \in DOMAIN hits
          PROVE  HitInv(id)'
      <4>1. HitInv(id)
        BY DEF HitsInv
      <4>2. ASSUME id \in DOMAIN facts, facts[id].key \notin TouchedKeys
            PROVE  id \in DOMAIN facts' /\ facts'[id] = facts[id]
        BY <4>2 DEF TouchedKeys
      <4>3. QED
        BY <3>1, <4>1, <4>2 DEF HitInv, HitHolds
    <3>3. QED
      BY <3>1, <3>2 DEF HitsInv
  <2>3. QED
    BY <2>1, <2>2
<1>6. CASE UNCHANGED <<vars, reader>>
  BY <1>6 DEF vars, reader, HitsInv, HitInv, HitHolds
<1>7. QED
  BY <1>1, <1>2, <1>3, <1>4, <1>5, <1>6 DEF ReaderNext

LEMMA ImageFinite ==
    ASSUME NEW S, NEW f, IsFiniteSet(S)
    PROVE  IsFiniteSet({f[x] : x \in S})
<1> DEFINE T == {f[x] : x \in S}
           g == [x \in S |-> f[x]]
<1>1. g \in Surjection(S, T)
  BY DEF Surjection
<1>2. QED
  BY <1>1, FS_Surjection

\* Two objects of one key are a change if one of them is superseded.
LEMMA TwoObjects ==
    ASSUME HitsInv, NEW i \in DOMAIN hits, NEW j \in DOMAIN hits,
           hits[i].payload.key = hits[j].payload.key,
           hits[i].payload.value # hits[j].payload.value,
           hits[i].payload.to # Open
    PROVE  Changed(hits[i].payload.key)
<1> DEFINE ids == {k \in DOMAIN hits : hits[k].payload.key = hits[i].payload.key}
           group == {hits[k].payload : k \in ids}
           values == {p.value : p \in group}
<1>1. IsFiniteSet(ids)
  BY FS_Subset DEF HitsInv
<1>2. IsFiniteSet(values)
  <2>1. PICK object : object = [k \in ids |-> hits[k].payload.value]
    OBVIOUS
  <2>2. values = {object[k] : k \in ids}
    BY <2>1
  <2> HIDE DEF ids, values
  <2>3. QED
    BY <1>1, <2>2, ImageFinite
<1>4. hits[i].payload \in group /\ hits[j].payload \in group
  OBVIOUS
<1>5. {hits[i].payload.value, hits[j].payload.value} \subseteq values
  BY <1>4
<1>6. Cardinality({hits[i].payload.value, hits[j].payload.value}) = 2
  <2>1. IsFiniteSet({hits[i].payload.value}) /\ Cardinality({hits[i].payload.value}) = 1
    BY FS_Singleton
  <2>2. Cardinality({hits[i].payload.value} \cup {hits[j].payload.value}) = 1 + 1
    <3>1. hits[j].payload.value \notin {hits[i].payload.value}
      OBVIOUS
    <3>2. QED
      BY <2>1, <3>1, FS_AddElement
  <2>3. {hits[i].payload.value} \cup {hits[j].payload.value}
           = {hits[i].payload.value, hits[j].payload.value}
    OBVIOUS
  <2>4. QED
    BY <2>2, <2>3
<1>7. Cardinality(values) > 1
  <2>1. 2 <= Cardinality(values) /\ Cardinality(values) \in Nat
    BY <1>2, <1>5, <1>6, FS_Subset, FS_CardinalityType
  <2>2. QED
    BY <2>1
<1>8. QED
  BY <1>4, <1>7 DEF Changed

\* A retrieval that finds two objects of a key that every extraction replaces flags the
\* change, with one worker that goes on between its searches, unless the worker touched
\* the key meanwhile: for any facts, questions and number of steps (detect_conflicts).
THEOREM ChangeTheorem ==
    ASSUME NEW s, Workers = {s}
    PROVE  ReaderSpec => []ChangeSurfaced
<1>1. TypeOK /\ HitsInv /\ Timeline => ChangeSurfaced
  <2> SUFFICES ASSUME HitsInv, Timeline, NEW i \in DOMAIN hits, NEW j \in DOMAIN hits,
                      hits[i].payload.key \in Exclusive \ touched,
                      hits[j].payload.key = hits[i].payload.key,
                      hits[i].payload.value # hits[j].payload.value
               PROVE  Changed(hits[i].payload.key)
    BY DEF ChangeSurfaced
  <2>1. i \in Nat /\ j \in Nat /\ HitHolds(i) /\ HitHolds(j)
    BY DEF HitsInv, HitInv
  <2>2. i < j \/ j < i
    BY <2>1
  <2>3. CASE i < j
    <3>1. hits[i].payload.to # Open
      BY <2>1, <2>3 DEF Timeline, HitHolds
    <3>2. QED
      BY <3>1, TwoObjects
  <2>4. CASE j < i
    <3>1. hits[j].payload.to # Open
      BY <2>1, <2>4 DEF Timeline, HitHolds
    <3>2. QED
      BY <3>1, TwoObjects
  <2>5. QED
    BY <2>2, <2>3, <2>4
<1>2. Spec => []Timeline
  BY TimelineTheorem
<1>3. QED
  BY <1>1, <1>2, TypeCorrect, ReaderImplementsMemory, HitsInit, HitsNext, PTL DEF ReaderSpec

------------------------------------------------------------------------------
(* The handoff *)

\* A hit as it comes from a search.
HitType(id) ==
    /\ id \in Nat
    /\ hits[id].score \in Nat
    /\ hits[id].payload.key \in Keys
    /\ hits[id].payload.value \in Values \cup {Redacted}
    /\ hits[id].payload.at \in Nat
    /\ hits[id].payload.type \in Types

HitsType ==
    /\ reading # "idle" => query \in [asked : Questions, at : Nat \ {0}]
    /\ IsFiniteSet(DOMAIN hits)
    /\ \A id \in DOMAIN hits : HitType(id)

LEMMA HalvedType ==
    /\ Halved \in [Nat -> Nat]
    /\ Halved[0] = 4
    /\ \A n \in Nat \ {0} : Halved[n] = Halved[n - 1] \div 2
<1> DEFINE four == 4
           step == [n \in Nat |-> [k \in Nat |-> k \div 2]]
           Loop(h) == [n \in Nat |-> IF n = 0 THEN 4 ELSE h[n - 1] \div 2]
<1>1. step \in Steps(Nat, Nat) /\ four \in Nat
  BY DEF Steps
<1>2. \A n \in Nat : \A k \in Nat : step[n][k] = k \div 2
  OBVIOUS
<1> HIDE DEF step
<1>3. PICK f : Counts(f, Nat, four, step)
  <2> HIDE DEF four
  <2>1. QED
    BY <1>1, NaturalRecursion
<1>4. f \in [Nat -> Nat] /\ f[0] = 4 /\ \A n \in Nat \ {0} : f[n] = f[n - 1] \div 2
  <2>1. ASSUME NEW n \in Nat \ {0} PROVE n - 1 \in Nat
    OBVIOUS
  <2>2. QED
    BY <1>2, <1>3, <2>1 DEF Counts
<1>5. f = Loop(f)
  BY <1>4
<1>6. Halved = Loop(Halved)
  <2>1. Halved = CHOOSE h : h = Loop(h)
    BY DEF Halved
  <2> HIDE DEF Loop
  <2>2. QED
    BY <1>5, <2>1
<1>7. Halved[0] = 4 /\ \A n \in Nat \ {0} : Halved[n] = Halved[n - 1] \div 2
  <2>1. ASSUME NEW n \in Nat PROVE Halved[n] = IF n = 0 THEN 4 ELSE Halved[n - 1] \div 2
    BY <1>6, Zenon
  <2>2. QED
    BY <2>1
<1> DEFINE Good == {n \in Nat : Halved[n] \in Nat}
<1>8. Good = Nat
  <2>1. ASSUME NEW n \in Good PROVE n + 1 \in Good
    <3>1. n + 1 \in Nat \ {0} /\ (n + 1) - 1 = n /\ Halved[n] \in Nat
      OBVIOUS
    <3>2. Halved[n + 1] = Halved[n] \div 2
      BY <1>7, <3>1
    <3>3. QED
      BY <3>1, <3>2
  <2>2. 0 \in Good
    BY <1>7
  <2> HIDE DEF Good
  <2>3. Good \in SUBSET Nat
    BY DEF Good
  <2>4. QED
    BY <2>1, <2>2, <2>3, NaturalInduction
<1>9. QED
  <2>1. ASSUME NEW n \in Nat PROVE Halved[n] \in Nat
    BY <1>8
  <2>2. Halved \in [Nat -> Nat]
    <3>1. Halved = [n \in Nat |-> Halved[n]]
      BY <1>6
    <3>2. QED
      BY <2>1, <3>1
  <2>3. QED
    BY <1>7, <2>2

LEMMA ScoreType ==
    ASSUME HitsType, reading # "idle", NEW id \in DOMAIN hits
    PROVE  /\ Score(id) \in Nat
           /\ \A fact : Overlap(fact) \in Nat
           /\ Base(hits[id].payload.type) \in Nat
<1>1. HitType(id) /\ query.at \in Nat
  BY DEF HitsType
<1> DEFINE at == hits[id].payload.at
           age == IF at = 0 \/ at > query.at THEN 0 ELSE query.at - at
<1>2. age \in Nat
  BY <1>1 DEF HitType
<1>3. 4 + Halved[age] \in Nat
  BY <1>2, HalvedType
<1>4. Score(id) \in Nat
  <2>1. Score(id) = hits[id].score * (4 + Halved[age])
    BY DEF Score
  <2> HIDE DEF age
  <2>2. QED
    BY <1>1, <1>3, <2>1 DEF HitType
<1>5. \A fact : Overlap(fact) \in Nat
  BY DEF Overlap, Count
<1>6. Base(hits[id].payload.type) \in Nat
  BY <1>1 DEF HitType, Types, Base
<1>7. QED
  BY <1>4, <1>5, <1>6

\* The order of the handoff's lines is total and strict.
LEMMA PriorOrder ==
    ASSUME HitsType, reading # "idle", NEW rerank
    PROVE  /\ \A i, j \in DOMAIN hits : i # j => Prior(i, j, rerank) \/ Prior(j, i, rerank)
           /\ \A i, j, k \in DOMAIN hits :
                 Prior(i, j, rerank) /\ Prior(j, k, rerank) => Prior(i, k, rerank)
<1> DEFINE base == [id \in DOMAIN hits |-> Base(hits[id].payload.type)]
           words == [id \in DOMAIN hits |->
                        IF rerank THEN Overlap(hits[id].payload) ELSE 0]
           score == [id \in DOMAIN hits |-> Score(id)]
<1>1. \A i \in DOMAIN hits :
         i \in Nat /\ base[i] \in Nat /\ words[i] \in Nat /\ score[i] \in Nat
  BY ScoreType DEF HitsType, HitType
<1>2. ASSUME NEW i \in DOMAIN hits, NEW j \in DOMAIN hits
      PROVE  Prior(i, j, rerank) <=>
                \/ base[i] > base[j]
                \/ base[i] = base[j] /\ words[i] > words[j]
                \/ base[i] = base[j] /\ words[i] = words[j] /\ score[i] > score[j]
                \/ base[i] = base[j] /\ words[i] = words[j] /\ score[i] = score[j] /\ i < j
  BY DEF Prior, Above
<1> HIDE DEF base, words, score
<1>3. QED
  BY <1>1, <1>2

LEMMA LastIsOne ==
    ASSUME HitsType, reading # "idle", NEW rerank, NEW U \in SUBSET DOMAIN hits, U # {}
    PROVE  LastOf(U, rerank) \in U
<1> DEFINE D == DOMAIN hits
           After(V, id) == \A j \in V \ {id} : Prior(j, id, rerank)
           Good == {V \in SUBSET D : V # {} => \E id \in V : After(V, id)}
<1>1. \A i, j \in D : i # j => Prior(i, j, rerank) \/ Prior(j, i, rerank)
  BY PriorOrder
<1>2. \A i, j, k \in D : Prior(i, j, rerank) /\ Prior(j, k, rerank) => Prior(i, k, rerank)
  BY PriorOrder
<1>3. ASSUME NEW V \in SUBSET D, \A W \in SUBSET V : W # V => W \in Good
      PROVE  V \in Good
  <2> SUFFICES ASSUME V # {} PROVE \E id \in V : After(V, id)
    OBVIOUS
  <2>1. PICK x \in V : TRUE
    OBVIOUS
  <2>2. CASE V = {x}
    BY <2>2
  <2>3. CASE V # {x}
    <3>1. PICK m \in V \ {x} : After(V \ {x}, m)
      BY <1>3, <2>1, <2>3
    <3>2. CASE Prior(m, x, rerank)
      <4>1. \A j \in V \ {x} : Prior(j, x, rerank)
        BY <1>2, <3>1, <3>2
      <4>2. QED
        BY <4>1
    <3>3. CASE Prior(x, m, rerank)
      <4>1. \A j \in V \ {m} : Prior(j, m, rerank)
        BY <3>1, <3>3
      <4>2. QED
        BY <3>1, <4>1
    <3>4. QED
      BY <1>1, <3>1, <3>2, <3>3
  <2>4. QED
    BY <2>2, <2>3
<1>4. IsFiniteSet(D) /\ Good \in SUBSET (SUBSET D)
  BY DEF HitsType
<1> HIDE DEF Good, D
<1>5. Good = SUBSET D
  BY <1>3, <1>4, SubsetInduction
<1>6. \E id \in U : After(U, id)
  BY <1>5 DEF Good, D
<1>7. QED
  BY <1>6 DEF LastOf

\* The loop over the lines, unfolded.
LEMMA TakingLoop ==
    ASSUME HitsType, reading # "idle", NEW budget, NEW rerank
    PROVE  \E taken :
              /\ taken[{}] = {}
              /\ \A U \in SUBSET DOMAIN hits : U # {} =>
                    taken[U] = Take(budget, taken[U \ {LastOf(U, rerank)}], LastOf(U, rerank))
              /\ Handoff(budget, rerank) = taken[DOMAIN hits]
<1> DEFINE D == DOMAIN hits
           S == SUBSET D
           none == {}
           pick == [U \in (SUBSET D) \ {{}} |-> LastOf(U, rerank)]
           step == [id \in D |-> [included \in S |-> Take(budget, included, id)]]
           Loop(h) == [U \in SUBSET D |->
                          IF U = {} THEN {}
                          ELSE Take(budget, h[U \ {LastOf(U, rerank)}], LastOf(U, rerank))]
           Taken == CHOOSE h : h = Loop(h)
<1>1. \A U \in SUBSET D : U # {} => LastOf(U, rerank) \in U
  BY LastIsOne
<1>2. \A id \in D : \A included \in S : Take(budget, included, id) \in S
  BY DEF Take
<1>3. step \in Steps(D, S) /\ none \in S /\ pick \in Picks(D)
  BY <1>1, <1>2 DEF Steps, Picks
<1>4. \A id \in D : \A included \in S : step[id][included] = Take(budget, included, id)
  OBVIOUS
<1>5. \A U \in SUBSET D : U # {} => pick[U] = LastOf(U, rerank)
  OBVIOUS
<1>6. IsFiniteSet(D)
  BY DEF HitsType
<1>7. Handoff(budget, rerank) = Taken[D]
  BY DEF Handoff
<1> HIDE DEF step, pick, S, D
<1>8. PICK f : Shrinks(f, D, S, none, step, pick)
  <2> HIDE DEF none
  <2>1. QED
    BY <1>3, <1>6, SubsetRecursion
<1>9. f \in [SUBSET D -> S] /\ f[{}] = {} /\ \A U \in SUBSET D : U # {} =>
         f[U] = Take(budget, f[U \ {LastOf(U, rerank)}], LastOf(U, rerank))
  <2>1. ASSUME NEW U \in SUBSET D, U # {}
        PROVE  f[U] = Take(budget, f[U \ {LastOf(U, rerank)}], LastOf(U, rerank))
    <3>1. LastOf(U, rerank) \in D /\ U \ {LastOf(U, rerank)} \in SUBSET D
      BY <1>1, <2>1
    <3>2. QED
      BY <1>4, <1>5, <1>8, <2>1, <3>1 DEF Shrinks
  <2>2. QED
    BY <1>8, <2>1 DEF Shrinks
<1>10. f = Loop(f)
  BY <1>9
<1>11. Taken = Loop(Taken)
  <2> HIDE DEF Loop
  <2>1. QED
    BY <1>10
<1> HIDE DEF Taken
<1>12. ASSUME NEW U \in SUBSET D
       PROVE  Taken[U] = IF U = {} THEN {}
                 ELSE Take(budget, Taken[U \ {LastOf(U, rerank)}], LastOf(U, rerank))
  BY <1>11, Zenon
<1>13. QED
  BY <1>7, <1>12 DEF D

LEMMA RankedType ==
    ASSUME NEW ids, NEW before, IsFiniteSet(ids)
    PROVE  /\ DOMAIN Ranked(ids, before) = ids
           /\ \A id \in ids : Ranked(ids, before)[id] \in 1..(Cardinality(ids) + 1)
<1>1. ASSUME NEW id \in ids PROVE Ranked(ids, before)[id] \in 1..(Cardinality(ids) + 1)
  <2> DEFINE ahead == ids \cap before[id]
  <2>1. ahead \subseteq ids
    OBVIOUS
  <2>2. Ranked(ids, before)[id] = Cardinality(ahead) + 1
    BY DEF Ranked
  <2> HIDE DEF ahead
  <2>3. Cardinality(ahead) \in Nat /\ Cardinality(ids) \in Nat
           /\ Cardinality(ahead) <= Cardinality(ids)
    BY <2>1, FS_Subset, FS_CardinalityType
  <2>4. QED
    BY <2>2, <2>3
<1>2. DOMAIN Ranked(ids, before) = ids
  BY DEF Ranked
<1>3. QED
  BY <1>1, <1>2

LEMMA ContributionType ==
    ASSUME NEW weight \in Nat, NEW rank \in Nat
    PROVE  Contribution(weight, rank) \in Nat
<1>1. 238266 \div (60 + rank) \in Nat
  OBVIOUS
<1>2. QED
  BY <1>1 DEF Contribution

\* What a search says has the types that the rows have.
Truthful(payload) ==
    /\ payload.key \in Keys
    /\ payload.value \in Values \cup {Redacted}
    /\ payload.at \in Nat
    /\ payload.type \in Types

LEMMA PayloadsTruthful ==
    ASSUME TypeOK
    PROVE  \A id \in DOMAIN facts : Truthful(Payloads[id]) /\ Truthful(GraphPayloads[id])
<1> SUFFICES ASSUME NEW id \in DOMAIN facts
             PROVE  Truthful(Payloads[id]) /\ Truthful(GraphPayloads[id])
  OBVIOUS
<1>1. facts[id] \in Row
  BY DEF TypeOK
<1>2. Payloads[id] = Payload(id) /\ GraphPayloads[id] = GraphPayload(id)
  BY DEF Payloads, GraphPayloads
<1>3. Truthful(Payload(id)) /\ Truthful(GraphPayload(id))
  BY <1>1, FactTypeAssumption DEF Row, Payload, GraphPayload, Truthful, Types
<1>4. QED
  BY <1>2, <1>3

\* What a search makes of the hits: those it did not find stay, the others keep what was
\* first said of them, and their scores grow.
Adds(found, weight, payloads) ==
    /\ DOMAIN hits' = DOMAIN hits \cup DOMAIN found
    /\ \A id \in DOMAIN hits \ DOMAIN found : hits'[id] = hits[id]
    /\ \A id \in DOMAIN hits \cap DOMAIN found :
          hits'[id] = [payload |-> hits[id].payload,
                       score |-> hits[id].score + Contribution(weight, found[id])]
    /\ \A id \in DOMAIN found \ DOMAIN hits :
          hits'[id] = [payload |-> payloads[id],
                       score |-> 0 + Contribution(weight, found[id])]

LEMMA FusedHits ==
    ASSUME HitsInv, NEW found, NEW weight, NEW payloads,
           hits' = Fused(found, weight, payloads)
    PROVE  Adds(found, weight, payloads)
<1>1. DOMAIN hits' = DOMAIN hits \cup DOMAIN found
  BY DEF Fused
<1>2. ASSUME NEW id \in DOMAIN hits \ DOMAIN found PROVE hits'[id] = hits[id]
  BY <1>1 DEF Fused
<1>3. ASSUME NEW id \in DOMAIN hits \cap DOMAIN found
      PROVE  hits'[id] = [payload |-> hits[id].payload,
                          score |-> hits[id].score + Contribution(weight, found[id])]
  <2>1. PICK p, c : hits[id] = [payload |-> p, score |-> c]
    BY DEF HitsInv, HitInv
  <2>2. hits'[id] = [hits[id] EXCEPT !.score = @ + Contribution(weight, found[id])]
    BY DEF Fused, Hit
  <2>3. QED
    BY <2>1, <2>2
<1>4. ASSUME NEW id \in DOMAIN found \ DOMAIN hits
      PROVE  hits'[id] = [payload |-> payloads[id],
                          score |-> 0 + Contribution(weight, found[id])]
  BY DEF Fused, Hit
<1>5. QED
  BY <1>1, <1>2, <1>3, <1>4 DEF Adds

LEMMA FusedType ==
    ASSUME TypeOK, HitsInv, HitsType, NEW found, NEW weight \in Nat, NEW payloads,
           DOMAIN found \subseteq DOMAIN facts,
           \A id \in DOMAIN found : found[id] \in Nat /\ Truthful(payloads[id]),
           hits' = Fused(found, weight, payloads),
           reading' # "idle" => query' \in [asked : Questions, at : Nat \ {0}]
    PROVE  HitsType'
<1>0. Adds(found, weight, payloads)
  BY FusedHits
<1>1. IsFiniteSet(DOMAIN hits')
  <2>1. IsFiniteSet(DOMAIN found)
    BY FactsFinite, FS_Subset
  <2>2. IsFiniteSet(DOMAIN hits \cup DOMAIN found)
    BY <2>1, FS_Union DEF HitsType
  <2>3. QED
    BY <1>0, <2>2 DEF Adds
<1>2. ASSUME NEW id \in DOMAIN hits' PROVE HitType(id)'
  <2>1. CASE id \in DOMAIN hits \ DOMAIN found
    <3>1. hits'[id] = hits[id] /\ HitType(id)
      BY <1>0, <2>1 DEF Adds, HitsType
    <3>2. QED
      BY <3>1 DEF HitType
  <2>2. CASE id \in DOMAIN hits \cap DOMAIN found
    <3>1. PICK c \in Nat : hits'[id] = [payload |-> hits[id].payload,
                                        score |-> hits[id].score + c]
      <4>1. Contribution(weight, found[id]) \in Nat
        BY <2>2, ContributionType
      <4>2. QED
        BY <2>2, <1>0, <4>1 DEF Adds
    <3>2. HitType(id)
      BY <2>2 DEF HitsType
    <3>3. QED
      BY <3>1, <3>2 DEF HitType
  <2>3. CASE id \in DOMAIN found \ DOMAIN hits
    <3>1. PICK c \in Nat : hits'[id] = [payload |-> payloads[id], score |-> 0 + c]
      <4>1. Contribution(weight, found[id]) \in Nat
        BY <2>3, ContributionType
      <4>2. QED
        BY <2>3, <1>0, <4>1 DEF Adds
    <3>2. Truthful(payloads[id]) /\ id \in Nat
      BY <2>3, FactsFinite
    <3>3. QED
      BY <3>1, <3>2 DEF HitType, Truthful
  <2>4. QED
    BY <2>1, <2>2, <1>0, <2>3 DEF Adds
<1>3. QED
  BY <1>1, <1>2 DEF HitsType

LEMMA FoundRanks ==
    ASSUME TypeOK
    PROVE  /\ \A q : \A id \in DOMAIN VectorSearch(q) : VectorSearch(q)[id] \in Nat
           /\ \A id \in DOMAIN KeywordSearch : KeywordSearch[id] \in Nat
           /\ \A id \in DOMAIN GraphNeighbors : GraphNeighbors[id] \in Nat
<1>1. ASSUME NEW ids \in SUBSET DOMAIN facts, NEW before
      PROVE  \A id \in DOMAIN Ranked(ids, before) : Ranked(ids, before)[id] \in Nat
  <2>1. IsFiniteSet(ids) /\ Cardinality(ids) \in Nat
    BY FactsFinite, FS_Subset, FS_CardinalityType
  <2>2. QED
    BY <2>1, RankedType
<1>2. QED
  BY <1>1 DEF VectorSearch, KeywordSearch, GraphNeighbors, InNamespace

LEMMA HitsTypeInit == ReaderInit => HitsType
  BY FS_EmptySet DEF ReaderInit, HitsType

LEMMA HitsTypeNext ==
    TypeOK /\ HitsInv /\ HitsType /\ [ReaderNext]_<<vars, reader>> => HitsType'
<1> SUFFICES ASSUME TypeOK, HitsInv, HitsType, [ReaderNext]_<<vars, reader>>
             PROVE  HitsType'
  OBVIOUS
<1>1. ASSUME NEW q \in Queries, Retrieve(q)
      PROVE  HitsType'
  <2>1. query' \in [asked : Questions, at : Nat \ {0}]
    BY <1>1 DEF Retrieve, Queries, TypeOK
  <2>2. QED
    BY <1>1, <2>1, FusedType, FoundFacts, FoundRanks, PayloadsTruthful DEF Retrieve
<1>2. CASE SearchKeywords
  <2>1. query' \in [asked : Questions, at : Nat \ {0}]
    BY <1>2 DEF SearchKeywords, HitsType
  <2>2. QED
    BY <1>2, <2>1, FusedType, FoundFacts, FoundRanks, PayloadsTruthful DEF SearchKeywords
<1>3. CASE SearchGraph
  <2>1. query' \in [asked : Questions, at : Nat \ {0}]
    BY <1>3 DEF SearchGraph, HitsType
  <2>2. QED
    BY <1>3, <2>1, FusedType, FoundFacts, FoundRanks, PayloadsTruthful DEF SearchGraph
<1>4. CASE RetrieveFails \/ Return
  BY <1>4, FS_EmptySet DEF RetrieveFails, Return, HitsType
<1>5. CASE Write \/ UNCHANGED <<vars, reader>>
  BY <1>5 DEF Write, vars, reader, HitsType, HitType
<1>6. QED
  BY <1>1, <1>2, <1>3, <1>4, <1>5 DEF ReaderNext

\* More lines take no fewer tokens.
LEMMA LinesGrow ==
    ASSUME HitsType, NEW A \in SUBSET DOMAIN hits, NEW B \in SUBSET A
    PROVE  Lines(A) \in Nat /\ Lines(B) \in Nat /\ Lines(B) <= Lines(A)
<1> DEFINE f == [id \in DOMAIN hits |-> Cost[hits[id].payload.value]]
<1>1. f \in [DOMAIN hits -> Nat]
  BY CostAssumption DEF HitsType, HitType
<1>2. IsFiniteSet(DOMAIN hits)
  BY DEF HitsType
<1>3. Lines(A) = SumFunctionOnSet(f, A) /\ Lines(B) = SumFunctionOnSet(f, B)
  BY DEF Lines
<1>4. B \in SUBSET B /\ B \in SUBSET DOMAIN hits
  OBVIOUS
<1> HIDE DEF f
<1>5. SumFunctionOnSet(f, A) \in Nat /\ SumFunctionOnSet(f, B) <= SumFunctionOnSet(f, A)
  BY <1>1, <1>2, SumOfPart
<1>6. SumFunctionOnSet(f, B) \in Nat
  BY <1>1, <1>2, <1>4, SumOfPart
<1>7. QED
  BY <1>3, <1>5, <1>6

\* What holds of the lines taken once some hits have been looked at.
TakenSoFar(budget, seen, included) ==
    /\ included \subseteq seen
    /\ Lines(included) <= budget \/ Cardinality(included) <= 1
    /\ \A id \in included : ~IsCredential(id)
    /\ \A id \in seen \ included : IsCredential(id) \/ Lines(included \cup {id}) > budget

LEMMA TakeKeeps ==
    ASSUME HitsType, NEW budget \in Nat, NEW U \in SUBSET DOMAIN hits, NEW id \in U, NEW included,
           TakenSoFar(budget, U \ {id}, included)
    PROVE  TakenSoFar(budget, U, Take(budget, included, id))
<1> DEFINE more == included \cup {id}
<1>1. included \in SUBSET U /\ more \in SUBSET U
  BY DEF TakenSoFar
<1>2. CASE IsCredential(id) \/ (included # {} /\ Lines(more) > budget)
  <2>1. Take(budget, included, id) = included
    BY <1>2 DEF Take
  <2>2. ASSUME NEW j \in U \ included PROVE IsCredential(j) \/ Lines(included \cup {j}) > budget
    BY <1>2 DEF TakenSoFar
  <2>3. QED
    BY <1>1, <2>1, <2>2 DEF TakenSoFar
<1>3. CASE ~IsCredential(id) /\ ~(included # {} /\ Lines(more) > budget)
  <2>1. Take(budget, included, id) = more
    BY <1>3 DEF Take
  <2>2. Lines(more) \in Nat
    BY <1>1, LinesGrow
  <2>3. Lines(more) <= budget \/ Cardinality(more) <= 1
    <3>1. CASE included = {}
      <4>1. more = {id}
        BY <3>1
      <4>2. Cardinality({id}) = 1
        BY FS_Singleton
      <4> HIDE DEF more
      <4>3. QED
        BY <4>1, <4>2
    <3>2. CASE included # {}
      BY <1>3, <2>2, <3>2
    <3>3. QED
      BY <3>1, <3>2
  <2>4. ASSUME NEW j \in U \ more, ~IsCredential(j)
        PROVE  Lines(more \cup {j}) > budget
    <3>1. Lines(included \cup {j}) > budget
      BY <2>4 DEF TakenSoFar
    <3>2. more \cup {j} \in SUBSET DOMAIN hits /\ included \cup {j} \in SUBSET (more \cup {j})
      BY <1>1
    <3>3. /\ Lines(more \cup {j}) \in Nat
          /\ Lines(included \cup {j}) \in Nat
          /\ Lines(included \cup {j}) <= Lines(more \cup {j})
      BY <3>2, LinesGrow
    <3>4. QED
      BY <3>1, <3>3
  <2>5. \A j \in more : ~IsCredential(j)
    BY <1>3 DEF TakenSoFar
  <2>6. QED
    BY <1>1, <2>1, <2>3, <2>4, <2>5 DEF TakenSoFar
<1>4. QED
  BY <1>2, <1>3

LEMMA HandoffTaken ==
    ASSUME HitsType, reading # "idle", NEW budget \in Nat, NEW rerank
    PROVE  TakenSoFar(budget, DOMAIN hits, Handoff(budget, rerank))
<1>1. PICK taken :
         /\ taken[{}] = {}
         /\ \A U \in SUBSET DOMAIN hits : U # {} =>
               taken[U] = Take(budget, taken[U \ {LastOf(U, rerank)}], LastOf(U, rerank))
         /\ Handoff(budget, rerank) = taken[DOMAIN hits]
  BY TakingLoop
<1> DEFINE D == DOMAIN hits
           Good == {U \in SUBSET D : TakenSoFar(budget, U, taken[U])}
<1>2. ASSUME NEW U \in SUBSET D, \A V \in SUBSET U : V # U => V \in Good
      PROVE  U \in Good
  <2>1. CASE U = {}
    <3>1. Cardinality({}) = 0
      BY FS_EmptySet
    <3>2. TakenSoFar(budget, {}, {})
      BY <3>1 DEF TakenSoFar
    <3>3. QED
      BY <1>1, <2>1, <3>2
  <2>2. CASE U # {}
    <3> DEFINE id == LastOf(U, rerank)
    <3>1. id \in U
      BY <2>2, LastIsOne
    <3>2. U \ {id} \in Good
      BY <1>2, <3>1
    <3>3. taken[U] = Take(budget, taken[U \ {id}], id)
      BY <1>1, <2>2
    <3>4. TakenSoFar(budget, U \ {id}, taken[U \ {id}])
      BY <3>2
    <3> HIDE DEF id
    <3>5. TakenSoFar(budget, U, Take(budget, taken[U \ {id}], id))
      BY <3>1, <3>4, TakeKeeps
    <3>6. QED
      BY <3>3, <3>5
  <2>3. QED
    BY <2>1, <2>2
<1>3. IsFiniteSet(D) /\ Good \in SUBSET (SUBSET D)
  BY DEF HitsType
<1> HIDE DEF Good, D
<1>4. Good = SUBSET D
  BY <1>2, <1>3, SubsetInduction
<1>5. D \in Good
  BY <1>4
<1>6. QED
  BY <1>1, <1>5 DEF Good, D

\* A handoff fits its budget, and nothing that would fit is left out, whatever is found and
\* whatever it costs, with any number of workers between the searches (build_handoff).
THEOREM HandoffTheorem == ReaderSpec => []HandoffFits
<1>1. HitsType => HandoffFits
  <2> SUFFICES ASSUME HitsType, reading = "done", NEW budget \in Budgets, NEW rerank \in BOOLEAN
               PROVE  LET included == Handoff(budget, rerank)
                      IN /\ Lines(included) <= budget \/ Cardinality(included) <= 1
                         /\ \A id \in DOMAIN hits \ included :
                               IsCredential(id) \/ Lines(included \cup {id}) > budget
    BY DEF HandoffFits
  <2>1. budget \in Nat
    BY CostAssumption
  <2>2. TakenSoFar(budget, DOMAIN hits, Handoff(budget, rerank))
    BY <2>1, HandoffTaken
  <2>3. QED
    BY <2>2 DEF TakenSoFar
<1>2. ReaderSpec => []HitsType
  BY TypeCorrect, ReaderImplementsMemory, HitsInit, HitsNext, HitsTypeInit, HitsTypeNext, PTL
     DEF ReaderSpec
<1>3. QED
  BY <1>1, <1>2, PTL

------------------------------------------------------------------------------
(* Credentials *)

\* What the vector and the keyword search have found of the facts that share a word with
\* the query: all, unless the worker touched their key meanwhile.
SearchInv ==
    /\ \A id \in DOMAIN hits :
          LET said == hits[id].payload
          IN \/ said.type = FactType[said.key.predicate]
             \/ reading = "done" /\ said.key \in touched
    /\ reading = "graph" =>
          \A id \in InNamespace(query) :
             Overlap(facts[id]) > 0 /\ facts[id].key \notin touched => id \in DOMAIN hits

\* A fact whose subject or object is a term of the query shares a word with it.
LEMMA SeededOverlaps ==
    ASSUME HitsType, reading # "idle", NEW fact, IsSeeded(fact)
    PROVE  Overlap(fact) > 0
<1>1. query.asked.terms \subseteq query.asked.words
  BY QuestionsAssumption DEF HitsType
<1>2. fact.key.subject \in query.asked.words \/ fact.value \in query.asked.words
  BY <1>1 DEF IsSeeded
<1>3. QED
  BY <1>2 DEF Overlap, Count

\* Rows that the worker's steps between two searches left alone were there before.
LEMMA Untouched ==
    ASSUME touched' = touched \cup TouchedKeys,
           NEW id \in DOMAIN facts', facts'[id].key \notin touched'
    PROVE  id \in DOMAIN facts /\ facts'[id] = facts[id] /\ facts[id].key \notin touched
<1>1. id \in DOMAIN facts
  BY DEF TouchedKeys
<1>2. facts'[id] = facts[id]
  BY DEF TouchedKeys
<1>3. QED
  BY <1>1, <1>2

\* A search changes no payload of the hits before it.
LEMMA FusedPayloads ==
    ASSUME HitsInv, NEW found, NEW weight, NEW payloads,
           hits' = Fused(found, weight, payloads)
    PROVE  /\ \A id \in DOMAIN hits : hits'[id].payload = hits[id].payload
           /\ \A id \in DOMAIN found \ DOMAIN hits : hits'[id].payload = payloads[id]
<1>1. Adds(found, weight, payloads)
  BY FusedHits
<1> DEFINE Scored(payload, score) == [payload |-> payload, score |-> score]
<1>2. ASSUME NEW id \in DOMAIN hits \cap DOMAIN found PROVE hits'[id].payload = hits[id].payload
  <2>1. PICK c : hits'[id] = Scored(hits[id].payload, c)
    BY <1>1 DEF Adds
  <2>2. QED
    BY <2>1
<1>3. ASSUME NEW id \in DOMAIN found \ DOMAIN hits PROVE hits'[id].payload = payloads[id]
  <2>1. PICK c : hits'[id] = Scored(payloads[id], c)
    BY <1>1 DEF Adds
  <2>2. QED
    BY <2>1
<1>4. QED
  BY <1>1, <1>2, <1>3 DEF Adds

LEMMA SearchInit == ReaderInit => SearchInv
  BY DEF ReaderInit, SearchInv

LEMMA SearchNext ==
    TypeOK /\ HitsInv /\ HitsType /\ SearchInv /\ [ReaderNext]_<<vars, reader>> => SearchInv'
<1> SUFFICES ASSUME TypeOK, HitsInv, HitsType, SearchInv, [ReaderNext]_<<vars, reader>>
             PROVE  SearchInv'
  OBVIOUS
<1> DEFINE Typed(hit) == hit.payload.type = FactType[hit.payload.key.predicate]
<1>1. \A id \in DOMAIN facts :
         /\ Payloads[id].type = FactType[Payloads[id].key.predicate]
         /\ GraphPayloads[id].key = facts[id].key
  BY DEF Payloads, Payload, GraphPayloads, GraphPayload
<1>2. ASSUME NEW found, NEW weight, DOMAIN found \subseteq DOMAIN facts,
             hits' = Fused(found, weight, Payloads), \A id \in DOMAIN hits : Typed(hits[id])
      PROVE  DOMAIN hits' = DOMAIN hits \cup DOMAIN found
                /\ \A id \in DOMAIN hits' : Typed(hits'[id])
  <2>1. /\ \A id \in DOMAIN hits : hits'[id].payload = hits[id].payload
        /\ \A id \in DOMAIN found \ DOMAIN hits : hits'[id].payload = Payloads[id]
    BY <1>2, FusedPayloads
  <2>2. DOMAIN hits' = DOMAIN hits \cup DOMAIN found
    BY <1>2 DEF Fused
  <2>3. QED
    BY <1>1, <1>2, <2>1, <2>2
<1>3. ASSUME NEW q \in Queries, Retrieve(q)
      PROVE  SearchInv'
  <2>1. hits' = Fused(VectorSearch(q), 5, Payloads) /\ DOMAIN hits = {} /\ reading' = "keyword"
    BY <1>3 DEF Retrieve, HitsInv
  <2>2. \A id \in DOMAIN hits' : Typed(hits'[id])
    BY <1>2, <2>1, FoundFacts
  <2>3. QED
    BY <2>1, <2>2 DEF SearchInv
<1>4. CASE SearchKeywords
  <2>1. /\ hits' = Fused(KeywordSearch, 3, Payloads)
        /\ reading = "keyword" /\ reading' = "graph"
        /\ UNCHANGED <<facts, query, touched>>
    BY <1>4 DEF SearchKeywords, vars
  <2>2. \A id \in DOMAIN hits : Typed(hits[id])
    BY <2>1 DEF SearchInv
  <2>3. DOMAIN hits' = DOMAIN hits \cup DOMAIN KeywordSearch
           /\ \A id \in DOMAIN hits' : Typed(hits'[id])
    BY <1>2, <2>1, <2>2, FoundFacts
  <2>4. \A id \in InNamespace(query) :
           Overlap(facts[id]) > 0 => id \in DOMAIN KeywordSearch
    BY DEF KeywordSearch, Ranked
  <2>5. InNamespace(query)' = InNamespace(query)
           /\ \A id \in DOMAIN facts : Overlap(facts[id])' = Overlap(facts[id])
    BY <2>1 DEF InNamespace, Overlap
  <2>6. InNamespace(query) \subseteq DOMAIN facts
    BY DEF InNamespace
  <2>7. QED
    BY <2>1, <2>3, <2>4, <2>5, <2>6 DEF SearchInv
<1>5. CASE SearchGraph
  <2>1. /\ hits' = Fused(GraphNeighbors, 4, GraphPayloads)
        /\ reading = "graph" /\ reading' = "done"
        /\ UNCHANGED <<facts, query, touched>>
    BY <1>5 DEF SearchGraph, vars
  <2>2. /\ DOMAIN hits' = DOMAIN hits \cup DOMAIN GraphNeighbors
        /\ \A id \in DOMAIN hits : hits'[id].payload = hits[id].payload
        /\ \A id \in DOMAIN GraphNeighbors \ DOMAIN hits :
              hits'[id].payload = GraphPayloads[id]
    <3>1. DOMAIN hits' = DOMAIN hits \cup DOMAIN GraphNeighbors
      BY <2>1 DEF Fused
    <3>2. QED
      BY <2>1, <3>1, FusedPayloads
  <2>3. ASSUME NEW id \in DOMAIN GraphNeighbors \ DOMAIN hits
        PROVE  hits'[id].payload.key \in touched'
    <3>1. id \in InNamespace(query) /\ Overlap(facts[id]) > 0 /\ id \in DOMAIN facts
      BY <2>1, <2>3, SeededOverlaps DEF GraphNeighbors, Ranked, InNamespace
    <3>2. facts[id].key \in touched
      BY <2>1, <2>3, <3>1 DEF SearchInv
    <3>3. QED
      BY <1>1, <2>1, <2>2, <3>1, <3>2
  <2>4. ASSUME NEW id \in DOMAIN hits
        PROVE  Typed(hits[id]) /\ hits'[id].payload = hits[id].payload
    BY <2>1, <2>2 DEF SearchInv
  <2>5. QED
    BY <2>1, <2>2, <2>3, <2>4 DEF SearchInv
<1>6. CASE RetrieveFails \/ Return
  BY <1>6 DEF RetrieveFails, Return, SearchInv
<1>7. CASE Write
  <2>1. CASE reading = "idle"
    BY <1>7, <2>1 DEF Write, SearchInv, HitsInv
  <2>2. CASE reading # "idle"
    <3>1. touched' = touched \cup TouchedKeys /\ UNCHANGED <<query, reading, hits>>
      BY <1>7, <2>2 DEF Write
    <3>2. ASSUME NEW id \in InNamespace(query)', Overlap(facts[id])' > 0,
                 facts'[id].key \notin touched', reading = "graph"
          PROVE  id \in DOMAIN hits
      <4>1. id \in DOMAIN facts'
        BY <3>2 DEF InNamespace
      <4>2. id \in DOMAIN facts /\ facts'[id] = facts[id] /\ facts[id].key \notin touched
        BY <3>1, <3>2, <4>1, Untouched
      <4>3. id \in InNamespace(query) /\ Overlap(facts[id]) > 0
        BY <3>1, <3>2, <4>2 DEF InNamespace, Overlap
      <4>4. QED
        BY <3>2, <4>2, <4>3 DEF SearchInv
    <3>3. QED
      BY <3>1, <3>2 DEF SearchInv
  <2>3. QED
    BY <2>1, <2>2
<1>8. CASE UNCHANGED <<vars, reader>>
  <2>1. UNCHANGED <<facts, query, reading, hits, touched>>
    BY <1>8 DEF vars, reader
  <2>2. InNamespace(query)' = InNamespace(query)
           /\ \A id \in DOMAIN facts : Overlap(facts[id])' = Overlap(facts[id])
    BY <2>1 DEF InNamespace, Overlap
  <2>3. InNamespace(query) \subseteq DOMAIN facts
    BY DEF InNamespace
  <2>4. QED
    BY <2>1, <2>2, <2>3 DEF SearchInv
<1>9. QED
  BY <1>3, <1>4, <1>5, <1>6, <1>7, <1>8 DEF ReaderNext

\* No credential is in a handoff, whatever the order of the searches' results and the steps
\* of any number of workers between them, unless one stored it then (build_handoff skips the
\* credentials; the graph's search gives no fact_type).
THEOREM CredentialTheorem == ReaderSpec => []CredentialsWithheld
<1>1. HitsType /\ SearchInv => CredentialsWithheld
  <2> SUFFICES ASSUME HitsType, SearchInv, reading = "done", NEW budget \in Budgets,
                      NEW rerank \in BOOLEAN, NEW id \in Handoff(budget, rerank),
                      FactType[hits[id].payload.key.predicate] = "credential"
               PROVE  hits[id].payload.key \in touched
    BY DEF CredentialsWithheld
  <2>1. TakenSoFar(budget, DOMAIN hits, Handoff(budget, rerank))
    BY CostAssumption, HandoffTaken
  <2>2. id \in DOMAIN hits /\ hits[id].payload.type # "credential"
    BY <2>1 DEF TakenSoFar, IsCredential
  <2>3. QED
    BY <2>2 DEF SearchInv
<1>2. ReaderSpec => [](HitsType /\ SearchInv)
  BY TypeCorrect, ReaderImplementsMemory, HitsInit, HitsNext, HitsTypeInit, HitsTypeNext,
     SearchInit, SearchNext, PTL DEF ReaderSpec
<1>3. QED
  BY <1>1, <1>2, PTL

------------------------------------------------------------------------------
(* Masks *)

\* Keys of which some message gives an object that is masked.
MaskedKeys ==
    {key \in Keys : /\ CredentialPolicy = "redact"
                    /\ \E m \in Messages : \E n \in DOMAIN m :
                          m[n].key = key /\ m[n].credential}

\* Every object of such a key is a credential.  An assumption on what is said: the extractors
\* tell credentials by the sentence, or as the model answers, and a masked object that supersedes
\* one with a vector can come after it.
MaskedAlways ==
    \A m \in Messages : \A n \in DOMAIN m : m[n].key \in MaskedKeys => m[n].credential

\* An extraction is masked if its key is.
MaskFits(ex) == ex.key \in MaskedKeys <=> ex.credential /\ CredentialPolicy = "redact"

\* A masked row has no object that another could supersede, and every other row has a vector.
RowFits(row) ==
    IF row.key \in MaskedKeys THEN row.value = Redacted /\ row.to = Open ELSE row.embedded = TRUE

\* The table and the listings of it.
Tables == {facts} \cup {snapshot[w] : w \in Workers}

MaskInv ==
    /\ \A w \in Workers : \A n \in DOMAIN todo[w] : MaskFits(todo[w][n])
    /\ \A t \in Tables : \A id \in DOMAIN t : RowFits(t[id])
    /\ \A t, u \in Tables : \A id \in DOMAIN t \cap DOMAIN u : t[id].key = u[id].key
    /\ \A t \in Tables, w \in Workers : \A id \in closing[w] \cap DOMAIN t :
          t[id].key \notin MaskedKeys

LEMMA MaskInit == Init => MaskInv
  BY DEF Init, MaskInv, Tables

LEMMA SaidFits ==
    ASSUME MaskedAlways, NEW m \in Messages, NEW n \in DOMAIN m
    PROVE  MaskFits(m[n])
<1>1. m[n] \in Extraction
  BY MessagesAssumption
<1>2. m[n].key \in Keys
  BY <1>1 DEF Extraction
<1>3. QED
  BY <1>2 DEF MaskFits, MaskedKeys, MaskedAlways

\* A step that adds no row and keeps the keys of the others, and finds no more to close.
LEMMA RowsFollow ==
    ASSUME MaskInv, \A w \in Workers : closing'[w] \subseteq closing[w],
           \A w \in Workers : \A n \in DOMAIN todo'[w] : MaskFits(todo'[w][n]),
           \A t \in Tables' : \A id \in DOMAIN t :
              /\ RowFits(t[id])
              /\ \E u \in Tables : id \in DOMAIN u /\ t[id].key = u[id].key
    PROVE  MaskInv'
<1>1. ASSUME NEW t \in Tables', NEW u \in Tables', NEW id \in DOMAIN t \cap DOMAIN u
      PROVE  t[id].key = u[id].key
  <2>1. PICK v \in Tables : id \in DOMAIN v /\ t[id].key = v[id].key
    OBVIOUS
  <2>2. PICK w \in Tables : id \in DOMAIN w /\ u[id].key = w[id].key
    OBVIOUS
  <2>3. v[id].key = w[id].key
    BY <2>1, <2>2 DEF MaskInv
  <2>4. QED
    BY <2>1, <2>2, <2>3
<1>2. ASSUME NEW t \in Tables', NEW w \in Workers, NEW id \in closing'[w] \cap DOMAIN t
      PROVE  t[id].key \notin MaskedKeys
  <2>1. PICK v \in Tables : id \in DOMAIN v /\ t[id].key = v[id].key
    OBVIOUS
  <2>2. id \in closing[w]
    OBVIOUS
  <2>3. v[id].key \notin MaskedKeys
    BY <2>1, <2>2 DEF MaskInv
  <2>4. QED
    BY <2>1, <2>3
<1>3. QED
  BY <1>1, <1>2 DEF MaskInv

LEMMA MaskNext ==
    ASSUME MaskedAlways
    PROVE  TypeInv /\ MaskInv /\ [Next]_vars => MaskInv'
<1> SUFFICES ASSUME TypeOK, Busy, MaskInv, [Next]_vars PROVE MaskInv'
  BY DEF TypeInv
<1> DEFINE TodoFits == \A w \in Workers : \A n \in DOMAIN todo[w] : MaskFits(todo[w][n])
           Come(t) == \A id \in DOMAIN t :
                          /\ RowFits(t[id])
                          /\ \E u \in Tables : id \in DOMAIN u /\ t[id].key = u[id].key
<1>1. TodoFits /\ \A t \in Tables : Come(t)
  BY DEF MaskInv
<1>2. \A w \in Workers : Come(snapshot[w])
  BY <1>1 DEF Tables
<1>3. Come(facts)
  BY <1>1 DEF Tables
<1>4. (\A t \in Tables' : Come(t)) <=> Come(facts') /\ \A w \in Workers : Come(snapshot'[w])
  BY DEF Tables
<1>5. ASSUME UNCHANGED <<facts, snapshot, closing, todo>>
      PROVE  MaskInv'
  BY <1>5 DEF MaskInv, Tables
<1> HIDE DEF Come
\* The extractions left are some of those there were.
<1>6. ASSUME NEW w \in Workers, todo[w] # <<>>, todo' = [todo EXCEPT ![w] = Tail(todo[w])]
      PROVE  TodoFits'
  <2>1. todo[w] \in Seq(Extraction)
    BY DEF TypeOK
  <2>2. \A n \in DOMAIN Tail(todo[w]) : n + 1 \in DOMAIN todo[w] /\ Tail(todo[w])[n] = todo[w][n + 1]
    BY <1>6, <2>1
  <2>3. ASSUME NEW v \in Workers, NEW n \in DOMAIN todo'[v] PROVE MaskFits(todo'[v][n])
    <3>1. CASE v = w
      <4>1. todo'[w] = Tail(todo[w])
        BY <1>6 DEF TypeOK
      <4>2. n + 1 \in DOMAIN todo[w] /\ todo'[v][n] = todo[w][n + 1]
        BY <2>2, <2>3, <3>1, <4>1
      <4>3. QED
        BY <1>1, <4>2
    <3>2. CASE v # w
      BY <1>1, <1>6, <2>3, <3>2 DEF TypeOK
    <3>3. QED
      BY <3>1, <3>2
  <2>4. QED
    BY <2>3
<1>7. ASSUME NEW w \in Workers, UNCHANGED <<facts, snapshot, closing>>, TodoFits'
      PROVE  MaskInv'
  BY <1>7 DEF MaskInv, Tables
<1>8. ASSUME NEW w \in Workers, NEW m \in Messages, IngestMessage(w, m)
      PROVE  MaskInv'
  <2>1. \A n \in DOMAIN m : MaskFits(m[n])
    BY SaidFits
  <2>2. TodoFits'
    BY <1>1, <1>8, <2>1 DEF IngestMessage, TypeOK
  <2>3. QED
    BY <1>7, <1>8, <2>2 DEF IngestMessage
<1>9. ASSUME NEW w \in Workers, SkipExtraction(w), todo[w] # <<>>
      PROVE  MaskInv'
  BY <1>6, <1>7, <1>9 DEF SkipExtraction, NextExtraction
<1>10. ASSUME NEW w \in Workers, FindCurrentFacts(w), todo[w] # <<>>
       PROVE  MaskInv'
  <2> DEFINE ex == Head(todo[w])
             found == {id \in CurrentOf(ex.key) : facts[id].value # StoredValue(ex)}
  <2>1. closing' = [closing EXCEPT ![w] = found] /\ UNCHANGED <<facts, snapshot, todo>>
    BY <1>10 DEF FindCurrentFacts
  <2>2. MaskFits(ex)
    <3>1. ex = todo[w][1] /\ 1 \in DOMAIN todo[w]
      BY <1>10 DEF TypeOK
    <3>2. QED
      BY <1>1, <3>1
  <2>3. ASSUME NEW id \in found
        PROVE  id \in DOMAIN facts /\ facts[id].key \notin MaskedKeys
    <3>1. id \in DOMAIN facts /\ facts[id].key = ex.key /\ facts[id].value # StoredValue(ex)
      BY DEF CurrentOf, Current
    <3>2. ex.key \in MaskedKeys => StoredValue(ex) = Redacted
      BY <2>2 DEF MaskFits, StoredValue
    <3>3. ex.key \in MaskedKeys => facts[id].value = Redacted
      BY <3>1 DEF MaskInv, Tables, RowFits
    <3>4. QED
      BY <3>1, <3>2, <3>3
  <2> HIDE DEF found
  <2>4. ASSUME NEW t \in Tables, NEW v \in Workers, NEW id \in closing'[v] \cap DOMAIN t
        PROVE  t[id].key \notin MaskedKeys
    <3>1. CASE v = w
      <4>1. id \in found
        BY <2>1, <2>4, <3>1 DEF TypeOK
      <4>2. t[id].key = facts[id].key
        BY <2>3, <2>4, <4>1 DEF MaskInv, Tables
      <4>3. QED
        BY <2>3, <4>1, <4>2
    <3>2. CASE v # w
      BY <2>1, <2>4, <3>2 DEF MaskInv, TypeOK
    <3>3. QED
      BY <3>1, <3>2
  <2>5. QED
    BY <2>1, <2>4 DEF MaskInv, Tables
<1>11. ASSUME NEW w \in Workers, NEW id \in closing[w], CloseFact(w, id)
       PROVE  MaskInv'
  <2>1. /\ facts' = Closed(id, now[w]) /\ UNCHANGED <<snapshot, todo>>
        /\ closing' = [closing EXCEPT ![w] = @ \ {id}]
    BY <1>11 DEF CloseFact
  <2>2. \A i \in DOMAIN facts : facts[i] \in Row
    BY DEF TypeOK
  <2>3. /\ DOMAIN facts' = DOMAIN facts
        /\ \A i \in DOMAIN facts \ {id} : facts'[i] = facts[i]
        /\ id \in DOMAIN facts => /\ facts'[id].key = facts[id].key
                                  /\ facts'[id].embedded = facts[id].embedded
    BY <2>1, <2>2 DEF Closed, Row
  <2>4. id \in DOMAIN facts => RowFits(facts'[id])
    <3>1. id \in DOMAIN facts => facts[id].key \notin MaskedKeys /\ RowFits(facts[id])
      BY DEF MaskInv, Tables
    <3>2. QED
      BY <2>3, <3>1 DEF RowFits
  <2>5. Come(facts')
    BY <1>3, <2>3, <2>4 DEF Come
  <2>6. \A v \in Workers : closing'[v] \subseteq closing[v]
    BY <2>1 DEF TypeOK
  <2>7. QED
    BY <1>1, <1>2, <1>4, <2>1, <2>5, <2>6, RowsFollow DEF Come
<1>12. ASSUME NEW w \in Workers, UpsertFact(w), todo[w] # <<>>
       PROVE  MaskInv'
  <2>1. /\ facts' = WithRow(nextId, NewRow(w)) /\ UNCHANGED <<snapshot, closing>>
        /\ todo' = [todo EXCEPT ![w] = Tail(@)]
    BY <1>12 DEF UpsertFact, NextExtraction
  <2>2. TodoFits'
    BY <1>6, <1>12, <2>1
  <2>3. /\ DOMAIN facts' = DOMAIN facts \cup {nextId}
        /\ facts'[nextId] = NewRow(w)
        /\ \A i \in DOMAIN facts \ {nextId} : facts'[i] = facts[i]
    BY <2>1 DEF WithRow
  <2>4. nextId \notin Id
    BY DEF TypeOK, Id
  <2>5. RowFits(NewRow(w))
    <3>1. Head(todo[w]) = todo[w][1] /\ 1 \in DOMAIN todo[w]
      BY <1>12 DEF TypeOK
    <3>2. MaskFits(Head(todo[w]))
      BY <1>1, <3>1
    <3>3. QED
      BY <3>2 DEF MaskFits, RowFits, NewRow, StoredValue, Embeds
  <2>6. \A t \in Tables : nextId \notin DOMAIN t
    BY <2>4 DEF Tables, TypeOK
  <2>7. \A v \in Workers : nextId \notin closing[v]
    BY <2>4 DEF TypeOK
  <2>8. ASSUME NEW t \in Tables', NEW i \in DOMAIN t, i # nextId
        PROVE  \E u \in Tables : i \in DOMAIN u /\ t[i] = u[i]
    <3>1. CASE t = facts'
      BY <2>3, <2>8, <3>1 DEF Tables
    <3>2. CASE \E v \in Workers : t = snapshot[v]
      BY <2>8, <3>2 DEF Tables
    <3>3. QED
      BY <2>1, <3>1, <3>2 DEF Tables
  <2>9. ASSUME NEW t \in Tables', nextId \in DOMAIN t
        PROVE  t = facts'
    BY <2>1, <2>6, <2>9 DEF Tables
  <2>10. \A t \in Tables' : \A i \in DOMAIN t : RowFits(t[i])
    BY <2>3, <2>5, <2>8, <2>9 DEF MaskInv
  <2>11. ASSUME NEW t \in Tables', NEW u \in Tables', NEW i \in DOMAIN t \cap DOMAIN u
         PROVE  t[i].key = u[i].key
    <3>1. CASE i = nextId
      BY <2>9, <2>11, <3>1
    <3>2. CASE i # nextId
      BY <2>8, <2>11, <3>2 DEF MaskInv
    <3>3. QED
      BY <3>1, <3>2
  <2>12. ASSUME NEW t \in Tables', NEW v \in Workers, NEW i \in closing'[v] \cap DOMAIN t
         PROVE  t[i].key \notin MaskedKeys
    BY <2>1, <2>7, <2>8, <2>12 DEF MaskInv
  <2>13. QED
    BY <2>2, <2>10, <2>11, <2>12 DEF MaskInv
<1>13. ASSUME NEW w \in Workers, NEW ids, Erase(ids)
       PROVE  MaskInv'
  <2>1. /\ DOMAIN facts' \subseteq DOMAIN facts /\ \A i \in DOMAIN facts' : facts'[i] = facts[i]
        /\ UNCHANGED <<snapshot, closing, todo>>
    BY <1>13 DEF Erase, WithoutRows, local
  <2>2. Come(facts')
    BY <1>3, <2>1 DEF Come
  <2>3. QED
    BY <1>1, <1>2, <1>4, <2>1, <2>2, RowsFollow DEF Come
<1>14. ASSUME NEW w \in Workers, ListFacts(w)
       PROVE  MaskInv'
  <2>1. snapshot' = [snapshot EXCEPT ![w] = facts] /\ UNCHANGED <<facts, closing, todo>>
    BY <1>14 DEF ListFacts
  <2>2. \A v \in Workers : snapshot'[v] \in {snapshot[v], facts}
    BY <2>1 DEF TypeOK
  <2>3. QED
    BY <1>1, <1>2, <1>3, <1>4, <2>1, <2>2, RowsFollow DEF Come
<1>15. ASSUME NEW w \in Workers, NEW id \in DOMAIN snapshot[w], RewriteFact(w, id)
       PROVE  MaskInv'
  <2> DEFINE row == snapshot[w][id]
  <2>1. /\ facts' = WithRow(id, [row EXCEPT !.embedded = TRUE]) /\ UNCHANGED <<closing, todo>>
        /\ snapshot' = [snapshot EXCEPT ![w] =
                           [i \in DOMAIN snapshot[w] \ {id} |-> snapshot[w][i]]]
    BY <1>15 DEF RewriteFact
  <2>2. row \in Row
    BY DEF TypeOK
  <2>3. /\ DOMAIN facts' = DOMAIN facts \cup {id}
        /\ facts'[id].key = row.key /\ facts'[id].value = row.value
        /\ facts'[id].to = row.to /\ facts'[id].embedded = TRUE
        /\ \A i \in DOMAIN facts \ {id} : facts'[i] = facts[i]
    BY <2>1, <2>2 DEF WithRow, Row
  <2>4. RowFits(facts'[id])
    <3>1. RowFits(row)
      BY <1>2 DEF Come
    <3>2. QED
      BY <2>3, <3>1 DEF RowFits
  <2>5. Come(facts')
    <3>1. \E u \in Tables : id \in DOMAIN u /\ facts'[id].key = u[id].key
      BY <2>3 DEF Tables
    <3>2. QED
      BY <1>3, <2>3, <2>4, <3>1 DEF Come
  <2>6. ASSUME NEW v \in Workers PROVE Come(snapshot'[v])
    <3>1. CASE v = w
      <4>1. snapshot'[w] = [i \in DOMAIN snapshot[w] \ {id} |-> snapshot[w][i]]
        BY <2>1 DEF TypeOK
      <4>2. QED
        BY <1>2, <3>1, <4>1 DEF Come
    <3>2. CASE v # w
      BY <1>2, <2>1, <3>2 DEF TypeOK
    <3>3. QED
      BY <3>1, <3>2
  <2>7. QED
    BY <1>1, <1>4, <2>1, <2>5, <2>6, RowsFollow DEF Come
<1>16. ASSUME NEW w \in Workers, Abandon(w)
       PROVE  MaskInv'
  <2>1. /\ todo' = [todo EXCEPT ![w] = <<>>]
        /\ closing' = [closing EXCEPT ![w] = {}]
        /\ snapshot' = [snapshot EXCEPT ![w] = [i \in {} |-> 0]]
        /\ UNCHANGED facts
    BY <1>16 DEF Abandon
  <2>2. TodoFits'
    BY <1>1, <2>1 DEF TypeOK
  <2>3. \A v \in Workers : closing'[v] \subseteq closing[v]
    BY <2>1 DEF TypeOK
  <2>4. ASSUME NEW v \in Workers PROVE Come(snapshot'[v])
    BY <1>2, <2>1 DEF TypeOK, Come
  <2>5. QED
    BY <1>3, <1>4, <2>1, <2>2, <2>3, <2>4, RowsFollow DEF Come
<1>17. CASE UNCHANGED vars
  BY <1>5, <1>17 DEF vars, local
<1>18. CASE Tick
  BY <1>5, <1>18 DEF Tick, local
<1>19. ASSUME NEW w \in Workers, Ingestion(w)
       PROVE  MaskInv'
  <2>1. CASE \E m \in Messages : IngestMessage(w, m)
    BY <1>8, <2>1
  <2>2. CASE FindNoDuplicate(w)
    BY <1>5, <2>2 DEF FindNoDuplicate
  <2>3. CASE SkipExtraction(w)
    BY <1>9, <2>3 DEF SkipExtraction, Busy
  <2>4. CASE FindCurrentFacts(w)
    BY <1>10, <2>4 DEF FindCurrentFacts, Busy
  <2>5. CASE UpsertFact(w)
    BY <1>12, <2>5 DEF UpsertFact, Busy
  <2>6. QED
    BY <1>11, <1>19, <2>1, <2>2, <2>3, <2>4, <2>5 DEF Ingestion
<1>20. ASSUME NEW w \in Workers, Forgetting(w)
       PROVE  MaskInv'
  BY <1>13, <1>20 DEF Forgetting, ForgetFact, ForgetMatching, ForgetNamespace
<1>21. ASSUME NEW w \in Workers, Reembedding(w)
       PROVE  MaskInv'
  BY <1>5, <1>14, <1>15, <1>21 DEF Reembedding, EndReembed
<1>22. ASSUME NEW w \in Workers, EmbedRaises(w) \/ Crash(w)
       PROVE  MaskInv'
  BY <1>16, <1>22 DEF EmbedRaises, Crash
<1>23. QED
  BY <1>17, <1>18, <1>19, <1>20, <1>21, <1>22 DEF Next

------------------------------------------------------------------------------
(* The current fact comes first *)

\* No more rows than the bound, and no later time.
Bounds ==
    /\ nextId <= MaxFacts + 1
    /\ clock <= MaxTime \/ clock = 1

LEMMA BoundsInit == Init => Bounds
  BY BoundsAssumption DEF Init, Bounds

LEMMA BoundsNext == TypeOK /\ Bounds /\ [Next]_vars => Bounds'
<1> SUFFICES ASSUME TypeOK, Bounds, [Next]_vars PROVE Bounds'
  OBVIOUS
<1> USE BoundsAssumption
<1>1. CASE UNCHANGED vars
  BY <1>1 DEF vars, Bounds
<1>2. CASE Tick
  BY <1>2 DEF Tick, Bounds, TypeOK
<1>3. ASSUME UNCHANGED <<nextId, clock>>
      PROVE  Bounds'
  BY <1>3 DEF Bounds
<1>4. ASSUME NEW w \in Workers, Ingestion(w)
      PROVE  Bounds'
  <2>1. CASE UpsertFact(w)
    BY <2>1 DEF UpsertFact, Bounds, TypeOK
  <2>2. CASE (\E m \in Messages : IngestMessage(w, m)) \/ SkipExtraction(w)
                \/ FindNoDuplicate(w) \/ FindCurrentFacts(w)
                \/ \E id \in closing[w] : CloseFact(w, id)
    BY <1>3, <2>2 DEF IngestMessage, SkipExtraction, FindNoDuplicate, FindCurrentFacts, CloseFact
  <2>3. QED
    BY <1>4, <2>1, <2>2 DEF Ingestion
<1>5. ASSUME NEW w \in Workers, Forgetting(w)
      PROVE  Bounds'
  BY <1>3, <1>5 DEF Forgetting, ForgetFact, ForgetMatching, ForgetNamespace, Erase
<1>6. ASSUME NEW w \in Workers, Reembedding(w)
      PROVE  Bounds'
  BY <1>3, <1>6 DEF Reembedding, ListFacts, RewriteFact, EndReembed
<1>7. ASSUME NEW w \in Workers, EmbedRaises(w) \/ Crash(w)
      PROVE  Bounds'
  BY <1>3, <1>7 DEF EmbedRaises, Crash, Abandon
<1>8. QED
  BY <1>1, <1>2, <1>4, <1>5, <1>6, <1>7 DEF Next

LEMMA RankIsPlace ==
    ASSUME TypeOK, Bounds, NEW ids \in SUBSET DOMAIN facts, NEW before,
           \A id \in ids : id \notin before[id]
    PROVE  \A id \in DOMAIN Ranked(ids, before) : Ranked(ids, before)[id] \in 1..MaxFacts
<1>1. nextId - 1 \in Int /\ 1 \in Int /\ DOMAIN facts \subseteq 1..(nextId - 1)
  BY DEF TypeOK, Id
<1>2. IsFiniteSet(1..(nextId - 1)) /\ Cardinality(1..(nextId - 1)) = nextId - 1
  <2>1. Cardinality(1..(nextId - 1)) = IF 1 > nextId - 1 THEN 0 ELSE (nextId - 1) - 1 + 1
    BY <1>1, FS_Interval
  <2>2. Cardinality(1..(nextId - 1)) = nextId - 1
    <3>1. nextId \in Nat \ {0}
      BY DEF TypeOK
    <3> DEFINE c == Cardinality(1..(nextId - 1))
    <3>2. c = IF 1 > nextId - 1 THEN 0 ELSE (nextId - 1) - 1 + 1
      BY <2>1
    <3> HIDE DEF c
    <3>3. c = nextId - 1
      BY <3>1, <3>2
    <3>4. QED
      BY <3>3 DEF c
  <2>3. QED
    BY <1>1, <2>2, FS_Interval
<1>3. ids \subseteq 1..(nextId - 1)
  BY <1>1
<1>4. IsFiniteSet(ids) /\ Cardinality(ids) \in Nat /\ Cardinality(ids) <= nextId - 1
  BY <1>2, <1>3, FS_Subset, FS_CardinalityType
<1>5. ASSUME NEW id \in ids
      PROVE  Cardinality(ids \cap before[id]) + 1 \in 1..MaxFacts
  <2> DEFINE ahead == ids \cap before[id]
  <2>1. ahead \subseteq ids \ {id}
    BY <1>5
  <2>2. IsFiniteSet(ids \ {id}) /\ Cardinality(ids \ {id}) = Cardinality(ids) - 1
    BY <1>4, <1>5, FS_RemoveElement
  <2> HIDE DEF ahead
  <2>3. Cardinality(ahead) \in Nat /\ Cardinality(ahead) <= Cardinality(ids \ {id})
    BY <2>1, <2>2, FS_Subset, FS_CardinalityType
  <2>4. Cardinality(ahead) + 1 \in 1..MaxFacts
    BY <1>4, <2>2, <2>3, BoundsAssumption DEF Bounds, TypeOK
  <2>5. QED
    BY <2>4 DEF ahead
<1>6. QED
  BY <1>5 DEF Ranked

LEMMA FoundPlaces ==
    ASSUME TypeOK, Bounds
    PROVE  /\ \A q : \A id \in DOMAIN VectorSearch(q) : VectorSearch(q)[id] \in 1..MaxFacts
           /\ \A id \in DOMAIN KeywordSearch : KeywordSearch[id] \in 1..MaxFacts
           /\ \A id \in DOMAIN GraphNeighbors : GraphNeighbors[id] \in 1..MaxFacts
<1>1. DOMAIN facts \subseteq Nat
  BY FactsFinite
<1>2. ASSUME NEW q, NEW id \in DOMAIN facts
      PROVE  id \notin Closer(q)[id] /\ id \notin Earlier[id]
  BY <1>1 DEF Closer, Earlier
<1>3. ASSUME NEW q, NEW id \in DOMAIN VectorSearch(q)
      PROVE  VectorSearch(q)[id] \in 1..MaxFacts
  <2> DEFINE ids == {i \in InNamespace(q) : facts[i].embedded}
  <2>1. ids \in SUBSET DOMAIN facts
    BY DEF InNamespace
  <2> HIDE DEF ids
  <2>2. \A i \in DOMAIN Ranked(ids, Closer(q)) : Ranked(ids, Closer(q))[i] \in 1..MaxFacts
    BY <1>2, <2>1, RankIsPlace
  <2>3. QED
    BY <1>3, <2>2 DEF VectorSearch, ids
<1>4. ASSUME NEW id \in DOMAIN KeywordSearch
      PROVE  KeywordSearch[id] \in 1..MaxFacts
  <2> DEFINE ids == {i \in InNamespace(query) : Overlap(facts[i]) > 0}
             before == [i \in DOMAIN facts |-> {j \in DOMAIN facts :
                           \/ Overlap(facts[j]) > Overlap(facts[i])
                           \/ /\ Overlap(facts[j]) = Overlap(facts[i])
                              /\ j \in Closer(query)[i]}]
  <2>1. ids \in SUBSET DOMAIN facts
    BY DEF InNamespace
  <2>2. \A i \in DOMAIN facts : Overlap(facts[i]) \in Nat
    BY DEF Overlap, Count
  <2>3. \A i \in ids : i \notin before[i]
    BY <1>2, <2>1, <2>2
  <2>4. KeywordSearch = Ranked(ids, before)
    BY DEF KeywordSearch
  <2> HIDE DEF ids, before
  <2>5. \A i \in DOMAIN Ranked(ids, before) : Ranked(ids, before)[i] \in 1..MaxFacts
    BY <2>1, <2>3, RankIsPlace
  <2>6. QED
    BY <1>4, <2>4, <2>5
<1>5. ASSUME NEW id \in DOMAIN GraphNeighbors
      PROVE  GraphNeighbors[id] \in 1..MaxFacts
  <2> DEFINE ids == {i \in InNamespace(query) : IsSeeded(facts[i]) /\ facts[i].to = Open}
  <2>1. ids \in SUBSET DOMAIN facts
    BY DEF InNamespace
  <2> HIDE DEF ids
  <2>2. \A i \in DOMAIN Ranked(ids, Earlier) : Ranked(ids, Earlier)[i] \in 1..MaxFacts
    BY <1>2, <2>1, RankIsPlace
  <2>3. QED
    BY <1>5, <2>2 DEF GraphNeighbors, ids
<1>6. QED
  BY <1>3, <1>4, <1>5

\* The least that a rank adds to a score for one unit of weight, in lists of up to 8 or 31
\* facts, and the most.
LeastShare == IF MaxFacts <= 8 THEN 3503 ELSE 2618

LEMMA ContributionBounds ==
    ASSUME MaxFacts <= 31, NEW rank \in 1..MaxFacts, NEW weight \in Nat
    PROVE  /\ Contribution(weight, rank) >= weight * LeastShare
           /\ Contribution(weight, rank) <= weight * 3906
<1> DEFINE q == 238266 \div (60 + rank)
<1>1. rank \in 1..31 /\ MaxFacts \in Nat
  BY BoundsAssumption
<1>2. q \in Nat
  BY <1>1
<1>3. rank <= 8 => q >= 3503
  BY <1>1
<1>4. q >= 2618
  BY <1>1
<1>5. q <= 3906
  BY <1>1
<1>6. q >= LeastShare /\ LeastShare \in Nat
  BY <1>1, <1>3, <1>4 DEF LeastShare
<1> HIDE DEF q
<1>7. weight * q >= weight * LeastShare /\ weight * q <= weight * 3906
  BY <1>2, <1>5, <1>6
<1>8. QED
  BY <1>7 DEF Contribution, q

\* How much the searches so far weigh for a current fact, and for a closed one.
CurrentWeight ==
    IF reading = "keyword" THEN 5 ELSE IF reading = "graph" THEN 8 ELSE 12

ClosedWeight == IF reading = "keyword" THEN 5 ELSE 8

\* Keys of which the scores say nothing.
Excepted == touched \cup MaskedKeys

\* Keys whose subject is a term of the query.
IsNamed(key) == key.subject \in query.asked.terms

\* What is found of a fact that no step has changed since the first search, when its subject
\* is a term of the query.
HitWeight(id) ==
    LET said == hits[id].payload
    IN /\ said.key.namespace = query.asked.namespace
       /\ said.key \notin Excepted /\ IsNamed(said.key) =>
             /\ said.at = facts[id].from
             /\ said.to = Open => hits[id].score >= CurrentWeight * LeastShare
             /\ said.to # Open => hits[id].score <= ClosedWeight * 3906

WeightInv ==
    /\ reading \in {"idle", "keyword", "graph", "done"}
    /\ reading # "idle" => query.at <= MaxTime \/ query.at = 1
    /\ reading # "idle" =>
          /\ \A id \in DOMAIN hits : HitWeight(id)
          /\ reading # "done" =>
                \A id \in InNamespace(query) : facts[id].key \notin Excepted => id \in DOMAIN hits

\* A hit whose fact no step has changed, and whose subject is a term of the query, is found
\* by the keyword search, and by the graph's if it is current.
LEMMA StillFound ==
    ASSUME HitsInv, HitsType, reading # "idle", NEW id \in DOMAIN hits,
           IsNamed(hits[id].payload.key), hits[id].payload.key.namespace = query.asked.namespace,
           hits[id].payload.key \notin touched
    PROVE  /\ id \in DOMAIN KeywordSearch
           /\ id \in DOMAIN GraphNeighbors <=> hits[id].payload.to = Open
<1>1. /\ id \in DOMAIN facts
      /\ facts[id].key = hits[id].payload.key
      /\ facts[id].to = hits[id].payload.to
  BY DEF HitsInv, HitInv, HitHolds
<1>2. IsSeeded(facts[id]) /\ Overlap(facts[id]) > 0
  BY <1>1, SeededOverlaps DEF IsSeeded, IsNamed
<1>3. QED
  BY <1>1, <1>2 DEF KeywordSearch, GraphNeighbors, Ranked, InNamespace

\* One more search adds its contribution.
LEMMA FusedScores ==
    ASSUME HitsInv, HitsType, NEW found, NEW weight \in Nat, NEW payloads, MaxFacts <= 31,
           \A id \in DOMAIN found : found[id] \in 1..MaxFacts,
           hits' = Fused(found, weight, payloads)
    PROVE  /\ \A id \in DOMAIN hits \ DOMAIN found : hits'[id].score = hits[id].score
           /\ \A id \in DOMAIN hits \cap DOMAIN found :
                 /\ hits'[id].score >= hits[id].score + weight * LeastShare
                 /\ hits'[id].score <= hits[id].score + weight * 3906
           /\ \A id \in DOMAIN found \ DOMAIN hits :
                 /\ hits'[id].score >= weight * LeastShare
                 /\ hits'[id].score <= weight * 3906
<1>1. Adds(found, weight, payloads)
  BY FusedHits
<1> DEFINE low == weight * LeastShare
           high == weight * 3906
<1>2. low \in Nat /\ high \in Nat
  BY DEF LeastShare
<1>3. ASSUME NEW id \in DOMAIN found
      PROVE  /\ Contribution(weight, found[id]) \in Nat
             /\ Contribution(weight, found[id]) >= low
             /\ Contribution(weight, found[id]) <= high
  <2>1. found[id] \in 1..MaxFacts /\ found[id] \in Nat
    OBVIOUS
  <2>2. Contribution(weight, found[id]) \in Nat
    BY <2>1, ContributionType
  <2>3. QED
    BY <2>1, <2>2, ContributionBounds
<1> HIDE DEF low, high, Adds
<1> DEFINE Scored(payload, score) == [payload |-> payload, score |-> score]
<1>4. ASSUME NEW id \in DOMAIN hits \cap DOMAIN found
      PROVE  hits'[id].score >= hits[id].score + low /\ hits'[id].score <= hits[id].score + high
  <2>1. PICK c \in Nat : /\ hits'[id] = Scored(hits[id].payload, hits[id].score + c)
                         /\ c >= low /\ c <= high
    BY <1>1, <1>3 DEF Adds
  <2>2. hits[id].score \in Nat
    BY DEF HitsType, HitType
  <2>3. QED
    BY <1>2, <2>1, <2>2
<1>5. ASSUME NEW id \in DOMAIN found \ DOMAIN hits
      PROVE  hits'[id].score >= low /\ hits'[id].score <= high
  <2>1. PICK c \in Nat : /\ hits'[id] = Scored(payloads[id], 0 + c)
                         /\ c >= low /\ c <= high
    BY <1>1, <1>3 DEF Adds
  <2>2. QED
    BY <1>2, <2>1
<1>6. QED
  BY <1>1, <1>4, <1>5 DEF low, high, Adds

LEMMA WeightInit == ReaderInit => WeightInv
  BY DEF ReaderInit, WeightInv

LEMMA WeightNext ==
    ASSUME MaxFacts <= 31
    PROVE  /\ TypeOK /\ Bounds /\ MaskInv /\ HitsInv /\ HitsType /\ WeightInv
           /\ [ReaderNext]_<<vars, reader>>
           => WeightInv'
<1> SUFFICES ASSUME TypeOK, Bounds, MaskInv, HitsInv, HitsType, WeightInv,
                    [ReaderNext]_<<vars, reader>>
             PROVE  WeightInv'
  OBVIOUS
<1>1. LeastShare \in Nat
  BY DEF LeastShare
<1>2. ASSUME NEW q \in Queries, Retrieve(q)
      PROVE  WeightInv'
  <2>1. /\ hits' = Fused(VectorSearch(q), 5, Payloads)
        /\ DOMAIN hits = {} /\ query' = q /\ reading' = "keyword" /\ facts' = facts
    BY <1>2 DEF Retrieve, HitsInv, vars
  <2>2. query'.at <= MaxTime \/ query'.at = 1
    BY <2>1 DEF Queries, Bounds
  <2>3. /\ DOMAIN VectorSearch(q) \subseteq InNamespace(q) /\ InNamespace(q) \subseteq DOMAIN facts
        /\ \A id \in InNamespace(q) :
              facts[id].key \notin MaskedKeys => id \in DOMAIN VectorSearch(q)
    BY DEF VectorSearch, Ranked, InNamespace, MaskInv, Tables, RowFits
  <2>4. DOMAIN hits' = DOMAIN VectorSearch(q)
    BY <2>1 DEF Fused
  <2>5. InNamespace(query)' = InNamespace(q)
    BY <2>1 DEF InNamespace
  <2>6. ASSUME NEW id \in DOMAIN hits' PROVE HitWeight(id)'
    <3>1. id \in DOMAIN VectorSearch(q) \ DOMAIN hits /\ id \in DOMAIN facts
      BY <2>1, <2>3, <2>4
    <3>2. hits'[id].payload = Payloads[id]
      BY <2>1, <3>1, FusedPayloads
    <3>3. hits'[id].score >= 5 * LeastShare /\ hits'[id].score <= 5 * 3906
      BY <2>1, <3>1, FusedScores, FoundPlaces
    <3>4. Payloads[id].at = facts[id].from /\ Payloads[id].key = facts[id].key
      BY <3>1 DEF Payloads, Payload
    <3>5. facts[id].key.namespace = q.asked.namespace
      BY <2>3, <3>1 DEF InNamespace
    <3>6. CurrentWeight' = 5 /\ ClosedWeight' = 5
      BY <2>1 DEF CurrentWeight, ClosedWeight
    <3>7. QED
      BY <2>1, <3>2, <3>3, <3>4, <3>5, <3>6 DEF HitWeight
  <2>7. QED
    BY <2>1, <2>2, <2>3, <2>4, <2>5, <2>6 DEF WeightInv, Excepted
<1>3. CASE SearchKeywords
  <2>1. /\ hits' = Fused(KeywordSearch, 3, Payloads)
        /\ reading = "keyword" /\ reading' = "graph"
        /\ UNCHANGED <<facts, query, touched>>
    BY <1>3 DEF SearchKeywords, vars
  <2>2. DOMAIN hits' = DOMAIN hits \cup DOMAIN KeywordSearch
    BY <2>1 DEF Fused
  <2>3. InNamespace(query)' = InNamespace(query)
    BY <2>1 DEF InNamespace
  <2>4. ASSUME NEW id \in DOMAIN hits' PROVE HitWeight(id)'
    <3>1. CurrentWeight = 5 /\ ClosedWeight = 5 /\ CurrentWeight' = 8 /\ ClosedWeight' = 8
      BY <2>1 DEF CurrentWeight, ClosedWeight
    <3>2. CASE id \in DOMAIN hits
      <4>1. HitWeight(id) /\ hits[id].score \in Nat
        BY <2>1, <2>4, <3>2 DEF WeightInv, HitsType, HitType
      <4>2. hits'[id].payload = hits[id].payload
        BY <2>1, <3>2, FusedPayloads
      <4>3. CASE hits[id].payload.key \in Excepted \/ ~IsNamed(hits[id].payload.key)
        BY <2>1, <4>1, <4>2, <4>3 DEF HitWeight, Excepted, IsNamed
      <4>4. CASE hits[id].payload.key \notin Excepted /\ IsNamed(hits[id].payload.key)
        <5>1. id \in DOMAIN hits \cap DOMAIN KeywordSearch
          BY <2>1, <2>4, <3>2, <4>1, <4>4, StillFound DEF HitWeight, Excepted
        <5>2. /\ hits'[id].score >= hits[id].score + 3 * LeastShare
              /\ hits'[id].score <= hits[id].score + 3 * 3906
          BY <2>1, <5>1, FusedScores, FoundPlaces
        <5>3. hits'[id].score \in Nat
          <6>1. HitsType'
            BY <1>3, HitsTypeNext DEF ReaderNext
          <6>2. QED
            BY <2>4, <6>1 DEF HitsType, HitType
        <5>4. hits[id].score >= 5 * LeastShare => hits'[id].score >= 8 * LeastShare
          BY <1>1, <4>1, <5>2, <5>3
        <5>5. hits[id].score <= 5 * 3906 => hits'[id].score <= 8 * 3906
          BY <4>1, <5>2, <5>3
        <5>6. QED
          BY <2>1, <3>1, <4>1, <4>2, <4>4, <5>4, <5>5 DEF HitWeight, Excepted, IsNamed
      <4>5. QED
        BY <4>3, <4>4
    <3>3. CASE id \notin DOMAIN hits
      <4>1. id \in DOMAIN KeywordSearch \ DOMAIN hits
        BY <2>2, <2>4, <3>3
      <4>2. id \in InNamespace(query) /\ id \in DOMAIN facts
        BY <4>1 DEF KeywordSearch, Ranked, InNamespace
      <4>3. facts[id].key \in Excepted
        BY <2>1, <2>4, <3>3, <4>2 DEF WeightInv
      <4>4. hits'[id].payload = Payloads[id] /\ Payloads[id].key = facts[id].key
        BY <2>1, <4>1, <4>2, FusedPayloads, PayloadsHold
      <4>5. facts[id].key.namespace = query.asked.namespace
        BY <4>2 DEF InNamespace
      <4>6. QED
        BY <2>1, <4>3, <4>4, <4>5 DEF HitWeight, Excepted
    <3>4. QED
      BY <3>2, <3>3
  <2>5. QED
    BY <2>1, <2>2, <2>3, <2>4 DEF WeightInv, Excepted
<1>4. CASE SearchGraph
  <2>1. /\ hits' = Fused(GraphNeighbors, 4, GraphPayloads)
        /\ reading = "graph" /\ reading' = "done"
        /\ UNCHANGED <<facts, query, touched>>
    BY <1>4 DEF SearchGraph, vars
  <2>2. DOMAIN hits' = DOMAIN hits \cup DOMAIN GraphNeighbors
    BY <2>1 DEF Fused
  <2>4. ASSUME NEW id \in DOMAIN hits' PROVE HitWeight(id)'
    <3>1. CurrentWeight = 8 /\ ClosedWeight = 8 /\ CurrentWeight' = 12 /\ ClosedWeight' = 8
      BY <2>1 DEF CurrentWeight, ClosedWeight
    <3>2. CASE id \in DOMAIN hits
      <4>1. HitWeight(id) /\ hits[id].score \in Nat
        BY <2>1, <2>4, <3>2 DEF WeightInv, HitsType, HitType
      <4>2. hits'[id].payload = hits[id].payload
        BY <2>1, <3>2, FusedPayloads
      <4>3. CASE hits[id].payload.key \in Excepted \/ ~IsNamed(hits[id].payload.key)
        BY <2>1, <4>1, <4>2, <4>3 DEF HitWeight, Excepted, IsNamed
      <4>4. CASE /\ hits[id].payload.key \notin Excepted /\ IsNamed(hits[id].payload.key)
                 /\ hits[id].payload.to = Open
        <5>1. id \in DOMAIN hits \cap DOMAIN GraphNeighbors
          BY <2>1, <2>4, <3>2, <4>1, <4>4, StillFound DEF HitWeight, Excepted
        <5>2. hits'[id].score >= hits[id].score + 4 * LeastShare
          BY <2>1, <5>1, FusedScores, FoundPlaces
        <5>3. hits'[id].score \in Nat
          <6>1. HitsType'
            BY <1>4, HitsTypeNext DEF ReaderNext
          <6>2. QED
            BY <2>4, <6>1 DEF HitsType, HitType
        <5>4. hits[id].score >= 8 * LeastShare => hits'[id].score >= 12 * LeastShare
          BY <1>1, <4>1, <5>2, <5>3
        <5>5. QED
          BY <2>1, <3>1, <4>1, <4>2, <4>4, <5>4 DEF HitWeight, Excepted, IsNamed
      <4>5. CASE /\ hits[id].payload.key \notin Excepted /\ IsNamed(hits[id].payload.key)
                 /\ hits[id].payload.to # Open
        <5>1. id \in DOMAIN hits \ DOMAIN GraphNeighbors
          BY <2>1, <2>4, <3>2, <4>1, <4>5, StillFound DEF HitWeight, Excepted
        <5>2. hits'[id].score = hits[id].score
          BY <2>1, <5>1, FusedScores, FoundPlaces
        <5>3. QED
          BY <2>1, <3>1, <4>1, <4>2, <4>5, <5>2 DEF HitWeight, Excepted, IsNamed
      <4>6. QED
        BY <4>3, <4>4, <4>5
    <3>3. CASE id \notin DOMAIN hits
      <4>1. id \in DOMAIN GraphNeighbors \ DOMAIN hits
        BY <2>2, <2>4, <3>3
      <4>2. id \in InNamespace(query) /\ id \in DOMAIN facts
        BY <4>1 DEF GraphNeighbors, Ranked, InNamespace
      <4>3. facts[id].key \in Excepted
        BY <2>1, <2>4, <3>3, <4>2 DEF WeightInv
      <4>4. hits'[id].payload = GraphPayloads[id] /\ GraphPayloads[id].key = facts[id].key
        <5>1. facts[id].to = Open
          BY <4>1, FoundFacts
        <5>2. QED
          BY <2>1, <4>1, <4>2, <5>1, FusedPayloads, PayloadsHold
      <4>5. facts[id].key.namespace = query.asked.namespace
        BY <4>2 DEF InNamespace
      <4>6. QED
        BY <2>1, <4>3, <4>4, <4>5 DEF HitWeight, Excepted
    <3>4. QED
      BY <3>2, <3>3
  <2>5. QED
    BY <2>1, <2>4 DEF WeightInv
<1>5. CASE RetrieveFails \/ Return
  BY <1>5 DEF RetrieveFails, Return, WeightInv
<1>6. CASE Write
  <2>1. CASE reading = "idle"
    BY <1>6, <2>1 DEF Write, WeightInv
  <2>2. CASE reading # "idle"
    <3>1. touched' = touched \cup TouchedKeys /\ UNCHANGED <<query, reading, hits>>
      BY <1>6, <2>2 DEF Write
    <3>2. ASSUME NEW id \in InNamespace(query)',
                 facts'[id].key \notin Excepted', reading # "done"
          PROVE  id \in DOMAIN hits
      <4>1. id \in DOMAIN facts'
        BY <3>2 DEF InNamespace
      <4>2. id \in DOMAIN facts /\ facts'[id] = facts[id] /\ facts[id].key \notin Excepted
        BY <3>1, <3>2, <4>1, Untouched DEF Excepted
      <4>3. id \in InNamespace(query)
        BY <3>1, <3>2, <4>2 DEF InNamespace
      <4>4. QED
        BY <2>2, <3>2, <4>2, <4>3 DEF WeightInv
    <3>3. ASSUME NEW id \in DOMAIN hits PROVE HitWeight(id)'
      <4>1. HitWeight(id) /\ HitHolds(id)
        BY <2>2, <3>3 DEF WeightInv, HitsInv, HitInv
      <4>2. CurrentWeight' = CurrentWeight /\ ClosedWeight' = ClosedWeight
        BY <3>1 DEF CurrentWeight, ClosedWeight
      <4>3. ASSUME id \in DOMAIN facts, facts[id].key \notin TouchedKeys
            PROVE  facts'[id] = facts[id]
        BY <4>3 DEF TouchedKeys
      <4>4. QED
        BY <3>1, <4>1, <4>2, <4>3 DEF HitWeight, HitHolds, Excepted, IsNamed
    <3>4. QED
      BY <2>2, <3>1, <3>2, <3>3 DEF WeightInv
  <2>3. QED
    BY <2>1, <2>2
<1>7. CASE UNCHANGED <<vars, reader>>
  <2>1. UNCHANGED <<facts, query, reading, hits, touched>>
    BY <1>7 DEF vars, reader
  <2>2. InNamespace(query)' = InNamespace(query)
    BY <2>1 DEF InNamespace
  <2>3. ASSUME NEW id \in DOMAIN hits PROVE HitWeight(id)' = HitWeight(id)
    BY <2>1 DEF HitWeight, CurrentWeight, ClosedWeight, Excepted, IsNamed
  <2>4. QED
    BY <2>1, <2>2, <2>3 DEF WeightInv, Excepted
<1>8. QED
  BY <1>2, <1>3, <1>4, <1>5, <1>6, <1>7 DEF ReaderNext

\* Less is left after more half-lives.
LEMMA HalvedFalls == \A n \in Nat : \A m \in 0..n : Halved[n] <= Halved[m]
<1> DEFINE Good == {n \in Nat : \A m \in 0..n : Halved[n] <= Halved[m]}
<1>1. 0 \in Good
  BY HalvedType
<1>2. ASSUME NEW n \in Good PROVE n + 1 \in Good
  <2>1. n \in Nat /\ n + 1 \in Nat \ {0} /\ (n + 1) - 1 = n
    OBVIOUS
  <2>2. Halved[n + 1] = Halved[n] \div 2
    BY <2>1, HalvedType
  <2>3. Halved[n] \in Nat
    BY <2>1, HalvedType
  <2>4. Halved[n] \div 2 <= Halved[n] /\ Halved[n] \div 2 \in Nat
    BY <2>3
  <2>5. ASSUME NEW m \in 0..(n + 1) PROVE Halved[n + 1] <= Halved[m]
    <3>1. CASE m = n + 1
      BY <2>2, <2>4, <3>1
    <3>2. CASE m \in 0..n
      <4>1. Halved[n] <= Halved[m] /\ Halved[m] \in Nat
        BY <2>1, <3>2, HalvedType
      <4>2. QED
        BY <2>2, <2>3, <2>4, <4>1
    <3>3. QED
      BY <2>1, <2>5, <3>1, <3>2
  <2>6. QED
    BY <2>1, <2>5
<1>3. Good \in SUBSET Nat
  OBVIOUS
<1> HIDE DEF Good
<1>4. Good = Nat
  BY <1>1, <1>2, <1>3, NaturalInduction
<1>5. QED
  BY <1>4 DEF Good

\* What recency leaves of the score of a hit.
Age(id) ==
    LET at == hits[id].payload.at
    IN IF at = 0 \/ at > query.at THEN 0 ELSE query.at - at

LEMMA AgedScore ==
    ASSUME HitsType, reading # "idle", NEW id \in DOMAIN hits
    PROVE  /\ Age(id) \in Nat
           /\ 4 + Halved[Age(id)] \in Nat
           /\ hits[id].score \in Nat
           /\ Score(id) = hits[id].score * (4 + Halved[Age(id)])
<1>1. HitType(id) /\ query.at \in Nat
  BY DEF HitsType
<1>2. Age(id) \in Nat
  BY <1>1 DEF HitType, Age
<1>3. Halved[Age(id)] \in Nat
  BY <1>2, HalvedType
<1>4. QED
  BY <1>1, <1>2, <1>3 DEF HitType, Score, Age

\* A hit whose score is higher, as recency leaves it, comes first.
LEMMA MoreComesFirst ==
    ASSUME HitsType, reading # "idle", NEW i \in DOMAIN hits, NEW j \in DOMAIN hits,
           Score(i) > Score(j)
    PROVE  Above(i, j, FALSE)
  BY DEF Above

\* The scores that the three searches give a current fact and a closed one of its key, which
\* is not masked, since nothing masked is closed.
LEMMA ScoresApart ==
    ASSUME MaskInv, HitsInv, WeightInv, reading = "done",
           NEW i \in DOMAIN hits, NEW j \in DOMAIN hits, IsNamed(hits[i].payload.key),
           hits[i].payload.key = hits[j].payload.key, hits[i].payload.key \notin touched,
           hits[i].payload.to = Open, hits[j].payload.to # Open
    PROVE  /\ hits[i].payload.key \notin Excepted
           /\ hits[i].score >= 12 * LeastShare /\ hits[j].score <= 31248
<1>1. HitWeight(i) /\ HitWeight(j)
  BY DEF WeightInv
<1>2. CurrentWeight = 12 /\ ClosedWeight = 8
  BY DEF CurrentWeight, ClosedWeight
<1>3. 8 * 3906 = 31248
  OBVIOUS
<1>4. j \in DOMAIN facts /\ facts[j].key = hits[j].payload.key /\ facts[j].to # Open
  BY DEF HitsInv, HitInv, HitHolds
<1>5. facts[j].key \notin MaskedKeys
  BY <1>4 DEF MaskInv, Tables, RowFits
<1>6. hits[i].payload.key \notin Excepted /\ hits[j].payload.key \notin Excepted
  BY <1>4, <1>5 DEF Excepted
<1>7. QED
  BY <1>1, <1>2, <1>3, <1>6 DEF HitWeight

LEMMA CurrentInvariant ==
    ASSUME MaxFacts <= 31, MaskedAlways
    PROVE  ReaderSpec => [](TypeOK /\ MaskInv /\ HitsInv /\ HitsType /\ WeightInv)
<1>1. Spec => [](TypeOK /\ MaskInv)
  <2>1. TypeInv => TypeOK
    BY DEF TypeInv
  <2>2. QED
    BY <2>1, TypeInit, TypeNext, MaskInit, MaskNext, PTL DEF Spec
<1>2. Spec => []Bounds
  BY TypeCorrect, BoundsInit, BoundsNext, PTL DEF Spec
<1>3. /\ TypeOK /\ Bounds /\ MaskInv /\ HitsInv /\ HitsType /\ WeightInv
      /\ [ReaderNext]_<<vars, reader>>
      => WeightInv'
  BY WeightNext
<1>4. QED
  BY <1>1, <1>2, <1>3, ReaderImplementsMemory, HitsInit, HitsNext, HitsTypeInit, HitsTypeNext,
     WeightInit, PTL DEF ReaderSpec

\* A superseded object never comes before the current one, for any number of workers, keys,
\* messages and questions that have their subject as a term, when eight facts at most are
\* ever stored and none gets older than a half-life (graph_neighbors,
\* reciprocal_rank_fusion, apply_recency).  No key has masked objects and others, so that no
\* fact without a vector supersedes one that has.
THEOREM RecentTheorem ==
    ASSUME MaskedAlways, MaxFacts <= 8, MaxTime <= 2
    PROVE  ReaderSpec => []CurrentFirst
<1>1. MaskInv /\ HitsInv /\ HitsType /\ WeightInv => CurrentFirst
  <2> SUFFICES ASSUME MaskInv, HitsInv, HitsType, WeightInv, reading = "done",
                      NEW i \in DOMAIN hits, NEW j \in DOMAIN hits, IsNamed(hits[i].payload.key),
                      hits[i].payload.key = hits[j].payload.key,
                      hits[i].payload.key \notin touched,
                      hits[i].payload.to = Open, hits[j].payload.to # Open
               PROVE  Above(i, j, FALSE)
    BY DEF CurrentFirst, IsNamed
  <2> DEFINE a == hits[i].score
             b == hits[j].score
             x == 4 + Halved[Age(i)]
             y == 4 + Halved[Age(j)]
  <2>1. a >= 42036 /\ b <= 31248
    <3>1. LeastShare = 3503
      BY DEF LeastShare
    <3>2. a >= 12 * LeastShare /\ b <= 31248
      BY ScoresApart
    <3>3. QED
      BY <3>1, <3>2
  <2>2. a \in Nat /\ b \in Nat /\ Score(i) = a * x /\ Score(j) = b * y
    BY AgedScore
  <2>3. x >= 6 /\ x \in Nat
    <3>1. query.at \in 1..2
      BY BoundsAssumption DEF WeightInv, HitsType
    <3>2. HitType(i)
      BY DEF HitsType
    <3>3. Age(i) \in 0..1
      BY <3>1, <3>2 DEF Age, HitType
    <3>4. Halved[0] = 4 /\ Halved[1] = 2
      BY HalvedType
    <3>5. QED
      BY <3>3, <3>4
  <2>4. y <= 8 /\ y \in Nat
    <3>1. Age(j) \in Nat
      BY AgedScore
    <3>2. Halved[Age(j)] <= 4 /\ Halved[Age(j)] \in Nat
      BY <3>1, HalvedType, HalvedFalls
    <3>3. QED
      BY <3>2
  <2> HIDE DEF a, b, x, y
  <2>5. a * x >= 252216
    <3>1. a * x >= 42036 * x
      BY <2>1, <2>2, <2>3
    <3>2. QED
      BY <2>2, <2>3, <3>1
  <2>6. b * y <= 249984
    <3>1. b * y <= 31248 * y
      BY <2>1, <2>2, <2>4
    <3>2. QED
      BY <2>2, <2>4, <3>1
  <2>7. Score(i) > Score(j)
    BY <2>2, <2>3, <2>4, <2>5, <2>6
  <2>8. QED
    BY <2>7, MoreComesFirst
<1>2. ReaderSpec => [](TypeOK /\ MaskInv /\ HitsInv /\ HitsType /\ WeightInv)
  <2>1. MaxFacts <= 31
    BY BoundsAssumption
  <2>2. QED
    BY <2>1, CurrentInvariant
<1>3. QED
  BY <1>1, <1>2, PTL

\* Nor does it, with one worker, when every extraction replaces what was known and 31 facts
\* at most are ever stored, however old they get: the order of the validity windows
\* makes the current fact the more recent one (find_current_facts, apply_recency).
THEOREM CurrentTheorem ==
    ASSUME NEW s, Workers = {s}, Keys \subseteq Exclusive,
           MaskedAlways, MaxFacts <= 31
    PROVE  ReaderSpec => []CurrentFirst
<1>1. TypeOK /\ MaskInv /\ HitsInv /\ HitsType /\ WeightInv /\ Timeline => CurrentFirst
  <2> SUFFICES ASSUME TypeOK, MaskInv, HitsInv, HitsType, WeightInv, Timeline,
                      reading = "done",
                      NEW i \in DOMAIN hits, NEW j \in DOMAIN hits, IsNamed(hits[i].payload.key),
                      hits[i].payload.key = hits[j].payload.key,
                      hits[i].payload.key \notin touched,
                      hits[i].payload.to = Open, hits[j].payload.to # Open
               PROVE  Above(i, j, FALSE)
    BY DEF CurrentFirst, IsNamed
  <2> DEFINE a == hits[i].score
             b == hits[j].score
             x == 4 + Halved[Age(i)]
             y == 4 + Halved[Age(j)]
  <2>1. a >= 31416 /\ b <= 31248
    <3>1. LeastShare \in {3503, 2618}
      BY DEF LeastShare
    <3>2. a >= 12 * LeastShare /\ b <= 31248
      BY ScoresApart
    <3>3. QED
      BY <3>1, <3>2, AgedScore
  <2>2. a \in Nat /\ b \in Nat /\ Score(i) = a * x /\ Score(j) = b * y
    BY AgedScore
  <2>3. hits[j].payload.at <= hits[i].payload.at /\ hits[i].payload.at # 0
           /\ hits[j].payload.at # 0
    <3>1. HitHolds(i) /\ HitHolds(j) /\ i \in Nat /\ j \in Nat
      BY DEF HitsInv, HitInv
    <3>2. /\ i \in DOMAIN facts /\ j \in DOMAIN facts
          /\ facts[i].key = facts[j].key /\ facts[i].to = Open /\ i # j
          /\ facts[i] \in Row /\ facts[j] \in Row
      BY <3>1 DEF HitHolds, TypeOK
    <3>3. hits[i].payload.at = facts[i].from /\ hits[j].payload.at = facts[j].from
      BY ScoresApart DEF WeightInv, HitWeight
    <3>4. facts[i].key \in Exclusive
      BY <3>2 DEF Row
    <3>5. facts[j].from <= facts[j].to /\ facts[j].to <= facts[i].from
      BY <3>1, <3>2, <3>4 DEF Timeline
    <3>6. QED
      BY <3>2, <3>3, <3>5 DEF Row
  <2>4. x >= y /\ x \in Nat /\ y \in Nat /\ y >= 4
    <3>1. Age(i) \in Nat /\ Age(j) \in Nat
      BY AgedScore
    <3>2. Age(i) <= Age(j)
      BY <2>3 DEF Age, HitsType, HitType
    <3>3. Halved[Age(j)] <= Halved[Age(i)]
      BY <3>1, <3>2, HalvedFalls
    <3>4. Halved[Age(i)] \in Nat /\ Halved[Age(j)] \in Nat
      BY <3>1, HalvedType
    <3>5. QED
      BY <3>3, <3>4
  <2> HIDE DEF a, b, x, y
  <2>5. a * x >= 31416 * x
    BY <2>1, <2>2, <2>4
  <2>6. b * y <= 31248 * y
    BY <2>1, <2>2, <2>4
  <2>7. Score(i) > Score(j)
    BY <2>2, <2>4, <2>5, <2>6
  <2>8. QED
    BY <2>7, MoreComesFirst
<1>2. ReaderSpec => [](TypeOK /\ MaskInv /\ HitsInv /\ HitsType /\ WeightInv)
  BY CurrentInvariant
<1>3. Spec => []Timeline
  BY TimelineTheorem
<1>4. QED
  BY <1>1, <1>2, <1>3, ReaderImplementsMemory, PTL

==============================================================================
