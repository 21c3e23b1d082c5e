---------------------------- MODULE Vec0KnnProps ----------------------------
(***************************************************************************)
(* What a nearest-neighbour query must answer.                             *)
(***************************************************************************)
EXTENDS Vec0Knn, Vec0Props

CONSTANT Queries   \* the queries that are asked of every state of the table

\* The order of texts, character by character.
TextLess(a, b) ==
  Before(a, b, Len(b))

Satisfies(r, q) ==
  /\ Live(r) /\ r \in q.ids
  /\ ReadRow(r).partition = q.partition /\ q.partition # Null
  /\ CASE q.op = "any" -> TRUE
       [] q.op = "eq"  -> ReadRow(r).text = q.text
       [] q.op = "ne"  -> ReadRow(r).text # q.text
       [] q.op = "lt"  -> TextLess(ReadRow(r).text, q.text)

Distance(r) == ReadRow(r).vector
Matching(q) == {r \in Rowids : Satisfies(r, q) /\ Allows(q.within, Distance(r))}

\* hits are the k nearest of the rows: k of them or all, none twice, the nearest first,
\* with their own distance, and nothing left out is nearer than what is in (a distance that is
\* no number is nearer than none).
AreNearest(hits, k, S) ==
  LET ids == {hits[i].rowid : i \in DOMAIN hits}
  IN /\ ids \subseteq S /\ Len(hits) = Cardinality(ids)
     /\ Len(hits) = Smaller(k, Cardinality(S))
     /\ \A i \in DOMAIN hits : hits[i].distance = Distance(hits[i].rowid)
     /\ \A i, j \in DOMAIN hits :
          i < j /\ NaN \notin {hits[i].distance, hits[j].distance}
            => hits[i].distance <= hits[j].distance
     /\ \A r \in ids, s \in S \ ids : Distance(s) # NaN => Leq(Distance(r), Distance(s))

\* "for each chunk, get top min(k, chunk_size) rowid + distances to query vec. then reconcile all
\* topk_chunks for a true top k" (sqlite-vec.c:6530): every query is answered, and its answer is
\* the k nearest of the live rows of the partition that satisfy it, whatever deleted rows and
\* earlier texts have left in their slots.
KnnIsTrueTopK ==
  \A q \in Queries : ~KnnFails(q) /\ AreNearest(vec0Filter_knn(q), q.k, Matching(q))
=============================================================================
