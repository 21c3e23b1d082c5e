------------------------------ MODULE Vec0Knn ------------------------------
(***************************************************************************)
(* The nearest-neighbour query of a vec0 table: for each chunk of the      *)
(* partition the candidates are filtered, the k nearest of them are picked *)
(* and merged with what the chunks before gave (sqlite-vec.c, vec0Filter). *)
(***************************************************************************)
EXTENDS Vec0, FiniteSets

Unbounded == -2

\* A query asks for the k nearest rows of a partition, whose rowid is in ids, whose text
\* stands in the relation op to text ("any": no such constraint) and whose distance is at most
\* within (Unbounded: no such constraint).
Query(p, k, ids, op, text, within) ==
  [partition |-> p, k |-> k, ids |-> ids, op |-> op, text |-> text, within |-> within]

\* Comparisons of f32: false as soon as one side is NaN.
Leq(a, b) == a # NaN /\ b # NaN /\ a <= b
Allows(within, d) == within = Unbounded \/ Leq(d, within)

Least(S, m) == m \in S /\ \A n \in S : m <= n

-----------------------------------------------------------------------------
(* The metadata filter: the candidates of a chunk, or an error. *)

Smaller(a, b) == IF a < b THEN a ELSE b

\* strncmp(a, b, n) < 0 and = 0: the shorter of two texts that agree is the smaller.
Before(a, b, n) ==
  \E i \in 1 .. Smaller(n, Len(b)) :
    /\ \A j \in 1 .. i - 1 : j <= Len(a) /\ a[j] = b[j]
    /\ i > Len(a) \/ a[i] < b[i]
SameUpTo(a, b, n) == ~Before(a, b, n) /\ ~Before(b, a, n)

SamePrefix(view, t) == SameUpTo(view.prefix, t, Smaller(view.len, ViewLength))

\* vec0_get_metadata_text_long_value is called for a view.  Equality asks for it when length and
\* prefix agree, and the order for every view of at least ViewLength characters.
ConsultsFull(view, op, t) ==
  CASE op \in {"eq", "ne"} -> view.len = Len(t) /\ IsLong(view) /\ SamePrefix(view, t)
    [] op = "lt"           -> view.len >= ViewLength
    [] op = "any"          -> FALSE

FullText(s) == longTexts[rowids[s]]
HasFullText(s) ==
  rowids[s] # 0 /\ FullText(s) # NoText /\ Len(FullText(s)) = views[s].len

FilterFails(c, op, t) ==
  \E o \in Offsets : ConsultsFull(views[<<c, o>>], op, t) /\ ~HasFullText(<<c, o>>)

TextEquals(s, op, t) ==
  /\ views[s].len = Len(t) /\ SamePrefix(views[s], t)
  /\ ConsultsFull(views[s], op, t) => SameUpTo(FullText(s), t, Len(FullText(s)))

TextBefore(s, op, t) ==
  LET v == views[s]
      n == Smaller(Smaller(v.len, ViewLength), Len(t))
  IN IF ConsultsFull(v, op, t)
     THEN Before(FullText(s), t, Len(FullText(s)))
     ELSE Before(v.prefix, t, n) \/ (SameUpTo(v.prefix, t, n) /\ v.len < Len(t))

TextFilter(s, op, t) ==
  CASE op = "any" -> TRUE
    [] op = "eq"  -> TextEquals(s, op, t)
    [] op = "ne"  -> ~TextEquals(s, op, t)
    [] op = "lt"  -> TextBefore(s, op, t)

\* The filters are evaluated on every slot, and the bitmaps are intersected.
Candidates(c, q) ==
  {o \in Offsets : <<c, o>> \in valid /\ rowids[<<c, o>>] \in q.ids
                     /\ TextFilter(<<c, o>>, q.op, q.text) /\ Allows(q.within, vectors[<<c, o>>])}

-----------------------------------------------------------------------------
(* The k nearest of a chunk, and the merge with those of the chunks before. *)

\* One pass of min_idx: start at the first candidate, and move to every later one that is
\* no farther than the best so far.
Nearest(c, candidates) ==
  LET scan[i \in -1 .. ChunkSize - 1] ==
        IF i = -1 THEN CHOOSE m \in candidates : Least(candidates, m)
        ELSE IF i \in candidates /\ Leq(vectors[<<c, i>>], vectors[<<c, scan[i - 1]>>])
             THEN i ELSE scan[i - 1]
  IN scan[ChunkSize - 1]

min_idx(c, candidates, k) ==
  LET pick[n \in 0 .. k] ==
        IF n = 0 THEN <<>>
        ELSE LET left == candidates \ {pick[n - 1][i] : i \in 1 .. Len(pick[n - 1])}
             IN IF left = {} THEN pick[n - 1] ELSE Append(pick[n - 1], Nearest(c, left))
  IN pick[k]

Hit(c, o) == [rowid |-> rowids[<<c, o>>], distance |-> vectors[<<c, o>>]]

\* Mutant: one element of the merged list is dropped when both lists are long enough.
merge_sorted_lists_Short(a, b, k) ==
  LET step[n \in 0 .. k] ==
        IF n = 0 THEN [ptrA |-> 1, ptrB |-> 1, out |-> <<>>]
        ELSE LET s == step[n - 1]
             IN CASE s.ptrA > Len(a) \/ s.ptrB > Len(b) -> s
                  [] Leq(a[s.ptrA].distance, b[s.ptrB].distance) ->
                       [s EXCEPT !.ptrA = @ + 1, !.out = Append(@, a[s.ptrA])]
                  [] OTHER -> [s EXCEPT !.ptrB = @ + 1, !.out = Append(@, b[s.ptrB])]
  IN IF a = <<>> THEN SubSeq(b, 1, Smaller(k, Len(b))) ELSE step[k].out

merge_sorted_lists(a, b, k) ==
  LET step[n \in 0 .. k] ==
        IF n = 0 THEN [ptrA |-> 1, ptrB |-> 1, out |-> <<>>]
        ELSE LET s == step[n - 1]
                 takeA == [s EXCEPT !.ptrA = @ + 1, !.out = Append(@, a[s.ptrA])]
                 takeB == [s EXCEPT !.ptrB = @ + 1, !.out = Append(@, b[s.ptrB])]
             IN CASE s.ptrA > Len(a) /\ s.ptrB > Len(b) -> s
                  [] s.ptrA > Len(a) /\ s.ptrB <= Len(b) -> takeB
                  [] s.ptrA <= Len(a) /\ s.ptrB > Len(b) -> takeA
                  [] OTHER -> IF Leq(a[s.ptrA].distance, b[s.ptrB].distance) THEN takeA ELSE takeB
  IN step[k].out

\* The chunks of the partition in the order of their ids.
vec0Filter_knn(q) ==
  LET upTo[c \in 0 .. MaxChunks] ==
        IF c = 0 THEN <<>>
        ELSE IF c \notin ChunksOf(q.partition) THEN upTo[c - 1]
        ELSE LET top == min_idx(c, Candidates(c, q), Smaller(q.k, ChunkSize))
             IN merge_sorted_lists(upTo[c - 1], [i \in DOMAIN top |-> Hit(c, top[i])], q.k)
  IN upTo[MaxChunks]

KnnFails(q) == \E c \in ChunksOf(q.partition) : FilterFails(c, q.op, q.text)
=============================================================================
