------------------------------- MODULE MCVec0 -------------------------------
(***************************************************************************)
(* A small instance of the vec0 table for TLC.                             *)
(***************************************************************************)
EXTENDS Vec0KnnProps

\* With views of one character: a text that fills the view, and a long one with the same view.
MCTexts == {<<2>>, <<2, 1>>}
\* What a query compares them with: each of them, and a long text of which only the view is there.
MCQueryTexts == MCTexts \cup {<<2, 2>>}

\* The nearest of a partition; of one rowid less and within a bound on the distance; with a
\* constraint on the text; and a partition that no key equals.
MCQueries ==
  LET Keys == Partitions \ {Null}
  IN {Query(p, k, Rowids, "any", <<>>, Unbounded) : p \in Keys, k \in {1, 2}}
       \cup {Query(p, k, Rowids \ {1}, "any", <<>>, 1) : p \in Keys, k \in {1, 2}}
       \cup {Query(p, 3, Rowids, op, t, Unbounded) : p \in Keys, op \in {"eq", "ne"}, t \in MCQueryTexts}
       \cup {Query(Null, 3, Rowids, "any", <<>>, Unbounded)}
=============================================================================
