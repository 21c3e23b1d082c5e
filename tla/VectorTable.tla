---------------------------- MODULE VectorTable ----------------------------
(***************************************************************************)
(* What a vec0 table promises: a map from rowids to rows.  An INSERT adds  *)
(* the row it was given, a DELETE removes one row, an UPDATE changes       *)
(* columns of one row, and nothing else about the others.                  *)
(***************************************************************************)
CONSTANTS Rowids, Partitions, Vectors, Texts, Auxes, NoRow

VARIABLE table

Rows == [partition : Partitions, vector : Vectors, text : Texts, aux : Auxes]

Init == table = [r \in Rowids |-> NoRow]

Insert(r) ==
  /\ table[r] = NoRow
  /\ table'[r] \in Rows

Delete(r) ==
  /\ table[r] # NoRow
  /\ table'[r] = NoRow

Update(r) ==
  /\ table[r] # NoRow
  /\ table'[r] \in Rows /\ table'[r].partition = table[r].partition

Next ==
  \E r \in Rowids :
    /\ \A o \in Rowids \ {r} : table'[o] = table[o]
    /\ Insert(r) \/ Delete(r) \/ Update(r)

Spec == Init /\ [][Next]_table
=============================================================================
