----------------------------- MODULE Vec0Props -----------------------------
(***************************************************************************)
(* What the shadow tables of a vec0 table must keep to each other.         *)
(***************************************************************************)
EXTENDS Vec0

CONSTANT NoRow   \* no row of a rowid

ASSUME NoRowAssumption ==
  \A p \in Partitions, v \in Vectors, t \in Texts, a \in Auxes :
    NoRow # [partition |-> p, vector |-> v, text |-> t, aux |-> a]

Live(r) == rows[r] # NoSlot

\* Every row of _rowids owns a slot whose validity bit is set and whose entry of the rowids
\* blob names it, and no validity bit is set for anything else: no two rows share a slot, no
\* slot is lost or leaks, whatever was deleted, inserted again and left behind (sqlite-vec.c,
\* vec0Update_InsertNextAvailableStep and vec0Update_Delete).
SlotsMatchRows ==
  /\ \A r \in Rowids : Live(r) => rows[r] \in valid /\ rowids[rows[r]] = r
  /\ \A s \in valid : s[1] <= chunks /\ rowids[s] \in Rowids /\ rows[rowids[s]] = s

\* As long as no clearing is lost, no long text outlives its row or its length
\* (vec0Update_Delete_ClearMetadata, vec0_write_metadata_value).
NoOrphanTexts ==
  lost = 0 =>
    \A r \in Rowids : longTexts[r] # NoText => Live(r) /\ IsLong(views[rows[r]])

\* The readers of the table (vec0_get_vector_data, vec0_result_metadata_value_for_rowid, ...)
\* see a map from rowids to rows, of which a statement changes one row.
TableRow(r) == IF Live(r) THEN ReadRow(r) ELSE NoRow

Table == INSTANCE VectorTable WITH table <- [r \in Rowids |-> TableRow(r)]

IsVectorTable == Table!Spec

\* The row an INSERT was given is the row that is read (vec0Update_Insert): in particular it is
\* in a chunk of its partition, and has no text left over from an earlier row of its slot or rowid.
InsertedRowIsRead ==
  [][\A r \in Rowids : ~Live(r) /\ Live(r)' =>
       \A p \in Partitions, v \in Vectors, t \in Texts, a \in Auxes :
         InsertRow(r, rows'[r], p, v, t, a) =>
           TableRow(r)' = [partition |-> p, vector |-> v, text |-> t, aux |-> a]]_vars
=============================================================================
