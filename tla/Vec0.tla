-------------------------------- MODULE Vec0 --------------------------------
(***************************************************************************)
(* The vec0 virtual table of sqlite-vec that holds the embeddings: its     *)
(* shadow tables and the statements that change them.  A row lives in a    *)
(* slot of a chunk of its partition; deleting a row clears a validity bit  *)
(* and its metadata, and leaves the slot's rowid and vector behind.        *)
(*                                                                         *)
(* The table is the one storage/vector_store.rs creates: one vector        *)
(* column, a partition key (its three columns as one value), the metadata  *)
(* column language and the auxiliary column chunk_id.  A statement that    *)
(* fails leaves no trace: the caller drops the transaction.  A vector is   *)
(* its distance to one query vector.                                       *)
(***************************************************************************)
EXTENDS Integers, Sequences

CONSTANTS
  Rowids,        \* the values an INTEGER primary key takes here
  Partitions, Null,   \* partition keys; Null is SQL's NULL and may be among them
  Vectors,       \* inserted vectors, each as its distance to the query vector
  Texts,         \* values of the metadata column, sequences of characters
  Auxes, NoAux,  \* values of the auxiliary column, and the absence of its row
  Columns,       \* columns an UPDATE may give a value
  ViewLength,    \* VEC0_METADATA_TEXT_VIEW_DATA_LENGTH
  ChunkSize,     \* slots of a chunk
  MaxChunks,     \* bound: chunks
  MaxLost        \* bound: deletions whose clearing of the metadata fails

NaN == -1        \* 0/0, the cosine distance of the zero vector
NoText == <<-1>> \* no row in the table of long texts

ASSUME RowidsAssumption == Rowids \subseteq Nat \ {0}
ASSUME VectorsAssumption == Vectors \subseteq Nat \cup {NaN}
ASSUME TextsAssumption == \A t \in Texts : t \in Seq(Nat)
ASSUME SizesAssumption == ChunkSize \in Nat \ {0} /\ MaxChunks \in Nat /\ ViewLength \in Nat
ASSUME NoAuxAssumption == NoAux \notin Auxes
ASSUME ColumnsAssumption == Columns \subseteq {"vector", "text", "aux"}
ASSUME LostAssumption == MaxLost \in Nat

VARIABLES
  rows,       \* _rowids: the slot of a rowid
  lastRowid,  \* sqlite_sequence of _rowids
  chunks,     \* _chunks: ids 1 .. chunks, never deleted
  partition,  \* _chunks.partition00
  valid,      \* _chunks.validity: the slots whose bit is set
  rowids,     \* _chunks.rowids
  vectors,    \* _vector_chunks00
  views,      \* _metadatachunks00
  longTexts,  \* _metadatatext00
  aux,        \* _auxiliary
  lost        \* counter of the bound

vars == <<rows, lastRowid, chunks, partition, valid, rowids, vectors, views, longTexts, aux, lost>>

Chunks  == 1 .. MaxChunks
Offsets == 0 .. ChunkSize - 1
Slots   == Chunks \X Offsets
NoSlot  == <<0, 0>>
ClearOutcomes == {"done", "kept", "text_kept"}

\* What a metadata chunk holds of a text: its length and its first characters.
View(t) == [len |-> Len(t), prefix |-> SubSeq(t, 1, IF Len(t) < ViewLength THEN Len(t) ELSE ViewLength)]
NoView  == View(<<>>)
IsLong(v) == v.len > ViewLength

Init ==
  /\ rows = [r \in Rowids |-> NoSlot] /\ lastRowid = 0
  /\ chunks = 0 /\ partition = [c \in Chunks |-> Null]
  /\ valid = {} /\ rowids = [s \in Slots |-> 0]
  /\ vectors = [s \in Slots |-> NaN] /\ views = [s \in Slots |-> NoView]
  /\ longTexts = [r \in Rowids |-> NoText] /\ aux = [r \in Rowids |-> NoAux]
  /\ lost = 0

-----------------------------------------------------------------------------
(* Where a new row goes. *)

\* Mutant: the WHERE clause on the partition is forgotten.
ChunksOf_Any(p) == 1 .. chunks
\* partition00 = ? holds of no chunk when the key is NULL.
ChunksOf(p) == {c \in 1 .. chunks : partition[c] = p /\ p # Null}

IsLatest(c, p) == c \in ChunksOf(p) /\ \A d \in ChunksOf(p) : d <= c
IsFirstFree(s) == s \notin valid /\ \A o \in 0 .. s[2] - 1 : <<s[1], o>> \in valid

\* Mutant: a full chunk is not noticed, and its first slot is taken.
IsNextAvailable_Full(s, p) ==
  IF \E c \in Chunks : IsLatest(c, p)
  THEN IsLatest(s[1], p) /\ (IsFirstFree(s) \/ s[2] = 0)
  ELSE s = <<chunks + 1, 0>>

\* The first clear bit of the latest chunk of the partition; a new chunk when there is none.
IsNextAvailable(s, p) ==
  IF \E f \in Slots : IsLatest(f[1], p) /\ IsFirstFree(f)
  THEN IsLatest(s[1], p) /\ IsFirstFree(s)
  ELSE s = <<chunks + 1, 0>>

\* vec0_new_chunk, when the slot is not in a chunk yet.
NewChunk(c, p) ==
  /\ chunks' = IF c > chunks THEN c ELSE chunks
  /\ partition' = IF c > chunks THEN [partition EXCEPT ![c] = p] ELSE partition

\* Mutant: an update writes the view only.
WriteText_ViewOnly(r, s, t, isUpdate) ==
  /\ views' = [views EXCEPT ![s] = View(t)]
  /\ longTexts' = IF isUpdate THEN longTexts
                  ELSE [longTexts EXCEPT ![r] = IF IsLong(View(t)) THEN t ELSE NoText]

\* The view is written; the table of long texts follows from the lengths before and after.
\* An INSERT of a long text whose row exists violates the primary key, and the statement fails.
WriteText(r, s, t, isUpdate) ==
  LET updates == isUpdate /\ IsLong(views[s])
  IN /\ views' = [views EXCEPT ![s] = View(t)]
     /\ IF IsLong(View(t))
        THEN /\ updates \/ longTexts[r] = NoText
             /\ longTexts' = IF updates /\ longTexts[r] = NoText
                             THEN longTexts
                             ELSE [longTexts EXCEPT ![r] = t]
        ELSE longTexts' = IF IsLong(views[s]) THEN [longTexts EXCEPT ![r] = NoText] ELSE longTexts

-----------------------------------------------------------------------------
(* The statements. *)

\* The rowid is the caller's, or the next of the AUTOINCREMENT.
InsertRow(r, s, p, v, t, a) ==
  /\ rows[r] = NoSlot /\ aux[r] = NoAux
  /\ IsNextAvailable(s, p)
  /\ NewChunk(s[1], p)
  /\ valid' = valid \cup {s}
  /\ vectors' = [vectors EXCEPT ![s] = v]
  /\ rowids' = [rowids EXCEPT ![s] = r]
  /\ rows' = [rows EXCEPT ![r] = s]
  /\ lastRowid' = IF r > lastRowid THEN r ELSE lastRowid
  /\ aux' = [aux EXCEPT ![r] = a]
  /\ WriteText(r, s, t, FALSE)
  /\ UNCHANGED lost

Insert(s, p, v, t, a) == lastRowid + 1 \in Rowids /\ InsertRow(lastRowid + 1, s, p, v, t, a)

InsertRowid(r, s, p, v, t, a) == InsertRow(r, s, p, v, t, a)

\* The check shifts the byte of the bitmap without masking: any later bit of it passes too.
ValidityCheck(s) ==
  \E o \in Offsets : o >= s[2] /\ o \div 8 = s[2] \div 8 /\ <<s[1], o>> \in valid

\* Mutant: the long text of a deleted row is forgotten.
ClearMetadata_KeepsText(r, s, outcome) ==
  /\ views' = IF outcome = "kept" THEN views ELSE [views EXCEPT ![s] = NoView]
  /\ longTexts' = longTexts

\* The result of the clearing is not looked at: it may stop before the view is written or before
\* the long text is deleted, and the row is deleted all the same.
ClearMetadata(r, s, outcome) ==
  /\ views' = IF outcome = "kept" THEN views ELSE [views EXCEPT ![s] = NoView]
  /\ longTexts' = IF outcome = "done" /\ IsLong(views[s])
                  THEN [longTexts EXCEPT ![r] = NoText] ELSE longTexts

Delete(r, outcome) ==
  LET s == rows[r]
  IN /\ s # NoSlot /\ ValidityCheck(s)
     /\ valid' = valid \ {s}
     /\ rows' = [rows EXCEPT ![r] = NoSlot]
     /\ aux' = [aux EXCEPT ![r] = NoAux]
     /\ ClearMetadata(r, s, outcome)
     /\ lost' = IF outcome = "done" THEN lost ELSE lost + 1
     /\ lost' <= MaxLost
     /\ UNCHANGED <<lastRowid, chunks, partition, rowids, vectors>>

\* A partition key cannot be updated; the columns of cols are given, the others are unchanged.
Update(r, cols, v, t, a) ==
  LET s == rows[r]
  IN /\ s # NoSlot
     /\ aux' = IF "aux" \in cols THEN [aux EXCEPT ![r] = a] ELSE aux
     /\ IF "text" \in cols THEN WriteText(r, s, t, TRUE) ELSE UNCHANGED <<views, longTexts>>
     /\ vectors' = IF "vector" \in cols THEN [vectors EXCEPT ![s] = v] ELSE vectors
     /\ UNCHANGED <<rows, lastRowid, chunks, partition, valid, rowids, lost>>

Next ==
  \/ \E p \in Partitions, s \in Slots : IsNextAvailable(s, p) /\
       \E v \in Vectors, t \in Texts, a \in Auxes :
         Insert(s, p, v, t, a) \/ \E r \in Rowids : InsertRowid(r, s, p, v, t, a)
  \/ \E r \in Rowids, outcome \in ClearOutcomes : Delete(r, outcome)
  \/ \E r \in Rowids, cols \in SUBSET Columns, v \in Vectors, t \in Texts, a \in Auxes :
       Update(r, cols, v, t, a)

Vec0Spec == Init /\ [][Next]_vars

-----------------------------------------------------------------------------
(* How the columns of a row are read. *)

TextOf(r) == IF IsLong(views[rows[r]]) THEN longTexts[r] ELSE views[rows[r]].prefix

ReadRow(r) ==
  [partition |-> partition[rows[r][1]], vector |-> vectors[rows[r]], text |-> TextOf(r), aux |-> aux[r]]
=============================================================================
