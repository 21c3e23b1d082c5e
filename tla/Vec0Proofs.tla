------------------------------ MODULE Vec0Proofs ------------------------------
(***************************************************************************)
(* The shadow tables of a vec0 table describe one another and implement a  *)
(* map from rowids to rows, for every number and size of chunks, every set *)
(* of rowids, partitions, vectors and texts, and every number of deletions *)
(* that lose the clearing of their metadata; and a nearest-neighbour query *)
(* answers the k nearest of the rows that satisfy it.                      *)
(***************************************************************************)
EXTENDS Vec0KnnProps, SequenceTheorems, FiniteSetTheorems, WellFoundedInduction, TLAPS

\* The part of the types the proofs need.
TableTypes ==
  /\ rows \in [Rowids -> Slots \cup {NoSlot}]
  /\ lastRowid \in Nat
  /\ chunks \in 0 .. MaxChunks /\ partition \in [Chunks -> Partitions \cup {Null}]
  /\ valid \in SUBSET Slots /\ rowids \in [Slots -> Rowids \cup {0}]
  /\ vectors \in [Slots -> Vectors \cup {NaN}]
  /\ DOMAIN views = Slots
  /\ lost \in Nat
  /\ longTexts \in [Rowids -> Texts \cup {NoText}] /\ aux \in [Rowids -> Auxes \cup {NoAux}]

\* The columns of a row are read as values of their kinds: in particular a view of a long text has
\* its row in the table of long texts, even after deletions that lost part of their clearing.
RowsAreRead == \A r \in Rowids : Live(r) => ReadRow(r) \in Table!Rows

IInv == TableTypes /\ SlotsMatchRows /\ NoOrphanTexts /\ RowsAreRead

-----------------------------------------------------------------------------
(* Where an INSERT goes. *)

LEMMA SlotIsASlot == \A s \in Slots : s # NoSlot /\ s[1] \in Chunks /\ s = <<s[1], s[2]>>
  BY SizesAssumption DEF Slots, NoSlot, Chunks, Offsets

\* The slot a row is inserted into is free, in the latest chunk or in a new one.
LEMMA FreeSlot ==
  ASSUME TableTypes, SlotsMatchRows, NEW s \in Slots, NEW p \in Partitions, IsNextAvailable(s, p)
  PROVE  /\ s \notin valid
         /\ \/ s[1] \in 1 .. chunks /\ partition[s[1]] = p
            \/ s[1] = chunks + 1
<1>1. CASE \E f \in Slots : IsLatest(f[1], p) /\ IsFirstFree(f)
  BY <1>1 DEF IsNextAvailable, IsLatest, IsFirstFree, ChunksOf
<1>2. CASE ~\E f \in Slots : IsLatest(f[1], p) /\ IsFirstFree(f)
  <2>1. s = <<chunks + 1, 0>>
    BY <1>2 DEF IsNextAvailable
  <2>2. s[1] = chunks + 1
    BY <2>1
  <2>3. s \in valid => s[1] <= chunks
    BY DEF SlotsMatchRows
  <2>4. QED
    BY <2>2, <2>3 DEF TableTypes
<1>3. QED
  BY <1>1, <1>2

\* A live row has a slot of its own, in a chunk that exists.
LEMMA OwnSlot ==
  ASSUME TableTypes, SlotsMatchRows, NEW r \in Rowids, Live(r)
  PROVE  /\ rows[r] \in Slots /\ rows[r] \in valid /\ rows[r][1] \in 1 .. chunks
         /\ \A o \in Rowids : Live(o) /\ o # r => rows[o] # rows[r]
<1>1. rows[r] \in Slots /\ rows[r] \in valid /\ rowids[rows[r]] = r
  BY DEF TableTypes, SlotsMatchRows, Live
<1>2. rows[r][1] \in 1 .. chunks
  BY <1>1, SlotIsASlot DEF SlotsMatchRows, TableTypes, Chunks
<1>3. QED
  BY <1>1, <1>2 DEF SlotsMatchRows, Live

-----------------------------------------------------------------------------
(* The steps. *)

Inserting(r, s, p, v, t, a) ==
  /\ r \in Rowids /\ s \in Slots /\ p \in Partitions /\ v \in Vectors /\ t \in Texts /\ a \in Auxes
  /\ InsertRow(r, s, p, v, t, a)

Updating(r, cols, v, t, a) ==
  /\ r \in Rowids /\ cols \in SUBSET Columns /\ v \in Vectors /\ t \in Texts /\ a \in Auxes
  /\ Update(r, cols, v, t, a)

LEMMA NextCases ==
  ASSUME Next
  PROVE  \/ \E r, s, p, v, t, a : Inserting(r, s, p, v, t, a)
         \/ \E r \in Rowids, outcome \in ClearOutcomes : Delete(r, outcome)
         \/ \E r, cols, v, t, a : Updating(r, cols, v, t, a)
  BY DEF Next, Insert, InsertRowid, Inserting, Updating

LEMMA InsertTypes ==
  ASSUME TableTypes, NEW r, NEW s, NEW p, NEW v, NEW t, NEW a, Inserting(r, s, p, v, t, a)
  PROVE  TableTypes'
<1>. USE RowidsAssumption, SizesAssumption DEF TableTypes, Inserting, InsertRow
<1>1. s[1] \in Chunks
  BY SlotIsASlot
<1>2. chunks' \in 0 .. MaxChunks /\ partition' \in [Chunks -> Partitions \cup {Null}]
  BY <1>1 DEF NewChunk, Chunks
<1>3. rows' \in [Rowids -> Slots \cup {NoSlot}] /\ rowids' \in [Slots -> Rowids \cup {0}]
  OBVIOUS
<1>4. lastRowid' \in Nat /\ lost' \in Nat /\ valid' \in SUBSET Slots
  OBVIOUS
<1>5. vectors' \in [Slots -> Vectors \cup {NaN}] /\ aux' \in [Rowids -> Auxes \cup {NoAux}]
  OBVIOUS
<1>6. DOMAIN views' = Slots /\ longTexts' \in [Rowids -> Texts \cup {NoText}]
  BY DEF WriteText
<1>7. QED
  BY <1>2, <1>3, <1>4, <1>5, <1>6

LEMMA DeleteTypes ==
  ASSUME TableTypes, NEW r \in Rowids, NEW outcome, Delete(r, outcome)
  PROVE  TableTypes'
<1>. USE DEF TableTypes, Delete
<1>1. rows' \in [Rowids -> Slots \cup {NoSlot}] /\ lost' \in Nat /\ valid' \in SUBSET Slots
  OBVIOUS
<1>2. DOMAIN views' = Slots /\ longTexts' \in [Rowids -> Texts \cup {NoText}]
  BY DEF ClearMetadata
<1>3. QED
  BY <1>1, <1>2

LEMMA UpdateTypes ==
  ASSUME TableTypes, NEW r, NEW cols, NEW v, NEW t, NEW a, Updating(r, cols, v, t, a)
  PROVE  TableTypes'
<1>. USE DEF TableTypes, Updating, Update
<1>1. vectors' \in [Slots -> Vectors \cup {NaN}] /\ aux' \in [Rowids -> Auxes \cup {NoAux}]
  OBVIOUS
<1>2. DOMAIN views' = Slots /\ longTexts' \in [Rowids -> Texts \cup {NoText}]
  BY DEF WriteText
<1>3. QED
  BY <1>1, <1>2

LEMMA InsertSlots ==
  ASSUME TableTypes, SlotsMatchRows,
         NEW r, NEW s, NEW p, NEW v, NEW t, NEW a, Inserting(r, s, p, v, t, a)
  PROVE  SlotsMatchRows'
<1>. USE DEF Inserting, InsertRow
<1>1. s \notin valid /\ (s[1] \in 1 .. chunks \/ s[1] = chunks + 1)
  BY FreeSlot
<1>2. s # NoSlot /\ s[1] <= chunks' /\ chunks <= chunks'
  BY <1>1, SlotIsASlot DEF NewChunk, TableTypes
<1>3. ASSUME NEW o \in Rowids, Live(o)' PROVE rows'[o] \in valid' /\ rowids'[rows'[o]] = o
  <2>1. CASE o = r
    BY <2>1 DEF TableTypes
  <2>2. CASE o # r
    BY <1>1, <1>3, <2>2, OwnSlot DEF TableTypes, SlotsMatchRows, Live
  <2>3. QED
    BY <2>1, <2>2
<1>4. ASSUME NEW z \in valid' PROVE z[1] <= chunks' /\ rowids'[z] \in Rowids /\ rows'[rowids'[z]] = z
  <2>1. CASE z = s
    BY <1>2, <2>1 DEF TableTypes
  <2>2. CASE z # s
    <3>1. z \in valid /\ z[1] <= chunks /\ rowids'[z] = rowids[z] /\ rows[rowids[z]] = z
      BY <2>2, <1>4 DEF TableTypes, SlotsMatchRows
    <3>2. rowids[z] # r
      BY <3>1, SlotIsASlot DEF TableTypes
    <3>3. z[1] \in Chunks
      BY <3>1, SlotIsASlot DEF TableTypes
    <3>4. z[1] <= chunks'
      BY <1>1, <3>1, <3>3, SizesAssumption DEF TableTypes, NewChunk, Chunks
    <3>5. rowids[z] \in Rowids
      BY <3>1 DEF SlotsMatchRows
    <3>6. QED
      BY <3>1, <3>2, <3>4, <3>5 DEF TableTypes
  <2>3. QED
    BY <2>1, <2>2
<1>5. QED
  BY <1>3, <1>4 DEF SlotsMatchRows

LEMMA DeleteSlots ==
  ASSUME TableTypes, SlotsMatchRows, NEW r \in Rowids, NEW outcome, Delete(r, outcome)
  PROVE  SlotsMatchRows'
<1>1. Live(r) /\ rows' = [rows EXCEPT ![r] = NoSlot] /\ valid' = valid \ {rows[r]}
      /\ chunks' = chunks /\ rowids' = rowids
  BY DEF Delete, Live
<1>2. ASSUME NEW o \in Rowids, Live(o)' PROVE rows'[o] \in valid' /\ rowids'[rows'[o]] = o
  <2>1. o # r /\ rows'[o] = rows[o] /\ Live(o)
    BY <1>1, <1>2 DEF Live, TableTypes
  <2>2. QED
    BY <1>1, <2>1, OwnSlot DEF SlotsMatchRows
<1>3. ASSUME NEW z \in valid' PROVE z[1] <= chunks' /\ rowids'[z] \in Rowids /\ rows'[rowids'[z]] = z
  <2>1. z \in valid /\ z # rows[r] /\ rowids[z] # r
    BY <1>1, <1>3 DEF SlotsMatchRows
  <2>2. QED
    BY <1>1, <2>1 DEF SlotsMatchRows, TableTypes
<1>4. QED
  BY <1>2, <1>3 DEF SlotsMatchRows

LEMMA UpdateSlots ==
  ASSUME SlotsMatchRows, NEW r, NEW cols, NEW v, NEW t, NEW a, Updating(r, cols, v, t, a)
  PROVE  SlotsMatchRows'
  BY DEF SlotsMatchRows, Live, Updating, Update

-----------------------------------------------------------------------------
(* The long texts. *)

LEMMA InsertTexts ==
  ASSUME IInv, NEW r, NEW s, NEW p, NEW v, NEW t, NEW a, Inserting(r, s, p, v, t, a)
  PROVE  NoOrphanTexts'
<1>. USE DEF Inserting, InsertRow, IInv
<1>. SUFFICES ASSUME lost = 0, NEW o \in Rowids, longTexts'[o] # NoText
              PROVE  Live(o)' /\ IsLong(views'[rows'[o]])
  BY DEF NoOrphanTexts
<1>1. s \notin valid /\ s # NoSlot
  BY FreeSlot, SlotIsASlot
<1>2. CASE o = r
  <2>1. longTexts[r] = NoText
    BY DEF NoOrphanTexts, Live
  <2>2. IsLong(View(t)) /\ views'[s] = View(t)
    BY <1>2, <2>1 DEF WriteText, TableTypes
  <2>3. QED
    BY <1>1, <1>2, <2>2 DEF Live, TableTypes
<1>3. CASE o # r
  <2>1. longTexts[o] # NoText /\ rows'[o] = rows[o]
    BY <1>3 DEF WriteText, TableTypes
  <2>2. Live(o) /\ IsLong(views[rows[o]]) /\ rows[o] # s
    BY <1>1, <2>1, OwnSlot DEF NoOrphanTexts
  <2>3. views'[rows[o]] = views[rows[o]]
    BY <2>2, OwnSlot DEF WriteText, TableTypes
  <2>4. QED
    BY <2>1, <2>2, <2>3 DEF Live
<1>4. QED
  BY <1>2, <1>3

LEMMA DeleteTexts ==
  ASSUME IInv, NEW r \in Rowids, NEW outcome, Delete(r, outcome)
  PROVE  NoOrphanTexts'
<1>. USE DEF Delete, IInv
<1>. SUFFICES ASSUME lost' = 0, NEW o \in Rowids, longTexts'[o] # NoText
              PROVE  Live(o)' /\ IsLong(views'[rows'[o]])
  BY DEF NoOrphanTexts
<1>1. lost = 0 /\ outcome = "done" /\ Live(r)
  BY DEF TableTypes, Live
<1>2. longTexts[o] # NoText /\ o # r
  BY <1>1 DEF ClearMetadata, TableTypes, NoOrphanTexts
<1>3. Live(o) /\ IsLong(views[rows[o]]) /\ rows[o] \in Slots /\ rows[o] # rows[r]
  BY <1>1, <1>2, OwnSlot DEF NoOrphanTexts
<1>4. rows'[o] = rows[o] /\ views'[rows[o]] = views[rows[o]]
  BY <1>2, <1>3 DEF ClearMetadata, TableTypes
<1>5. QED
  BY <1>3, <1>4 DEF Live

LEMMA UpdateTexts ==
  ASSUME IInv, NEW r, NEW cols, NEW v, NEW t, NEW a, Updating(r, cols, v, t, a)
  PROVE  NoOrphanTexts'
<1>. USE DEF Updating, Update, IInv
<1>. SUFFICES ASSUME lost = 0, NEW o \in Rowids, longTexts'[o] # NoText
              PROVE  Live(o)' /\ IsLong(views'[rows'[o]])
  BY DEF NoOrphanTexts
<1>1. CASE "text" \notin cols
  BY <1>1 DEF NoOrphanTexts, Live
<1>2. CASE "text" \in cols
  <2>1. WriteText(r, rows[r], t, TRUE) /\ Live(r) /\ rows[r] \in Slots
    BY <1>2, OwnSlot DEF Live
  <2>2. CASE o = r
    BY <2>1, <2>2 DEF WriteText, TableTypes, NoOrphanTexts, Live
  <2>3. CASE o # r
    <3>1. longTexts[o] # NoText
      BY <2>1, <2>3 DEF WriteText, TableTypes
    <3>2. Live(o) /\ IsLong(views[rows[o]]) /\ rows[o] \in Slots /\ rows[o] # rows[r]
      BY <2>1, <2>3, <3>1, OwnSlot DEF NoOrphanTexts
    <3>3. views'[rows[o]] = views[rows[o]]
      BY <2>1, <3>2 DEF WriteText, TableTypes
    <3>4. QED
      BY <3>2, <3>3 DEF Live
  <2>4. QED
    BY <2>2, <2>3
<1>3. QED
  BY <1>1, <1>2

-----------------------------------------------------------------------------
(* What is read. *)

\* A text that fits the view is read from it.
LEMMA ShortText ==
  ASSUME NEW t \in Texts, ~IsLong(View(t))
  PROVE  View(t).prefix = t
<1>1. t \in Seq(Nat) /\ ~(Len(t) > ViewLength) /\ Len(t) \in Nat
  BY TextsAssumption DEF IsLong, View
<1>2. View(t).prefix = SubSeq(t, 1, Len(t))
  BY <1>1, SizesAssumption DEF View
<1>3. QED
  BY <1>1, <1>2, SubSeqFull

LEMMA TextIsAText == NoText \notin Texts
<1>1. ASSUME NoText \in Texts PROVE FALSE
  <2>1. <<-1>> \in Seq(Nat)
    BY <1>1, TextsAssumption DEF NoText
  <2>2. <<-1>>[1] \in Nat
    BY <2>1
  <2>3. QED
    BY <2>2
<1>2. QED
  BY <1>1

\* What is written is read, by an INSERT and by an UPDATE of a row whose text can be read.
LEMMA WrittenText ==
  ASSUME TableTypes, NEW r \in Rowids, NEW s \in Slots, NEW t \in Texts, NEW isUpdate \in BOOLEAN,
         WriteText(r, s, t, isUpdate), rows'[r] = s,
         isUpdate /\ IsLong(views[s]) => longTexts[r] # NoText
  PROVE  TextOf(r)' = t
<1>1. views'[s] = View(t)
  BY DEF WriteText, TableTypes
<1>2. CASE IsLong(View(t))
  <2>1. longTexts'[r] = t
    BY <1>2 DEF WriteText, TableTypes
  <2>2. QED
    BY <1>1, <1>2, <2>1 DEF TextOf
<1>3. CASE ~IsLong(View(t))
  BY <1>1, <1>3, ShortText DEF TextOf
<1>4. QED
  BY <1>2, <1>3

\* The row of an INSERT is read as it was given, and the other rows as before.
LEMMA InsertReads ==
  ASSUME IInv, NEW r, NEW s, NEW p, NEW v, NEW t, NEW a, Inserting(r, s, p, v, t, a)
  PROVE  /\ ~Live(r) /\ Live(r)'
         /\ ReadRow(r)' = [partition |-> p, vector |-> v, text |-> t, aux |-> a]
         /\ \A o \in Rowids : o # r => Live(o)' = Live(o) /\ (Live(o) => ReadRow(o)' = ReadRow(o))
<1>. USE DEF Inserting, InsertRow, IInv
<1>1. s \notin valid /\ s # NoSlot /\ s[1] \in Chunks
      /\ ((s[1] \in 1 .. chunks /\ partition[s[1]] = p) \/ s[1] = chunks + 1)
  BY FreeSlot, SlotIsASlot
<1>2. rows'[r] = s /\ ~Live(r) /\ Live(r)'
  BY <1>1 DEF Live, TableTypes
<1>3. partition'[s[1]] = p
  BY <1>1 DEF NewChunk, TableTypes
<1>4. TextOf(r)' = t
  BY <1>2, WrittenText
<1>5. vectors'[s] = v /\ aux'[r] = a
  BY DEF TableTypes
<1>6. ReadRow(r)' = [partition |-> p, vector |-> v, text |-> t, aux |-> a]
  BY <1>2, <1>3, <1>4, <1>5 DEF ReadRow
<1>7. ASSUME NEW o \in Rowids, o # r PROVE Live(o)' = Live(o) /\ (Live(o) => ReadRow(o)' = ReadRow(o))
  <2>1. rows'[o] = rows[o] /\ longTexts'[o] = longTexts[o] /\ aux'[o] = aux[o]
    BY <1>7 DEF TableTypes, WriteText
  <2>2. ASSUME Live(o) PROVE ReadRow(o)' = ReadRow(o)
    <3>1. rows[o] \in Slots /\ rows[o] # s /\ rows[o][1] \in 1 .. chunks
      BY <1>1, <2>2, OwnSlot
    <3>2. vectors'[rows[o]] = vectors[rows[o]] /\ views'[rows[o]] = views[rows[o]]
      BY <3>1 DEF TableTypes, WriteText
    <3>3. partition'[rows[o][1]] = partition[rows[o][1]]
      BY <1>1, <3>1 DEF NewChunk, TableTypes
    <3>4. TextOf(o)' = TextOf(o)
      BY <2>1, <3>2 DEF TextOf
    <3>5. QED
      BY <2>1, <3>2, <3>3, <3>4 DEF ReadRow
  <2>3. QED
    BY <2>1, <2>2 DEF Live
<1>8. QED
  BY <1>2, <1>6, <1>7

\* A DELETE takes one row away.
LEMMA DeleteReads ==
  ASSUME IInv, NEW r \in Rowids, NEW outcome, Delete(r, outcome)
  PROVE  /\ Live(r) /\ ~Live(r)'
         /\ \A o \in Rowids : o # r => Live(o)' = Live(o) /\ (Live(o) => ReadRow(o)' = ReadRow(o))
<1>. USE DEF Delete, IInv
<1>1. Live(r) /\ ~Live(r)'
  BY DEF Live, TableTypes
<1>2. ASSUME NEW o \in Rowids, o # r PROVE Live(o)' = Live(o) /\ (Live(o) => ReadRow(o)' = ReadRow(o))
  <2>1. rows'[o] = rows[o] /\ longTexts'[o] = longTexts[o] /\ aux'[o] = aux[o]
    BY <1>2 DEF TableTypes, ClearMetadata
  <2>2. ASSUME Live(o) PROVE ReadRow(o)' = ReadRow(o)
    <3>1. rows[o] \in Slots /\ rows[o] # rows[r]
      BY <1>1, <1>2, <2>2, OwnSlot
    <3>2. views'[rows[o]] = views[rows[o]]
      BY <3>1 DEF TableTypes, ClearMetadata
    <3>3. TextOf(o)' = TextOf(o)
      BY <2>1, <3>2 DEF TextOf
    <3>4. QED
      BY <2>1, <3>3 DEF ReadRow
  <2>3. QED
    BY <2>1, <2>2 DEF Live
<1>3. QED
  BY <1>1, <1>2

\* An UPDATE changes columns of one row, not its partition.
LEMMA UpdateReads ==
  ASSUME IInv, NEW r, NEW cols, NEW v, NEW t, NEW a, Updating(r, cols, v, t, a)
  PROVE  /\ Live(r) /\ Live(r)' /\ ReadRow(r)' \in Table!Rows
         /\ ReadRow(r)'.partition = ReadRow(r).partition
         /\ \A o \in Rowids : o # r => Live(o)' = Live(o) /\ (Live(o) => ReadRow(o)' = ReadRow(o))
<1>. USE DEF Updating, Update, IInv
<1>1. Live(r) /\ Live(r)' /\ rows' = rows /\ rows[r] \in Slots /\ ReadRow(r) \in Table!Rows
  BY OwnSlot DEF Live, RowsAreRead
<1>2. TextOf(r)' \in Texts
  <2>1. TextOf(r) \in Texts
    BY <1>1 DEF ReadRow, Table!Rows
  <2>2. IsLong(views[rows[r]]) => longTexts[r] # NoText
    BY <2>1, TextIsAText DEF TextOf
  <2>3. CASE "text" \in cols
    BY <1>1, <2>2, <2>3, WrittenText
  <2>4. CASE "text" \notin cols
    BY <2>1, <2>4 DEF TextOf
  <2>5. QED
    BY <2>3, <2>4
<1>3. vectors'[rows[r]] \in Vectors /\ aux'[r] \in Auxes
  BY <1>1 DEF ReadRow, Table!Rows, TableTypes
<1>4. partition'[rows[r][1]] = partition[rows[r][1]] /\ partition[rows[r][1]] \in Partitions
  BY <1>1 DEF ReadRow, Table!Rows
<1>5. ReadRow(r)' \in Table!Rows /\ ReadRow(r)'.partition = ReadRow(r).partition
  BY <1>1, <1>2, <1>3, <1>4 DEF ReadRow, Table!Rows
<1>6. ASSUME NEW o \in Rowids, o # r, Live(o) PROVE ReadRow(o)' = ReadRow(o)
  <2>1. rows[o] \in Slots /\ rows[o] # rows[r]
    BY <1>1, <1>6, OwnSlot
  <2>2. longTexts'[o] = longTexts[o] /\ aux'[o] = aux[o]
    BY <1>6 DEF TableTypes, WriteText
  <2>3. views'[rows[o]] = views[rows[o]] /\ vectors'[rows[o]] = vectors[rows[o]]
    BY <2>1 DEF TableTypes, WriteText
  <2>4. TextOf(o)' = TextOf(o)
    BY <1>1, <2>2, <2>3 DEF TextOf
  <2>5. QED
    BY <1>1, <2>2, <2>3, <2>4 DEF ReadRow
<1>7. QED
  BY <1>1, <1>5, <1>6 DEF Live

-----------------------------------------------------------------------------
(* The invariant and what follows from it. *)

LEMMA InvInit == Init => IInv
<1>. SUFFICES ASSUME Init PROVE IInv
  OBVIOUS
<1>1. TableTypes
  BY SizesAssumption DEF Init, TableTypes
<1>2. \A r \in Rowids : ~Live(r) /\ longTexts[r] = NoText
  <2> TAKE r \in Rowids
  <2>1. rows[r] = NoSlot /\ longTexts[r] = NoText
    BY DEF Init
  <2> QED BY <2>1 DEF Live
<1>3. QED
  BY <1>1, <1>2 DEF Init, IInv, SlotsMatchRows, NoOrphanTexts, RowsAreRead

LEMMA InvStep == IInv /\ [Next]_vars => IInv'
<1>. SUFFICES ASSUME IInv, [Next]_vars PROVE IInv'
  OBVIOUS
<1>1. CASE UNCHANGED vars
  BY <1>1 DEF vars, IInv, TableTypes, SlotsMatchRows, NoOrphanTexts, RowsAreRead, Live, ReadRow, TextOf
<1>2. ASSUME NEW r, NEW s, NEW p, NEW v, NEW t, NEW a, Inserting(r, s, p, v, t, a) PROVE IInv'
  <2>1. ReadRow(r)' \in Table!Rows
    BY <1>2, InsertReads DEF Table!Rows, Inserting
  <2>2. RowsAreRead'
    BY <1>2, <2>1, InsertReads DEF RowsAreRead, IInv
  <2>3. QED
    BY <1>2, <2>2, InsertTypes, InsertSlots, InsertTexts DEF IInv
<1>3. ASSUME NEW r \in Rowids, NEW outcome \in ClearOutcomes, Delete(r, outcome) PROVE IInv'
  <2>1. RowsAreRead'
    BY <1>3, DeleteReads DEF RowsAreRead, IInv
  <2>2. QED
    BY <1>3, <2>1, DeleteTypes, DeleteSlots, DeleteTexts DEF IInv
<1>4. ASSUME NEW r, NEW cols, NEW v, NEW t, NEW a, Updating(r, cols, v, t, a) PROVE IInv'
  <2>1. RowsAreRead'
    BY <1>4, UpdateReads DEF RowsAreRead, IInv
  <2>2. QED
    BY <1>4, <2>1, UpdateTypes, UpdateSlots, UpdateTexts DEF IInv
<1>5. QED
  BY <1>1, <1>2, <1>3, <1>4, NextCases

LEMMA Invariance == Vec0Spec => []IInv
  BY InvInit, InvStep, PTL DEF Vec0Spec

\* The slots, the validity bits, the rowids blob and _rowids describe one another.
THEOREM SlotsAndRowsMatch == Vec0Spec => []SlotsMatchRows
  BY Invariance, PTL DEF IInv

\* Without a lost clearing no long text outlives its row.
THEOREM NoTextIsOrphaned == Vec0Spec => []NoOrphanTexts
  BY Invariance, PTL DEF IInv

\* The row that was inserted is the row that is read.
THEOREM InsertsAreRead == Vec0Spec => InsertedRowIsRead
<1>. DEFINE Reads(r) == ~Live(r) /\ Live(r)' =>
              \A p \in Partitions, v \in Vectors, t \in Texts, a \in Auxes :
                InsertRow(r, rows'[r], p, v, t, a) =>
                  TableRow(r)' = [partition |-> p, vector |-> v, text |-> t, aux |-> a]
<1>1. ASSUME IInv, IInv', NEW r \in Rowids, ~Live(r), Live(r)',
             NEW p \in Partitions, NEW v \in Vectors, NEW t \in Texts, NEW a \in Auxes,
             InsertRow(r, rows'[r], p, v, t, a)
      PROVE  TableRow(r)' = [partition |-> p, vector |-> v, text |-> t, aux |-> a]
  <2>1. rows'[r] \in Slots
    BY <1>1 DEF IInv, TableTypes, Live
  <2>2. Inserting(r, rows'[r], p, v, t, a)
    BY <1>1, <2>1 DEF Inserting
  <2>3. QED
    BY <1>1, <2>2, InsertReads DEF TableRow
<1>2. IInv /\ IInv' /\ [Next]_vars => [\A r \in Rowids : Reads(r)]_vars
  BY <1>1
<1>3. QED
  BY <1>2, Invariance, PTL DEF Vec0Spec, InsertedRowIsRead

\* The shadow tables implement the map from rowids to rows.
THEOREM ImplementsTable == Vec0Spec => IsVectorTable
<1>. DEFINE table == [r \in Rowids |-> TableRow(r)]
<1>1. Init => Table!Init
  BY DEF Init, Table!Init, TableRow, Live
<1>2. NoRow \notin Table!Rows
  BY NoRowAssumption DEF Table!Rows
<1>3. IInv /\ [Next]_vars => [Table!Next]_table
  <2>. SUFFICES ASSUME IInv, [Next]_vars PROVE Table!Next \/ table' = table
    OBVIOUS
  <2>1. CASE UNCHANGED vars
    BY <2>1 DEF vars, TableRow, Live, ReadRow, TextOf
  <2>2. ASSUME NEW r, NEW s, NEW p, NEW v, NEW t, NEW a, Inserting(r, s, p, v, t, a)
        PROVE  Table!Next
    <3>1. r \in Rowids /\ table[r] = NoRow /\ table'[r] \in Table!Rows
      BY <2>2, InsertReads DEF TableRow, Table!Rows, Inserting
    <3>2. \A o \in Rowids \ {r} : table'[o] = table[o]
      BY <2>2, InsertReads DEF TableRow
    <3>3. QED
      BY <3>1, <3>2 DEF Table!Next, Table!Insert
  <2>3. ASSUME NEW r \in Rowids, NEW outcome \in ClearOutcomes, Delete(r, outcome)
        PROVE  Table!Next
    <3>1. table[r] # NoRow /\ table'[r] = NoRow
      BY <1>2, <2>3, DeleteReads DEF TableRow, IInv, RowsAreRead
    <3>2. \A o \in Rowids \ {r} : table'[o] = table[o]
      BY <2>3, DeleteReads DEF TableRow
    <3>3. QED
      BY <3>1, <3>2 DEF Table!Next, Table!Delete
  <2>4. ASSUME NEW r, NEW cols, NEW v, NEW t, NEW a, Updating(r, cols, v, t, a)
        PROVE  Table!Next
    <3>1. r \in Rowids /\ table[r] # NoRow
      BY <1>2, <2>4, UpdateReads DEF TableRow, IInv, RowsAreRead, Updating
    <3>2. table'[r] \in Table!Rows /\ table'[r].partition = table[r].partition
      BY <2>4, <3>1, UpdateReads DEF TableRow
    <3>3. \A o \in Rowids \ {r} : table'[o] = table[o]
      BY <2>4, UpdateReads DEF TableRow
    <3>4. QED
      BY <3>1, <3>2, <3>3 DEF Table!Next, Table!Update
  <2>5. QED
    BY <2>1, <2>2, <2>3, <2>4, NextCases
<1>4. QED
  BY <1>1, <1>3, Invariance, PTL DEF Vec0Spec, IsVectorTable, Table!Spec

-----------------------------------------------------------------------------
(* Induction on numbers, by the least counterexample. *)

LEMMA LeastNumber ==
  ASSUME NEW T, T \subseteq Nat, T # {}
  PROVE  \E m \in T : \A n \in T : m <= n
<1> DEFINE R == {ss \in Nat \X Nat : ss[1] < ss[2]}
<1>1. IsWellFoundedOn(R, Nat)
  BY NatLessThanWellFounded DEF OpToRel
<1> HIDE DEF R
<1>2. \E m \in T : \A n \in T : ~(<<n, m>> \in R)
  BY <1>1, WFMin
<1>3. PICK m \in T : \A n \in T : ~(<<n, m>> \in R)
  BY <1>2
<1>4. ASSUME NEW n \in T PROVE m <= n
  <2>1. n \in Nat /\ m \in Nat
    OBVIOUS
  <2>2. ~(n < m)
    <3> DEFINE p == <<n, m>>
    <3>1. p \in Nat \X Nat /\ p[1] = n /\ p[2] = m
      BY <2>1
    <3>2. p \notin R
      BY <1>3
    <3> QED BY <3>1, <3>2 DEF R
  <2> QED BY <2>1, <2>2
<1> QED BY <1>4

\* What holds of lo, and of n + 1 as soon as of n, holds up to hi.
LEMMA Reached ==
  ASSUME NEW lo \in Int, NEW hi \in Int, NEW T, lo \in T,
         \A n \in lo .. hi - 1 : n \in T => n + 1 \in T
  PROVE  lo .. hi \subseteq T
<1> DEFINE B == {m \in Nat : lo + m <= hi /\ lo + m \notin T}
<1>1. ASSUME B # {} PROVE FALSE
  <2>1. B \subseteq Nat
    OBVIOUS
  <2> HIDE DEF B
  <2>2. PICK m \in B : \A n \in B : m <= n
    BY <1>1, <2>1, LeastNumber
  <2> USE DEF B
  <2>3. m \in Nat /\ lo + m <= hi /\ lo + m \notin T /\ lo + 0 = lo
    OBVIOUS
  <2>4. m # 0
    BY <2>3
  <2>5. m - 1 \in Nat /\ lo + (m - 1) \in lo .. hi - 1 /\ ~(m <= m - 1)
    BY <2>3, <2>4
  <2>6. m - 1 \notin B
    BY <2>2, <2>5
  <2>7. lo + (m - 1) \in T
    BY <2>5, <2>6
  <2>8. (lo + (m - 1)) + 1 = lo + m
    BY <2>3
  <2> QED BY <2>3, <2>5, <2>7, <2>8
<1>2. ASSUME NEW n \in lo .. hi, n \notin T PROVE FALSE
  <2>1. n - lo \in Nat /\ lo + (n - lo) = n
    OBVIOUS
  <2>2. n - lo \in B
    BY <1>2, <2>1
  <2> QED BY <1>1, <2>2
<1> QED BY <1>2

\* Iterating a function: f[n] is got from f[n - 1], from an initial value on.
Iterates(f, lo, hi, S, init, F) ==
  /\ f \in [lo .. hi -> S] /\ f[lo] = init
  /\ \A n \in lo + 1 .. hi : f[n] = F[<<n, f[n - 1]>>]

LEMMA IterationExists ==
  ASSUME NEW lo \in Int, NEW hi \in Int, lo <= hi, NEW S, NEW init \in S,
         NEW F, \A n \in lo + 1 .. hi : \A x \in S : F[<<n, x>>] \in S
  PROVE  \E f : Iterates(f, lo, hi, S, init, F)
<1> DEFINE T == {m \in lo .. hi : \E f : Iterates(f, lo, m, S, init, F)}
<1>1. lo \in T
  <2> DEFINE e == [n \in lo .. lo |-> init]
  <2>1. lo .. lo = {lo} /\ lo + 1 .. lo = {}
    OBVIOUS
  <2>2. Iterates(e, lo, lo, S, init, F)
    BY <2>1 DEF Iterates
  <2> QED BY <2>2
<1>2. ASSUME NEW n \in lo .. hi - 1, n \in T PROVE n + 1 \in T
  <2>1. PICK f : Iterates(f, lo, n, S, init, F)
    BY <1>2
  <2> DEFINE g == [i \in lo .. n + 1 |-> IF i = n + 1 THEN F[<<n + 1, f[n]>>] ELSE f[i]]
  <2>2. n \in Int /\ lo <= n /\ n + 1 \in lo .. hi /\ n + 1 \in lo + 1 .. hi /\ n \in lo .. n
    OBVIOUS
  <2>3. f[n] \in S /\ F[<<n + 1, f[n]>>] \in S
    BY <2>1, <2>2 DEF Iterates
  <2>4. ASSUME NEW i \in lo .. n + 1, i # n + 1 PROVE i \in lo .. n
    BY <2>2, <2>4
  <2>5. \A i \in lo .. n : f[i] \in S
    BY <2>1 DEF Iterates
  <2>6. g \in [lo .. n + 1 -> S]
    BY <2>3, <2>4, <2>5
  <2>7. g[n + 1] = F[<<n + 1, f[n]>>] /\ \A i \in lo .. n : g[i] = f[i]
    BY <2>2
  <2> HIDE DEF g
  <2>8. g[lo] = init
    BY <2>1, <2>2, <2>7 DEF Iterates
  <2>9. ASSUME NEW i \in lo + 1 .. n + 1 PROVE g[i] = F[<<i, g[i - 1]>>]
    <3>1. CASE i = n + 1
      <4>1. i - 1 = n
        BY <3>1, <2>2
      <4> QED BY <3>1, <4>1, <2>2, <2>7
    <3>2. CASE i # n + 1
      <4>1. i \in lo + 1 .. n /\ i \in lo .. n /\ i - 1 \in lo .. n
        BY <3>2, <2>2
      <4>2. f[i] = F[<<i, f[i - 1]>>]
        BY <2>1, <4>1 DEF Iterates
      <4> QED BY <4>1, <4>2, <2>7
    <3> QED BY <3>1, <3>2
  <2>10. Iterates(g, lo, n + 1, S, init, F)
    BY <2>6, <2>8, <2>9 DEF Iterates
  <2> QED BY <2>2, <2>10
<1>3. hi \in lo .. hi
  OBVIOUS
<1>4. hi \in T
  <2> HIDE DEF T
  <2> QED BY <1>1, <1>2, <1>3, Reached
<1> QED BY <1>4

-----------------------------------------------------------------------------
(* The nearest of a set of candidates. *)

\* scan of Nearest: the best of the candidates up to slot i.
Scanning(scan, c, candidates) ==
  scan = [i \in -1 .. ChunkSize - 1 |->
            IF i = -1 THEN CHOOSE m \in candidates : Least(candidates, m)
            ELSE IF i \in candidates /\ Leq(vectors[<<c, i>>], vectors[<<c, scan[i - 1]>>])
                 THEN i ELSE scan[i - 1]]

LEMMA NearestScans ==
  ASSUME NEW c, NEW C, C \subseteq Offsets, C # {}
  PROVE  \E scan : Scanning(scan, c, C) /\ Nearest(c, C) = scan[ChunkSize - 1]
<1> DEFINE init == CHOOSE m \in C : Least(C, m)
           F == [x \in (0 .. ChunkSize - 1) \X C |->
                   IF x[1] \in C /\ Leq(vectors[<<c, x[1]>>], vectors[<<c, x[2]>>]) THEN x[1] ELSE x[2]]
           lo == -1
           hi == ChunkSize - 1
<1>1. C \subseteq Nat
  BY DEF Offsets
<1>2. \E m \in C : Least(C, m)
  BY <1>1, LeastNumber DEF Least
<1>3. init \in C
  BY <1>2
<1>4. \A n \in 0 .. ChunkSize - 1 : \A x \in C :
        F[<<n, x>>] = IF n \in C /\ Leq(vectors[<<c, n>>], vectors[<<c, x>>]) THEN n ELSE x
  OBVIOUS
<1>5. lo \in Int /\ hi \in Int /\ lo <= hi /\ lo + 1 .. hi = 0 .. ChunkSize - 1
  BY SizesAssumption
<1> HIDE DEF F, init
<1>6. \A n \in lo + 1 .. hi : \A x \in C : F[<<n, x>>] \in C
  <2>1. \A n \in 0 .. ChunkSize - 1 : \A x \in C : F[<<n, x>>] \in C
    <3> SUFFICES ASSUME NEW n \in 0 .. ChunkSize - 1, NEW x \in C PROVE F[<<n, x>>] \in C
      BY Zenon
    <3> QED BY <1>4
  <2>2. \A n \in lo + 1 .. hi : n \in 0 .. ChunkSize - 1
    OBVIOUS
  <2> HIDE DEF lo, hi
  <2> QED BY <2>1, <2>2, Zenon
<1>7. \E f : Iterates(f, lo, hi, C, init, F)
  <2> HIDE DEF lo, hi
  <2> QED BY <1>3, <1>5, <1>6, IterationExists
<1>8. PICK f : Iterates(f, lo, hi, C, init, F)
  BY <1>7
<1>9. f \in [-1 .. ChunkSize - 1 -> C] /\ f[-1] = init
  BY <1>8 DEF Iterates
<1>10. ASSUME NEW i \in -1 .. ChunkSize - 1
       PROVE  f[i] = IF i = -1 THEN CHOOSE m \in C : Least(C, m)
            ELSE IF i \in C /\ Leq(vectors[<<c, i>>], vectors[<<c, f[i - 1]>>])
                 THEN i ELSE f[i - 1]
  <2>1. CASE i = -1
    BY <2>1, <1>9 DEF init
  <2>2. CASE i # -1
    <3>1. i \in 0 .. ChunkSize - 1 /\ i - 1 \in -1 .. ChunkSize - 1 /\ i \in lo + 1 .. hi
      BY <2>2, SizesAssumption
    <3>2. f[i] = F[<<i, f[i - 1]>>] /\ f[i - 1] \in C
      BY <3>1, <1>8, <1>9 DEF Iterates
    <3> QED BY <2>2, <3>1, <3>2, <1>4
  <2> QED BY <2>1, <2>2
<1>11. f = [i \in -1 .. ChunkSize - 1 |-> f[i]]
  BY <1>9
<1>12. Scanning(f, c, C)
  BY <1>10, <1>11 DEF Scanning
<1> DEFINE G == CHOOSE g : Scanning(g, c, C)
<1>13. Scanning(G, c, C)
  BY <1>12
<1>14. Nearest(c, C) = G[ChunkSize - 1]
  BY DEF Nearest, Scanning
<1> QED BY <1>13, <1>14

\* One pass finds a candidate that none is nearer than.
LEMMA NearestIsNearest ==
  ASSUME NEW c, NEW C, C \subseteq Offsets, C # {}, \A o \in C : vectors[<<c, o>>] \in Nat
  PROVE  Nearest(c, C) \in C /\ \A o \in C : vectors[<<c, Nearest(c, C)>>] <= vectors[<<c, o>>]
<1> DEFINE lo == -1
           hi == ChunkSize - 1
<1>1. PICK scan : Scanning(scan, c, C) /\ Nearest(c, C) = scan[ChunkSize - 1]
  BY NearestScans
<1> DEFINE T == {i \in -1 .. ChunkSize - 1 :
                   scan[i] \in C /\ \A o \in C : o <= i => vectors[<<c, scan[i]>>] <= vectors[<<c, o>>]}
<1>2. C \subseteq Nat /\ \A o \in C : o \in 0 .. ChunkSize - 1
  BY DEF Offsets
<1>3. \E m \in C : Least(C, m)
  BY <1>2, LeastNumber DEF Least
<1>4. \A i \in -1 .. ChunkSize - 1 :
        scan[i] = IF i = -1 THEN CHOOSE m \in C : Least(C, m)
            ELSE IF i \in C /\ Leq(vectors[<<c, i>>], vectors[<<c, scan[i - 1]>>])
                 THEN i ELSE scan[i - 1]
  BY <1>1 DEF Scanning
<1>5. lo \in T
  <2>1. scan[-1] \in C
    <3>1. -1 \in -1 .. ChunkSize - 1
      BY SizesAssumption
    <3>2. scan[-1] = CHOOSE m \in C : Least(C, m)
      BY <1>4, <3>1
    <3> QED BY <1>3, <3>2
  <2>2. \A o \in C : ~(o <= -1)
    BY <1>2
  <2> QED BY <2>1, <2>2, SizesAssumption
<1>6. ASSUME NEW n \in lo .. hi - 1, n \in T PROVE n + 1 \in T
  <2>1. n + 1 \in -1 .. ChunkSize - 1 /\ n + 1 # -1 /\ (n + 1) - 1 = n /\ n \in Int
    BY SizesAssumption
  <2>2. scan[n] \in C /\ \A o \in C : o <= n => vectors[<<c, scan[n]>>] <= vectors[<<c, o>>]
    BY <1>6
  <2>3. scan[n + 1] = IF n + 1 \in C /\ Leq(vectors[<<c, n + 1>>], vectors[<<c, scan[n]>>])
                      THEN n + 1 ELSE scan[n]
    BY <1>4, <2>1
  <2>4. ASSUME NEW o \in C, o <= n + 1 PROVE o <= n \/ o = n + 1
    BY <1>2, <2>1, <2>4
  <2>5. CASE n + 1 \in C /\ Leq(vectors[<<c, n + 1>>], vectors[<<c, scan[n]>>])
    <3>1. scan[n + 1] = n + 1 /\ n + 1 \in C
      BY <2>3, <2>5
    <3>2. vectors[<<c, n + 1>>] <= vectors[<<c, scan[n]>>]
      BY <2>5 DEF Leq
    <3>3. ASSUME NEW o \in C, o <= n + 1 PROVE vectors[<<c, n + 1>>] <= vectors[<<c, o>>]
      <4>1. CASE o = n + 1
        BY <4>1
      <4>2. CASE o <= n
        <5>1. vectors[<<c, scan[n]>>] <= vectors[<<c, o>>]
          BY <2>2, <4>2
        <5>2. vectors[<<c, o>>] \in Nat /\ vectors[<<c, n + 1>>] \in Nat
              /\ vectors[<<c, scan[n]>>] \in Nat
          BY <2>2, <3>1
        <5> QED BY <3>2, <5>1, <5>2
      <4> QED BY <2>4, <3>3, <4>1, <4>2
    <3> QED BY <2>1, <3>1, <3>3
  <2>6. CASE ~(n + 1 \in C /\ Leq(vectors[<<c, n + 1>>], vectors[<<c, scan[n]>>]))
    <3>1. scan[n + 1] = scan[n]
      BY <2>3, <2>6
    <3>2. ASSUME NEW o \in C, o <= n + 1 PROVE vectors[<<c, scan[n]>>] <= vectors[<<c, o>>]
      <4>1. CASE o = n + 1
        <5>1. vectors[<<c, o>>] \in Nat /\ vectors[<<c, scan[n]>>] \in Nat
          BY <2>2
        <5>2. ~Leq(vectors[<<c, o>>], vectors[<<c, scan[n]>>])
          BY <2>6, <4>1
        <5> QED BY <5>1, <5>2 DEF Leq, NaN
      <4>2. CASE o <= n
        BY <2>2, <4>2
      <4> QED BY <2>4, <3>2, <4>1, <4>2
    <3> QED BY <2>1, <2>2, <3>1, <3>2
  <2> QED BY <2>5, <2>6
<1>7. lo \in Int /\ hi \in Int /\ hi \in lo .. hi
  BY SizesAssumption
<1>8. hi \in T
  <2> HIDE DEF T, lo, hi
  <2> QED BY <1>5, <1>6, <1>7, Reached
<1>9. \A o \in C : o <= hi
  BY <1>2
<1> QED BY <1>1, <1>8, <1>9

-----------------------------------------------------------------------------
(* The k nearest of a set of candidates. *)

\* p lists the n members of S of which d is smallest, the smallest first: n of them, or all.
IsTop(p, n, S, d) ==
  /\ p \in Seq(S) /\ Len(p) <= n
  /\ \A i, j \in 1 .. Len(p) : p[i] = p[j] => i = j
  /\ \A i, j \in 1 .. Len(p) : i < j => d[p[i]] <= d[p[j]]
  /\ \A x \in S : \/ \E i \in 1 .. Len(p) : p[i] = x
                  \/ Len(p) = n /\ \A i \in 1 .. Len(p) : d[p[i]] <= d[x]

LeftOf(C, p) == C \ {p[i] : i \in 1 .. Len(p)}

\* One pass of min_idx.
Picked(p, c, C) == IF LeftOf(C, p) = {} THEN p ELSE Append(p, Nearest(c, LeftOf(C, p)))

\* pick of min_idx.
Picking(pick, c, C, k) ==
  pick = [n \in 0 .. k |-> IF n = 0 THEN <<>> ELSE Picked(pick[n - 1], c, C)]

LEMMA PickedIsASequence ==
  ASSUME NEW c, NEW C, C \subseteq Offsets, \A o \in C : vectors[<<c, o>>] \in Nat, NEW p \in Seq(C)
  PROVE  Picked(p, c, C) \in Seq(C)
<1>1. CASE LeftOf(C, p) = {}
  BY <1>1 DEF Picked
<1>2. CASE LeftOf(C, p) # {}
  <2>1. LeftOf(C, p) \subseteq C
    BY DEF LeftOf
  <2> DEFINE L == LeftOf(C, p)
  <2> HIDE DEF L
  <2>2. L \subseteq Offsets /\ L # {} /\ \A o \in L : vectors[<<c, o>>] \in Nat
    BY <1>2, <2>1 DEF L
  <2>3. Nearest(c, L) \in L
    BY <2>2, NearestIsNearest
  <2>4. Nearest(c, LeftOf(C, p)) \in C
    BY <2>1, <2>3 DEF L
  <2> QED BY <1>2, <2>4 DEF Picked
<1> QED BY <1>1, <1>2

LEMMA MinIdxPicks ==
  ASSUME NEW c, NEW C, C \subseteq Offsets, \A o \in C : vectors[<<c, o>>] \in Nat, NEW k \in Nat
  PROVE  \E pick : Picking(pick, c, C, k) /\ min_idx(c, C, k) = pick[k]
<1> DEFINE F == [x \in (1 .. k) \X Seq(C) |-> Picked(x[2], c, C)]
           init == <<>>
           S == Seq(C)
           lo == 0
<1>1. \A n \in 1 .. k : \A x \in Seq(C) : F[<<n, x>>] = Picked(x, c, C)
  OBVIOUS
<1>2. \A n \in 1 .. k : \A x \in Seq(C) : F[<<n, x>>] \in Seq(C)
  BY <1>1, PickedIsASequence, Zenon
<1>3. <<>> \in Seq(C) /\ lo \in Int /\ lo <= k /\ k \in Int /\ lo + 1 = 1
  OBVIOUS
<1> HIDE DEF F
<1>4. \E f : Iterates(f, lo, k, S, init, F)
  <2>1. \A n \in lo + 1 .. k : \A x \in S : F[<<n, x>>] \in S
    BY <1>2, <1>3, Zenon
  <2>2. init \in S
    BY <1>3
  <2> HIDE DEF lo, S, init
  <2> QED BY <1>3, <2>1, <2>2, IterationExists
<1>5. PICK f : Iterates(f, lo, k, S, init, F)
  BY <1>4
<1>6. f \in [0 .. k -> Seq(C)] /\ f[0] = <<>> /\ \A n \in 1 .. k : f[n] = F[<<n, f[n - 1]>>]
  BY <1>5 DEF Iterates
<1>7. ASSUME NEW n \in 0 .. k
      PROVE  f[n] = IF n = 0 THEN <<>> ELSE Picked(f[n - 1], c, C)
  <2>1. CASE n = 0
    BY <2>1, <1>6
  <2>2. CASE n # 0
    <3>1. n \in 1 .. k /\ n - 1 \in 0 .. k
      BY <2>2
    <3>2. f[n] = F[<<n, f[n - 1]>>] /\ f[n - 1] \in Seq(C)
      BY <3>1, <1>6
    <3> QED BY <2>2, <3>1, <3>2, <1>1
  <2> QED BY <2>1, <2>2
<1>8. Picking(f, c, C, k)
  <2>1. f = [n \in 0 .. k |-> f[n]]
    BY <1>6
  <2> QED BY <1>7, <2>1, Zenon DEF Picking
<1> DEFINE G == CHOOSE g : Picking(g, c, C, k)
<1>9. Picking(G, c, C, k)
  BY <1>8
<1>10. min_idx(c, C, k) = G[k]
  BY DEF min_idx, Picking, Picked, LeftOf
<1> QED BY <1>9, <1>10

\* One pass more lists one candidate more.
LEMMA PickedIsTop ==
  ASSUME NEW c, NEW C, C \subseteq Offsets, \A o \in C : vectors[<<c, o>>] \in Nat,
         NEW d, \A o \in C : d[o] = vectors[<<c, o>>],
         NEW n \in Nat, NEW p, IsTop(p, n, C, d)
  PROVE  IsTop(Picked(p, c, C), n + 1, C, d)
<1>1. p \in Seq(C) /\ Len(p) <= n /\ Len(p) \in Nat /\ \A i \in 1 .. Len(p) : p[i] \in C
  BY DEF IsTop
<1>2. CASE LeftOf(C, p) = {}
  <2>1. Picked(p, c, C) = p
    BY <1>2 DEF Picked
  <2>2. \A x \in C : \E i \in 1 .. Len(p) : p[i] = x
    BY <1>2 DEF LeftOf
  <2> QED BY <1>1, <2>1, <2>2 DEF IsTop
<1>3. CASE LeftOf(C, p) # {}
  <2> DEFINE L == LeftOf(C, p)
             m == Nearest(c, L)
             q == Append(p, m)
  <2>1. L \subseteq Offsets /\ L # {} /\ \A o \in L : vectors[<<c, o>>] \in Nat
    BY <1>3 DEF LeftOf
  <2>2. \A x : x \in L <=> x \in C /\ ~\E i \in 1 .. Len(p) : p[i] = x
    BY DEF LeftOf
  <2> HIDE DEF L
  <2>3. m \in L /\ \A o \in L : vectors[<<c, m>>] <= vectors[<<c, o>>]
    BY <2>1, NearestIsNearest
  <2>4. Picked(p, c, C) = q
    BY <1>3 DEF Picked, L
  <2> HIDE DEF m
  <2>5. m \in C /\ \A o \in L : o \in C /\ d[m] <= d[o]
    BY <2>2, <2>3
  <2>6. Len(p) = n /\ \A i \in 1 .. n : p[i] # m /\ d[p[i]] <= d[m]
    BY <2>2, <2>3, <2>5 DEF IsTop
  <2>7. q \in Seq(C) /\ Len(q) = n + 1 /\ q[n + 1] = m /\ \A i \in 1 .. n : q[i] = p[i]
    BY <1>1, <2>5, <2>6
  <2> HIDE DEF q
  <2>8. \A i \in 1 .. n + 1 : i = n + 1 \/ i \in 1 .. n
    OBVIOUS
  <2>9. \A i, j \in 1 .. n + 1 : q[i] = q[j] => i = j
    <3>1. \A i, j \in 1 .. n : p[i] = p[j] => i = j
      BY <2>6 DEF IsTop
    <3> QED BY <3>1, <2>6, <2>7, <2>8
  <2>10. ASSUME NEW i \in 1 .. n + 1, NEW j \in 1 .. n + 1, i < j PROVE d[q[i]] <= d[q[j]]
    <3>1. i \in 1 .. n
      BY <2>8, <2>10
    <3>2. CASE j = n + 1
      BY <3>1, <3>2, <2>6, <2>7
    <3>3. CASE j # n + 1
      <4>1. j \in 1 .. n
        BY <2>8, <3>3
      <4>2. d[p[i]] <= d[p[j]]
        BY <2>6, <2>10, <3>1, <4>1 DEF IsTop
      <4> QED BY <2>7, <3>1, <4>1, <4>2
    <3> QED BY <3>2, <3>3
  <2>11. ASSUME NEW x \in C, ~\E i \in 1 .. n + 1 : q[i] = x,
                NEW i \in 1 .. n + 1
         PROVE  d[q[i]] <= d[x]
    <3>1. n + 1 \in 1 .. n + 1 /\ \A j \in 1 .. n : j \in 1 .. n + 1
      OBVIOUS
    <3>2. \A j \in 1 .. n : p[j] # x
      BY <2>7, <2>11, <3>1
    <3>3. x \in L
      BY <2>2, <2>6, <3>2
    <3>4. CASE i = n + 1
      BY <2>5, <2>7, <3>3, <3>4
    <3>5. CASE i # n + 1
      <4>1. i \in 1 .. n
        BY <2>8, <3>5
      <4>2. d[p[i]] <= d[x]
        BY <2>6, <3>2, <4>1 DEF IsTop
      <4> QED BY <2>7, <4>1, <4>2
    <3> QED BY <3>4, <3>5
  <2>12. IsTop(q, n + 1, C, d)
    <3>1. \A x \in C : \/ \E i \in 1 .. Len(q) : q[i] = x
                       \/ Len(q) = n + 1 /\ \A i \in 1 .. Len(q) : d[q[i]] <= d[x]
      BY <2>7, <2>11
    <3> QED BY <2>7, <2>9, <2>10, <3>1 DEF IsTop
  <2> QED BY <2>4, <2>12
<1> QED BY <1>2, <1>3

\* min_idx lists the k nearest candidates of a chunk.
LEMMA MinIdxIsTop ==
  ASSUME NEW c, NEW C, C \subseteq Offsets, \A o \in C : vectors[<<c, o>>] \in Nat,
         NEW d, \A o \in C : d[o] = vectors[<<c, o>>], NEW k \in Nat
  PROVE  IsTop(min_idx(c, C, k), k, C, d)
<1>1. PICK pick : Picking(pick, c, C, k) /\ min_idx(c, C, k) = pick[k]
  BY MinIdxPicks
<1>2. \A n \in 0 .. k : pick[n] = IF n = 0 THEN <<>> ELSE Picked(pick[n - 1], c, C)
  BY <1>1 DEF Picking
<1> DEFINE T == {n \in 0 .. k : IsTop(pick[n], n, C, d)}
           lo == 0
<1>3. lo \in T
  <2>1. pick[0] = <<>>
    BY <1>2
  <2>2. IsTop(<<>>, 0, C, d)
    BY DEF IsTop
  <2> QED BY <2>1, <2>2
<1>4. ASSUME NEW n \in lo .. k - 1, n \in T PROVE n + 1 \in T
  <2>1. n \in Nat /\ n + 1 \in 0 .. k /\ n + 1 # 0 /\ (n + 1) - 1 = n
    OBVIOUS
  <2>2. pick[n + 1] = Picked(pick[n], c, C)
    BY <1>2, <2>1
  <2>3. IsTop(pick[n], n, C, d)
    BY <1>4
  <2>4. IsTop(Picked(pick[n], c, C), n + 1, C, d)
    BY <2>1, <2>3, PickedIsTop
  <2> QED BY <2>1, <2>2, <2>4
<1>5. lo \in Int /\ k \in Int /\ k \in lo .. k
  OBVIOUS
<1>6. k \in T
  <2> HIDE DEF T, lo
  <2> QED BY <1>3, <1>4, <1>5, Reached
<1> QED BY <1>1, <1>6

-----------------------------------------------------------------------------
(* The merge of two lists of hits. *)

\* A list of different hits of A, the nearest first.
Ranked(a, A) ==
  /\ a \in Seq(A)
  /\ \A i, j \in 1 .. Len(a) : a[i] = a[j] => i = j
  /\ \A i, j \in 1 .. Len(a) : i < j => a[i].distance <= a[j].distance

\* out holds what stands before pa in a and before pb in b, n of them or all, and nothing that
\* is still to come is nearer.
Merges(pa, pb, out, a, b, n) ==
  /\ pa \in 1 .. Len(a) + 1 /\ pb \in 1 .. Len(b) + 1
  /\ Len(out) = (pa - 1) + (pb - 1)
  /\ Len(out) = n \/ (Len(out) < n /\ pa = Len(a) + 1 /\ pb = Len(b) + 1)
  /\ \A i \in 1 .. pa - 1 : \E x \in 1 .. Len(out) : out[x] = a[i]
  /\ \A i \in 1 .. pb - 1 : \E x \in 1 .. Len(out) : out[x] = b[i]
  /\ \A x \in 1 .. Len(out) : \/ \E i \in 1 .. pa - 1 : out[x] = a[i]
                              \/ \E i \in 1 .. pb - 1 : out[x] = b[i]
  /\ \A x \in 1 .. Len(out) : \A i \in pa .. Len(a) : out[x].distance <= a[i].distance
  /\ \A x \in 1 .. Len(out) : \A i \in pb .. Len(b) : out[x].distance <= b[i].distance

LEMMA MergesEitherWay ==
  ASSUME NEW pa, NEW pb, pa \in Nat, pb \in Nat, NEW out, NEW a, NEW b, NEW n, Merges(pa, pb, out, a, b, n)
  PROVE  Merges(pb, pa, out, b, a, n)
<1>1. (pa - 1) + (pb - 1) = (pb - 1) + (pa - 1)
  OBVIOUS
<1> QED BY <1>1, Zenon DEF Merges

\* The next of the merged list is the nearer of the two heads.
LEMMA MergesOneMore ==
  ASSUME NEW A, NEW B, A \cap B = {}, \A h \in A \cup B : h.distance \in Nat,
         NEW a, Ranked(a, A), NEW b, Ranked(b, B),
         NEW n \in Nat, NEW pa, NEW pb, NEW out, Ranked(out, A \cup B),
         Merges(pa, pb, out, a, b, n),
         pa <= Len(a), pb <= Len(b) => a[pa].distance <= b[pb].distance
  PROVE  /\ Ranked(Append(out, a[pa]), A \cup B)
         /\ Merges(pa + 1, pb, Append(out, a[pa]), a, b, n + 1)
<1> DEFINE h == a[pa]
           q == Append(out, h)
<1>1. Len(a) \in Nat /\ Len(b) \in Nat /\ (\A i \in 1 .. Len(a) : a[i] \in A) /\ \A i \in 1 .. Len(b) : b[i] \in B
  BY DEF Ranked
<1>2. pa \in 1 .. Len(a) /\ pb \in 1 .. Len(b) + 1
  BY <1>1 DEF Merges
<1>3. Len(out) = n /\ n = (pa - 1) + (pb - 1)
  BY <1>1, <1>2 DEF Merges
<1>4. out \in Seq(A \cup B) /\ h \in A
  BY <1>1, <1>2 DEF Ranked
<1>5. q \in Seq(A \cup B) /\ Len(q) = n + 1 /\ q[n + 1] = h /\ \A x \in 1 .. n : q[x] = out[x]
  BY <1>3, <1>4
<1>6. \A x \in 1 .. n + 1 : x = n + 1 \/ x \in 1 .. n
  OBVIOUS
<1>7. \A x \in 1 .. n : out[x] # h
  <2> SUFFICES ASSUME NEW x \in 1 .. n, out[x] = h PROVE FALSE
    OBVIOUS
  <2>1. ASSUME NEW i \in 1 .. pa - 1, out[x] = a[i] PROVE FALSE
    <3>1. i \in 1 .. Len(a) /\ i # pa
      BY <1>2
    <3> QED BY <2>1, <3>1, <1>2 DEF Ranked
  <2>2. ASSUME NEW i \in 1 .. pb - 1, out[x] = b[i] PROVE FALSE
    <3>1. i \in 1 .. Len(b)
      BY <1>1, <1>2
    <3> QED BY <2>2, <3>1, <1>1, <1>4
  <2> QED BY <2>1, <2>2, <1>3 DEF Merges
<1>8. \A x \in 1 .. n : out[x].distance <= h.distance
  <2>1. pa \in pa .. Len(a)
    BY <1>1, <1>2
  <2> QED BY <2>1, <1>3 DEF Merges
<1> HIDE DEF q, h
<1>9. \A x, y \in 1 .. n + 1 : q[x] = q[y] => x = y
  <2>1. \A x, y \in 1 .. n : out[x] = out[y] => x = y
    BY <1>3 DEF Ranked
  <2> QED BY <2>1, <1>5, <1>6, <1>7
<1>10. ASSUME NEW x \in 1 .. n + 1, NEW y \in 1 .. n + 1, x < y PROVE q[x].distance <= q[y].distance
  <2>1. x \in 1 .. n
    BY <1>6, <1>10
  <2>2. CASE y = n + 1
    BY <2>1, <2>2, <1>5, <1>8
  <2>3. CASE y # n + 1
    <3>1. y \in 1 .. n
      BY <1>6, <2>3
    <3>2. out[x].distance <= out[y].distance
      BY <1>3, <1>10, <2>1, <3>1 DEF Ranked
    <3> QED BY <1>5, <2>1, <3>1, <3>2
  <2> QED BY <2>2, <2>3
<1>11. Ranked(q, A \cup B)
  BY <1>5, <1>9, <1>10 DEF Ranked
<1>12. n + 1 \in 1 .. n + 1 /\ \A x \in 1 .. n : x \in 1 .. n + 1
  OBVIOUS
<1>13. \A i \in 1 .. (pa + 1) - 1 : \E x \in 1 .. Len(q) : q[x] = a[i]
  <2> SUFFICES ASSUME NEW i \in 1 .. pa PROVE \E x \in 1 .. n + 1 : q[x] = a[i]
    BY <1>2, <1>5
  <2>1. CASE i = pa
    BY <2>1, <1>5, <1>12 DEF h
  <2>2. CASE i # pa
    <3>1. i \in 1 .. pa - 1
      BY <2>2, <1>2
    <3>2. \E x \in 1 .. n : out[x] = a[i]
      BY <1>3, <3>1 DEF Merges
    <3> QED BY <3>2, <1>5, <1>12
  <2> QED BY <2>1, <2>2
<1>14. \A i \in 1 .. pb - 1 : \E x \in 1 .. Len(q) : q[x] = b[i]
  <2>1. \A i \in 1 .. pb - 1 : \E x \in 1 .. n : out[x] = b[i]
    BY <1>3 DEF Merges
  <2> QED BY <2>1, <1>5, <1>12
<1>15. \A x \in 1 .. Len(q) : \/ \E i \in 1 .. (pa + 1) - 1 : q[x] = a[i]
                              \/ \E i \in 1 .. pb - 1 : q[x] = b[i]
  <2> SUFFICES ASSUME NEW x \in 1 .. n + 1
               PROVE  \/ \E i \in 1 .. pa : q[x] = a[i]
                      \/ \E i \in 1 .. pb - 1 : q[x] = b[i]
    BY <1>2, <1>5
  <2>1. pa \in 1 .. pa /\ \A i \in 1 .. pa - 1 : i \in 1 .. pa
    BY <1>2
  <2>2. CASE x = n + 1
    BY <2>1, <2>2, <1>5 DEF h
  <2>3. CASE x # n + 1
    <3>1. x \in 1 .. n /\ q[x] = out[x]
      BY <2>3, <1>5, <1>6
    <3>2. (\E i \in 1 .. pa - 1 : out[x] = a[i]) \/ \E i \in 1 .. pb - 1 : out[x] = b[i]
      BY <3>1, <1>3 DEF Merges
    <3> QED BY <2>1, <3>1, <3>2
  <2> QED BY <2>2, <2>3
<1>16. ASSUME NEW x \in 1 .. n + 1, NEW i \in pa + 1 .. Len(a) PROVE q[x].distance <= a[i].distance
  <2>1. i \in 1 .. Len(a) /\ i \in pa .. Len(a) /\ pa < i
    BY <1>2
  <2>2. CASE x = n + 1
    BY <2>1, <2>2, <1>2, <1>5 DEF Ranked, h
  <2>3. CASE x # n + 1
    <3>1. x \in 1 .. n /\ q[x] = out[x]
      BY <2>3, <1>5, <1>6
    <3> QED BY <2>1, <3>1, <1>3 DEF Merges
  <2> QED BY <2>2, <2>3
<1>17. ASSUME NEW x \in 1 .. n + 1, NEW i \in pb .. Len(b) PROVE q[x].distance <= b[i].distance
  <2>1. i \in 1 .. Len(b) /\ pb \in 1 .. Len(b) /\ pb <= i
    BY <1>1, <1>2
  <2>2. CASE x = n + 1
    <3>1. h.distance <= b[pb].distance
      BY <2>1 DEF h
    <3>2. b[pb].distance <= b[i].distance
      <4>1. CASE i = pb
        <5>1. b[pb].distance \in Nat
          BY <1>1, <2>1
        <5> QED BY <4>1, <5>1
      <4>2. CASE i # pb
        <5>1. pb < i
          BY <2>1, <4>2
        <5> QED BY <5>1, <2>1 DEF Ranked
      <4> QED BY <4>1, <4>2
    <3>3. h.distance \in Nat /\ b[pb].distance \in Nat /\ b[i].distance \in Nat
      BY <1>1, <1>4, <2>1
    <3>4. q[x] = h
      BY <2>2, <1>5
    <3>5. h.distance <= b[i].distance
      <4> DEFINE u == h.distance
                 v == b[pb].distance
                 w == b[i].distance
      <4>1. u \in Nat /\ v \in Nat /\ w \in Nat /\ u <= v /\ v <= w
        BY <3>1, <3>2, <3>3
      <4> HIDE DEF u, v, w
      <4>2. u <= w
        BY <4>1
      <4> QED BY <4>2 DEF u, w
    <3> QED BY <3>4, <3>5
  <2>3. CASE x # n + 1
    <3>1. x \in 1 .. n /\ q[x] = out[x]
      BY <2>3, <1>5, <1>6
    <3> QED BY <3>1, <1>3 DEF Merges
  <2> QED BY <2>2, <2>3
<1>18. pa + 1 \in 1 .. Len(a) + 1 /\ Len(q) = ((pa + 1) - 1) + (pb - 1)
  BY <1>1, <1>2, <1>3, <1>5
<1>19. Merges(pa + 1, pb, q, a, b, n + 1)
  <2>1. \A x \in 1 .. Len(q) : \A i \in pa + 1 .. Len(a) : q[x].distance <= a[i].distance
    BY <1>5, <1>16
  <2>2. \A x \in 1 .. Len(q) : \A i \in pb .. Len(b) : q[x].distance <= b[i].distance
    BY <1>5, <1>17
  <2> QED BY <1>2, <1>5, <1>13, <1>14, <1>15, <1>18, <2>1, <2>2, Zenon DEF Merges
<1> QED BY <1>11, <1>19 DEF q, h

States(a, b, H) == [ptrA : 1 .. Len(a) + 1, ptrB : 1 .. Len(b) + 1, out : Seq(H)]

\* One turn of merge_sorted_lists.
Merged(s, a, b) ==
  LET takeA == [s EXCEPT !.ptrA = @ + 1, !.out = Append(@, a[s.ptrA])]
      takeB == [s EXCEPT !.ptrB = @ + 1, !.out = Append(@, b[s.ptrB])]
  IN CASE s.ptrA > Len(a) /\ s.ptrB > Len(b) -> s
       [] s.ptrA > Len(a) /\ s.ptrB <= Len(b) -> takeB
       [] s.ptrA <= Len(a) /\ s.ptrB > Len(b) -> takeA
       [] OTHER -> IF Leq(a[s.ptrA].distance, b[s.ptrB].distance) THEN takeA ELSE takeB

\* step of merge_sorted_lists.
Merging(step, a, b, k) ==
  step = [n \in 0 .. k |-> IF n = 0 THEN [ptrA |-> 1, ptrB |-> 1, out |-> <<>>]
                           ELSE Merged(step[n - 1], a, b)]

\* m comes out of s: nothing is left, or the nearer of the two heads is taken.
Turn(s, m, a, b) ==
  \/ /\ s.ptrA = Len(a) + 1 /\ s.ptrB = Len(b) + 1
     /\ m = s
  \/ /\ s.ptrA <= Len(a)
     /\ s.ptrB <= Len(b) => a[s.ptrA].distance <= b[s.ptrB].distance
     /\ m.ptrA = s.ptrA + 1 /\ m.ptrB = s.ptrB
     /\ m.out = Append(s.out, a[s.ptrA])
  \/ /\ s.ptrB <= Len(b)
     /\ s.ptrA <= Len(a) => b[s.ptrB].distance <= a[s.ptrA].distance
     /\ m.ptrB = s.ptrB + 1 /\ m.ptrA = s.ptrA
     /\ m.out = Append(s.out, b[s.ptrB])

LEMMA MergedIsAState ==
  ASSUME NEW A, NEW B, NEW a \in Seq(A), NEW b \in Seq(B),
         \A h \in A \cup B : h.distance \in Nat, NEW s \in States(a, b, A \cup B)
  PROVE  /\ Merged(s, a, b) \in States(a, b, A \cup B)
         /\ Turn(s, Merged(s, a, b), a, b)
<1> DEFINE m == Merged(s, a, b)
           takeA == [s EXCEPT !.ptrA = @ + 1, !.out = Append(@, a[s.ptrA])]
           takeB == [s EXCEPT !.ptrB = @ + 1, !.out = Append(@, b[s.ptrB])]
<1>1. Len(a) \in Nat /\ Len(b) \in Nat /\ (\A i \in 1 .. Len(a) : a[i] \in A) /\ \A i \in 1 .. Len(b) : b[i] \in B
  OBVIOUS
<1>2. s.ptrA \in 1 .. Len(a) + 1 /\ s.ptrB \in 1 .. Len(b) + 1 /\ s.out \in Seq(A \cup B)
  BY DEF States
<1>3. ASSUME s.ptrA <= Len(a)
      PROVE  /\ takeA \in States(a, b, A \cup B)
             /\ takeA.ptrA = s.ptrA + 1 /\ takeA.ptrB = s.ptrB /\ takeA.out = Append(s.out, a[s.ptrA])
  <2>1. s.ptrA \in 1 .. Len(a) /\ s.ptrA + 1 \in 1 .. Len(a) + 1
    BY <1>1, <1>2, <1>3
  <2>2. a[s.ptrA] \in A \cup B
    BY <1>1, <2>1, Zenon
  <2>3. Append(s.out, a[s.ptrA]) \in Seq(A \cup B)
    BY <1>2, <2>2
  <2> QED BY <1>2, <2>1, <2>2, <2>3 DEF States
<1>4. ASSUME s.ptrB <= Len(b)
      PROVE  /\ takeB \in States(a, b, A \cup B)
             /\ takeB.ptrB = s.ptrB + 1 /\ takeB.ptrA = s.ptrA /\ takeB.out = Append(s.out, b[s.ptrB])
  <2>1. s.ptrB \in 1 .. Len(b) /\ s.ptrB + 1 \in 1 .. Len(b) + 1
    BY <1>1, <1>2, <1>4
  <2>2. b[s.ptrB] \in A \cup B
    BY <1>1, <2>1, Zenon
  <2>3. Append(s.out, b[s.ptrB]) \in Seq(A \cup B)
    BY <1>2, <2>2
  <2> QED BY <1>2, <2>1, <2>2, <2>3 DEF States
<1>5. CASE s.ptrA > Len(a) /\ s.ptrB > Len(b)
  <2>0. ~(s.ptrA <= Len(a)) /\ ~(s.ptrB <= Len(b))
    BY <1>1, <1>2, <1>5
  <2>1. m = s
    BY <1>5, <2>0 DEF Merged
  <2>2. s.ptrA = Len(a) + 1 /\ s.ptrB = Len(b) + 1
    BY <1>1, <1>2, <1>5
  <2> QED BY <2>1, <2>2, <1>2 DEF Turn
<1>6. CASE s.ptrA > Len(a) /\ s.ptrB <= Len(b)
  <2>1. ~(s.ptrB > Len(b)) /\ ~(s.ptrA <= Len(a))
    BY <1>1, <1>2, <1>6
  <2>2. m = takeB
    BY <1>6, <2>1 DEF Merged
  <2> HIDE DEF takeA, takeB, m
  <2>3. Turn(s, m, a, b)
    BY <1>4, <1>6, <2>1, <2>2 DEF Turn
  <2> QED BY <1>4, <1>6, <2>2, <2>3 DEF m
<1>7. CASE s.ptrA <= Len(a) /\ s.ptrB > Len(b)
  <2>1. ~(s.ptrA > Len(a)) /\ ~(s.ptrB <= Len(b))
    BY <1>1, <1>2, <1>7
  <2>2. m = takeA
    BY <1>7, <2>1 DEF Merged
  <2> HIDE DEF takeA, takeB, m
  <2>3. Turn(s, m, a, b)
    BY <1>3, <1>7, <2>1, <2>2 DEF Turn
  <2> QED BY <1>3, <1>7, <2>2, <2>3 DEF m
<1>8. CASE s.ptrA <= Len(a) /\ s.ptrB <= Len(b)
  <2>1. ~(s.ptrA > Len(a)) /\ ~(s.ptrB > Len(b))
    BY <1>1, <1>2, <1>8
  <2>2. m = IF Leq(a[s.ptrA].distance, b[s.ptrB].distance) THEN takeA ELSE takeB
    BY <1>8, <2>1 DEF Merged
  <2>3. a[s.ptrA].distance \in Nat /\ b[s.ptrB].distance \in Nat
    BY <1>1, <1>2, <1>8
  <2> HIDE DEF takeA, takeB, m
  <2>4. CASE Leq(a[s.ptrA].distance, b[s.ptrB].distance)
    <3>1. a[s.ptrA].distance <= b[s.ptrB].distance
      BY <2>4 DEF Leq
    <3>2. m = takeA
      BY <2>2, <2>4
    <3>3. Turn(s, m, a, b)
      BY <1>3, <1>8, <3>1, <3>2 DEF Turn
    <3> QED BY <1>3, <1>8, <3>2, <3>3 DEF m
  <2>5. CASE ~Leq(a[s.ptrA].distance, b[s.ptrB].distance)
    <3>1. b[s.ptrB].distance <= a[s.ptrA].distance
      BY <2>3, <2>5 DEF Leq, NaN
    <3>2. m = takeB
      BY <2>2, <2>5
    <3>3. Turn(s, m, a, b)
      BY <1>4, <1>8, <3>1, <3>2 DEF Turn
    <3> QED BY <1>4, <1>8, <3>2, <3>3 DEF m
  <2> QED BY <2>4, <2>5
<1> QED BY <1>1, <1>2, <1>5, <1>6, <1>7, <1>8

LEMMA MergeMerges ==
  ASSUME NEW A, NEW B, NEW a \in Seq(A), NEW b \in Seq(B),
         \A h \in A \cup B : h.distance \in Nat, NEW k \in Nat
  PROVE  \E step : Merging(step, a, b, k) /\ merge_sorted_lists(a, b, k) = step[k].out
<1> DEFINE S == States(a, b, A \cup B)
           init == [ptrA |-> 1, ptrB |-> 1, out |-> <<>>]
           F == [x \in (1 .. k) \X S |-> Merged(x[2], a, b)]
           lo == 0
<1>1. \A n \in 1 .. k : \A x \in S : F[<<n, x>>] = Merged(x, a, b)
  OBVIOUS
<1>2. \A n \in 1 .. k : \A x \in S : F[<<n, x>>] \in S
  BY <1>1, MergedIsAState, Zenon
<1>3. init \in S /\ lo \in Int /\ lo <= k /\ k \in Int /\ lo + 1 = 1
  BY DEF States
<1> HIDE DEF F
<1>4. \E f : Iterates(f, lo, k, S, init, F)
  <2>1. \A n \in lo + 1 .. k : \A x \in S : F[<<n, x>>] \in S
    BY <1>2, <1>3, Zenon
  <2> HIDE DEF lo, S, init
  <2> QED BY <1>3, <2>1, IterationExists
<1>5. PICK f : Iterates(f, lo, k, S, init, F)
  BY <1>4
<1> HIDE DEF init, S
<1>6. f \in [0 .. k -> S] /\ f[0] = init /\ \A n \in 1 .. k : f[n] = F[<<n, f[n - 1]>>]
  BY <1>5 DEF Iterates
<1>7. ASSUME NEW n \in 0 .. k
      PROVE  f[n] = IF n = 0 THEN init ELSE Merged(f[n - 1], a, b)
  <2>1. CASE n = 0
    BY <2>1, <1>6
  <2>2. CASE n # 0
    <3>1. n \in 1 .. k /\ n - 1 \in 0 .. k
      BY <2>2
    <3>2. f[n] = F[<<n, f[n - 1]>>] /\ f[n - 1] \in S
      BY <3>1, <1>6
    <3> QED BY <2>2, <3>1, <3>2, <1>1
  <2> QED BY <2>1, <2>2
<1>8. Merging(f, a, b, k)
  <2>1. f = [n \in 0 .. k |-> f[n]]
    BY <1>6
  <2> QED BY <1>7, <2>1, Zenon DEF Merging, init
<1> DEFINE G == CHOOSE g : Merging(g, a, b, k)
<1>9. Merging(G, a, b, k)
  BY <1>8
<1>10. merge_sorted_lists(a, b, k) = G[k].out
  BY DEF merge_sorted_lists, Merging, Merged
<1> QED BY <1>9, <1>10

\* What a merge leaves out is no nearer than what it holds.
LEMMA LeftOutOfMerge ==
  ASSUME NEW A, NEW B, \A h \in A \cup B : h.distance \in Nat,
         NEW d, \A h \in A \cup B : d[h] = h.distance, NEW k \in Nat,
         NEW a, IsTop(a, k, A, d), NEW b \in Seq(B),
         NEW pa, NEW pb, NEW out \in Seq(A \cup B), Merges(pa, pb, out, a, b, k),
         NEW x \in A, \A i \in 1 .. Len(out) : out[i] # x
  PROVE  Len(out) = k /\ \A i \in 1 .. Len(out) : out[i].distance <= x.distance
<1>1. Len(a) \in Nat /\ Len(b) \in Nat /\ Len(out) \in Nat /\ (\A i \in 1 .. Len(a) : a[i] \in A)
      /\ \A i \in 1 .. Len(out) : out[i] \in A \cup B
  BY DEF IsTop
<1>2. pa \in 1 .. Len(a) + 1 /\ pb \in 1 .. Len(b) + 1 /\ Len(out) = (pa - 1) + (pb - 1)
      /\ Len(out) <= k
      /\ (Len(out) = k \/ (pa = Len(a) + 1 /\ pb = Len(b) + 1))
  BY <1>1 DEF Merges
<1>3. CASE \E i \in 1 .. Len(a) : a[i] = x
  <2>1. PICK i \in 1 .. Len(a) : a[i] = x
    BY <1>3
  <2>2. i \notin 1 .. pa - 1
    BY <2>1 DEF Merges
  <2>3. i \in pa .. Len(a) /\ pa # Len(a) + 1
    BY <1>1, <1>2, <2>2
  <2> QED BY <1>2, <2>1, <2>3 DEF Merges
<1>4. CASE ~\E i \in 1 .. Len(a) : a[i] = x
  <2>1. Len(a) = k /\ \A i \in 1 .. Len(a) : d[a[i]] <= d[x]
    BY <1>4 DEF IsTop
  <2>2. \A i \in 1 .. Len(a) : a[i].distance <= x.distance
    BY <1>1, <2>1
  <2>3. CASE pa <= Len(a)
    <3>1. pa \in 1 .. Len(a) /\ pa \in pa .. Len(a) /\ Len(out) = k
      BY <1>1, <1>2, <2>3
    <3>2. ASSUME NEW i \in 1 .. Len(out) PROVE out[i].distance <= x.distance
      <4> DEFINE u == out[i].distance
                 v == a[pa].distance
                 w == x.distance
      <4>1. u <= v
        BY <3>1 DEF Merges
      <4>2. v <= w
        BY <2>2, <3>1
      <4>3. u \in Nat /\ v \in Nat /\ w \in Nat
        BY <1>1, <3>1
      <4> HIDE DEF u, v, w
      <4>4. u <= w
        BY <4>1, <4>2, <4>3
      <4> QED BY <4>4 DEF u, w
    <3> QED BY <3>1, <3>2
  <2>4. CASE ~(pa <= Len(a))
    <3>1. pa - 1 = k /\ pb = 1 /\ Len(out) = k /\ pa - 1 = Len(a)
      BY <1>1, <1>2, <2>1, <2>4
    <3>2. ASSUME NEW i \in 1 .. Len(out) PROVE out[i].distance <= x.distance
      <4>1. ~\E j \in 1 .. pb - 1 : out[i] = b[j]
        BY <3>1
      <4>2. PICK j \in 1 .. pa - 1 : out[i] = a[j]
        BY <4>1 DEF Merges
      <4> QED BY <2>2, <3>1, <4>2
    <3> QED BY <3>1, <3>2
  <2> QED BY <2>3, <2>4
<1> QED BY <1>3, <1>4

\* A state of the merge that has listed n hits.
MergeAt(s, a, b, H, n) ==
  s \in States(a, b, H) /\ Ranked(s.out, H) /\ Merges(s.ptrA, s.ptrB, s.out, a, b, n)

LEMMA MergedIsNext ==
  ASSUME NEW A, NEW B, A \cap B = {}, \A h \in A \cup B : h.distance \in Nat,
         NEW a, Ranked(a, A), NEW b, Ranked(b, B),
         NEW n \in Nat, NEW s, MergeAt(s, a, b, A \cup B, n)
  PROVE  MergeAt(Merged(s, a, b), a, b, A \cup B, n + 1)
<1> DEFINE H == A \cup B
           m == Merged(s, a, b)
<1>1. a \in Seq(A) /\ b \in Seq(B) /\ Len(a) \in Nat /\ Len(b) \in Nat
  BY DEF Ranked
<1>2. s \in States(a, b, A \cup B) /\ Ranked(s.out, H) /\ Merges(s.ptrA, s.ptrB, s.out, a, b, n)
  BY DEF MergeAt
<1>3. s.ptrA \in Nat /\ s.ptrB \in Nat
  BY <1>1, <1>2 DEF States
<1>4. m \in States(a, b, A \cup B) /\ Turn(s, m, a, b)
  BY <1>1, <1>2, MergedIsAState
<1> HIDE DEF m, H
<1>5. CASE s.ptrA = Len(a) + 1 /\ s.ptrB = Len(b) + 1 /\ m = s
  <2>1. Len(s.out) \in Nat /\ (Len(s.out) = n \/ Len(s.out) < n)
    BY <1>1, <1>2 DEF Merges, Ranked
  <2>2. Len(s.out) < n + 1
    BY <2>1
  <2>3. Merges(s.ptrA, s.ptrB, s.out, a, b, n + 1)
    BY <1>2, <1>5, <2>2, Zenon DEF Merges
  <2> QED BY <1>2, <1>4, <1>5, <2>3, Zenon DEF m, H, MergeAt
<1>6. CASE /\ s.ptrA <= Len(a)
           /\ s.ptrB <= Len(b) => a[s.ptrA].distance <= b[s.ptrB].distance
           /\ m.ptrA = s.ptrA + 1 /\ m.ptrB = s.ptrB
           /\ m.out = Append(s.out, a[s.ptrA])
  <2> DEFINE pa == s.ptrA
             pb == s.ptrB
             out == s.out
  <2>1. Ranked(out, A \cup B) /\ Merges(pa, pb, out, a, b, n)
        /\ pa <= Len(a) /\ (pb <= Len(b) => a[pa].distance <= b[pb].distance)
    BY <1>2, <1>6 DEF H
  <2> HIDE DEF pa, pb, out
  <2>2. /\ Ranked(Append(out, a[pa]), A \cup B)
        /\ Merges(pa + 1, pb, Append(out, a[pa]), a, b, n + 1)
    BY <2>1, MergesOneMore
  <2>3. Ranked(m.out, A \cup B) /\ Merges(m.ptrA, m.ptrB, m.out, a, b, n + 1)
    BY <1>6, <2>2 DEF pa, pb, out
  <2> QED BY <1>4, <2>3, Zenon DEF m, MergeAt
<1>7. CASE /\ s.ptrB <= Len(b)
           /\ s.ptrA <= Len(a) => b[s.ptrB].distance <= a[s.ptrA].distance
           /\ m.ptrB = s.ptrB + 1 /\ m.ptrA = s.ptrA
           /\ m.out = Append(s.out, b[s.ptrB])
  <2> DEFINE pa == s.ptrA
             pb == s.ptrB
             out == s.out
  <2>1. pa \in Nat /\ pb \in Nat
    BY <1>3
  <2>2. B \cup A = A \cup B
    OBVIOUS
  <2>3. Ranked(out, B \cup A) /\ Merges(pa, pb, out, a, b, n)
        /\ pb <= Len(b) /\ (pa <= Len(a) => b[pb].distance <= a[pa].distance)
    BY <1>2, <1>7, <2>2 DEF H
  <2> HIDE DEF pa, pb, out
  <2>4. Merges(pb, pa, out, b, a, n)
    BY <2>1, <2>3, MergesEitherWay
  <2>5. /\ Ranked(Append(out, b[pb]), B \cup A)
        /\ Merges(pb + 1, pa, Append(out, b[pb]), b, a, n + 1)
    <3>1. B \cap A = {} /\ \A h \in B \cup A : h.distance \in Nat
      OBVIOUS
    <3> QED BY <2>3, <2>4, <3>1, MergesOneMore
  <2>6. Merges(pa, pb + 1, Append(out, b[pb]), a, b, n + 1)
    <3>1. pb + 1 \in Nat
      BY <2>1
    <3> QED BY <2>1, <2>5, <3>1, MergesEitherWay
  <2>7. Ranked(m.out, A \cup B) /\ Merges(m.ptrA, m.ptrB, m.out, a, b, n + 1)
    BY <1>7, <2>2, <2>5, <2>6 DEF pa, pb, out
  <2> QED BY <1>4, <2>7, Zenon DEF m, MergeAt
<1> QED BY <1>4, <1>5, <1>6, <1>7 DEF Turn

LEMMA TopIsRanked ==
  ASSUME NEW A, NEW d, \A h \in A : d[h] = h.distance, NEW k, NEW a, IsTop(a, k, A, d)
  PROVE  Ranked(a, A)
<1>1. a \in Seq(A) /\ \A i \in 1 .. Len(a) : a[i] \in A
  BY DEF IsTop
<1> QED BY <1>1 DEF IsTop, Ranked

\* Merging the k nearest of two disjoint sets of hits gives the k nearest of their union.
LEMMA MergeIsTop ==
  ASSUME NEW A, NEW B, A \cap B = {}, \A h \in A \cup B : h.distance \in Nat,
         NEW d, \A h \in A \cup B : d[h] = h.distance, NEW k \in Nat,
         NEW a, IsTop(a, k, A, d), NEW b, IsTop(b, k, B, d)
  PROVE  IsTop(merge_sorted_lists(a, b, k), k, A \cup B, d)
<1>1. Ranked(a, A) /\ Ranked(b, B)
  BY TopIsRanked
<1>2. a \in Seq(A) /\ b \in Seq(B) /\ Len(a) \in Nat /\ Len(b) \in Nat
  BY <1>1 DEF Ranked
<1>3. PICK step : Merging(step, a, b, k) /\ merge_sorted_lists(a, b, k) = step[k].out
  BY <1>2, MergeMerges
<1> DEFINE H == A \cup B
           T == {n \in 0 .. k : MergeAt(step[n], a, b, A \cup B, n)}
           lo == 0
<1>4. \A n \in 0 .. k : step[n] = IF n = 0 THEN [ptrA |-> 1, ptrB |-> 1, out |-> <<>>]
                                  ELSE Merged(step[n - 1], a, b)
  BY <1>3 DEF Merging
<1>5. lo \in T
  <2> DEFINE e == [ptrA |-> 1, ptrB |-> 1, out |-> <<>>]
  <2>1. step[0] = e
    BY <1>4
  <2>2. e \in States(a, b, H) /\ e.ptrA = 1 /\ e.ptrB = 1 /\ e.out = <<>>
    BY <1>2 DEF States
  <2>3. Ranked(<<>>, H)
    BY DEF Ranked
  <2>4. Merges(1, 1, <<>>, a, b, 0)
    BY <1>2 DEF Merges
  <2> HIDE DEF e
  <2>5. MergeAt(e, a, b, A \cup B, 0)
    BY <2>2, <2>3, <2>4 DEF MergeAt
  <2> QED BY <2>1, <2>5
<1>6. ASSUME NEW n \in lo .. k - 1, n \in T PROVE n + 1 \in T
  <2>1. n \in Nat /\ n + 1 \in 0 .. k /\ n + 1 # 0 /\ (n + 1) - 1 = n
    OBVIOUS
  <2>2. step[n + 1] = Merged(step[n], a, b)
    BY <1>4, <2>1
  <2>3. MergeAt(step[n], a, b, A \cup B, n)
    BY <1>6
  <2>4. MergeAt(Merged(step[n], a, b), a, b, A \cup B, n + 1)
    <3> HIDE DEF T, lo
    <3> QED BY <1>1, <2>1, <2>3, MergedIsNext
  <2> QED BY <2>1, <2>2, <2>4
<1>7. lo \in Int /\ k \in Int /\ k \in lo .. k
  OBVIOUS
<1>8. k \in T
  <2> HIDE DEF T, lo
  <2> QED BY <1>5, <1>6, <1>7, Reached
<1> DEFINE pa == step[k].ptrA
           pb == step[k].ptrB
           out == step[k].out
<1>9. MergeAt(step[k], a, b, A \cup B, k)
  BY <1>8
<1>10. Ranked(out, H) /\ Merges(pa, pb, out, a, b, k) /\ pa \in Nat /\ pb \in Nat
  BY <1>2, <1>9 DEF States, MergeAt
<1> HIDE DEF pa, pb, out, T
<1>11. out \in Seq(A \cup B) /\ Len(out) <= k /\ \A i \in 1 .. Len(out) : out[i] \in A \cup B
  BY <1>2, <1>10 DEF Ranked, Merges
<1>12. ASSUME NEW x \in A \cup B, \A i \in 1 .. Len(out) : out[i] # x
       PROVE  Len(out) = k /\ \A i \in 1 .. Len(out) : out[i].distance <= x.distance
  <2>1. CASE x \in A
    BY <1>2, <1>10, <1>11, <1>12, <2>1, LeftOutOfMerge
  <2>2. CASE x \in B
    <3>1. Merges(pb, pa, out, b, a, k)
      BY <1>10, MergesEitherWay
    <3>2. out \in Seq(B \cup A) /\ (\A h \in B \cup A : h.distance \in Nat) /\ \A h \in B \cup A : d[h] = h.distance
      <4>1. B \cup A = A \cup B
        OBVIOUS
      <4> QED BY <1>11, <4>1
    <3> QED BY <1>2, <1>12, <2>2, <3>1, <3>2, LeftOutOfMerge
  <2> QED BY <2>1, <2>2
<1>13. \A i, j \in 1 .. Len(out) : out[i] = out[j] => i = j
  BY <1>10 DEF Ranked
<1>14. \A i, j \in 1 .. Len(out) : i < j => d[out[i]] <= d[out[j]]
  BY <1>10, <1>11 DEF Ranked
<1>15. \A x \in A \cup B : \/ \E i \in 1 .. Len(out) : out[i] = x
                           \/ Len(out) = k /\ \A i \in 1 .. Len(out) : d[out[i]] <= d[x]
  BY <1>11, <1>12
<1>16. IsTop(out, k, A \cup B, d)
  BY <1>11, <1>13, <1>14, <1>15 DEF IsTop
<1> QED BY <1>3, <1>16 DEF out

-----------------------------------------------------------------------------
(* What a slot says of the text of its row. *)

\* The view of a live row is the view of its text: what the filters of a query go by.
ViewsMatchTexts == \A r \in Rowids : Live(r) => views[rows[r]] = View(TextOf(r))

LEMMA InsertViews ==
  ASSUME IInv, ViewsMatchTexts,
         NEW r, NEW s, NEW p, NEW v, NEW t, NEW a, Inserting(r, s, p, v, t, a)
  PROVE  ViewsMatchTexts'
<1>1. /\ ReadRow(r)' = [partition |-> p, vector |-> v, text |-> t, aux |-> a]
      /\ \A o \in Rowids : o # r => Live(o)' = Live(o) /\ (Live(o) => ReadRow(o)' = ReadRow(o))
  BY InsertReads
<1>2. TextOf(r)' = t
  BY <1>1 DEF ReadRow
<1>3. s \notin valid /\ r \in Rowids /\ s \in Slots /\ rows' = [rows EXCEPT ![r] = s]
      /\ views' = [views EXCEPT ![s] = View(t)]
  BY FreeSlot DEF IInv, Inserting, InsertRow, WriteText
<1>4. views'[rows'[r]] = View(t)
  BY <1>3 DEF IInv, TableTypes
<1>5. ASSUME NEW o \in Rowids, o # r, Live(o)' PROVE views'[rows'[o]] = View(TextOf(o)')
  <2>1. Live(o) /\ ReadRow(o)' = ReadRow(o)
    BY <1>1, <1>5
  <2>2. TextOf(o)' = TextOf(o)
    BY <2>1 DEF ReadRow
  <2>3. rows[o] \in Slots /\ rows[o] # s
    BY <1>3, <2>1, OwnSlot DEF IInv
  <2>4. views'[rows'[o]] = views[rows[o]]
    BY <1>3, <1>5, <2>3 DEF IInv, TableTypes
  <2> QED BY <2>1, <2>2, <2>4 DEF ViewsMatchTexts
<1> QED BY <1>2, <1>4, <1>5 DEF ViewsMatchTexts

LEMMA DeleteViews ==
  ASSUME IInv, ViewsMatchTexts, NEW r \in Rowids, NEW outcome, Delete(r, outcome)
  PROVE  ViewsMatchTexts'
<1>1. /\ Live(r) /\ ~Live(r)'
      /\ \A o \in Rowids : o # r => Live(o)' = Live(o) /\ (Live(o) => ReadRow(o)' = ReadRow(o))
  BY DeleteReads
<1>2. ASSUME NEW o \in Rowids, Live(o)' PROVE views'[rows'[o]] = View(TextOf(o)')
  <2>1. o # r /\ Live(o) /\ ReadRow(o)' = ReadRow(o)
    BY <1>1, <1>2
  <2>2. TextOf(o)' = TextOf(o)
    BY <2>1 DEF ReadRow
  <2>3. rows[o] \in Slots /\ rows[o] # rows[r] /\ rows[r] \in Slots
    BY <1>1, <2>1, OwnSlot DEF IInv
  <2>4. views'[rows'[o]] = views[rows[o]]
    BY <2>1, <2>3 DEF IInv, TableTypes, Delete, ClearMetadata
  <2> QED BY <2>1, <2>2, <2>4 DEF ViewsMatchTexts
<1> QED BY <1>2 DEF ViewsMatchTexts

LEMMA UpdateViews ==
  ASSUME IInv, ViewsMatchTexts, NEW r, NEW cols, NEW v, NEW t, NEW a, Updating(r, cols, v, t, a)
  PROVE  ViewsMatchTexts'
<1>1. /\ Live(r)
      /\ \A o \in Rowids : o # r => Live(o)' = Live(o) /\ (Live(o) => ReadRow(o)' = ReadRow(o))
  BY UpdateReads
<1>2. r \in Rowids /\ rows' = rows /\ rows[r] \in Slots /\ t \in Texts
      /\ (IF "text" \in cols THEN WriteText(r, rows[r], t, TRUE) ELSE UNCHANGED <<views, longTexts>>)
  BY <1>1, OwnSlot DEF IInv, Updating, Update
<1>3. views'[rows'[r]] = View(TextOf(r)')
  <2>1. CASE "text" \in cols
    <3>1. IsLong(views[rows[r]]) => longTexts[r] # NoText
      BY <1>1, <1>2, TextIsAText DEF IInv, RowsAreRead, ReadRow, Table!Rows, TextOf
    <3>2. TextOf(r)' = t
      BY <1>2, <2>1, <3>1, WrittenText DEF IInv
    <3>3. views'[rows'[r]] = View(t)
      BY <1>2, <2>1 DEF WriteText, IInv, TableTypes
    <3> QED BY <3>2, <3>3
  <2>2. CASE "text" \notin cols
    BY <1>1, <1>2, <2>2 DEF ViewsMatchTexts, TextOf
  <2> QED BY <2>1, <2>2
<1>4. ASSUME NEW o \in Rowids, o # r, Live(o)' PROVE views'[rows'[o]] = View(TextOf(o)')
  <2>1. Live(o) /\ ReadRow(o)' = ReadRow(o)
    BY <1>1, <1>4
  <2>2. TextOf(o)' = TextOf(o)
    BY <2>1 DEF ReadRow
  <2>3. rows[o] \in Slots /\ rows[o] # rows[r]
    BY <1>1, <1>2, <1>4, <2>1, OwnSlot DEF IInv
  <2>4. views'[rows'[o]] = views[rows[o]]
    BY <1>2, <2>3 DEF IInv, TableTypes, WriteText
  <2> QED BY <2>1, <2>2, <2>4 DEF ViewsMatchTexts
<1> QED BY <1>3, <1>4 DEF ViewsMatchTexts

LEMMA ViewsStep == IInv /\ ViewsMatchTexts /\ [Next]_vars => ViewsMatchTexts'
<1>1. ASSUME ViewsMatchTexts, UNCHANGED vars PROVE ViewsMatchTexts'
  BY <1>1 DEF vars, ViewsMatchTexts, Live, TextOf
<1> QED BY <1>1, NextCases, InsertViews, DeleteViews, UpdateViews

LEMMA ViewsAlwaysMatch == Vec0Spec => []ViewsMatchTexts
<1>1. Init => ViewsMatchTexts
  BY DEF Init, ViewsMatchTexts, Live
<1> QED BY <1>1, ViewsStep, Invariance, PTL DEF Vec0Spec

-----------------------------------------------------------------------------
(* What deleted rows leave in their slots. *)

LEMMA NoViewIsShort == ~IsLong(NoView)
  BY SizesAssumption DEF IsLong, NoView, View

\* A long text of a live row is where the filters look for it.
LEMMA LiveHasFullText ==
  ASSUME IInv, ViewsMatchTexts, NEW r \in Rowids, Live(r), IsLong(views[rows[r]])
  PROVE  HasFullText(rows[r]) /\ FullText(rows[r]) = TextOf(r)
<1>1. rowids[rows[r]] = r /\ r # 0
  BY RowidsAssumption DEF IInv, SlotsMatchRows
<1>2. TextOf(r) = longTexts[r] /\ TextOf(r) \in Texts
  BY DEF TextOf, IInv, RowsAreRead, ReadRow, Table!Rows
<1>3. views[rows[r]].len = Len(TextOf(r))
  <2>1. views[rows[r]] = View(TextOf(r))
    BY DEF ViewsMatchTexts
  <2>2. \A t : View(t).len = Len(t)
    BY DEF View
  <2> QED BY <2>1, <2>2
<1>4. longTexts[r] # NoText
  BY <1>2, TextIsAText
<1> QED BY <1>1, <1>2, <1>3, <1>4 DEF HasFullText, FullText

\* When at most one clearing is lost, at most one deleted row leaves a long view behind, and its
\* text with it: no row of that rowid gets another long text.
LongViewsLeft ==
  \A s \in Slots \ valid : IsLong(views[s]) =>
    /\ lost # 0 /\ HasFullText(s)
    /\ rowids[s] \in Rowids /\ (Live(rowids[s]) => ~IsLong(views[rows[rowids[s]]]))
    /\ \A z \in Slots \ valid : IsLong(views[z]) => z = s

LEMMA InsertLeaves ==
  ASSUME IInv, LongViewsLeft,
         NEW r, NEW s, NEW p, NEW v, NEW t, NEW a, Inserting(r, s, p, v, t, a)
  PROVE  LongViewsLeft'
<1>1. /\ s \notin valid /\ s \in Slots /\ r \in Rowids /\ t \in Texts /\ s # NoSlot
      /\ rows' = [rows EXCEPT ![r] = s] /\ rowids' = [rowids EXCEPT ![s] = r]
      /\ valid' = valid \cup {s} /\ lost' = lost /\ ~Live(r)
      /\ WriteText(r, s, t, FALSE)
  BY FreeSlot, SlotIsASlot DEF IInv, Inserting, InsertRow, Live
<1>2. \A z \in Slots \ valid' : z \in Slots \ valid /\ z # s /\ views'[z] = views[z] /\ rowids'[z] = rowids[z]
  BY <1>1 DEF IInv, TableTypes, WriteText
<1> SUFFICES ASSUME NEW z \in Slots \ valid', IsLong(views'[z])
             PROVE  /\ lost' # 0 /\ HasFullText(z)'
                    /\ rowids'[z] \in Rowids /\ (Live(rowids[z])' => ~IsLong(views'[rows'[rowids'[z]]]))
                    /\ \A y \in Slots \ valid' : IsLong(views'[y]) => y = z
  BY DEF LongViewsLeft
<1> DEFINE o == rowids[z]
<1>3. z \in Slots \ valid /\ IsLong(views[z]) /\ z # s
  BY <1>2
<1>4. /\ lost # 0 /\ HasFullText(z) /\ o \in Rowids /\ (Live(o) => ~IsLong(views[rows[o]]))
      /\ \A y \in Slots \ valid : IsLong(views[y]) => y = z
  BY <1>3 DEF LongViewsLeft
<1>5. ~IsLong(views[s])
  BY <1>1, <1>3, <1>4
<1>6. longTexts[o] # NoText
  BY <1>4 DEF HasFullText, FullText
<1>7. longTexts'[o] = longTexts[o] /\ (o = r => ~IsLong(View(t)))
  <2>1. CASE o = r
    BY <1>1, <1>5, <1>6, <2>1 DEF WriteText
  <2>2. CASE o # r
    BY <1>1, <1>4, <2>2 DEF WriteText, IInv, TableTypes
  <2> QED BY <2>1, <2>2
<1>8. HasFullText(z)'
  BY <1>2, <1>4, <1>7 DEF HasFullText, FullText
<1>9. Live(o)' => ~IsLong(views'[rows'[o]])
  <2>1. CASE o = r
    BY <1>1, <1>7, <2>1 DEF IInv, TableTypes, WriteText
  <2>2. CASE o # r
    <3> SUFFICES ASSUME Live(o)' PROVE ~IsLong(views'[rows'[o]])
      OBVIOUS
    <3>1. Live(o) /\ rows'[o] = rows[o]
      BY <1>1, <1>2, <1>4, <2>2 DEF IInv, TableTypes, Live
    <3>2. rows[o] \in Slots /\ rows[o] # s
      BY <1>1, <1>4, <3>1, OwnSlot DEF IInv
    <3>3. views'[rows[o]] = views[rows[o]]
      BY <1>1, <3>2 DEF IInv, TableTypes, WriteText
    <3> QED BY <1>4, <3>1, <3>3
  <2> QED BY <2>1, <2>2
<1> QED BY <1>1, <1>2, <1>4, <1>8, <1>9

LEMMA DeleteLeaves ==
  ASSUME MaxLost <= 1, IInv, ViewsMatchTexts, LongViewsLeft,
         NEW r \in Rowids, NEW outcome \in ClearOutcomes, Delete(r, outcome)
  PROVE  LongViewsLeft'
<1>0. Live(r) /\ rows[r] \in Slots /\ rows[r] \in valid /\ rowids[rows[r]] = r
  <2>1. Live(r)
    BY DEF Delete, Live
  <2> QED BY <2>1, OwnSlot DEF IInv, SlotsMatchRows
<1> PICK s \in Slots : s = rows[r]
  BY <1>0
<1>1. Live(r) /\ s \in Slots /\ s \in valid /\ rowids[s] = r /\ s = rows[r]
  BY <1>0
<1>2. /\ rows' = [rows EXCEPT ![r] = NoSlot] /\ rowids' = rowids /\ valid' = valid \ {s}
      /\ lost' = (IF outcome = "done" THEN lost ELSE lost + 1) /\ lost' <= MaxLost
      /\ views' = (IF outcome = "kept" THEN views ELSE [views EXCEPT ![s] = NoView])
      /\ longTexts' = (IF outcome = "done" /\ IsLong(views[s])
                       THEN [longTexts EXCEPT ![r] = NoText] ELSE longTexts)
  BY DEF Delete, ClearMetadata
<1>3. ~Live(r)'
  BY <1>2 DEF IInv, TableTypes, Live
<1>4. lost \in Nat /\ DOMAIN views = Slots
  BY DEF IInv, TableTypes
<1>5. \A x \in Slots : x # s => views'[x] = views[x]
  BY <1>2, <1>4
<1> SUFFICES ASSUME NEW z \in Slots \ valid', IsLong(views'[z])
             PROVE  /\ lost' # 0 /\ HasFullText(z)'
                    /\ rowids'[z] \in Rowids /\ (Live(rowids[z])' => ~IsLong(views'[rows'[rowids'[z]]]))
                    /\ \A y \in Slots \ valid' : IsLong(views'[y]) => y = z
  BY DEF LongViewsLeft
<1>6. CASE lost = 0
  <2>1. \A y \in Slots \ valid' : IsLong(views'[y]) => y = s
    BY <1>2, <1>5, <1>6 DEF LongViewsLeft
  <2>2. z = s
    BY <2>1
  <2>3. outcome = "kept" /\ views'[s] = views[s] /\ IsLong(views[s])
    BY <1>1, <1>2, <1>4, <2>2, NoViewIsShort
  <2>4. lost' # 0 /\ longTexts' = longTexts
    BY <1>2, <1>6, <2>3
  <2>5. HasFullText(s)
    BY <1>1, <2>3, LiveHasFullText
  <2>6. HasFullText(s)'
    BY <1>2, <2>3, <2>4, <2>5 DEF HasFullText, FullText
  <2>7. rowids'[z] = r /\ rowids[z] = r
    BY <1>1, <1>2, <2>2
  <2> QED BY <1>3, <2>1, <2>2, <2>4, <2>6, <2>7
<1>7. CASE lost # 0
  <2>1. outcome = "done"
    BY <1>2, <1>4, <1>7, LostAssumption
  <2>2. views'[s] = NoView
    BY <1>1, <1>2, <1>4, <2>1
  <2>3. \A y \in Slots \ valid' : IsLong(views'[y]) => y \in Slots \ valid /\ IsLong(views[y]) /\ y # s
    BY <1>2, <1>5, <2>2, NoViewIsShort
  <2>4. z \in Slots \ valid /\ IsLong(views[z]) /\ z # s
    BY <2>3
  <2> DEFINE o == rowids[z]
  <2>5. /\ lost # 0 /\ HasFullText(z) /\ o \in Rowids /\ (Live(o) => ~IsLong(views[rows[o]]))
        /\ \A y \in Slots \ valid : IsLong(views[y]) => y = z
    BY <2>4 DEF LongViewsLeft
  <2>6. longTexts'[o] = longTexts[o]
    <3>1. CASE o = r
      <4>1. ~IsLong(views[s])
        BY <1>1, <2>5, <3>1
      <4> QED BY <1>2, <4>1
    <3>2. CASE o # r
      BY <1>2, <2>5, <3>2 DEF IInv, TableTypes
    <3> QED BY <3>1, <3>2
  <2>7. HasFullText(z)'
    BY <1>2, <1>5, <2>4, <2>5, <2>6 DEF HasFullText, FullText
  <2>8. Live(o)' => ~IsLong(views'[rows'[o]])
    <3> SUFFICES ASSUME Live(o)' PROVE ~IsLong(views'[rows'[o]])
      OBVIOUS
    <3>1. o # r /\ rows'[o] = rows[o]
      BY <1>2, <1>3, <2>5 DEF IInv, TableTypes, Live
    <3>2. Live(o)
      BY <1>2, <3>1 DEF Live
    <3>3. rows[o] \in Slots /\ rows[o] # s
      BY <1>1, <2>5, <3>1, <3>2, OwnSlot DEF IInv
    <3> QED BY <1>5, <2>5, <3>1, <3>2, <3>3
  <2> QED BY <1>2, <2>1, <2>3, <2>5, <2>7, <2>8
<1> QED BY <1>6, <1>7

LEMMA UpdateLeaves ==
  ASSUME IInv, LongViewsLeft, NEW r, NEW cols, NEW v, NEW t, NEW a, Updating(r, cols, v, t, a)
  PROVE  LongViewsLeft'
<1> DEFINE s == rows[r]
<1>1. Live(r) /\ s \in Slots /\ s \in valid /\ r \in Rowids
  <2>1. Live(r) /\ r \in Rowids
    BY DEF Updating, Update, Live
  <2> QED BY <2>1, OwnSlot DEF IInv
<1>2. /\ rows' = rows /\ rowids' = rowids /\ valid' = valid /\ lost' = lost
      /\ WriteText(r, s, t, TRUE) \/ UNCHANGED <<views, longTexts>>
  BY DEF Updating, Update
<1>3. CASE UNCHANGED <<views, longTexts>>
  BY <1>2, <1>3 DEF LongViewsLeft, HasFullText, FullText, Live
<1>4. CASE WriteText(r, s, t, TRUE)
  <2>1. views'[s] = View(t) /\ \A x \in Slots : x # s => views'[x] = views[x]
    BY <1>1, <1>4 DEF WriteText, IInv, TableTypes
  <2> SUFFICES ASSUME NEW z \in Slots \ valid, IsLong(views'[z])
               PROVE  /\ lost' # 0 /\ HasFullText(z)'
                      /\ rowids'[z] \in Rowids /\ (Live(rowids[z])' => ~IsLong(views'[rows'[rowids'[z]]]))
                      /\ \A y \in Slots \ valid : IsLong(views'[y]) => y = z
    BY <1>2 DEF LongViewsLeft
  <2>2. \A y \in Slots \ valid : y # s /\ views'[y] = views[y]
    BY <1>1, <2>1
  <2>3. IsLong(views[z])
    BY <2>2
  <2> DEFINE o == rowids[z]
  <2>4. /\ lost # 0 /\ HasFullText(z) /\ o \in Rowids /\ (Live(o) => ~IsLong(views[rows[o]]))
        /\ \A y \in Slots \ valid : IsLong(views[y]) => y = z
    BY <2>3 DEF LongViewsLeft
  <2>5. longTexts[o] # NoText
    BY <2>4 DEF HasFullText, FullText
  <2>6. longTexts'[o] = longTexts[o] /\ (o = r => ~IsLong(View(t)))
    <3>1. CASE o = r
      <4>1. ~IsLong(views[s])
        BY <1>1, <2>4, <3>1
      <4> QED BY <1>4, <2>5, <3>1, <4>1 DEF WriteText
    <3>2. CASE o # r
      BY <1>4, <2>4, <3>2 DEF WriteText, IInv, TableTypes
    <3> QED BY <3>1, <3>2
  <2>7. HasFullText(z)'
    BY <1>2, <2>2, <2>4, <2>6 DEF HasFullText, FullText
  <2>8. Live(o)' => ~IsLong(views'[rows'[o]])
    <3>1. CASE o = r
      BY <1>2, <2>1, <2>6, <3>1
    <3>2. CASE o # r
      <4> SUFFICES ASSUME Live(o)' PROVE ~IsLong(views'[rows'[o]])
        OBVIOUS
      <4>1. Live(o) /\ rows'[o] = rows[o]
        BY <1>2 DEF Live
      <4>2. rows[o] \in Slots /\ rows[o] # s
        BY <1>1, <2>4, <3>2, <4>1, OwnSlot DEF IInv
      <4> QED BY <2>1, <2>4, <4>1, <4>2
    <3> QED BY <3>1, <3>2
  <2> QED BY <1>2, <2>2, <2>4, <2>7, <2>8
<1> QED BY <1>2, <1>3, <1>4

LEMMA LeavesStep ==
  ASSUME MaxLost <= 1
  PROVE  IInv /\ ViewsMatchTexts /\ LongViewsLeft /\ [Next]_vars => LongViewsLeft'
<1>1. ASSUME LongViewsLeft, UNCHANGED vars PROVE LongViewsLeft'
  BY <1>1 DEF vars, LongViewsLeft, HasFullText, FullText, Live
<1> QED BY <1>1, NextCases, InsertLeaves, DeleteLeaves, UpdateLeaves

LEMMA LittleIsLeft ==
  ASSUME MaxLost <= 1
  PROVE  Vec0Spec => []LongViewsLeft
<1>1. Init => LongViewsLeft
  BY NoViewIsShort DEF Init, LongViewsLeft
<1> QED BY <1>1, LeavesStep, Invariance, ViewsAlwaysMatch, PTL DEF Vec0Spec

-----------------------------------------------------------------------------
(* The metadata filter. *)

LEMMA SmallerIsEither ==
  ASSUME NEW a \in Nat, NEW b \in Nat
  PROVE  Smaller(a, b) \in Nat /\ Smaller(a, b) <= a /\ Smaller(a, b) <= b
         /\ (a <= b => Smaller(a, b) = a) /\ (b <= a => Smaller(a, b) = b)
  BY DEF Smaller

\* Two texts that are long enough are the same up to n when they agree there.
LEMMA SameWhenAgreeing ==
  ASSUME NEW a, NEW b, NEW n \in Nat, Len(a) \in Nat, Len(b) \in Nat, n <= Len(a), n <= Len(b),
         \A i \in 1 .. n : a[i] \in Nat, \A i \in 1 .. n : b[i] \in Nat
  PROVE  SameUpTo(a, b, n) <=> \A i \in 1 .. n : a[i] = b[i]
<1>1. Len(a) \in Nat /\ Len(b) \in Nat /\ Smaller(n, Len(a)) = n /\ Smaller(n, Len(b)) = n
  BY SmallerIsEither
<1>2. \A i \in 1 .. n : a[i] \in Nat /\ b[i] \in Nat /\ ~(i > Len(a)) /\ ~(i > Len(b))
  BY <1>1
<1>3. ASSUME \A i \in 1 .. n : a[i] = b[i] PROVE SameUpTo(a, b, n)
  BY <1>1, <1>2, <1>3 DEF SameUpTo, Before
<1>4. ASSUME SameUpTo(a, b, n), NEW i \in 1 .. n, a[i] # b[i] PROVE FALSE
  <2> DEFINE T == {j \in 1 .. n : a[j] # b[j]}
  <2>0. i \in T /\ \A j \in T : j \in Nat
    BY <1>4
  <2>1. T \subseteq Nat /\ T # {}
    BY <2>0, Zenon
  <2> HIDE DEF T
  <2>2. PICK m \in T : \A j \in T : m <= j
    BY <2>1, LeastNumber
  <2> USE DEF T
  <2>3. m \in 1 .. n /\ a[m] # b[m]
    OBVIOUS
  <2>4. \A j \in 1 .. m - 1 : j <= Len(a) /\ j <= Len(b) /\ a[j] = b[j]
    <3> SUFFICES ASSUME NEW j \in 1 .. m - 1 PROVE j <= Len(a) /\ j <= Len(b) /\ a[j] = b[j]
      OBVIOUS
    <3>1. j \in 1 .. n /\ ~(m <= j) /\ j <= n
      BY <2>3
    <3>2. j \notin T
      BY <2>2, <3>1
    <3> QED BY <1>1, <3>1, <3>2
  <2>5. a[m] < b[m] \/ b[m] < a[m]
    BY <1>2, <2>3
  <2>6. Before(a, b, n) \/ Before(b, a, n)
    BY <1>1, <2>3, <2>4, <2>5 DEF Before
  <2> QED BY <1>4, <2>6 DEF SameUpTo
<1> QED BY <1>3, <1>4

\* What a view holds of a text.
LEMMA ViewPrefix ==
  ASSUME NEW t \in Seq(Nat)
  PROVE  /\ View(t).len = Len(t) /\ View(t).prefix \in Seq(Nat)
         /\ Len(View(t).prefix) = Smaller(Len(t), ViewLength)
         /\ \A i \in 1 .. Smaller(Len(t), ViewLength) : View(t).prefix[i] = t[i]
<1> DEFINE m == Smaller(Len(t), ViewLength)
<1>1. Len(t) \in Nat /\ ViewLength \in Nat
  BY SizesAssumption
<1>2. m \in Nat /\ m <= Len(t)
  BY <1>1, SmallerIsEither
<1>3. View(t).len = Len(t) /\ View(t).prefix = SubSeq(t, 1, m)
  BY DEF View, Smaller
<1> HIDE DEF m
<1>4. SubSeq(t, 1, m) \in Seq(Nat) /\ Len(SubSeq(t, 1, m)) = m
      /\ \A i \in 1 .. m : SubSeq(t, 1, m)[i] = t[i]
  BY <1>1, <1>2, SubSeqProperties
<1> QED BY <1>3, <1>4 DEF m

\* Equality compares length and view, and the long text when there is one: it is the equality of
\* the texts.
LEMMA EqualityIsEquality ==
  ASSUME NEW t \in Texts, NEW u \in Seq(Nat), NEW op \in {"eq", "ne"}, NEW s, views[s] = View(t),
         IsLong(View(t)) => FullText(s) = t
  PROVE  TextEquals(s, op, u) <=> t = u
<1> DEFINE m == Smaller(Len(t), ViewLength)
           n == Len(t)
<1>1. t \in Seq(Nat) /\ n \in Nat /\ Len(u) \in Nat /\ ViewLength \in Nat
  BY TextsAssumption, SizesAssumption
<1>2. m \in Nat /\ m <= n /\ (~IsLong(View(t)) => m = n)
  <2>1. View(t).len = n
    BY <1>1, ViewPrefix
  <2>2. IsLong(View(t)) <=> n > ViewLength
    BY <2>1 DEF IsLong
  <2>3. m = Smaller(n, ViewLength)
    OBVIOUS
  <2> HIDE DEF n, m
  <2> QED BY <1>1, <2>2, <2>3, SmallerIsEither
<1>3. views[s].len = n /\ views[s].prefix \in Seq(Nat) /\ Len(views[s].prefix) = m
      /\ \A i \in 1 .. m : views[s].prefix[i] = t[i]
  BY <1>1, ViewPrefix
<1> DEFINE v == views[s].prefix
<1>31. \A i \in 1 .. n : t[i] \in Nat
  BY <1>1
<1>32. \A i \in 1 .. m : v[i] \in Nat
  <2>1. \A i \in 1 .. m : i \in 1 .. n
    BY <1>1, <1>2
  <2> QED BY <1>3, <1>31, <2>1, Zenon
<1>4. ASSUME Len(u) = n PROVE SamePrefix(views[s], u) <=> \A i \in 1 .. m : t[i] = u[i]
  <2>1. SamePrefix(views[s], u) <=> SameUpTo(views[s].prefix, u, m)
    BY <1>3 DEF SamePrefix
  <2>2. SameUpTo(views[s].prefix, u, m) <=> \A i \in 1 .. m : views[s].prefix[i] = u[i]
    <3>1. Len(v) \in Nat /\ m <= Len(v) /\ m <= Len(u) /\ Len(u) \in Nat
      BY <1>1, <1>2, <1>3, <1>4
    <3>2. \A i \in 1 .. m : u[i] \in Nat
      <4>1. \A i \in 1 .. m : i \in 1 .. Len(u)
        BY <1>1, <1>2, <1>4
      <4>2. \A i \in 1 .. Len(u) : u[i] \in Nat
        OBVIOUS
      <4> QED BY <4>1, <4>2, Zenon
    <3> HIDE DEF v, m
    <3> QED BY <1>2, <1>32, <3>1, <3>2, SameWhenAgreeing DEF v
  <2> QED BY <1>3, <2>1, <2>2
<1>5. ASSUME Len(u) = n PROVE SameUpTo(t, u, n) <=> \A i \in 1 .. n : t[i] = u[i]
  <2>1. Len(t) \in Nat /\ Len(u) \in Nat /\ n \in Nat /\ n <= Len(t) /\ n <= Len(u)
    BY <1>1, <1>5
  <2>2. \A i \in 1 .. Len(u) : u[i] \in Nat
    OBVIOUS
  <2>3. \A i \in 1 .. n : u[i] \in Nat
    BY <1>5, <2>2, Zenon
  <2> HIDE DEF n
  <2> QED BY <1>31, <2>1, <2>3, SameWhenAgreeing
<1>6. ASSUME Len(u) = n, \A i \in 1 .. n : t[i] = u[i] PROVE t = u
  BY <1>1, <1>6, SeqEqual
<1>7. ConsultsFull(views[s], op, u) <=> n = Len(u) /\ IsLong(View(t)) /\ SamePrefix(views[s], u)
  BY <1>3 DEF ConsultsFull
<1> HIDE DEF m, n
<1>8. ASSUME t = u PROVE TextEquals(s, op, u)
  <2>1. Len(u) = n
    BY <1>8 DEF n
  <2>2. SamePrefix(views[s], u)
    BY <1>4, <1>8, <2>1
  <2>3. IsLong(View(t)) => SameUpTo(FullText(s), u, Len(FullText(s)))
    BY <1>5, <1>8, <2>1 DEF n
  <2> QED BY <1>3, <1>7, <2>1, <2>2, <2>3 DEF TextEquals
<1>9. ASSUME TextEquals(s, op, u) PROVE t = u
  <2>1. Len(u) = n /\ SamePrefix(views[s], u)
    BY <1>3, <1>9 DEF TextEquals
  <2>2. CASE IsLong(View(t))
    <3>1. FullText(s) = t /\ SameUpTo(t, u, n)
      BY <1>7, <1>9, <2>1, <2>2 DEF TextEquals, n
    <3> QED BY <1>5, <1>6, <2>1, <3>1
  <2>3. CASE ~IsLong(View(t))
    BY <1>2, <1>4, <1>6, <2>1, <2>3
  <2> QED BY <2>2, <2>3
<1> QED BY <1>8, <1>9

-----------------------------------------------------------------------------
(* The candidates of a chunk are the matching rows in it. *)

\* The queries the table answers exactly: the constraint on the text is one of equality.
PlainQuery(q) == q.k \in Nat /\ q.op \in {"any", "eq", "ne"} /\ q.text \in Seq(Nat)

HitOf(r) == [rowid |-> r, distance |-> Distance(r)]
HitsOf(S) == {HitOf(r) : r \in S}
MatchingIn(q, c) == {r \in Matching(q) : rows[r][1] = c}
MatchingUpTo(q, c) == {r \in Matching(q) : rows[r][1] <= c}

LEMMA DistancesAreNumbers ==
  ASSUME IInv, NaN \notin Vectors, NEW r \in Rowids, Live(r)
  PROVE  Distance(r) \in Nat
<1>1. ReadRow(r).vector \in Vectors
  BY DEF IInv, RowsAreRead, Table!Rows
<1> QED BY <1>1, VectorsAssumption DEF Distance

\* A filter accepts a slot in use when the text of its row passes.
LEMMA FilterReadsText ==
  ASSUME IInv, ViewsMatchTexts, NEW q, PlainQuery(q), NEW r \in Rowids, Live(r)
  PROVE  TextFilter(rows[r], q.op, q.text)
           <=> CASE q.op = "any" -> TRUE
                 [] q.op = "eq"  -> ReadRow(r).text = q.text
                 [] q.op = "ne"  -> ReadRow(r).text # q.text
                 [] q.op = "lt"  -> TextLess(ReadRow(r).text, q.text)
<1> DEFINE t == TextOf(r)
           s == rows[r]
<1>1. t \in Texts /\ ReadRow(r).text = t
  BY DEF IInv, RowsAreRead, ReadRow, Table!Rows
<1>2. views[s] = View(t)
  BY DEF ViewsMatchTexts
<1>3. IsLong(View(t)) => FullText(s) = t
  BY <1>2, LiveHasFullText
<1>4. q.op \in {"any", "eq", "ne"} /\ q.text \in Seq(Nat)
  BY DEF PlainQuery
<1> HIDE DEF t, s
<1>5. CASE q.op = "any"
  BY <1>5 DEF TextFilter
<1>6. CASE q.op = "eq"
  <2>1. TextEquals(s, "eq", q.text) <=> t = q.text
    <3> DEFINE op == "eq"
    <3>1. op \in {"eq", "ne"}
      OBVIOUS
    <3> HIDE DEF op
    <3>2. TextEquals(s, op, q.text) <=> t = q.text
      BY <1>1, <1>2, <1>3, <1>4, <3>1, EqualityIsEquality
    <3> QED BY <3>2 DEF op
  <2> QED BY <1>1, <1>6, <2>1 DEF TextFilter, s
<1>7. CASE q.op = "ne"
  <2>1. TextEquals(s, "ne", q.text) <=> t = q.text
    <3> DEFINE op == "ne"
    <3>1. op \in {"eq", "ne"}
      OBVIOUS
    <3> HIDE DEF op
    <3>2. TextEquals(s, op, q.text) <=> t = q.text
      BY <1>1, <1>2, <1>3, <1>4, <3>1, EqualityIsEquality
    <3> QED BY <3>2 DEF op
  <2> QED BY <1>1, <1>7, <2>1 DEF TextFilter, s
<1> QED BY <1>4, <1>5, <1>6, <1>7

\* A candidate is the slot of a matching row of the chunk.
LEMMA CandidateMatches ==
  ASSUME IInv, ViewsMatchTexts, NEW q, PlainQuery(q), NEW c \in ChunksOf(q.partition),
         NEW o \in Candidates(c, q)
  PROVE  /\ rowids[<<c, o>>] \in MatchingIn(q, c)
         /\ rows[rowids[<<c, o>>]] = <<c, o>>
         /\ Hit(c, o) = HitOf(rowids[<<c, o>>])
<1> DEFINE s == <<c, o>>
           r == rowids[s]
<1>1. s \in valid /\ r \in q.ids /\ TextFilter(s, q.op, q.text) /\ Allows(q.within, vectors[s])
  BY DEF Candidates
<1>2. r \in Rowids /\ rows[r] = s /\ s \in Slots
  BY <1>1 DEF IInv, SlotsMatchRows, TableTypes
<1>3. Live(r)
  BY <1>2, SlotIsASlot DEF Live
<1>4. Distance(r) = vectors[s] /\ ReadRow(r).partition = partition[c]
  <2>1. rows[r][1] = c
    BY <1>2
  <2> QED BY <1>2, <2>1 DEF Distance, ReadRow
<1>5. partition[c] = q.partition /\ q.partition # Null
  BY DEF ChunksOf
<1> HIDE DEF s, r
<1>6. Satisfies(r, q)
  BY <1>1, <1>2, <1>3, <1>4, <1>5, FilterReadsText DEF Satisfies
<1>7. r \in MatchingIn(q, c)
  <2>1. rows[r][1] = c
    BY <1>2 DEF s
  <2> QED BY <1>1, <1>2, <1>4, <1>6, <2>1 DEF MatchingIn, Matching
<1>8. Hit(c, o) = HitOf(r)
  BY <1>4 DEF Hit, HitOf, s, r
<1> QED BY <1>2, <1>7, <1>8 DEF s, r

\* And every matching row of the chunk is the row of a candidate.
LEMMA MatchIsCandidate ==
  ASSUME IInv, ViewsMatchTexts, NEW q, PlainQuery(q), NEW r \in Matching(q)
  PROVE  /\ rows[r][1] \in ChunksOf(q.partition)
         /\ rows[r][2] \in Candidates(rows[r][1], q)
         /\ rows[r] = <<rows[r][1], rows[r][2]>> /\ rowids[rows[r]] = r
<1>1. r \in Rowids /\ Satisfies(r, q) /\ Allows(q.within, Distance(r))
  BY DEF Matching
<1>2. Live(r) /\ r \in q.ids /\ ReadRow(r).partition = q.partition /\ q.partition # Null
  BY <1>1 DEF Satisfies
<1> DEFINE s == rows[r]
<1>3. s \in Slots /\ s \in valid /\ s[1] \in 1 .. chunks /\ rowids[s] = r
  BY <1>1, <1>2, OwnSlot DEF IInv, SlotsMatchRows
<1>4. s = <<s[1], s[2]>> /\ s[2] \in Offsets
  BY <1>3 DEF Slots
<1>5. partition[s[1]] = q.partition /\ Distance(r) = vectors[s]
  BY <1>2 DEF ReadRow, Distance
<1>6. TextFilter(s, q.op, q.text)
  BY <1>1, <1>2, FilterReadsText DEF Satisfies
<1> HIDE DEF s
<1>7. s[1] \in ChunksOf(q.partition)
  BY <1>2, <1>3, <1>5 DEF ChunksOf
<1>8. s[2] \in Candidates(s[1], q)
  <2>1. \A o \in Offsets : <<s[1], o>> \in valid /\ rowids[<<s[1], o>>] \in q.ids
           /\ TextFilter(<<s[1], o>>, q.op, q.text) /\ Allows(q.within, vectors[<<s[1], o>>])
           => o \in Candidates(s[1], q)
    BY DEF Candidates
  <2> QED BY <1>1, <1>2, <1>3, <1>4, <1>5, <1>6, <2>1
<1> QED BY <1>3, <1>4, <1>7, <1>8 DEF s

-----------------------------------------------------------------------------
(* The hits of a chunk, and of the chunks up to one. *)

HitSet == [rowid : Rowids, distance : Nat]
DistanceOf == [h \in HitSet |-> h.distance]

\* What vec0Filter_knn merges for a chunk.
ChunkHits(c, q) ==
  LET top == min_idx(c, Candidates(c, q), Smaller(q.k, ChunkSize))
  IN [i \in DOMAIN top |-> Hit(c, top[i])]

LEMMA HitsAreHits ==
  ASSUME IInv, NaN \notin Vectors, NEW q, NEW r \in Matching(q)
  PROVE  /\ r \in Rowids /\ Live(r) /\ HitOf(r) \in HitSet /\ Distance(r) \in Nat
         /\ HitOf(r).rowid = r /\ HitOf(r).distance = Distance(r) /\ DistanceOf[HitOf(r)] = Distance(r)
<1>1. r \in Rowids /\ Live(r)
  BY DEF Matching, Satisfies
<1>2. Distance(r) \in Nat
  BY <1>1, DistancesAreNumbers
<1>3. HitOf(r) \in HitSet /\ HitOf(r).rowid = r /\ HitOf(r).distance = Distance(r)
  BY <1>1, <1>2 DEF HitOf, HitSet
<1> QED BY <1>1, <1>2, <1>3 DEF DistanceOf

\* A chunk has no more candidates than slots: asking it for more of them gives no more.
LEMMA AChunkIsEnough ==
  ASSUME NEW C, C \subseteq Offsets, NEW k \in Nat, NEW d, NEW p, IsTop(p, Smaller(k, ChunkSize), C, d)
  PROVE  IsTop(p, k, C, d)
<1> DEFINE n == Smaller(k, ChunkSize)
<1>1. ChunkSize \in Nat /\ n \in Nat /\ n <= k /\ (k <= ChunkSize => n = k) /\ (ChunkSize <= k => n = ChunkSize)
  BY SizesAssumption, SmallerIsEither
<1>2. CASE k <= ChunkSize
  BY <1>1, <1>2
<1>3. CASE ChunkSize <= k /\ Len(p) # ChunkSize
  <2>1. Len(p) # n
    BY <1>1, <1>3
  <2>2. \A x \in C : \E i \in 1 .. Len(p) : p[i] = x
    BY <2>1 DEF IsTop
  <2>3. Len(p) \in Nat /\ Len(p) <= n
    BY DEF IsTop
  <2>4. Len(p) <= k
    BY <1>1, <2>3
  <2> QED BY <2>2, <2>4 DEF IsTop
<1>4. CASE ChunkSize <= k /\ Len(p) = ChunkSize
  <2> DEFINE I == 1 .. ChunkSize
  <2>1. p \in [I -> C] /\ \A i, j \in I : p[i] = p[j] => i = j
    BY <1>4 DEF IsTop
  <2>2. p \in [I -> Offsets]
    BY <2>1
  <2>3. p \in Injection(I, Offsets)
    BY <2>1, <2>2 DEF Injection, IsInjective
  <2>4. IsFiniteSet(I) /\ Cardinality(I) = ChunkSize
    BY <1>1, FS_Interval, SizesAssumption
  <2>5. IsFiniteSet(Offsets) /\ Cardinality(Offsets) = ChunkSize
    <3>1. 0 \in Int /\ ChunkSize - 1 \in Int /\ ~(0 > ChunkSize - 1)
          /\ (ChunkSize - 1) - 0 + 1 = ChunkSize
      BY SizesAssumption
    <3> QED BY <3>1, FS_Interval DEF Offsets
  <2> HIDE DEF I
  <2>6. p \in Surjection(I, Offsets)
    BY <2>3, <2>4, <2>5, FS_Injection
  <2>7. \A x \in C : \E i \in I : p[i] = x
    BY <2>6 DEF Surjection
  <2>8. Len(p) <= k
    BY <1>1, <1>4
  <2> QED BY <1>4, <2>7, <2>8 DEF IsTop, I
<1> QED BY <1>1, <1>2, <1>3, <1>4

\* The hits of a chunk are its k nearest matching rows.
LEMMA ChunkHitsAreTop ==
  ASSUME IInv, ViewsMatchTexts, NaN \notin Vectors, NEW q, PlainQuery(q),
         NEW c \in ChunksOf(q.partition)
  PROVE  IsTop(ChunkHits(c, q), q.k, HitsOf(MatchingIn(q, c)), DistanceOf)
<1> DEFINE C == Candidates(c, q)
           d == [o \in C |-> vectors[<<c, o>>]]
           p == min_idx(c, C, Smaller(q.k, ChunkSize))
           h == ChunkHits(c, q)
           R(o) == rowids[<<c, o>>]
<1>1. C \subseteq Offsets
  BY DEF Candidates
<1>2. \A o \in C : /\ R(o) \in MatchingIn(q, c) /\ R(o) \in Matching(q)
                   /\ rows[R(o)] = <<c, o>> /\ Hit(c, o) = HitOf(R(o))
  BY CandidateMatches DEF MatchingIn
<1>3. \A o \in C : Distance(R(o)) = vectors[<<c, o>>] /\ vectors[<<c, o>>] \in Nat
  BY <1>2, HitsAreHits DEF Distance, ReadRow
<1>4. q.k \in Nat /\ Smaller(q.k, ChunkSize) \in Nat
  BY SizesAssumption, SmallerIsEither DEF PlainQuery
<1>5. IsTop(p, Smaller(q.k, ChunkSize), C, d)
  <2>1. \A o \in C : d[o] = vectors[<<c, o>>]
    OBVIOUS
  <2> HIDE DEF C, d
  <2> QED BY <1>1, <1>3, <1>4, <2>1, MinIdxIsTop
<1>6. IsTop(p, q.k, C, d)
  <2> HIDE DEF p, C, d
  <2> QED BY <1>1, <1>4, <1>5, AChunkIsEnough
<1>7. h = [i \in DOMAIN p |-> Hit(c, p[i])]
  BY DEF ChunkHits
<1> HIDE DEF p, C, h
<1>8. p \in Seq(C) /\ Len(p) \in Nat /\ DOMAIN p = 1 .. Len(p) /\ \A i \in 1 .. Len(p) : p[i] \in C
  BY <1>6 DEF IsTop
<1>9. \A i \in 1 .. Len(p) : h[i] = HitOf(R(p[i]))
  BY <1>2, <1>7, <1>8
<1>10. \A o \in C : HitOf(R(o)) \in HitsOf(MatchingIn(q, c)) /\ DistanceOf[HitOf(R(o))] = d[o]
  BY <1>2, <1>3, HitsAreHits DEF HitsOf
<1>11. h \in Seq(HitsOf(MatchingIn(q, c))) /\ Len(h) = Len(p)
  <2>1. \A i \in 1 .. Len(p) : Hit(c, p[i]) \in HitsOf(MatchingIn(q, c))
    BY <1>2, <1>8, <1>10
  <2>2. h = [i \in 1 .. Len(p) |-> Hit(c, p[i])]
    BY <1>7, <1>8
  <2> DEFINE n == Len(p)
             S == HitsOf(MatchingIn(q, c))
  <2>3. h \in [1 .. n -> S] /\ n \in Nat
    BY <1>8, <2>1, <2>2
  <2> HIDE DEF n, S
  <2>4. h \in Seq(S) /\ Len(h) = n
    BY <2>3
  <2> QED BY <2>4 DEF n, S
<1>12. ASSUME NEW i \in 1 .. Len(p), NEW j \in 1 .. Len(p), h[i] = h[j] PROVE i = j
  <2>1. HitOf(R(p[i])).rowid = R(p[i]) /\ HitOf(R(p[j])).rowid = R(p[j])
    BY <1>2, <1>8, HitsAreHits
  <2>2. R(p[i]) = R(p[j])
    BY <1>9, <1>12, <2>1
  <2>3. <<c, p[i]>> = <<c, p[j]>>
    BY <1>2, <1>8, <2>2
  <2>4. p[i] = p[j]
    BY <2>3
  <2> QED BY <1>6, <2>4 DEF IsTop
<1>13. \A i \in 1 .. Len(p) : DistanceOf[h[i]] = d[p[i]]
  BY <1>8, <1>9, <1>10
<1>14. \A i, j \in 1 .. Len(p) : i < j => DistanceOf[h[i]] <= DistanceOf[h[j]]
  BY <1>6, <1>13 DEF IsTop
<1>15. ASSUME NEW x \in HitsOf(MatchingIn(q, c))
       PROVE  \/ \E i \in 1 .. Len(p) : h[i] = x
              \/ Len(p) = q.k /\ \A i \in 1 .. Len(p) : DistanceOf[h[i]] <= DistanceOf[x]
  <2>1. PICK r \in MatchingIn(q, c) : x = HitOf(r)
    BY DEF HitsOf
  <2>2. r \in Matching(q) /\ rows[r][1] = c
    BY DEF MatchingIn
  <2>3. PICK o \in C : R(o) = r
    BY <2>2, MatchIsCandidate DEF C
  <2>4. DistanceOf[x] = d[o]
    BY <1>10, <2>1, <2>3
  <2>5. \/ \E i \in 1 .. Len(p) : p[i] = o
        \/ Len(p) = q.k /\ \A i \in 1 .. Len(p) : d[p[i]] <= d[o]
    BY <1>6 DEF IsTop
  <2> QED BY <1>9, <1>13, <2>1, <2>3, <2>4, <2>5
<1>16. Len(h) <= q.k
  BY <1>6, <1>11 DEF IsTop
<1> HIDE DEF d
<1>17. IsTop(h, q.k, HitsOf(MatchingIn(q, c)), DistanceOf)
  BY <1>11, <1>12, <1>14, <1>15, <1>16 DEF IsTop
<1> QED BY <1>17 DEF h

LEMMA MergedListIsAList ==
  ASSUME NEW H, \A h \in H : h.distance \in Nat, NEW a \in Seq(H), NEW b \in Seq(H), NEW k \in Nat
  PROVE  merge_sorted_lists(a, b, k) \in Seq(H)
<1>0. H \cup H = H
  OBVIOUS
<1>1. PICK step : Merging(step, a, b, k) /\ merge_sorted_lists(a, b, k) = step[k].out
  BY <1>0, MergeMerges
<1>2. \A n \in 0 .. k : step[n] = IF n = 0 THEN [ptrA |-> 1, ptrB |-> 1, out |-> <<>>]
                                  ELSE Merged(step[n - 1], a, b)
  BY <1>1 DEF Merging
<1> DEFINE T == {n \in 0 .. k : step[n] \in States(a, b, H)}
           lo == 0
<1>3. lo \in T
  <2>1. step[0] = [ptrA |-> 1, ptrB |-> 1, out |-> <<>>]
    BY <1>2
  <2>2. [ptrA |-> 1, ptrB |-> 1, out |-> <<>>] \in States(a, b, H)
    BY DEF States
  <2> QED BY <2>1, <2>2
<1>4. ASSUME NEW n \in lo .. k - 1, n \in T PROVE n + 1 \in T
  <2>1. n + 1 \in 0 .. k /\ n + 1 # 0 /\ (n + 1) - 1 = n
    OBVIOUS
  <2>2. step[n + 1] = Merged(step[n], a, b)
    BY <1>2, <2>1
  <2>3. step[n] \in States(a, b, H)
    BY <1>4
  <2>4. Merged(step[n], a, b) \in States(a, b, H)
    BY <1>0, <2>3, MergedIsAState
  <2> QED BY <2>1, <2>2, <2>4
<1>5. lo \in Int /\ k \in Int /\ k \in lo .. k
  OBVIOUS
<1>6. k \in T
  <2> HIDE DEF T, lo
  <2> QED BY <1>3, <1>4, <1>5, Reached
<1>7. step[k].out \in Seq(H)
  BY <1>6 DEF States
<1> QED BY <1>1, <1>7

\* upTo of vec0Filter_knn: the hits of the chunks up to c.
Gathered(list, c, q) ==
  IF c \notin ChunksOf(q.partition) THEN list ELSE merge_sorted_lists(list, ChunkHits(c, q), q.k)

Gathering(upTo, q) ==
  upTo = [c \in 0 .. MaxChunks |-> IF c = 0 THEN <<>> ELSE Gathered(upTo[c - 1], c, q)]

LEMMA KnnGathers ==
  ASSUME IInv, ViewsMatchTexts, NaN \notin Vectors, NEW q, PlainQuery(q)
  PROVE  \E upTo : Gathering(upTo, q) /\ vec0Filter_knn(q) = upTo[MaxChunks]
<1> DEFINE S == Seq(HitSet)
           init == <<>>
           k == MaxChunks
           F == [x \in (1 .. k) \X S |-> Gathered(x[2], x[1], q)]
           lo == 0
<1>1. \A n \in 1 .. k : \A x \in S : F[<<n, x>>] = Gathered(x, n, q)
  OBVIOUS
<1>2. ASSUME NEW n \in 1 .. k, NEW x \in S PROVE Gathered(x, n, q) \in S
  <2>1. CASE n \notin ChunksOf(q.partition)
    BY <2>1 DEF Gathered
  <2>2. CASE n \in ChunksOf(q.partition)
    <3>1. ChunkHits(n, q) \in Seq(HitsOf(MatchingIn(q, n)))
      BY <2>2, ChunkHitsAreTop DEF IsTop
    <3>2. HitsOf(MatchingIn(q, n)) \subseteq HitSet
      BY HitsAreHits DEF HitsOf, MatchingIn
    <3>3. ChunkHits(n, q) \in Seq(HitSet)
      BY <3>1, <3>2, SeqMonotonic
    <3>4. \A h \in HitSet : h.distance \in Nat
      BY DEF HitSet
    <3>5. q.k \in Nat
      BY DEF PlainQuery
    <3>6. merge_sorted_lists(x, ChunkHits(n, q), q.k) \in Seq(HitSet)
      BY <3>3, <3>4, <3>5, MergedListIsAList
    <3> QED BY <2>2, <3>6 DEF Gathered
  <2> QED BY <2>1, <2>2
<1>3. init \in S /\ lo \in Int /\ lo <= k /\ k \in Int /\ lo + 1 = 1
  BY SizesAssumption
<1> HIDE DEF F, S
<1>4. \E f : Iterates(f, lo, k, S, init, F)
  <2>1. \A n \in lo + 1 .. k : \A x \in S : F[<<n, x>>] \in S
    BY <1>1, <1>2, <1>3, Zenon
  <2> HIDE DEF lo, init, k
  <2> QED BY <1>3, <2>1, IterationExists
<1>5. PICK f : Iterates(f, lo, k, S, init, F)
  BY <1>4
<1>6. f \in [0 .. k -> S] /\ f[0] = <<>> /\ \A n \in 1 .. k : f[n] = F[<<n, f[n - 1]>>]
  BY <1>5 DEF Iterates
<1>7. ASSUME NEW n \in 0 .. k
      PROVE  f[n] = IF n = 0 THEN <<>> ELSE Gathered(f[n - 1], n, q)
  <2>1. CASE n = 0
    BY <2>1, <1>6
  <2>2. CASE n # 0
    <3>1. n \in 1 .. k /\ n - 1 \in 0 .. k
      BY <2>2, SizesAssumption
    <3>2. f[n] = F[<<n, f[n - 1]>>] /\ f[n - 1] \in S
      BY <3>1, <1>6
    <3> QED BY <2>2, <3>1, <3>2, <1>1
  <2> QED BY <2>1, <2>2
<1>8. Gathering(f, q)
  <2>1. f = [n \in 0 .. k |-> f[n]]
    BY <1>6
  <2> QED BY <1>7, <2>1, Zenon DEF Gathering
<1> DEFINE G == CHOOSE g : Gathering(g, q)
<1>9. Gathering(G, q)
  BY <1>8
<1>10. vec0Filter_knn(q) = G[MaxChunks]
  BY DEF vec0Filter_knn, Gathering, Gathered, ChunkHits
<1> QED BY <1>9, <1>10

\* What the chunks up to c give is the k nearest of the matching rows in them.
LEMMA GatheredIsTop ==
  ASSUME IInv, ViewsMatchTexts, NaN \notin Vectors, NEW q, PlainQuery(q),
         NEW c \in Nat, NEW list, IsTop(list, q.k, HitsOf(MatchingUpTo(q, c)), DistanceOf)
  PROVE  IsTop(Gathered(list, c + 1, q), q.k, HitsOf(MatchingUpTo(q, c + 1)), DistanceOf)
<1>1. \A r \in Matching(q) : /\ rows[r][1] \in Nat /\ rows[r][1] \in ChunksOf(q.partition)
                             /\ HitOf(r).rowid = r /\ HitOf(r) \in HitSet
                             /\ HitOf(r).distance \in Nat /\ DistanceOf[HitOf(r)] = HitOf(r).distance
  BY MatchIsCandidate, HitsAreHits DEF ChunksOf
<1>2. MatchingUpTo(q, c + 1) = MatchingUpTo(q, c) \cup MatchingIn(q, c + 1)
  <2>1. \A r \in Matching(q) : rows[r][1] <= c + 1 <=> rows[r][1] <= c \/ rows[r][1] = c + 1
    BY <1>1
  <2> QED BY <2>1 DEF MatchingUpTo, MatchingIn
<1>3. CASE c + 1 \notin ChunksOf(q.partition)
  <2>1. MatchingIn(q, c + 1) = {}
    BY <1>1, <1>3 DEF MatchingIn
  <2>2. MatchingUpTo(q, c + 1) = MatchingUpTo(q, c)
    BY <1>2, <2>1
  <2> QED BY <1>3, <2>2 DEF Gathered
<1>4. CASE c + 1 \in ChunksOf(q.partition)
  <2> DEFINE A == HitsOf(MatchingUpTo(q, c))
             B == HitsOf(MatchingIn(q, c + 1))
             h == ChunkHits(c + 1, q)
  <2>1. IsTop(h, q.k, B, DistanceOf)
    BY <1>4, ChunkHitsAreTop
  <2>2. MatchingUpTo(q, c) \subseteq Matching(q) /\ MatchingIn(q, c + 1) \subseteq Matching(q)
        /\ MatchingUpTo(q, c) \cap MatchingIn(q, c + 1) = {}
    <3>1. \A r \in MatchingUpTo(q, c) : r \notin MatchingIn(q, c + 1)
      <4>1. \A r \in Matching(q) : rows[r][1] <= c => rows[r][1] # c + 1
        BY <1>1
      <4> QED BY <4>1 DEF MatchingUpTo, MatchingIn
    <3> QED BY <3>1 DEF MatchingUpTo, MatchingIn
  <2>3. A \cap B = {}
    BY <1>1, <2>2 DEF HitsOf
  <2>4. \A x \in A \cup B : x.distance \in Nat /\ DistanceOf[x] = x.distance
    BY <1>1, <2>2 DEF HitsOf
  <2>5. A \cup B = HitsOf(MatchingUpTo(q, c + 1))
    BY <1>2 DEF HitsOf
  <2>6. q.k \in Nat
    BY DEF PlainQuery
  <2>7. IsTop(merge_sorted_lists(list, h, q.k), q.k, A \cup B, DistanceOf)
    <3> HIDE DEF A, B, h
    <3>1. IsTop(list, q.k, A, DistanceOf)
      BY DEF A
    <3> QED BY <2>1, <2>3, <2>4, <2>6, <3>1, MergeIsTop
  <2>8. Gathered(list, c + 1, q) = merge_sorted_lists(list, h, q.k)
    BY <1>4 DEF Gathered
  <2> QED BY <2>5, <2>7, <2>8
<1> QED BY <1>3, <1>4

LEMMA KnnIsTop ==
  ASSUME IInv, ViewsMatchTexts, NaN \notin Vectors, NEW q, PlainQuery(q)
  PROVE  IsTop(vec0Filter_knn(q), q.k, HitsOf(Matching(q)), DistanceOf)
<1>1. PICK upTo : Gathering(upTo, q) /\ vec0Filter_knn(q) = upTo[MaxChunks]
  BY KnnGathers
<1>2. \A c \in 0 .. MaxChunks : upTo[c] = IF c = 0 THEN <<>> ELSE Gathered(upTo[c - 1], c, q)
  BY <1>1 DEF Gathering
<1>3. \A r \in Matching(q) : rows[r][1] \in 1 .. chunks
  BY MatchIsCandidate DEF ChunksOf
<1> DEFINE T == {c \in 0 .. MaxChunks : IsTop(upTo[c], q.k, HitsOf(MatchingUpTo(q, c)), DistanceOf)}
           lo == 0
           hi == MaxChunks
<1>4. lo \in T
  <2>1. upTo[0] = <<>>
    BY <1>2, SizesAssumption
  <2>2. HitsOf(MatchingUpTo(q, 0)) = {}
    BY <1>3 DEF HitsOf, MatchingUpTo
  <2>3. q.k \in Nat
    BY DEF PlainQuery
  <2>4. IsTop(<<>>, q.k, {}, DistanceOf)
    BY <2>3 DEF IsTop
  <2>5. IsTop(upTo[0], q.k, HitsOf(MatchingUpTo(q, 0)), DistanceOf)
    BY <2>1, <2>2, <2>4, Zenon
  <2>6. 0 \in 0 .. MaxChunks
    BY SizesAssumption
  <2> QED BY <2>5, <2>6
<1>5. ASSUME NEW n \in lo .. hi - 1, n \in T PROVE n + 1 \in T
  <2>1. n \in Nat /\ n + 1 \in 0 .. MaxChunks /\ n + 1 # 0 /\ (n + 1) - 1 = n
    BY SizesAssumption
  <2>2. upTo[n + 1] = Gathered(upTo[n], n + 1, q)
    BY <1>2, <2>1
  <2>3. IsTop(upTo[n], q.k, HitsOf(MatchingUpTo(q, n)), DistanceOf)
    BY <1>5
  <2>4. IsTop(Gathered(upTo[n], n + 1, q), q.k, HitsOf(MatchingUpTo(q, n + 1)), DistanceOf)
    BY <2>1, <2>3, GatheredIsTop
  <2> QED BY <2>1, <2>2, <2>4
<1>6. lo \in Int /\ hi \in Int /\ hi \in lo .. hi
  BY SizesAssumption
<1>7. hi \in T
  <2> HIDE DEF T, lo, hi
  <2> QED BY <1>4, <1>5, <1>6, Reached
<1>8. MatchingUpTo(q, MaxChunks) = Matching(q)
  <2>1. \A r \in Matching(q) : rows[r][1] <= MaxChunks
    BY <1>3, SizesAssumption DEF IInv, TableTypes
  <2> QED BY <2>1 DEF MatchingUpTo
<1> QED BY <1>1, <1>7, <1>8

-----------------------------------------------------------------------------
(* The answer. *)

\* Live rows have slots of their own: only finitely many match.
LEMMA MatchesAreFinite ==
  ASSUME IInv, NEW q
  PROVE  IsFiniteSet(Matching(q))
<1> DEFINE M == Matching(q)
           f == [r \in M |-> rows[r]]
<1>1. \A r \in M : r \in Rowids /\ Live(r)
  BY DEF Matching, Satisfies
<1> HIDE DEF M
<1>2. \A r \in M : rows[r] \in Slots /\ \A o \in M : rows[o] = rows[r] => o = r
  <2>1. ASSUME NEW r \in M PROVE rows[r] \in Slots /\ \A o \in Rowids : Live(o) /\ o # r => rows[o] # rows[r]
    BY <1>1, <2>1, OwnSlot DEF IInv
  <2> QED BY <1>1, <2>1
<1>3. f \in Injection(M, Slots)
  BY <1>2 DEF Injection, IsInjective
<1>4. IsFiniteSet(Slots)
  <2>1. IsFiniteSet(Chunks)
    <3>1. 1 \in Int /\ MaxChunks \in Int
      BY SizesAssumption
    <3> QED BY <3>1, FS_Interval DEF Chunks
  <2>2. IsFiniteSet(Offsets)
    <3>1. 0 \in Int /\ ChunkSize - 1 \in Int
      BY SizesAssumption
    <3> QED BY <3>1, FS_Interval DEF Offsets
  <2> QED BY <2>1, <2>2, FS_Product DEF Slots
<1>5. IsFiniteSet(M)
  <2> HIDE DEF f
  <2> QED BY <1>3, <1>4, FS_Injection
<1> QED BY <1>5 DEF M

\* The k nearest hits of all matching rows are the k nearest matching rows.
LEMMA TopIsNearest ==
  ASSUME IInv, NaN \notin Vectors, NEW q, PlainQuery(q), NEW hits,
         IsTop(hits, q.k, HitsOf(Matching(q)), DistanceOf)
  PROVE  AreNearest(hits, q.k, Matching(q))
<1> DEFINE M == Matching(q)
           n == Len(hits)
           ids == {hits[i].rowid : i \in DOMAIN hits}
           f == [i \in 1 .. n |-> hits[i].rowid]
<1>1. /\ hits \in Seq(HitsOf(M)) /\ n \in Nat /\ DOMAIN hits = 1 .. n /\ n <= q.k /\ q.k \in Nat
      /\ \A i \in 1 .. n : hits[i] \in HitsOf(M)
  BY DEF IsTop, PlainQuery
<1>2. \A r \in M : /\ Distance(r) \in Nat /\ HitOf(r).rowid = r /\ HitOf(r).distance = Distance(r)
                   /\ DistanceOf[HitOf(r)] = Distance(r)
  BY HitsAreHits
<1>3. \A i \in 1 .. n : /\ hits[i].rowid \in M /\ hits[i] = HitOf(hits[i].rowid)
                        /\ hits[i].distance = Distance(hits[i].rowid) /\ Distance(hits[i].rowid) \in Nat
                        /\ DistanceOf[hits[i]] = Distance(hits[i].rowid)
  BY <1>1, <1>2 DEF HitsOf
<1>4. ids \subseteq M /\ ids = {hits[i].rowid : i \in 1 .. n}
  BY <1>1, <1>3
<1>5. \A i, j \in 1 .. n : hits[i].rowid = hits[j].rowid => i = j
  <2>1. \A i, j \in 1 .. n : hits[i].rowid = hits[j].rowid => hits[i] = hits[j]
    BY <1>3
  <2> QED BY <2>1 DEF IsTop
<1>6. \A s \in M : \/ s \in ids
                   \/ n = q.k /\ \A i \in 1 .. n : Distance(hits[i].rowid) <= Distance(s)
  <2> SUFFICES ASSUME NEW s \in M
               PROVE  \/ s \in ids
                      \/ n = q.k /\ \A i \in 1 .. n : Distance(hits[i].rowid) <= Distance(s)
    OBVIOUS
  <2>1. HitOf(s) \in HitsOf(M)
    BY DEF HitsOf
  <2>2. \/ \E i \in 1 .. n : hits[i] = HitOf(s)
        \/ n = q.k /\ \A i \in 1 .. n : DistanceOf[hits[i]] <= DistanceOf[HitOf(s)]
    BY <2>1 DEF IsTop
  <2>3. CASE \E i \in 1 .. n : hits[i] = HitOf(s)
    BY <1>2, <1>4, <2>3
  <2>4. CASE n = q.k /\ \A i \in 1 .. n : DistanceOf[hits[i]] <= DistanceOf[HitOf(s)]
    BY <1>2, <1>3, <2>4
  <2> QED BY <2>2, <2>3, <2>4
<1> HIDE DEF M, ids
<1>7. IsFiniteSet(M)
  BY MatchesAreFinite DEF M
<1>8. Cardinality(ids) = n
  <2>1. f \in [1 .. n -> ids] /\ \A x \in ids : \E i \in 1 .. n : f[i] = x
    BY <1>4
  <2>2. f \in Bijection(1 .. n, ids)
    BY <1>5, <2>1 DEF Bijection, Injection, Surjection, IsInjective
  <2>3. ExistsBijection(1 .. n, ids)
    BY <2>2 DEF ExistsBijection
  <2> HIDE DEF n
  <2> QED BY <1>1, <2>3, FS_CountingElements
<1>9. IsFiniteSet(ids) /\ Cardinality(ids) <= Cardinality(M) /\ Cardinality(M) \in Nat
  BY <1>4, <1>7, FS_Subset, FS_CardinalityType
<1>10. n = Smaller(q.k, Cardinality(M))
  <2>1. CASE n = q.k
    <3>1. q.k <= Cardinality(M)
      BY <1>8, <1>9, <2>1
    <3> QED BY <1>1, <1>9, <2>1, <3>1, SmallerIsEither
  <2>2. CASE n # q.k
    <3>1. ids = M
      BY <1>4, <1>6, <2>2
    <3>2. Cardinality(M) = n /\ n <= q.k
      BY <1>1, <1>8, <3>1
    <3> HIDE DEF n
    <3> QED BY <1>1, <1>9, <3>2, SmallerIsEither
  <2> QED BY <2>1, <2>2
<1>11. \A i, j \in 1 .. n : i < j => hits[i].distance <= hits[j].distance
  BY <1>3 DEF IsTop
<1>12. ASSUME NEW r \in ids, NEW s \in M \ ids, Distance(s) # NaN PROVE Leq(Distance(r), Distance(s))
  <2>1. PICK i \in 1 .. n : r = hits[i].rowid
    BY <1>4
  <2>2. Distance(r) <= Distance(s)
    BY <1>6, <2>1
  <2>3. Distance(r) \in Nat
    BY <1>3, <2>1
  <2> QED BY <1>12, <2>2, <2>3 DEF Leq, NaN
<1>13. \A i \in DOMAIN hits : hits[i].distance = Distance(hits[i].rowid)
  BY <1>1, <1>3
<1>14. \A i, j \in DOMAIN hits :
         i < j /\ NaN \notin {hits[i].distance, hits[j].distance} => hits[i].distance <= hits[j].distance
  BY <1>1, <1>11
<1>15. /\ ids \subseteq M /\ Len(hits) = Cardinality(ids) /\ Len(hits) = Smaller(q.k, Cardinality(M))
       /\ \A r \in ids, s \in M \ ids : Distance(s) # NaN => Leq(Distance(r), Distance(s))
  BY <1>4, <1>8, <1>10, <1>12
<1> QED BY <1>13, <1>14, <1>15, Zenon DEF AreNearest, ids, M

\* No filter of equality meets a long text it cannot read.
LEMMA FiltersDoNotFail ==
  ASSUME IInv, ViewsMatchTexts, LongViewsLeft, NEW q, PlainQuery(q)
  PROVE  ~KnnFails(q)
<1> SUFFICES ASSUME NEW c \in ChunksOf(q.partition), NEW o \in Offsets,
                    ConsultsFull(views[<<c, o>>], q.op, q.text)
             PROVE  HasFullText(<<c, o>>)
  BY DEF KnnFails, FilterFails
<1> DEFINE s == <<c, o>>
<1>1. s \in Slots
  BY SizesAssumption DEF ChunksOf, Slots, Chunks, IInv, TableTypes
<1>2. IsLong(views[s])
  BY DEF PlainQuery, ConsultsFull
<1> HIDE DEF s
<1>3. CASE s \in valid
  <2>1. rowids[s] \in Rowids /\ rows[rowids[s]] = s /\ Live(rowids[s])
    BY <1>1, <1>3, SlotIsASlot DEF IInv, SlotsMatchRows, Live
  <2> QED BY <1>2, <2>1, LiveHasFullText DEF s
<1>4. CASE s \notin valid
  BY <1>1, <1>2, <1>4 DEF LongViewsLeft, s
<1> QED BY <1>3, <1>4

\* Distances are numbers, and the queries compare texts for equality only.
PlainQueries == NaN \notin Vectors /\ \A q \in Queries : PlainQuery(q)

\* A nearest-neighbour query that does not fail answers the k nearest of the matching rows,
\* whatever deleted rows and lost clearings have left in the slots of its partition.
THEOREM AnswersAreNearest ==
  PlainQueries /\ Vec0Spec =>
    [](\A q \in Queries : ~KnnFails(q) => AreNearest(vec0Filter_knn(q), q.k, Matching(q)))
<1> SUFFICES ASSUME PlainQueries
             PROVE  Vec0Spec => [](\A q \in Queries : ~KnnFails(q)
                                     => AreNearest(vec0Filter_knn(q), q.k, Matching(q)))
  OBVIOUS
<1>1. IInv /\ ViewsMatchTexts =>
        \A q \in Queries : ~KnnFails(q) => AreNearest(vec0Filter_knn(q), q.k, Matching(q))
  BY KnnIsTop, TopIsNearest DEF PlainQueries
<1> QED BY <1>1, Invariance, ViewsAlwaysMatch, PTL

\* And as long as no more than one clearing is lost, none fails: the answer is a true top k.
THEOREM KnnTrueTopK ==
  PlainQueries /\ MaxLost <= 1 /\ Vec0Spec => []KnnIsTrueTopK
<1> SUFFICES ASSUME PlainQueries, MaxLost <= 1 PROVE Vec0Spec => []KnnIsTrueTopK
  OBVIOUS
<1>1. IInv /\ ViewsMatchTexts /\ LongViewsLeft => KnnIsTrueTopK
  BY KnnIsTop, TopIsNearest, FiltersDoNotFail DEF PlainQueries, KnnIsTrueTopK
<1>2. Vec0Spec => []LongViewsLeft
  BY LittleIsLeft
<1> QED BY <1>1, <1>2, Invariance, ViewsAlwaysMatch, PTL
=============================================================================
