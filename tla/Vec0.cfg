SPECIFICATION Vec0Spec
CONSTANTS
  Rowids = {1, 2, 3}
  Partitions = {p, null}
  Null = null
  Vectors = {1, 2}
  Texts <- MCTexts
  Auxes = {a}
  NoAux = none
  Columns = {"vector", "text"}
  NoRow = norow
  ViewLength = 1
  ChunkSize = 2
  MaxChunks = 2
  MaxLost = 1
  Queries <- MCQueries
CHECK_DEADLOCK FALSE
INVARIANTS
  SlotsMatchRows
  NoOrphanTexts
  KnnIsTrueTopK
PROPERTIES
  IsVectorTable
  InsertedRowIsRead
