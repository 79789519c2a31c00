SPECIFICATION FairSpec
CONSTANTS
  MaxId = 2
  Prices = {p1, p2}
  Catalogues = {"a"}
  DocId <- IndexDocId
  Updates = {u1}
  Workers = {w1, w2}
  PageSize = 1
  MaxAttempts = 1
INVARIANTS IndexFromStore ReindexCovers IndexAgreesWhenDone ReindexCatchesUp
PROPERTY ReindexEnds
CHECK_DEADLOCK FALSE
