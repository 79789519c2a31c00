SPECIFICATION Spec
CONSTANTS
  MaxId = 1
  Prices = {p1, p2}
  Catalogues = {"a"}
  DocId <- IndexDocId
  Updates = {u1}
  Workers = {w1, w2}
  PageSize = 1
  MaxAttempts = 2
INVARIANT IndexAgrees
CHECK_DEADLOCK FALSE
