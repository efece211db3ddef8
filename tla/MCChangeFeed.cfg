SPECIFICATION Spec
CONSTANTS
  Entity <- Entities
  Stream = 1
  Tx = {1, 2, 3}
  NoTx = 0
  MaxSeq = 3
  Run = {r1, r2}
  Limit = 1
CONSTRAINTS InTurn Bound
SYMMETRY Slots
PROPERTIES OnlyReadIsPassed
CHECK_DEADLOCK FALSE
