CONSTANTS
  Producers = {p1, p2, p3}
  Node = {n1, n2, n3, n4}
  Null = Null
  MaxPush = 2
SPECIFICATION MpscSpec
SYMMETRY MCSymmetry
INVARIANTS
  ChainInv
  NoUseAfterDelete
  NoLeak
  EmptyAnswerIsJustified
PROPERTY FifoSpec
