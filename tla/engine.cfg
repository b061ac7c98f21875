SPECIFICATION Spec
CONSTANTS
  Keys = {1, 2, 3}
  Values = {v1, v2}
  Nil = Nil
  Failed = Failed
  MaxBatch = 2
  DbErrors = TRUE
SYMMETRY ValueSymmetry
INVARIANTS TypeOK SameAnswers IterationExact
