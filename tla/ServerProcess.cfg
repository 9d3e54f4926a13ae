SPECIFICATION Spec
CONSTANTS
  Workers = {w1, w2, w3}
SYMMETRY Symmetric
INVARIANTS
  AccepterFindsQueues
CHECK_DEADLOCK FALSE
