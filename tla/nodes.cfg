SPECIFICATION Spec
CONSTANTS
  Node = {n1}
  Protocol = {http, grpc}
  Worker = {w1, w2}
  MaxTime = 3
SYMMETRY MCSymmetry
INVARIANTS
  NodeCoversKernels
PROPERTIES
  NodesForward
  KernelsForward
