SPECIFICATION Spec
CONSTANTS
  Workers = {w1, w2, w3}
  Main = main
  Args = {a1, a2, a3, a4}
  QueueSize = 3
  NoArg = NoArg
  NoOne = NoOne
SYMMETRY Symmetry
INVARIANTS
  TypeOK
  SingleOwner
  NoLostWakeup
PROPERTIES
  ImplementsSafeQueue
  NoneLost
