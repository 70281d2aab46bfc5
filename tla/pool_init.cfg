SPECIFICATION BootSpec
CONSTANTS
  Workers = {w1, w2}
  Main = main
  Args = {a1}
  QueueSize = 2
  NoArg = NoArg
  NoOne = NoOne
INVARIANT
  StopWakesAll
