SPECIFICATION FairSpec
CONSTANTS
  Workers = {w1, w2}
  Main = main
  Args = {a1, a2, a3}
  QueueSize = 3
  NoArg = NoArg
  NoOne = NoOne
PROPERTIES
  ImplementsTaskQueue
  AcceptedIsRun
  ShutdownCompletes
