\* One worker: loops and priorities.
SPECIFICATION Spec
CONSTANTS
  Shape = "single"
  Nodes <- MCNodes
  Graphs <- MCGraphs
  Callers <- MCCallers
  graphOf <- MCgraphOf
  Typ <- MCTyp
  successors <- MCsuccessors
  mapper <- MCmapper
  priority <- MCpriority
  subgraph <- MCsubgraph
  root <- MCroot
  predict <- MCpredict
  None = None
  Workers = {w1}
  concurrency = 1
  MayPanic = {}
  MaxRuns = 2
SYMMETRY WorkerSymmetry
INVARIANTS
  LoopsRunToExit
  PriorityOrder
