\* Violated: a loop loses an iteration when two workers share it.
SPECIFICATION Spec
CONSTANTS
  Shape = "loop"
  Nodes <- MCNodes
  Graphs <- MCGraphs
  Callers <- MCCallers
  graphOf <- MCgraphOf
  Typ <- MCTyp
  successors <- MCsuccessors
  mapper <- MCmapper
  priority <- MCpriority
  subgraph <- MCsubgraph
  root <- MCroot
  predict <- MCpredict
  None = None
  Workers = {w1, w2}
  concurrency = 2
  MayPanic = {}
  MaxRuns = 1
SYMMETRY WorkerSymmetry
INVARIANTS
  LoopsRunToExit
