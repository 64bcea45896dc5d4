\* Violated: an inner loop is not entered a second time.
SPECIFICATION Spec
CONSTANTS
  Shape = "loops"
  Nodes <- MCNodes
  Graphs <- MCGraphs
  Callers <- MCCallers
  graphOf <- MCgraphOf
  Typ <- MCTyp
  successors <- MCsuccessors
  mapper <- MCmapper
  priority <- MCpriority
  subgraph <- MCsubgraph
  root <- MCroot
  predict <- MCpredict
  None = None
  Workers = {w1}
  concurrency = 1
  MayPanic = {}
  MaxRuns = 1
SYMMETRY WorkerSymmetry
INVARIANTS
  LoopsRunToExit
