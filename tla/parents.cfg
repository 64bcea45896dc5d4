\* The parents of events, a subflow beside a task.
SPECIFICATION TracedSpec
CONSTANTS
  Shape = "skipped"
  Nodes <- MCNodes
  Graphs <- MCGraphs
  Callers <- MCCallers
  graphOf <- MCgraphOf
  Typ <- MCTyp
  successors <- MCsuccessors
  mapper <- MCmapper
  priority <- MCpriority
  subgraph <- MCsubgraph
  root <- MCroot
  predict <- MCpredict
  None = None
  Workers = {w1, w2}
  concurrency = 2
  MayPanic = {}
  MaxRuns = 1
  hasProfiler = TRUE
  hasTracer = TRUE
INVARIANTS
  ParentIsOwner
