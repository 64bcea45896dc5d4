\* Violated: a panic leaves queued tasks behind, and Wait hangs.
SPECIFICATION FairSpec
CONSTANTS
  Shape = "orphan"
  Nodes <- MCNodes
  Graphs <- MCGraphs
  Callers <- MCCallers
  graphOf <- MCgraphOf
  Typ <- MCTyp
  successors <- MCsuccessors
  mapper <- MCmapper
  priority <- MCpriority
  subgraph <- MCsubgraph
  root <- MCroot
  predict <- MCpredict
  None = None
  Workers = {w1, w2}
  concurrency = 2
  MayPanic = {"c"}
  MaxRuns = 1
CHECK_DEADLOCK FALSE
PROPERTIES
  WaitReturns
