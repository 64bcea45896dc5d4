\* Two clients share an executor; tasks and subflows may panic.
SPECIFICATION FairSpec
CONSTANTS
  Shape = "clients"
  Nodes <- MCNodes
  Graphs <- MCGraphs
  Callers <- MCCallers
  graphOf <- MCgraphOf
  Typ <- MCTyp
  successors <- MCsuccessors
  mapper <- MCmapper
  priority <- MCpriority
  subgraph <- MCsubgraph
  root <- MCroot
  predict <- MCpredict
  None = None
  Workers = {w1, w2}
  concurrency = 2
  MayPanic = {"a", "s", "x"}
  MaxRuns = 1
CHECK_DEADLOCK FALSE
INVARIANTS
  WgAccounting
  JoinAccounting
  PopSafe
PROPERTIES
  RunReturns
