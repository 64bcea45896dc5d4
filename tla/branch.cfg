\* Nested subflows within a loop, observed; panics, and answers that name no successor.
SPECIFICATION TracedSpec
CONSTANTS
  Shape = "branch"
  Nodes <- MCNodes
  Graphs <- MCGraphs
  Callers <- MCCallers
  graphOf <- MCgraphOf
  Typ <- MCTyp
  successors <- MCsuccessors
  mapper <- MCmapper
  priority <- MCpriority
  subgraph <- MCsubgraph
  root <- MCroot
  predict <- MCpredict
  None = None
  Workers = {w1, w2, w3}
  concurrency = 3
  MayPanic = {"s", "z"}
  MaxRuns = 2
  hasProfiler = TRUE
  hasTracer = TRUE
SYMMETRY WorkerSymmetry
CHECK_DEADLOCK FALSE
INVARIANTS
  OneBranch
  JoinAccounting
  OneDriver
  PanicPropagates
  TracedTypeOK
  TraceOrder
  EventPerExecution
  ProfileExact
  TraceValid
  ParentsFirst
