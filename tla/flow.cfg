\* A diamond and a subflow, run twice: safety, liveness and FlowSpec.
SPECIFICATION FairSpec
CONSTANTS
  Shape = "flow"
  Nodes <- MCNodes
  Graphs <- MCGraphs
  Callers <- MCCallers
  graphOf <- MCgraphOf
  Typ <- MCTyp
  successors <- MCsuccessors
  mapper <- MCmapper
  priority <- MCpriority
  subgraph <- MCsubgraph
  root <- MCroot
  predict <- MCpredict
  None = None
  Workers = {w1, w2}
  concurrency = 2
  MayPanic = {}
  MaxRuns = 2
INVARIANTS
  TypeOK
  DepsRespected
  NoOverlap
  OneDriver
  RunComplete
  SubflowComplete
PROPERTIES
  RunReturns
  WaitReturns
  ImplementsFlow
