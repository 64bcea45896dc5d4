\* Two clients, two calls each, two goroutines at most.
SPECIFICATION FairSpec
CONSTANTS
  Jobs = {j1, j2}
  MayPanic = {j2}
  Clients = {c1, c2}
  Workers = {w1, w2, w3}
  Objs = {o1, o2, o3, o4}
  None = None
  cap = 2
  MaxSubmits = 2
INVARIANTS
  TypeOK
  WorkersCounted
  NoStranded
  ObjSafe
  CorunCounts
PROPERTIES
  EveryJobStarts
  ImplementsPool
