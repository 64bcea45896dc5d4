\* Every flow of up to three tasks, built, run, reset and run again.
SPECIFICATION Spec
CONSTANTS
  Tasks = {t1, t2, t3}
  Flow = Flow
  None = None
  Priorities = {1}
  MaxCalls = 2
  MaxArgs = 2
  MaxRuns = 2
SYMMETRY TaskSymmetry
INVARIANTS
  TypeOK
  Mirrored
  LabelsAreAnswers
  DumpShowsEveryEdge
  RunValidates
