SPECIFICATION SolverSpec
CONSTANTS
  Page <- MCPage
  Config <- MCConfig
  Budget = 3
  Interval = 2
  Deadline = 5
INVARIANTS SolveOrBlock SolveOverrunsOnce
PROPERTIES SolveEnds
