CONSTANTS
  Processes = {p1, p2}
  Args <- MCArgs
  Versions = {1, 2}
  MaxFaults = 2
SYMMETRY MCSymmetry
SPECIFICATION Spec
INVARIANTS
  ReturnsOwnKernel
  DirectoriesWhole
  FailsForCause
