\* A new start before the poll that would have seen the error.
SPECIFICATION Spec
CONSTANTS
  MaxRuns = 2
  FreeWorkers = 2
  Forms <- AllForms
  Faults <- AllFaults
INVARIANTS
  ErrorsAreSurfaced
