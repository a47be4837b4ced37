\* A second start while the first run searches Storyblocks.
SPECIFICATION Spec
CONSTANTS
  MaxRuns = 2
  FreeWorkers = 2
  Forms <- AllForms
  Faults <- NoFaults
INVARIANTS
  StoryblocksRunsSerially
