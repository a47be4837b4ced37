\* The sequential branch: one worker, save errors and crashes.
SPECIFICATION Spec
CONSTANTS
  Paragraphs <- ThreeParagraphs
  Requestable <- ThreeAndUnknown
  MaxWorkers = 1
  QueueSize = 2
  Faults <- AllFaults
INVARIANTS
  CompletedMeansProcessed
