\* A cancel between the decision point and the refill.
SPECIFICATION Spec
CONSTANTS
  Paragraphs <- ThreeParagraphs
  Requestable <- ThreeAndUnknown
  MaxWorkers = 2
  QueueSize = 2
  Faults <- NoFaults
INVARIANTS
  CompletedMeansProcessed
