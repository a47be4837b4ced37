\* Three workers share two slots: save errors, crashes, a cancel at any moment.
SPECIFICATION FairSpec
CONSTANTS
  Paragraphs <- ThreeParagraphs
  Requestable <- ThreeAndUnknown
  MaxWorkers = 3
  QueueSize = 2
  Faults <- AllFaults
INVARIANTS
  TypeOK
  TerminalIsQuiet
  NoOutcomeLost
  VerdictIsSound
  SubmitNeverBlocks
  CancelStopsSubmission
  CrashLosesAtMostOne
PROPERTIES
  ImplementsLifecycle
  RunFinishes
