\* Two starts, cancels, history and polls against the run's thread, with faults.
SPECIFICATION FairSpec
CONSTANTS
  MaxRuns = 2
  FreeWorkers = 2
  Forms <- MixedOrFree
  Faults <- AllFaults
INVARIANTS
  TypeOK
  OnlyTheTaskIsAlive
  ButtonsLockedWhileRunning
  NotificationsAreTrue
  LimitsAreTheForms
PROPERTIES
  EndedRunIsAnnounced
