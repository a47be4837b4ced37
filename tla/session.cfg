\* Buttons, runs, the login browser, quits, crashes and restarts on one managed profile.
SPECIFICATION Spec
CONSTANT MaxStarts = 3
INVARIANTS
  TypeOK
  SessionsEndWithTheirThread
  OneBrowserPerProfile
  ContextsHoldTheLock
  CandidatesAreVouchedFor
  NothingIsLeftBehind
