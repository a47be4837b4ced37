\* Sessions of the window and of the command line, with good and bad scripts.
SPECIFICATION Spec
CONSTANTS
  None = None
  Torn = Torn
  Attempts = 2
  Calls = 2
  Plans <- AllSessions
INVARIANTS
  EveryParagraphItsOwn
  FailFastIsAllOrNothing
PROPERTIES
  FailuresKeepIntents
