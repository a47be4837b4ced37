\* Two jobs of one keyword, images and videos, with a content they share.
SPECIFICATION FairSpec
CONSTANTS
  c1 = c1
  c2 = c2
  k1 = k1
  None = None
  Contents = {c1, c2}
  Keywords = {k1}
  NumJobs = 2
  MaxCandidates = 2
  Needed = 1
  KeywordWorkers = 2
  DownloadWorkers = 2
  RelevanceWorkers = 1
  QueueLimit = 2
  Retries = 1
  Plans <- AllPlans
INVARIANTS
  SavedFilesAreSound
  FailsForACause
  NothingUsedAfterClose
PROPERTIES
  RunEnds
