\* Two runs over one directory: videos of one name, images through a pool.
SPECIFICATION Spec
CONSTANTS
  v1 = v1
  v2 = v2
  v3 = v3
  i1 = i1
  i2 = i2
  i3 = i3
  None = None
  Assets = {v1, v2, v3, i1, i2, i3}
  Files <- SomeFiles
  FileOf <- Names
  RankHint <- Hints
  Storyblocks = {v1, v2, v3}
  Selections <- SomeSelections
  RankedLimit = 3
  RankingWorkers = 2
  RankingQueueSize = 2
  DownloadWorkers = 2
  DownloadQueueSize = 2
  RetryBudget = 1
  MaxRuns = 2
INVARIANTS
  TypeOK
  BestVideoThatLoads
  ImagesKeepTheirOrder
  CompletedFilesAreWhole
