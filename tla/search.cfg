\* Storyblocks in sequence and free images through a pool of two workers.
SPECIFICATION FairSpec
CONSTANTS
  a = a
  b = b
  Assets = {a, b}
  GoodAssets = {a}
  MaxTasks = 3
  ProviderWorkers = 2
  ProviderQueueSize = 3
  RetryBudget = 1
  Plans <- SomePlans
INVARIANTS
  FirstFinderKeeps
PROPERTIES
  AsksOnlyAhead
  ImplementsOrderedSearch
  SearchEnds
