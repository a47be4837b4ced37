\* Three paragraphs, two workers, two of three assets are duplicates.
SPECIFICATION Spec
CONSTANTS
  p1 = p1
  p2 = p2
  p3 = p3
  a = a
  b = b
  c = c
  Paragraphs <- ThreeParagraphs
  Assets <- ThreeAssets
  Sig <- TwinAssets
  MaxActive = 2
  MaxPicked = 2
  Faults <- AllFaults
SYMMETRY Symmetry
INVARIANTS
  NoAssetUsedTwice
  NoMatchMeansTaken
  OutcomeIsOnDisk
