------------------------- MODULE MCRunOrchestrator --------------------------
(* Instances of RunOrchestrator for TLC.                                   *)
EXTENDS RunOrchestrator

ThreeParagraphs == 1..3
FourParagraphs == 1..4

\* A selection may name a paragraph the document does not have.
ThreeAndUnknown == 1..3 \cup {9}
NoFaults == {}
AllFaults == {"save", "crash"}
=============================================================================
