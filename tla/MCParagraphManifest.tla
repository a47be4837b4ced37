------------------------ MODULE MCParagraphManifest -------------------------
(* Instances of ParagraphManifest for TLC.                                 *)
EXTENDS ParagraphManifest, TLC

CONSTANTS
  p1, p2, p3,   \* paragraphs
  a, b, c       \* assets

ThreeParagraphs == {p1, p2, p3}
ThreeAssets == {a, b, c}

\* a and b are the same picture from two providers, c is another one.
TwinAssets ==
  a :> {"source a", "same picture"} @@ b :> {"source b", "same picture"}
    @@ c :> {"source c"}

AllFaults == {"flush", "run"}
Symmetry == Permutations(ThreeParagraphs)
=============================================================================
