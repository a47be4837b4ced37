--------------------------- MODULE MCMediaDownload ---------------------------
(* Instances of MediaDownload for TLC. *)
EXTENDS MediaDownload, TLC

CONSTANTS v1, v2, v3, i1, i2, i3

\* v1 and v2 share a name: their slugs agree in the characters that are kept.
SomeFiles == {1, 2, 3, 4, 5}
Names == (v1 :> 1) @@ (v2 :> 1) @@ (v3 :> 2) @@ (i1 :> 3) @@ (i2 :> 4) @@ (i3 :> 5)

Hints == (v1 :> 1) @@ (v2 :> 3) @@ (v3 :> 3) @@ (i1 :> 0) @@ (i2 :> 0) @@ (i3 :> 0)

Leaves(video, supporting, fallback, images, serial) ==
  [video |-> video, supporting |-> supporting, fallback |-> fallback,
   images |-> images, serial |-> serial]

\* Storyblocks videos alone, Storyblocks with free images behind it, free images.
SomeSelections ==
  { Leaves(<<v1, v2, v3>>, <<>>, <<>>, FALSE, TRUE),
    Leaves(<<v2>>, <<v3>>, <<i1, i2>>, TRUE, TRUE),
    Leaves(<<>>, <<i1, i2, i3>>, <<>>, TRUE, FALSE) }
=============================================================================
