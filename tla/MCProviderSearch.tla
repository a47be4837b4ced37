-------------------------- MODULE MCProviderSearch --------------------------
(* Instances of ProviderSearch for TLC. *)
EXTENDS ProviderSearch

CONSTANTS a, b

PlanOf(parallel, stop, free, v, p, f, lp, lf) ==
  [parallel |-> parallel, earlyStop |-> stop, free |-> free,
   tasks |-> [l \in Lists |-> CASE l = "video" -> v [] l = "primary" -> p
                                [] OTHER -> f],
   limit |-> [l \in Images |-> IF l = "primary" THEN lp ELSE lf]]

\* Storyblocks with free images behind it, Storyblocks alone, free images alone
\* (primary or fallback), and a video source that is not Storyblocks.
SomePlans ==
  { PlanOf(FALSE, TRUE, TRUE, 2, 1, 1, 1, 1),
    PlanOf(FALSE, TRUE, FALSE, 1, 2, 0, 1, 0),
    PlanOf(TRUE, TRUE, TRUE, 0, 3, 0, 1, 0),
    PlanOf(TRUE, FALSE, TRUE, 0, 0, 3, 0, 1),
    PlanOf(TRUE, TRUE, TRUE, 2, 0, 2, 0, 1) }
=============================================================================
