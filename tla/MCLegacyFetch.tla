---------------------------- MODULE MCLegacyFetch ----------------------------
(* Instances of LegacyFetch for TLC. *)
EXTENDS LegacyFetch, TLC

CONSTANTS c1, c2, k1

\* The two jobs find one content both, and the first one another.
OneShared == [i \in Items |-> IF i = <<1, 2>> THEN c2 ELSE c1]

RunOf(video, failFast, size, first, second) ==
  [video |-> video, failFast |-> failFast, keyword |-> [j \in Jobs |-> k1],
   content |-> OneShared, batchSize |-> size,
   upTo |-> [j \in Jobs |-> IF j = 1 THEN first ELSE second]]

\* Videos in one batch and one by one, and images under --fail-fast.
AllPlans ==
  { RunOf(TRUE, FALSE, 2, 2, 1), RunOf(TRUE, FALSE, 1, 2, 1), RunOf(FALSE, TRUE, 2, 1, 1) }
=============================================================================
