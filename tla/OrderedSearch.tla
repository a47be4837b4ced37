---------------------------- MODULE OrderedSearch ----------------------------
(***************************************************************************)
(* What the provider search of one paragraph promises, whatever its threads *)
(* do (pipeline/media, _collect_results and _collect_image_results): the    *)
(* queries of a list are answered one after the other, in their order, an   *)
(* asset belongs to the first answer that has it, a list ends when it is    *)
(* through, satisfied or out of time, and a failing query ends the search.  *)
(***************************************************************************)
EXTENDS Naturals, FiniteSets

CONSTANTS
  Assets,      \* what providers may answer, one for each signature
  GoodAssets,  \* videos ranked at or above early_stop_quality_threshold
  MaxTasks     \* bound: queries of a list

VARIABLES
  plan,        \* the paragraph's queries and the settings of the run
  stage,       \* the list in hand, "done", or "failed"
  processed,   \* per list, how many queries were answered
  accepted,    \* per query, what the deduper let through
  spent        \* the search budget of the paragraph is exhausted

Lists == {"video", "primary", "fallback"}
Images == {"primary", "fallback"}
Tasks == Lists \X (1..MaxTasks)

Everything(acc) == UNION {acc[t] : t \in Tasks}
Found(acc, l) == UNION {acc[t] : t \in {l} \X (1..MaxTasks)}

\* A list is satisfied by a good video, or by as many images as there are slots.
Satisfied(p, acc, l) ==
  /\ p.earlyStop
  /\ IF l = "video" THEN Found(acc, l) \cap GoodAssets # {}
     ELSE p.limit[l] > 0 /\ Cardinality(Found(acc, l)) >= p.limit[l]

\* The primary images fill the slots and no fallback is wanted.
SlotsFilled(p, acc) ==
  Satisfied(p, acc, "primary") /\ (~p.free \/ p.limit["fallback"] = 0)

\* The list after list l.
Following(p, acc, l) ==
  CASE l = "video" -> "primary"
    [] l = "primary" -> IF SlotsFilled(p, acc) THEN "done" ELSE "fallback"
    [] OTHER -> "done"

Init ==
  /\ stage = "video"
  /\ processed = [l \in Lists |-> 0]
  /\ accepted = [t \in Tasks |-> {}]
  /\ spent = FALSE

\* The next query is answered; what an earlier answer has is not accepted again.
Take ==
  /\ stage \in Lists
  /\ processed[stage] < plan.tasks[stage]
  /\ ~Satisfied(plan, accepted, stage)
  /\ processed' = [processed EXCEPT ![stage] = @ + 1]
  /\ \E answer \in SUBSET Assets :
       accepted' = [accepted EXCEPT ![<<stage, processed'[stage]>>] =
                                       answer \ Everything(accepted)]
  /\ UNCHANGED <<plan, stage, spent>>

Close ==
  /\ stage \in Lists
  /\ \/ processed[stage] = plan.tasks[stage]
     \/ Satisfied(plan, accepted, stage)
     \/ spent
  /\ stage' = Following(plan, accepted, stage)
  /\ UNCHANGED <<plan, processed, accepted, spent>>

Fail ==
  /\ stage \in Lists
  /\ processed[stage] < plan.tasks[stage]
  /\ stage' = "failed"
  /\ UNCHANGED <<plan, processed, accepted, spent>>

Expire ==
  /\ ~spent
  /\ spent' = TRUE
  /\ UNCHANGED <<plan, stage, processed, accepted>>

Next == Take \/ Close \/ Fail \/ Expire

Spec == Init /\ [][Next]_<<plan, stage, processed, accepted, spent>>
=============================================================================
