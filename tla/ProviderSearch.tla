--------------------------- MODULE ProviderSearch ---------------------------
(***************************************************************************)
(* The provider search of one paragraph (pipeline/media): the lists of     *)
(* queries for videos, primary images and fallback images, each collected  *)
(* by the thread of the paragraph, either query by query or through a      *)
(* bounded pool of its own whose answers are taken in the order of the     *)
(* queries. A list that is satisfied, or out of time, abandons its pool:   *)
(* queued queries are dropped, running ones go on beside the next list.    *)
(*                                                                         *)
(* A provider's answer is the set of its candidates, each standing for its *)
(* signature in the deduper, without those that other paragraphs of the    *)
(* run reserved (ParagraphManifest). Whether a time-out, a refusal or an    *)
(* error is retried, recorded as an empty answer or raised is the choice   *)
(* of AttemptFails, Answer and Raise.                                      *)
(*                                                                         *)
(* should_cancel is a value bound when the run was executed, so that no    *)
(* check of it inside the search stops anything, and none is a step here.  *)
(***************************************************************************)
EXTENDS Naturals, FiniteSets

CONSTANTS
  Assets,             \* what providers may answer, one for each signature
  GoodAssets,         \* videos ranked at or above early_stop_quality_threshold
  MaxTasks,           \* bound: queries of a list
  ProviderWorkers,    \* provider_workers of the effective limits
  ProviderQueueSize,  \* provider_queue_size of the effective limits
  RetryBudget,        \* retries of one query
  Plans               \* the queries and settings a search may start with

Lists == {"video", "primary", "fallback"}
Images == {"primary", "fallback"}
Tasks == Lists \X (1..MaxTasks)

\* parallel: no Storyblocks provider is selected, FREE_IMAGES_PARALLEL;
\* tasks: _provider_query_tasks of each list; limit: slots for its images;
\* free: free_images_enabled.
PlanType == [parallel : BOOLEAN, earlyStop : BOOLEAN, free : BOOLEAN,
             tasks : [Lists -> 0..MaxTasks], limit : [Images -> Nat]]

ASSUME AssetsFinite == IsFiniteSet(Assets)
ASSUME GoodAssumption == GoodAssets \subseteq Assets
ASSUME BoundsAssumption ==
  MaxTasks \in Nat /\ RetryBudget \in Nat
ASSUME PoolAssumption ==
  ProviderWorkers \in Nat \ {0} /\ ProviderQueueSize \in Nat \ {0}
ASSUME PlansAssumption == Plans \subseteq PlanType

VARIABLES
  plan,        \* constant: the plan of this paragraph
  list,        \* the list in hand, or "done"
  pc,          \* where the thread of the paragraph is
  processed,   \* next_process of each list
  submitted,   \* next_submit of each list
  fut,         \* the future of each query
  tries,       \* failed attempts of each query
  answer,      \* what its provider answered
  accepted,    \* what the deduper of the paragraph let through
  spent        \* the budget, counted from the start of the search, is exhausted

vars == <<plan, list, pc, processed, submitted, fut, tries, answer, accepted,
          spent>>
collector == <<list, pc, processed, submitted, accepted>>

Search == INSTANCE OrderedSearch WITH
            stage <- IF pc \in {"drain", "failed"} THEN "failed" ELSE list

Everything == Search!Everything(accepted)
Enough == Search!Satisfied(plan, accepted, list)

-----------------------------------------------------------------------------
(* The pool of a list.                                                     *)

Parallel == plan.parallel /\ ProviderWorkers > 1 /\ plan.tasks[list] > 1

\* _provider_submission_window
Window ==
  IF plan.earlyStop /\ ProviderWorkers < ProviderQueueSize
  THEN ProviderWorkers ELSE ProviderQueueSize

Current == <<list, processed[list] + 1>>
Pool(l) == {t \in Tasks : t[1] = l}
Unfinished(l) == {t \in Pool(l) : fut[t] \in {"queued", "running"}}
Running(l) == {t \in Pool(l) : fut[t] = "running"}

\* shutdown(cancel_futures=True): what is queued never runs, what runs goes on.
BugAbandoned == fut

Abandoned ==
  [t \in Tasks |-> IF t[1] = list /\ fut[t] = "queued" THEN "dropped" ELSE fut[t]]

Init ==
  /\ plan \in Plans
  /\ list = "video" /\ pc = "open"
  /\ processed = [l \in Lists |-> 0]
  /\ submitted = [l \in Lists |-> 0]
  /\ fut = [t \in Tasks |-> "new"]
  /\ tries = [t \in Tasks |-> 0]
  /\ answer = [t \in Tasks |-> {}]
  /\ accepted = [t \in Tasks |-> {}]
  /\ spent = FALSE

-----------------------------------------------------------------------------
(* The thread of the paragraph.                                            *)

\* The list is over, for whatever reason.
Leave ==
  /\ fut' = Abandoned
  /\ list' = Search!Following(plan, accepted, list)
  /\ pc' = IF list' = "done" THEN "done" ELSE "open"
  /\ UNCHANGED <<plan, processed, submitted, tries, answer, accepted, spent>>

Open ==
  /\ pc = "open"
  /\ pc' = IF Parallel THEN "fill" ELSE "loop"
  /\ UNCHANGED <<plan, list, processed, submitted, fut, tries, answer, accepted,
                 spent>>

CanSubmit ==
  /\ submitted[list] < plan.tasks[list]
  /\ submitted[list] - processed[list] < Window

\* submit_one: waits for a slot of the pool, of which the window leaves one free.
Submit ==
  /\ pc = "fill" /\ CanSubmit
  /\ Cardinality(Unfinished(list)) < ProviderQueueSize
  /\ submitted' = [submitted EXCEPT ![list] = @ + 1]
  /\ fut' = [fut EXCEPT ![<<list, submitted'[list]>>] = "queued"]
  /\ UNCHANGED <<plan, list, pc, processed, tries, answer, accepted, spent>>

\* The images of a list are counted after the window was filled again.
Filled ==
  /\ pc = "fill" /\ ~CanSubmit
  /\ IF Enough THEN Leave
     ELSE /\ pc' = "loop"
          /\ UNCHANGED <<plan, list, processed, submitted, fut, tries, answer,
                         accepted, spent>>

BugJudge ==
  /\ pc = "judge"
  /\ pc' = IF Parallel THEN "fill" ELSE "loop"
  /\ UNCHANGED <<plan, list, processed, submitted, fut, tries, answer, accepted,
                 spent>>

\* Without a pool, and for videos, an answer is judged before the next query.
Judge ==
  /\ pc = "judge"
  /\ IF Enough THEN Leave
     ELSE /\ pc' = IF Parallel THEN "fill" ELSE "loop"
          /\ UNCHANGED <<plan, list, processed, submitted, fut, tries, answer,
                         accepted, spent>>

\* The head of the loop: is there a query left, and time for it?
Finish ==
  /\ pc = "loop"
  /\ processed[list] = plan.tasks[list] \/ spent
  /\ Leave

Await ==
  /\ pc = "loop"
  /\ processed[list] < plan.tasks[list] /\ ~spent
  /\ pc' = "await"
  /\ IF Parallel THEN UNCHANGED <<fut, submitted>>
     ELSE /\ fut' = [fut EXCEPT ![Current] = "running"]
          /\ submitted' = [submitted EXCEPT ![list] = @ + 1]
  /\ UNCHANGED <<plan, list, processed, tries, answer, accepted, spent>>

BugTakeResult ==
  /\ pc = "await"
  /\ \E t \in Pool(list) :
       /\ fut[t] = "answered" /\ accepted[t] = {}
       /\ accepted' = [accepted EXCEPT ![t] = answer[t] \ Everything]
  /\ processed' = [processed EXCEPT ![list] = @ + 1]
  /\ pc' = IF Parallel /\ list # "video" THEN "fill" ELSE "judge"
  /\ UNCHANGED <<plan, list, submitted, fut, tries, answer, spent>>

\* future.result() of the next query in order, and _prepare_provider_result.
TakeResult ==
  /\ pc = "await"
  /\ fut[Current] = "answered"
  /\ accepted' = [accepted EXCEPT ![Current] = answer[Current] \ Everything]
  /\ processed' = [processed EXCEPT ![list] = @ + 1]
  /\ pc' = IF Parallel /\ list # "video" THEN "fill" ELSE "judge"
  /\ UNCHANGED <<plan, list, submitted, fut, tries, answer, spent>>

\* The error of a query leaves the loop; a pool is then closed without
\* cancelling anything, which waits for every query it holds.
ResultRaises ==
  /\ pc = "await"
  /\ fut[Current] = "raised"
  /\ pc' = IF Parallel THEN "drain" ELSE "failed"
  /\ UNCHANGED <<plan, list, processed, submitted, fut, tries, answer, accepted,
                 spent>>

Drained ==
  /\ pc = "drain"
  /\ Unfinished(list) = {}
  /\ pc' = "failed"
  /\ UNCHANGED <<plan, list, processed, submitted, fut, tries, answer, accepted,
                 spent>>

-----------------------------------------------------------------------------
(* A query, on a worker of the pool or on the thread itself.               *)

\* A worker takes the oldest query of its queue.
Begin(t) ==
  /\ fut[t] = "queued"
  /\ \A s \in Pool(t[1]) : fut[s] = "queued" => t[2] <= s[2]
  /\ Cardinality(Running(t[1])) < ProviderWorkers
  /\ fut' = [fut EXCEPT ![t] = "running"]
  /\ UNCHANGED <<plan, collector, tries, answer, spent>>

BugAttemptFails(t) ==
  /\ fut[t] = "running"
  /\ tries' = [tries EXCEPT ![t] = (@ + 1) % (RetryBudget + 1)]
  /\ UNCHANGED <<plan, collector, fut, answer, spent>>

\* A time-out or a retryable error that is not fatal, with attempts left.
AttemptFails(t) ==
  /\ fut[t] = "running"
  /\ tries[t] < RetryBudget
  /\ tries' = [tries EXCEPT ![t] = @ + 1]
  /\ UNCHANGED <<plan, collector, fut, answer, spent>>

\* Candidates, or none: also an error that is neither fatal nor unknown, once no
\* attempt is left or it is not worth one, ends as an answer without candidates.
Answer(t) ==
  /\ fut[t] = "running"
  /\ fut' = [fut EXCEPT ![t] = "answered"]
  /\ \E found \in SUBSET Assets : answer' = [answer EXCEPT ![t] = found]
  /\ UNCHANGED <<plan, collector, tries, spent>>

\* A fatal Storyblocks error, its last time-out, and any exception that is not
\* one of a provider (the search cache raises what its database raises).
Raise(t) ==
  /\ fut[t] = "running"
  /\ fut' = [fut EXCEPT ![t] = "raised"]
  /\ UNCHANGED <<plan, collector, tries, answer, spent>>

Expire ==
  /\ ~spent
  /\ spent' = TRUE
  /\ UNCHANGED <<plan, collector, fut, tries, answer>>

Over == pc \in {"done", "failed"} /\ \A t \in Tasks : fut[t] # "running"

Terminated == Over /\ UNCHANGED vars

Collect ==
  \/ Open \/ Submit \/ Filled \/ Judge \/ Finish \/ Await
  \/ TakeResult \/ ResultRaises \/ Drained

Attempt(t) == AttemptFails(t) \/ Answer(t) \/ Raise(t)

Next ==
  \/ Collect
  \/ \E t \in Tasks : Begin(t) \/ Attempt(t)
  \/ Expire
  \/ Terminated

Spec == Init /\ [][Next]_vars

\* Threads are scheduled and a search ends, since its requests have time-outs.
\* The budget need never run out.
Fairness ==
  /\ WF_vars(Collect)
  /\ \A t \in Tasks : WF_vars(Begin(t)) /\ WF_vars(Attempt(t))

FairSpec == Spec /\ Fairness

-----------------------------------------------------------------------------
(* Properties.                                                             *)

Places == {"open", "fill", "loop", "judge", "await", "drain", "done", "failed"}
Futures == {"new", "queued", "running", "answered", "raised", "dropped"}

\* Types of the state of a search, and that no query has more attempts than the
\* retry budget allows.
TypeOK ==
  /\ plan \in Plans
  /\ list \in Lists \cup {"done"} /\ pc \in Places
  /\ processed \in [Lists -> 0..MaxTasks]
  /\ submitted \in [Lists -> 0..MaxTasks]
  /\ fut \in [Tasks -> Futures]
  /\ tries \in [Tasks -> 0..RetryBudget]
  /\ answer \in [Tasks -> SUBSET Assets]
  /\ accepted \in [Tasks -> SUBSET Assets]
  /\ spent \in BOOLEAN

\* The queries whose result is part of the search.
Taken == {t \in Tasks : t[2] <= processed[t[1]]}

Rank(l) == CASE l = "video" -> 1 [] l = "primary" -> 2 [] l = "fallback" -> 3
Before(s, t) == Rank(s[1]) < Rank(t[1]) \/ (s[1] = t[1] /\ s[2] < t[2])

\* An asset goes to the first query that found it, in the order of the lists and
\* of their queries, in whatever order the workers answer (_prepare_provider_
\* result is called for results in order); results not taken are not accepted.
FirstFinderKeeps ==
  /\ \A t \in Taken :
       accepted[t] = answer[t] \ UNION {answer[s] : s \in {s \in Taken : Before(s, t)}}
  /\ \A t \in Tasks \ Taken : accepted[t] = {}

\* A provider is asked only for the list in hand, and at most a window ahead of
\* the results taken: an abandoned list asks for nothing more.
AsksOnlyAhead ==
  [][\A t \in Tasks :
       fut[t] # "running" /\ fut'[t] = "running" =>
         /\ t[1] = list
         /\ t[2] <= processed[list] + Window]_vars

\* Whatever workers, time-outs and failures do, the search behaves as one that
\* asks in order, stops when satisfied or out of time, and skips nothing else.
ImplementsOrderedSearch == Search!Spec

\* The search of a paragraph comes to its end, and so does every query of it.
SearchEnds == <>[]Over
=============================================================================
