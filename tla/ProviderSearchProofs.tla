------------------------- MODULE ProviderSearchProofs -------------------------
(***************************************************************************)
(* Proofs about ProviderSearch, for any queries, workers, queue, retries    *)
(* and assets. That an asset goes to the first query that found it needs    *)
(* that what was taken can change no more, and that the lists to come are    *)
(* untouched; that providers are asked only ahead, that whatever is queued   *)
(* belongs to the list in hand. With that every step is one of               *)
(* OrderedSearch, or a stutter.                                             *)
(***************************************************************************)
EXTENDS ProviderSearch, FiniteSetTheorems, WellFoundedInduction, TLAPS

PlaceOK ==
  /\ list = "done" <=> pc = "done"
  /\ pc = "fill" => Parallel
  /\ pc = "await" => processed[list] < plan.tasks[list]

CountsOK ==
  \A l \in Lists : processed[l] <= submitted[l] /\ submitted[l] <= plan.tasks[l]

\* What comes after the list in hand, and that list before it is opened.
Untouched ==
  \A l \in Lists :
    \/ list \in Lists /\ Rank(l) > Rank(list)
    \/ l = list /\ pc = "open"
    => submitted[l] = 0

FuturesOK ==
  \A t \in Tasks :
    /\ fut[t] = "new" <=> t[2] > submitted[t[1]]
    /\ fut[t] = "queued" => t[1] = list
    /\ t \in Taken => fut[t] = "answered"

\* How far the queries handed over are ahead of the results.
AheadOK ==
  list \in Lists =>
    /\ submitted[list] <= processed[list] + Window
    /\ ~Parallel =>
         /\ pc \in {"open", "loop", "judge"} => submitted[list] = processed[list]
         /\ pc = "await" => submitted[list] = processed[list] + 1

NothingLost == \A s \in Taken : answer[s] \subseteq Everything

NotEnough == pc \in {"loop", "await"} => ~Enough

IInv ==
  /\ TypeOK /\ PlaceOK /\ CountsOK /\ Untouched /\ FuturesOK /\ AheadOK
  /\ FirstFinderKeeps /\ NothingLost /\ NotEnough

-----------------------------------------------------------------------------
\* A list without results is not satisfied (_should_stop_after_quality, the count
\* of images).
LEMMA EmptyIsNotEnough ==
  ASSUME NEW p \in Plans, NEW acc \in [Tasks -> SUBSET Assets], NEW l \in Lists,
         \A t \in Tasks : t[1] = l => acc[t] = {}
  PROVE  ~Search!Satisfied(p, acc, l)
<1>1. Search!Found(acc, l) = {}
  BY DEF Search!Found, Tasks, Lists
<1>0. \A S : Search!Cardinality(S) = Cardinality(S)
  BY DEF Search!Cardinality, Cardinality
<1>2. Cardinality(Search!Found(acc, l)) = 0
  BY <1>1, FS_EmptySet
<1>3. CASE l = "video"
  BY <1>1, <1>3 DEF Search!Satisfied
<1>4. CASE l # "video"
  <2>1. p.limit[l] \in Nat
    BY <1>4, PlansAssumption DEF PlanType, Images, Lists
  <2>. QED BY <1>0, <1>2, <1>4, <2>1 DEF Search!Satisfied
<1>. QED BY <1>3, <1>4

\* The lists are gone through in one order.
LEMMA FollowingIsLater ==
  ASSUME NEW p, NEW acc, NEW l \in Lists
  PROVE  LET n == Search!Following(p, acc, l)
         IN  n = "done" \/ (n \in Lists /\ Rank(n) > Rank(l))
BY DEF Search!Following, Lists, Rank

\* The window always has room for one query.
LEMMA WindowIsPositive == Window \in Nat \ {0}
BY PoolAssumption DEF Window

LEMMA Begins == Init => IInv
<1>. SUFFICES ASSUME Init PROVE IInv
  OBVIOUS
<1>1. TypeOK
  <2>1. "video" \in Lists /\ 0 \in 0..MaxTasks /\ 0 \in 0..RetryBudget
    BY BoundsAssumption DEF Lists
  <2>. QED BY <2>1 DEF Init, TypeOK, Places, Futures
<1>2. Taken = {}
  BY DEF Init, Taken, Tasks
<1>3. FirstFinderKeeps /\ NothingLost
  BY <1>2 DEF Init, FirstFinderKeeps, NothingLost
<1>4. PlaceOK /\ CountsOK /\ Untouched /\ NotEnough
  BY PlansAssumption DEF Init, PlaceOK, CountsOK, Untouched, NotEnough, PlanType
<1>5. FuturesOK
  BY <1>2 DEF Init, FuturesOK, Tasks
<1>6. AheadOK
  BY WindowIsPositive DEF Init, AheadOK
<1>. QED BY <1>1, <1>3, <1>4, <1>5, <1>6 DEF IInv

-----------------------------------------------------------------------------
(* Facts of the state.                                                     *)

\* A query is a list and a place in it.
LEMMA TaskParts ==
  ASSUME NEW t \in Tasks
  PROVE  t[1] \in Lists /\ t[2] \in 1..MaxTasks /\ t = <<t[1], t[2]>>
BY DEF Tasks

\* The numbers of a search.
LEMMA Numbers ==
  ASSUME TypeOK, NEW l \in Lists
  PROVE  /\ plan.tasks[l] \in 0..MaxTasks /\ MaxTasks \in Nat
         /\ processed[l] \in Nat /\ submitted[l] \in Nat
BY PlansAssumption, BoundsAssumption DEF TypeOK, PlanType

\* The query awaited is one of the list in hand.
LEMMA CurrentIsTask ==
  ASSUME TypeOK, list \in Lists, processed[list] < plan.tasks[list]
  PROVE  /\ Current \in Tasks /\ Current[1] = list
         /\ Current[2] = processed[list] + 1
BY Numbers DEF Current, Tasks

-----------------------------------------------------------------------------
(* Types.                                                                  *)

\* No step of a search leaves the types.
LEMMA TypesStay == IInv /\ [Next]_vars => TypeOK'
<1>. SUFFICES ASSUME IInv, [Next]_vars PROVE TypeOK'
  OBVIOUS
<1>. USE DEF IInv
<1>1. ASSUME Leave PROVE TypeOK'
  <2>1. list \in Lists => list' \in Lists \cup {"done"}
    BY <1>1, FollowingIsLater DEF Leave
  <2>2. list = "done" => list' = "done"
    BY <1>1 DEF Leave, Search!Following, Lists
  <2>3. fut' \in [Tasks -> Futures]
    BY <1>1 DEF Leave, TypeOK, Futures, Abandoned
  <2>. QED BY <1>1, <2>1, <2>2, <2>3 DEF Leave, TypeOK, Places
<1>2. CASE Open
  BY <1>2 DEF Open, TypeOK, Places
<1>3. CASE Submit
  <2>1. list \in Lists
    BY <1>3 DEF Submit, TypeOK, PlaceOK
  <2>2. submitted[list] + 1 \in 0..MaxTasks
    BY <1>3, <2>1, Numbers DEF Submit, CanSubmit
  <2>3. submitted' \in [Lists -> 0..MaxTasks]
    BY <1>3, <2>1, <2>2 DEF Submit, TypeOK
  <2>4. fut' \in [Tasks -> Futures]
    BY <1>3 DEF Submit, TypeOK, Futures
  <2>. QED BY <1>3, <2>3, <2>4 DEF Submit, TypeOK
<1>4. CASE Filled
  BY <1>1, <1>4 DEF Filled, TypeOK, Places
<1>5. CASE Judge
  BY <1>1, <1>5 DEF Judge, TypeOK, Places
<1>6. CASE Finish
  BY <1>1, <1>6 DEF Finish
<1>7. CASE Await
  <2>1. list \in Lists
    BY <1>7 DEF Await, TypeOK, PlaceOK
  <2>2. ~Parallel => submitted[list] + 1 \in 0..MaxTasks
    BY <1>7, <2>1, Numbers DEF Await, AheadOK
  <2>3. submitted' \in [Lists -> 0..MaxTasks] /\ fut' \in [Tasks -> Futures]
    BY <1>7, <2>1, <2>2 DEF Await, TypeOK, Futures
  <2>. QED BY <1>7, <2>3 DEF Await, TypeOK, Places
<1>8. CASE TakeResult
  <2>1. list \in Lists
    BY <1>8 DEF TakeResult, TypeOK, PlaceOK
  <2>2. processed[list] + 1 \in 0..MaxTasks
    BY <1>8, <2>1, Numbers DEF TakeResult, PlaceOK
  <2>3. processed' \in [Lists -> 0..MaxTasks]
    BY <1>8, <2>1, <2>2 DEF TakeResult, TypeOK
  <2>4. accepted' \in [Tasks -> SUBSET Assets]
    BY <1>8, <2>1, CurrentIsTask DEF TakeResult, TypeOK, PlaceOK
  <2>. QED BY <1>8, <2>3, <2>4 DEF TakeResult, TypeOK, Places
<1>9. CASE ResultRaises
  BY <1>9 DEF ResultRaises, TypeOK, Places
<1>10. CASE Drained
  BY <1>10 DEF Drained, TypeOK, Places
<1>11. ASSUME NEW t \in Tasks, Begin(t) PROVE TypeOK'
  BY <1>11 DEF Begin, collector, TypeOK, Futures
<1>12. ASSUME NEW t \in Tasks, AttemptFails(t) PROVE TypeOK'
  <2>1. tries[t] + 1 \in 0..RetryBudget
    BY <1>12, BoundsAssumption DEF AttemptFails, TypeOK
  <2>2. tries' \in [Tasks -> 0..RetryBudget]
    BY <1>12, <2>1 DEF AttemptFails, TypeOK
  <2>. QED BY <1>12, <2>2 DEF AttemptFails, collector, TypeOK
<1>13. ASSUME NEW t \in Tasks, Answer(t) PROVE TypeOK'
  <2>1. fut' \in [Tasks -> Futures]
    BY <1>13 DEF Answer, TypeOK, Futures
  <2>2. answer' \in [Tasks -> SUBSET Assets]
    BY <1>13 DEF Answer, TypeOK
  <2>. QED BY <1>13, <2>1, <2>2 DEF Answer, collector, TypeOK
<1>14. ASSUME NEW t \in Tasks, Raise(t) PROVE TypeOK'
  BY <1>14 DEF Raise, collector, TypeOK, Futures
<1>15. CASE Expire
  BY <1>15 DEF Expire, collector, TypeOK
<1>16. CASE UNCHANGED vars
  BY <1>16 DEF vars, TypeOK
<1>. QED
  BY <1>2, <1>3, <1>4, <1>5, <1>6, <1>7, <1>8, <1>9, <1>10, <1>11, <1>12, <1>13,
     <1>14, <1>15, <1>16 DEF Next, Collect, Attempt, Terminated

-----------------------------------------------------------------------------
(* The steps.                                                              *)

\* What a step that takes no result and leaves no list must respect.
Rest ==
  /\ PlaceOK /\ CountsOK /\ Untouched /\ FuturesOK /\ AheadOK
  /\ FirstFinderKeeps /\ NothingLost /\ NotEnough

\* Results that were taken stay what they are when no answer of theirs changes.
LEMMA TakenStay ==
  ASSUME IInv, UNCHANGED <<processed, accepted>>,
         \A t \in Taken : answer'[t] = answer[t]
  PROVE  (FirstFinderKeeps /\ NothingLost)'
<1>1. Taken' = Taken
  BY DEF Taken
<1>2. FirstFinderKeeps'
  <2>1. ASSUME NEW t \in Taken
        PROVE  UNION {answer'[s] : s \in {s \in Taken : Before(s, t)}}
                 = UNION {answer[s] : s \in {s \in Taken : Before(s, t)}}
    OBVIOUS
  <2>. QED BY <1>1, <2>1 DEF IInv, FirstFinderKeeps, Before, Rank
<1>3. NothingLost'
  BY <1>1 DEF IInv, NothingLost, Everything
<1>. QED BY <1>2, <1>3

\* A list that is left takes its queue along, and the next one is untouched.
LEMMA LeaveKeeps == ASSUME IInv, Leave, list \in Lists PROVE Rest'
<1>. USE DEF IInv
<1>1. (FirstFinderKeeps /\ NothingLost)'
  BY TakenStay DEF Leave
<1>2. list' = "done" \/ (list' \in Lists /\ Rank(list') > Rank(list))
  BY FollowingIsLater DEF Leave
<1>3. "done" \notin Lists /\ pc' = (IF list' = "done" THEN "done" ELSE "open")
  BY DEF Leave, Lists
<1>4. PlaceOK'
  BY <1>3 DEF Leave, PlaceOK
<1>5. CountsOK'
  BY DEF Leave, CountsOK
<1>6. \A l \in Lists : Rank(l) \in Nat
  BY DEF Rank, Lists
<1>7. Untouched'
  <2>. SUFFICES ASSUME NEW l \in Lists, list' \in Lists,
                       Rank(l) > Rank(list') \/ l = list'
                PROVE  submitted[l] = 0
    BY <1>3 DEF Leave, Untouched, Rank
  <2>. QED BY <1>2, <1>3, <1>6 DEF Untouched
<1>8. FuturesOK'
  <2>. SUFFICES ASSUME NEW t \in Tasks
                PROVE  /\ fut'[t] = "new" <=> t[2] > submitted[t[1]]
                       /\ fut'[t] # "queued"
                       /\ t \in Taken => fut'[t] = "answered"
    BY DEF Leave, FuturesOK, Taken
  <2>1. fut'[t] = IF t[1] = list /\ fut[t] = "queued" THEN "dropped" ELSE fut[t]
    BY DEF Leave, Abandoned
  <2>. QED BY <2>1 DEF FuturesOK
<1>9. AheadOK'
  <2>. SUFFICES ASSUME list' \in Lists
                PROVE  /\ submitted[list'] <= processed[list'] + Window'
                       /\ submitted[list'] = processed[list'] /\ pc' = "open"
    BY DEF AheadOK, Leave
  <2>1. submitted[list'] = 0
    BY <1>2, <1>3 DEF Untouched
  <2>2. processed[list'] = 0
    BY <2>1, Numbers DEF CountsOK
  <2>3. Window' = Window
    BY DEF Leave, Window
  <2>. QED BY <1>3, <2>1, <2>2, <2>3, WindowIsPositive
<1>10. NotEnough'
  BY <1>3 DEF NotEnough
<1>. QED BY <1>1, <1>4, <1>5, <1>7, <1>8, <1>9, <1>10 DEF Rest

\* The result that is taken is the last of all so far, and what it has of new
\* assets is added to what was found.
LEMMA TakeKeeps == ASSUME IInv, TakeResult PROVE Rest'
<1>. USE DEF IInv
<1>. DEFINE c == Current
<1>1. list \in Lists /\ processed[list] < plan.tasks[list]
  BY DEF TakeResult, TypeOK, PlaceOK
<1>2. c \in Tasks /\ c[1] = list /\ c[2] = processed[list] + 1
  BY <1>1, CurrentIsTask
<1>3. processed' = [processed EXCEPT ![list] = processed[list] + 1]
  BY DEF TakeResult
<1>4. \A l \in Lists : processed[l] \in Nat /\ processed'[l] \in Nat
  BY <1>1, <1>3, Numbers DEF TypeOK
<1>5. Taken' = Taken \cup {c} /\ c \notin Taken
  <2>1. ASSUME NEW t \in Tasks
        PROVE  t[2] <= processed'[t[1]] <=> t[2] <= processed[t[1]] \/ t = c
    <3>1. CASE t[1] = list
      BY <1>1, <1>2, <1>3, <1>4, <3>1, TaskParts DEF TypeOK
    <3>2. CASE t[1] # list
      BY <1>1, <1>2, <1>3, <3>2, TaskParts DEF TypeOK
    <3>. QED BY <3>1, <3>2
  <2>2. ~(c[2] <= processed[c[1]])
    BY <1>1, <1>2, <1>4
  <2>. QED BY <1>2, <2>1, <2>2 DEF Taken
<1>6. \A s \in Taken : Before(s, c) /\ ~Before(c, s)
  <2>. SUFFICES ASSUME NEW s \in Taken PROVE Before(s, c) /\ ~Before(c, s)
    OBVIOUS
  <2>1. s[1] \in Lists /\ s[2] \in 1..MaxTasks /\ s[2] <= processed[s[1]]
    BY TaskParts DEF Taken
  <2>2. processed[s[1]] <= submitted[s[1]] /\ submitted[s[1]] \in Nat
    BY <2>1, Numbers DEF CountsOK
  <2>3. submitted[s[1]] # 0
    BY <1>4, <2>1, <2>2, BoundsAssumption
  <2>4. ~(Rank(s[1]) > Rank(list))
    BY <1>1, <2>1, <2>3 DEF Untouched
  <2>5. Rank(s[1]) < Rank(list) \/ s[1] = list
    BY <1>1, <2>1, <2>4 DEF Rank, Lists
  <2>6. s[1] = list => s[2] < c[2] /\ ~(c[2] < s[2])
    BY <1>2, <1>4, <2>1
  <2>7. ~(Rank(list) < Rank(s[1])) /\ ~(Rank(list) < Rank(list))
    BY <1>1, <2>1, <2>4 DEF Rank, Lists
  <2>. QED BY <1>2, <2>5, <2>6, <2>7 DEF Before
<1>7. ~Before(c, c)
  BY <1>1, <1>2, <1>4 DEF Before, Rank, Lists
<1>8. /\ accepted' = [accepted EXCEPT ![c] = answer[c] \ Everything]
      /\ answer' = answer /\ fut' = fut /\ fut[c] = "answered"
  BY DEF TakeResult
<1>9. Everything = UNION {answer[s] : s \in Taken}
  <2>1. \A t \in Tasks : accepted[t] \subseteq UNION {answer[s] : s \in Taken}
    BY DEF FirstFinderKeeps
  <2>2. Everything \subseteq UNION {answer[s] : s \in Taken}
    BY <2>1 DEF Everything, Search!Everything, Search!Tasks, Tasks, Search!Lists,
                Lists
  <2>. QED BY <2>2 DEF NothingLost
<1>10. FirstFinderKeeps'
  <2>1. ASSUME NEW t \in Taken'
        PROVE  accepted'[t] = answer[t] \
                 UNION {answer[s] : s \in {s \in Taken' : Before(s, t)}}
    <3>1. CASE t = c
      <4>1. {s \in Taken' : Before(s, c)} = Taken
        BY <1>5, <1>6, <1>7
      <4>. QED BY <1>2, <1>8, <1>9, <3>1, <4>1 DEF TypeOK
    <3>2. CASE t \in Taken
      <4>1. {s \in Taken' : Before(s, t)} = {s \in Taken : Before(s, t)}
        BY <1>5, <1>6, <3>2
      <4>2. accepted'[t] = accepted[t]
        BY <1>5, <1>8, <3>2 DEF TypeOK, Taken
      <4>. QED BY <3>2, <4>1, <4>2 DEF FirstFinderKeeps
    <3>. QED BY <1>5, <3>1, <3>2
  <2>2. ASSUME NEW t \in Tasks \ Taken' PROVE accepted'[t] = {}
    BY <1>5, <1>8, <2>2 DEF FirstFinderKeeps, TypeOK
  <2>3. \A s, t : Before(s, t)' = Before(s, t)
    BY DEF Before, Rank
  <2>. QED BY <1>8, <2>1, <2>2, <2>3 DEF FirstFinderKeeps
<1>11. NothingLost'
  <2>1. \A t \in Tasks : accepted[t] \subseteq accepted'[t]
    <3>1. accepted[c] = {}
      BY <1>2, <1>5 DEF FirstFinderKeeps
    <3>. QED BY <1>8, <3>1 DEF TypeOK
  <2>2. Everything \subseteq Everything' /\ accepted'[c] \subseteq Everything'
    BY <1>2, <2>1 DEF Everything, Search!Everything, Search!Tasks, Tasks,
                      Search!Lists, Lists
  <2>3. answer[c] \subseteq Everything'
    BY <1>2, <1>8, <2>2 DEF TypeOK
  <2>. QED BY <1>5, <1>8, <2>2, <2>3 DEF NothingLost
<1>12. c[2] <= submitted[list]
  BY <1>1, <1>2, <1>4, <1>8, Numbers DEF FuturesOK
<1>13. PlaceOK' /\ NotEnough'
  BY <1>1 DEF TakeResult, PlaceOK, NotEnough, Parallel
<1>14. CountsOK'
  BY <1>1, <1>2, <1>3, <1>12 DEF TakeResult, CountsOK, TypeOK
<1>15. Untouched'
  BY <1>1 DEF TakeResult, Untouched, Rank
<1>16. FuturesOK'
  BY <1>5, <1>8 DEF TakeResult, FuturesOK
<1>17. AheadOK'
  <2>1. Window' = Window /\ Parallel' = Parallel
    BY DEF TakeResult, Window, Parallel
  <2>2. submitted[list] <= processed[list] + 1 + Window
    BY <1>1, <1>4, Numbers, WindowIsPositive DEF AheadOK
  <2>3. ~Parallel => submitted[list] = processed[list] + 1
    BY <1>1 DEF AheadOK, TakeResult
  <2>4. processed'[list] = processed[list] + 1
    BY <1>1, <1>3 DEF TypeOK
  <2>. QED BY <2>1, <2>2, <2>3, <2>4 DEF TakeResult, AheadOK
<1>. QED BY <1>10, <1>11, <1>13, <1>14, <1>15, <1>16, <1>17 DEF Rest

\* The steps of the thread that touch neither queries nor results.
Moves ==
  \/ Open
  \/ pc = "fill" /\ ~Enough /\ pc' = "loop"
  \/ pc = "judge" /\ ~Enough /\ pc' = (IF Parallel THEN "fill" ELSE "loop")
  \/ ResultRaises \/ Drained

\* They go where the list in hand may be.
LEMMA MovesKeep ==
  ASSUME IInv, Moves,
         UNCHANGED <<plan, list, processed, submitted, fut, answer, accepted>>
  PROVE  Rest'
<1>. USE DEF IInv
<1>1. (FirstFinderKeeps /\ NothingLost)'
  BY TakenStay
<1>2. Parallel' = Parallel /\ Window' = Window /\ Taken' = Taken /\ (Enough' <=> Enough)
  BY DEF Parallel, Window, Taken, Enough
<1>3. pc' # "await" /\ pc' # "open" /\ (list = "done" <=> pc' = "done")
  BY <1>2 DEF Moves, Open, ResultRaises, Drained, PlaceOK, TypeOK
<1>4. pc' = "fill" => Parallel
  BY DEF Moves, Open, ResultRaises, Drained
<1>5. PlaceOK'
  BY <1>2, <1>3, <1>4 DEF PlaceOK
<1>6. CountsOK' /\ Untouched'
  BY <1>3 DEF CountsOK, Untouched, Rank
<1>7. FuturesOK'
  BY <1>2 DEF FuturesOK
<1>8. AheadOK'
  <2>1. ~Parallel /\ pc' \in {"loop", "judge"} => pc \in {"open", "judge"}
    BY DEF Moves, Open, ResultRaises, Drained, PlaceOK
  <2>. QED BY <1>2, <1>3, <2>1 DEF AheadOK
<1>9. NotEnough'
  <2>1. CASE Open
    <3>1. list \in Lists
      BY <2>1 DEF Open, PlaceOK, TypeOK
    <3>2. submitted[list] = 0 /\ processed[list] = 0
      BY <2>1, <3>1, Numbers DEF Open, Untouched, CountsOK
    <3>3. \A t \in Tasks : t[1] = list => accepted[t] = {}
      BY <3>1, <3>2, TaskParts DEF FirstFinderKeeps, Taken
    <3>4. ~Enough
      BY <3>1, <3>3, EmptyIsNotEnough DEF TypeOK, Enough
    <3>. QED BY <1>2, <3>4 DEF NotEnough
  <2>2. CASE ~Open
    BY <1>2, <2>2 DEF NotEnough, Moves, ResultRaises, Drained
  <2>. QED BY <2>1, <2>2
<1>. QED BY <1>1, <1>5, <1>6, <1>7, <1>8, <1>9 DEF Rest

\* One more query is handed over, and the window is not exceeded.
LEMMA SubmitKeeps == ASSUME IInv, Submit PROVE Rest'
<1>. USE DEF IInv
<1>1. list \in Lists
  BY DEF Submit, TypeOK, PlaceOK
<1>2. (FirstFinderKeeps /\ NothingLost)'
  BY TakenStay DEF Submit
<1>3. Parallel' = Parallel /\ Window' = Window /\ Taken' = Taken
  BY DEF Submit, Parallel, Window, Taken
<1>4. submitted' = [submitted EXCEPT ![list] = submitted[list] + 1]
  BY DEF Submit
<1>5. /\ submitted[list] < plan.tasks[list] /\ submitted[list] \in Nat
      /\ plan.tasks[list] \in 0..MaxTasks /\ MaxTasks \in Nat
      /\ processed[list] \in Nat
  BY <1>1, Numbers DEF Submit, CanSubmit
<1>6. submitted'[list] = submitted[list] + 1
  BY <1>1, <1>4 DEF TypeOK
<1>. DEFINE n == <<list, submitted[list] + 1>>
<1>7. n \in Tasks /\ fut' = [fut EXCEPT ![n] = "queued"]
  <2>1. submitted[list] + 1 \in 1..MaxTasks
    BY <1>5
  <2>2. n \in Tasks
    BY <1>1, <2>1 DEF Tasks
  <2>. QED BY <1>6, <2>2 DEF Submit
<1>8. PlaceOK'
  BY <1>3 DEF Submit, PlaceOK
<1>9. CountsOK'
  BY <1>1, <1>4, <1>5 DEF Submit, CountsOK, TypeOK
<1>10. Untouched'
  BY <1>1, <1>4 DEF Submit, Untouched, TypeOK, Rank, Lists
<1>11. FuturesOK'
  <2>. SUFFICES ASSUME NEW t \in Tasks
                PROVE  /\ fut'[t] = "new" <=> t[2] > submitted'[t[1]]
                       /\ fut'[t] = "queued" => t[1] = list
                       /\ t \in Taken => fut'[t] = "answered"
    BY <1>3 DEF Submit, FuturesOK
  <2>0. t[1] \in Lists /\ t[2] \in Nat /\ t = <<t[1], t[2]>> /\ submitted[t[1]] \in Nat
    BY TaskParts, Numbers
  <2>1. CASE t = n
    <3>1. fut'[t] = "queued" /\ t[1] = list /\ t[2] = submitted[list] + 1
      BY <1>7, <2>1 DEF TypeOK
    <3>2. t \notin Taken
      BY <1>1, <1>5, <3>1 DEF Taken, CountsOK
    <3>. QED BY <1>5, <1>6, <3>1, <3>2
  <2>2. CASE t # n
    <3>1. fut'[t] = fut[t]
      BY <1>7, <2>2 DEF TypeOK
    <3>2. t[2] > submitted'[t[1]] <=> t[2] > submitted[t[1]]
      <4>1. CASE t[1] = list
        BY <1>5, <1>6, <2>0, <2>2, <4>1
      <4>2. CASE t[1] # list
        BY <1>4, <2>0, <4>2 DEF TypeOK
      <4>. QED BY <4>1, <4>2
    <3>. QED BY <3>1, <3>2 DEF FuturesOK
  <2>. QED BY <2>1, <2>2
<1>12. AheadOK'
  <2>1. submitted[list] + 1 <= processed[list] + Window
    BY <1>1, <1>5, WindowIsPositive DEF Submit, CanSubmit
  <2>2. Parallel
    BY DEF Submit, PlaceOK
  <2>. QED BY <1>3, <1>6, <2>1, <2>2 DEF Submit, AheadOK
<1>13. NotEnough'
  BY DEF Submit, NotEnough
<1>. QED BY <1>2, <1>8, <1>9, <1>10, <1>11, <1>12, <1>13 DEF Rest

\* Without a pool the thread runs the query it awaits itself.
LEMMA AwaitKeeps == ASSUME IInv, Await PROVE Rest'
<1>. USE DEF IInv
<1>1. list \in Lists /\ processed[list] < plan.tasks[list]
  BY DEF Await, TypeOK, PlaceOK
<1>2. (FirstFinderKeeps /\ NothingLost)'
  BY TakenStay DEF Await
<1>3. Parallel' = Parallel /\ Window' = Window /\ Taken' = Taken /\ (Enough' <=> Enough)
  BY DEF Await, Parallel, Window, Taken, Enough
<1>4. PlaceOK' /\ NotEnough'
  BY <1>1, <1>3 DEF Await, PlaceOK, NotEnough
<1>5. CASE Parallel
  <2>1. CountsOK' /\ Untouched' /\ FuturesOK'
    BY <1>3, <1>5 DEF Await, CountsOK, Untouched, FuturesOK, Rank
  <2>2. AheadOK'
    BY <1>3, <1>5 DEF Await, AheadOK
  <2>. QED BY <1>2, <1>4, <2>1, <2>2 DEF Rest
<1>6. CASE ~Parallel
  <2>1. submitted[list] = processed[list]
    BY <1>1, <1>6 DEF Await, AheadOK
  <2>2. /\ submitted' = [submitted EXCEPT ![list] = submitted[list] + 1]
        /\ fut' = [fut EXCEPT ![Current] = "running"]
    BY <1>6 DEF Await
  <2>3. Current \in Tasks /\ Current[1] = list /\ Current[2] = submitted[list] + 1
    BY <1>1, <2>1, CurrentIsTask
  <2>4. /\ submitted'[list] = submitted[list] + 1 /\ submitted[list] \in Nat
        /\ plan.tasks[list] \in Nat
    BY <1>1, <2>2, Numbers DEF TypeOK
  <2>5. CountsOK'
    BY <1>1, <2>1, <2>2, <2>4 DEF Await, CountsOK, TypeOK
  <2>6. Untouched'
    BY <1>1, <2>2 DEF Await, Untouched, TypeOK, Rank, Lists
  <2>7. FuturesOK'
    <3>. SUFFICES ASSUME NEW t \in Tasks
                  PROVE  /\ fut'[t] = "new" <=> t[2] > submitted'[t[1]]
                         /\ fut'[t] = "queued" => t[1] = list
                         /\ t \in Taken => fut'[t] = "answered"
      BY <1>3 DEF Await, FuturesOK
    <3>0. t[1] \in Lists /\ t[2] \in Nat /\ t = <<t[1], t[2]>>
      BY TaskParts
    <3>1. CASE t = Current
      <4>1. fut'[t] = "running" /\ t[1] = list /\ t[2] = submitted[list] + 1
        BY <2>2, <2>3, <3>1 DEF TypeOK
      <4>2. t \notin Taken
        BY <2>1, <2>4, <4>1 DEF Taken
      <4>. QED BY <2>4, <4>1, <4>2
    <3>2. CASE t # Current
      <4>1. fut'[t] = fut[t]
        BY <2>2, <3>2 DEF TypeOK
      <4>2. t[2] > submitted'[t[1]] <=> t[2] > submitted[t[1]]
        <5>1. CASE t[1] = list
          BY <2>1, <2>4, <3>0, <3>2, <5>1 DEF Current
        <5>2. CASE t[1] # list
          BY <2>2, <3>0, <5>2 DEF TypeOK
        <5>. QED BY <5>1, <5>2
      <4>. QED BY <4>1, <4>2 DEF FuturesOK
    <3>. QED BY <3>1, <3>2
  <2>8. AheadOK'
    BY <1>3, <2>1, <2>4, WindowIsPositive DEF Await, AheadOK
  <2>. QED BY <1>2, <1>4, <2>5, <2>6, <2>7, <2>8 DEF Rest
<1>. QED BY <1>5, <1>6

\* A query that goes on, on a worker: results that were taken are not touched.
Works(t) ==
  /\ fut[t] \in {"queued", "running"}
  /\ \E state \in {"running", "answered", "raised"} : fut' = [fut EXCEPT ![t] = state]
  /\ \A s \in Tasks : s # t => answer'[s] = answer[s]

LEMMA WorkKeeps ==
  ASSUME IInv, NEW t \in Tasks, Works(t), UNCHANGED <<plan, collector>>
  PROVE  Rest'
<1>. USE DEF IInv
<1>1. t \notin Taken
  BY DEF Works, FuturesOK
<1>2. (FirstFinderKeeps /\ NothingLost)'
  BY <1>1, TakenStay DEF Works, collector, Taken
<1>3. /\ Parallel' = Parallel /\ Window' = Window /\ Taken' = Taken
      /\ Enough' <=> Enough
  BY DEF collector, Parallel, Window, Taken, Enough
<1>4. PlaceOK' /\ CountsOK' /\ Untouched' /\ AheadOK' /\ NotEnough'
  BY <1>3 DEF collector, PlaceOK, CountsOK, Untouched, AheadOK, NotEnough, Rank
<1>5. FuturesOK'
  BY <1>1, <1>3 DEF Works, collector, FuturesOK, TypeOK
<1>. QED BY <1>2, <1>4, <1>5 DEF Rest

\* Steps that change neither the thread nor the futures.
LEMMA OthersKeep ==
  ASSUME IInv, UNCHANGED <<plan, collector, fut, answer>>
  PROVE  Rest'
<1>. USE DEF IInv
<1>1. (FirstFinderKeeps /\ NothingLost)'
  BY TakenStay DEF collector
<1>2. /\ Parallel' = Parallel /\ Window' = Window /\ Taken' = Taken
      /\ Enough' <=> Enough
  BY DEF collector, Parallel, Window, Taken, Enough
<1>3. PlaceOK' /\ CountsOK' /\ Untouched' /\ FuturesOK' /\ AheadOK' /\ NotEnough'
  BY <1>2 DEF collector, PlaceOK, CountsOK, Untouched, FuturesOK, AheadOK, NotEnough,
              Rank
<1>. QED BY <1>1, <1>3 DEF Rest

\* One step of a search, the types apart.
LEMMA StepKeeps == IInv /\ [Next]_vars => Rest'
<1>. SUFFICES ASSUME IInv, [Next]_vars PROVE Rest'
  OBVIOUS
<1>0. pc \notin {"done"} => list \in Lists
  BY DEF IInv, TypeOK, PlaceOK
<1>1. CASE Open
  BY <1>1, MovesKeep DEF Open, Moves
<1>2. CASE Submit
  BY <1>2, SubmitKeeps
<1>3. CASE Filled
  BY <1>0, <1>3, LeaveKeeps, MovesKeep DEF Filled, Moves
<1>4. CASE Judge
  BY <1>0, <1>4, LeaveKeeps, MovesKeep DEF Judge, Moves
<1>5. CASE Finish
  BY <1>0, <1>5, LeaveKeeps DEF Finish
<1>6. CASE Await
  BY <1>6, AwaitKeeps
<1>7. CASE TakeResult
  BY <1>7, TakeKeeps
<1>8. CASE ResultRaises
  BY <1>8, MovesKeep DEF ResultRaises, Moves
<1>9. CASE Drained
  BY <1>9, MovesKeep DEF Drained, Moves
<1>10. ASSUME NEW t \in Tasks, Begin(t) PROVE Rest'
  BY <1>10, WorkKeeps DEF Begin, Works
<1>11. ASSUME NEW t \in Tasks, AttemptFails(t) PROVE Rest'
  BY <1>11, OthersKeep DEF AttemptFails
<1>12. ASSUME NEW t \in Tasks, Answer(t) PROVE Rest'
  <2>1. \A s \in Tasks : s # t => answer'[s] = answer[s]
    BY <1>12 DEF Answer, IInv, TypeOK
  <2>. QED BY <1>12, <2>1, WorkKeeps DEF Answer, Works
<1>13. ASSUME NEW t \in Tasks, Raise(t) PROVE Rest'
  BY <1>13, WorkKeeps DEF Raise, Works
<1>14. CASE Expire
  BY <1>14, OthersKeep DEF Expire
<1>15. CASE UNCHANGED vars
  BY <1>15, OthersKeep DEF vars, collector
<1>. QED
  BY <1>1, <1>2, <1>3, <1>4, <1>5, <1>6, <1>7, <1>8, <1>9, <1>10, <1>11, <1>12,
     <1>13, <1>14, <1>15 DEF Next, Collect, Attempt, Terminated

-----------------------------------------------------------------------------
(* Theorems.                                                               *)

\* What is true of every search at every moment.
THEOREM SearchInvariant == Spec => []IInv
<1>1. IInv /\ [Next]_vars => IInv'
  BY TypesStay, StepKeeps DEF IInv, Rest
<1>. QED BY Begins, <1>1, PTL DEF Spec

\* A search keeps its types, and no query exceeds the retry budget.
THEOREM SearchTypes == Spec => []TypeOK
<1>1. IInv => TypeOK
  BY DEF IInv
<1>. QED BY <1>1, SearchInvariant, PTL

\* Whatever the order in which workers answer, an asset goes to the first query
\* that found it (_prepare_provider_result in the order of the tasks).
THEOREM FirstFinders == Spec => []FirstFinderKeeps
<1>1. IInv => FirstFinderKeeps
  BY DEF IInv
<1>. QED BY <1>1, SearchInvariant, PTL

\* Providers are asked for the list in hand alone, a window ahead at most.
THEOREM AsksAhead == Spec => AsksOnlyAhead
<1>1. IInv /\ [Next]_vars =>
        [\A t \in Tasks :
           fut[t] # "running" /\ fut'[t] = "running" =>
             /\ t[1] = list
             /\ t[2] <= processed[list] + Window]_vars
  <2>. SUFFICES ASSUME IInv, [Next]_vars, NEW t \in Tasks,
                       fut[t] # "running", fut'[t] = "running"
                PROVE  t[1] = list /\ t[2] <= processed[list] + Window
    OBVIOUS
  <2>. USE DEF IInv
  <2>1. CASE Await
    <3>1. list \in Lists /\ processed[list] < plan.tasks[list]
      BY <2>1 DEF Await, TypeOK, PlaceOK
    <3>2. Current \in Tasks /\ Current[1] = list /\ Current[2] = processed[list] + 1
      BY <3>1, CurrentIsTask
    <3>3. t = Current
      BY <2>1, <3>2 DEF Await, TypeOK
    <3>. QED BY <3>1, <3>2, <3>3, Numbers, WindowIsPositive
  <2>2. ASSUME NEW s \in Tasks, Begin(s)
        PROVE  t[1] = list /\ t[2] <= processed[list] + Window
    <3>1. t = s /\ fut[t] = "queued"
      BY <2>2 DEF Begin, TypeOK
    <3>2. t[1] = list /\ list \in Lists /\ ~(t[2] > submitted[list])
      BY <3>1, TaskParts DEF FuturesOK
    <3>. QED BY <3>2, TaskParts, Numbers, WindowIsPositive DEF AheadOK
  <2>3. CASE Submit
    <3>1. \A s \in Tasks : fut'[s] \in {fut[s], "queued"}
      BY <2>3 DEF Submit, TypeOK
    <3>. QED BY <3>1
  <2>4. CASE Leave
    BY <2>4 DEF Leave, Abandoned
  <2>5. ASSUME NEW s \in Tasks, Attempt(s) PROVE FALSE
    BY <2>5 DEF Attempt, AttemptFails, Answer, Raise, TypeOK
  <2>6. CASE UNCHANGED fut
    BY <2>6
  <2>. QED
    BY <2>1, <2>2, <2>3, <2>4, <2>5, <2>6
    DEF Next, Collect, Open, Filled, Judge, Finish, TakeResult, ResultRaises, Drained,
        Expire, Terminated, vars
<1>. QED BY <1>1, SearchInvariant, PTL DEF Spec, AsksOnlyAhead

-----------------------------------------------------------------------------
(* Refinement.                                                             *)

Stage == IF pc \in {"drain", "failed"} THEN "failed" ELSE list

\* Every step of the threads is one of the search that asks in order, or none.
LEMMA StepRefines ==
  IInv /\ [Next]_vars =>
    [Search!Next]_<<plan, Stage, processed, accepted, spent>>
<1>. SUFFICES ASSUME IInv, [Next]_vars
              PROVE  Search!Next \/ UNCHANGED <<plan, Stage, processed, accepted, spent>>
  OBVIOUS
<1>. USE DEF IInv, Search!Lists, Lists
<1>0. list = "done" <=> pc = "done"
  BY DEF PlaceOK
<1>1. ASSUME Leave, pc \in {"fill", "judge", "loop"},
             processed[list] = plan.tasks[list] \/ Enough \/ spent
      PROVE  Search!Close
  <2>1. Stage = list /\ list \in Search!Lists
    BY <1>0, <1>1 DEF Stage, TypeOK
  <2>2. Stage' = list'
    BY <1>1 DEF Leave, Stage
  <2>. QED BY <1>1, <2>1, <2>2 DEF Leave, Search!Close, Stage, Enough
<1>2. CASE Open \/ Submit \/ Await \/ Drained \/ UNCHANGED vars
  BY <1>0, <1>2 DEF Open, Submit, Await, Drained, vars, Stage
<1>3. CASE Filled
  <2>1. CASE Enough
    BY <1>1, <1>3, <2>1 DEF Filled, Search!Next
  <2>2. CASE ~Enough
    BY <1>3, <2>2 DEF Filled, Stage
  <2>. QED BY <2>1, <2>2
<1>4. CASE Judge
  <2>1. CASE Enough
    BY <1>1, <1>4, <2>1 DEF Judge, Search!Next
  <2>2. CASE ~Enough
    BY <1>4, <2>2 DEF Judge, Stage
  <2>. QED BY <2>1, <2>2
<1>5. CASE Finish
  BY <1>1, <1>5 DEF Finish, Search!Next
<1>6. CASE TakeResult
  <2>1. list \in Search!Lists /\ processed[list] < plan.tasks[list] /\ ~Enough
    BY <1>0, <1>6 DEF TakeResult, TypeOK, PlaceOK, NotEnough
  <2>2. Stage = list /\ Stage' = list
    BY <1>6 DEF TakeResult, Stage
  <2>3. processed' = [processed EXCEPT ![list] = @ + 1]
    BY <1>6 DEF TakeResult
  <2>4. Current = <<list, processed'[list]>> /\ Current \in Tasks
    BY <2>1, <2>3, CurrentIsTask DEF Current, TypeOK
  <2>5. answer[Current] \in SUBSET Assets
    BY <2>4 DEF TypeOK
  <2>6. accepted' = [accepted EXCEPT ![<<list, processed'[list]>>] =
                                       answer[Current] \ Search!Everything(accepted)]
    BY <1>6, <2>4 DEF TakeResult, Everything
  <2>7. UNCHANGED <<plan, spent>>
    BY <1>6 DEF TakeResult
  <2>8. Search!Take
    BY <2>1, <2>2, <2>3, <2>5, <2>6, <2>7 DEF Search!Take, Stage, Enough
  <2>. QED BY <2>8 DEF Search!Next
<1>7. CASE ResultRaises
  <2>1. Search!Fail
    BY <1>0, <1>7 DEF ResultRaises, Search!Fail, Stage, TypeOK, PlaceOK
  <2>. QED BY <2>1 DEF Search!Next
<1>8. CASE \E t \in Tasks : Begin(t) \/ Attempt(t)
  BY <1>8 DEF Begin, Attempt, AttemptFails, Answer, Raise, collector, Stage
<1>9. CASE Expire
  BY <1>9 DEF Expire, collector, Stage, Search!Expire, Search!Next
<1>. QED
  BY <1>2, <1>3, <1>4, <1>5, <1>6, <1>7, <1>8, <1>9 DEF Next, Collect, Terminated

\* A search behaves as one that asks its queries in order, whatever workers,
\* time-outs, retries and failures do (_collect_results).
THEOREM RefinesOrderedSearch == Spec => ImplementsOrderedSearch
<1>1. Init => Search!Init
  BY DEF Init, Search!Init, Search!Lists, Lists, Search!Tasks, Tasks
<1>2. IInv /\ [Next]_vars =>
        [Search!Next]_<<plan, IF pc \in {"drain", "failed"} THEN "failed" ELSE list,
                        processed, accepted, spent>>
  BY StepRefines DEF Stage
<1>. QED
  BY <1>1, <1>2, SearchInvariant, PTL DEF Spec, ImplementsOrderedSearch, Search!Spec

-----------------------------------------------------------------------------
(* A search is never stuck. The guards of the steps that Fairness forces are *)
(* written as conditions of the state: one of them holds until it is over.   *)

\* The thread of the paragraph can take a step.
CollectorCanGoOn ==
  \/ pc \in {"open", "judge"}
  \/ pc = "fill" /\ (CanSubmit => Cardinality(Unfinished(list)) < ProviderQueueSize)
  \/ pc = "loop" /\ (spent \/ processed[list] <= plan.tasks[list])
  \/ pc = "await" /\ fut[Current] \in {"answered", "raised"}
  \/ pc = "drain" /\ Unfinished(list) = {}

\* A query can: it is asked, or a worker is free for it and it is the next.
QueryCanGoOn(t) ==
  \/ fut[t] = "running"
  \/ /\ fut[t] = "queued"
     /\ \A s \in Pool(t[1]) : fut[s] = "queued" => t[2] <= s[2]
     /\ Cardinality(Running(t[1])) < ProviderWorkers

NeverStuck == Over \/ CollectorCanGoOn \/ \E t \in Tasks : QueryCanGoOn(t)

\* submit_one finds a slot whenever the window lets it ask for one.
SubmitHasASlot ==
  pc = "fill" /\ CanSubmit => Cardinality(Unfinished(list)) < ProviderQueueSize

\* What a thread waits for is there: the window was filled before it began to
\* wait, and only a list that was left has dropped queries.
RankOf(l) == IF l \in Lists THEN Rank(l) ELSE 4

WindowIsFull ==
  list \in Lists /\ Parallel /\ pc \in {"loop", "await"} => ~CanSubmit

DroppedAreBehind ==
  \A t \in Tasks : fut[t] = "dropped" => RankOf(t[1]) < RankOf(list)

PoolInv == WindowIsFull /\ DroppedAreBehind

Below == {ab \in Nat \X Nat : ab[1] < ab[2]}

LEMMA HasLeast ==
  ASSUME NEW T \in SUBSET Nat, T # {}
  PROVE  \E x \in T : \A y \in T : x <= y
<1>1. IsWellFoundedOn(OpToRel(<, Nat), Nat)
  BY NatLessThanWellFounded
<1>2. IsWellFoundedOn(Below, Nat)
  BY <1>1 DEF OpToRel, Below
<1>3. PICK x \in T : \A y \in T : <<y, x>> \notin Below
  BY <1>2, WFMin
<1>4. ASSUME NEW y \in T PROVE x <= y
  <2>1. x \in Nat /\ y \in Nat
    OBVIOUS
  <2>2. ~(y < x)
    BY <1>3, <2>1 DEF Below
  <2>. QED BY <2>1, <2>2
<1>. QED BY <1>4

LEMMA RanksOfLists ==
  /\ \A l \in Lists : RankOf(l) \in 1..3
  /\ \A k, l \in Lists : Rank(k) > Rank(l) => RankOf(k) > RankOf(l)
  /\ "done" \notin Lists /\ RankOf("done") = 4
BY DEF RankOf, Rank, Lists

\* PoolInv is kept by every step.
LEMMA PoolStays == IInv /\ PoolInv /\ [Next]_vars => PoolInv'
<1>. SUFFICES ASSUME IInv, PoolInv, [Next]_vars PROVE PoolInv'
  OBVIOUS
<1>. USE DEF IInv
<1>1. ASSUME Leave, list \in Lists PROVE PoolInv'
  <2>1. pc' \notin {"loop", "await"}
    BY <1>1 DEF Leave
  <2>2. RankOf(list) < RankOf(list')
    BY <1>1, FollowingIsLater, RanksOfLists DEF Leave
  <2>3. ASSUME NEW t \in Tasks, fut'[t] = "dropped" PROVE RankOf(t[1]) < RankOf(list')
    <3>1. fut[t] = "dropped" \/ t[1] = list
      BY <1>1, <2>3 DEF Leave, Abandoned
    <3>2. RankOf(t[1]) \in Nat /\ RankOf(list) \in Nat /\ RankOf(list') \in Nat
      <4>1. list' \in Lists \cup {"done"}
        BY <1>1, FollowingIsLater DEF Leave
      <4>. QED BY <1>1, <4>1, TaskParts, RanksOfLists
    <3>. QED BY <2>2, <3>1, <3>2 DEF PoolInv, DroppedAreBehind
  <2>4. DroppedAreBehind'
    BY <2>3 DEF DroppedAreBehind, RankOf, Rank
  <2>. QED BY <2>1, <2>4 DEF PoolInv, WindowIsFull
<1>0. ASSUME UNCHANGED list,
             \A t \in Tasks : fut'[t] = "dropped" => fut[t] = "dropped"
      PROVE  DroppedAreBehind'
  <2>1. ASSUME NEW t \in Tasks, fut'[t] = "dropped" PROVE RankOf(t[1]) < RankOf(list')
    BY <1>0, <2>1 DEF PoolInv, DroppedAreBehind
  <2>. QED BY <2>1 DEF DroppedAreBehind, RankOf, Rank
<1>2. ASSUME UNCHANGED <<plan, list, processed, submitted>>,
             \A t \in Tasks : fut'[t] = "dropped" => fut[t] = "dropped",
             list \in Lists /\ Parallel /\ pc' \in {"loop", "await"} => ~CanSubmit
      PROVE  PoolInv'
  <2>1. Parallel' = Parallel /\ (CanSubmit' <=> CanSubmit)
    BY <1>2 DEF Parallel, CanSubmit, Window
  <2>2. WindowIsFull'
    BY <1>2, <2>1 DEF WindowIsFull
  <2>. QED BY <1>0, <1>2, <2>2 DEF PoolInv
<1>3. CASE Open
  BY <1>2, <1>3 DEF Open, PlaceOK
<1>4. CASE Submit
  <2>1. \A t \in Tasks : fut'[t] = "dropped" => fut[t] = "dropped"
    BY <1>4 DEF Submit, TypeOK
  <2>2. UNCHANGED list /\ pc' = "fill"
    BY <1>4 DEF Submit
  <2>. QED BY <1>0, <2>1, <2>2 DEF PoolInv, WindowIsFull
<1>5. CASE Filled
  <2>1. list \in Lists
    BY <1>5 DEF Filled, TypeOK, PlaceOK
  <2>. QED BY <1>1, <1>2, <1>5, <2>1 DEF Filled
<1>6. CASE Judge
  <2>1. list \in Lists
    BY <1>6 DEF Judge, TypeOK, PlaceOK
  <2>. QED BY <1>1, <1>2, <1>6, <2>1 DEF Judge
<1>7. CASE Finish
  <2>1. list \in Lists
    BY <1>7 DEF Finish, TypeOK, PlaceOK
  <2>. QED BY <1>1, <1>7, <2>1 DEF Finish
<1>8. CASE Await
  <2>1. \A t \in Tasks : fut'[t] = "dropped" => fut[t] = "dropped"
    BY <1>8 DEF Await, TypeOK
  <2>2. CASE Parallel
    BY <1>2, <1>8, <2>1, <2>2 DEF Await, PoolInv, WindowIsFull
  <2>3. CASE ~Parallel
    BY <1>0, <1>8, <2>1, <2>3 DEF Await, PoolInv, WindowIsFull, Parallel
  <2>. QED BY <2>2, <2>3
<1>9. CASE TakeResult
  <2>1. pc' \notin {"loop", "await"}
    BY <1>9 DEF TakeResult
  <2>. QED BY <1>0, <1>9, <2>1 DEF TakeResult, PoolInv, WindowIsFull
<1>10. CASE ResultRaises
  BY <1>2, <1>10 DEF ResultRaises
<1>11. CASE Drained
  BY <1>2, <1>11 DEF Drained
<1>12. ASSUME NEW t \in Tasks, Begin(t) \/ Attempt(t) PROVE PoolInv'
  <2>1. \A s \in Tasks : fut'[s] = "dropped" => fut[s] = "dropped"
    BY <1>12 DEF Begin, Attempt, AttemptFails, Answer, Raise, TypeOK
  <2>2. UNCHANGED <<plan, collector>>
    BY <1>12 DEF Begin, Attempt, AttemptFails, Answer, Raise
  <2>. QED BY <1>2, <2>1, <2>2 DEF collector, PoolInv, WindowIsFull
<1>13. CASE Expire \/ UNCHANGED vars
  BY <1>2, <1>13 DEF Expire, vars, collector, PoolInv, WindowIsFull
<1>. QED
  BY <1>3, <1>4, <1>5, <1>6, <1>7, <1>8, <1>9, <1>10, <1>11, <1>12, <1>13
  DEF Next, Collect, Terminated

LEMMA PoolInvariant == Spec => [](IInv /\ PoolInv)
<1>1. Init => PoolInv
  BY DEF Init, PoolInv, WindowIsFull, DroppedAreBehind
<1>. QED BY <1>1, PoolStays, SearchInvariant, PTL DEF Spec

\* The queries of the list in hand that a pool holds are those handed over whose
\* result was not taken.
LEMMA HeldAreAhead ==
  ASSUME IInv, list \in Lists
  PROVE  /\ IsFiniteSet(Unfinished(list))
         /\ Cardinality(Unfinished(list)) <= submitted[list] - processed[list]
<1>. DEFINE S == Unfinished(list)
            T == (processed[list] + 1)..submitted[list]
            place == [t \in S |-> t[2]]
<1>1. /\ processed[list] \in Nat /\ submitted[list] \in Nat
      /\ processed[list] <= submitted[list]
  BY Numbers DEF IInv, CountsOK
<1>2. ASSUME NEW t \in S PROVE t[2] \in T /\ t = <<list, t[2]>>
  <2>1. t \in Tasks /\ t[1] = list /\ fut[t] \in {"queued", "running"}
    BY DEF Unfinished, Pool
  <2>2. ~(t[2] > submitted[list]) /\ ~(t[2] <= processed[list])
    BY <2>1 DEF IInv, FuturesOK, Taken
  <2>. QED BY <1>1, <2>1, <2>2, TaskParts
<1>3. place \in Injection(S, T)
  <2>. HIDE DEF S, T
  <2>1. place \in [S -> T]
    BY <1>2
  <2>2. \A t, s \in S : place[t] = place[s] => t = s
    BY <1>2
  <2>3. DOMAIN place = S
    OBVIOUS
  <2>. QED BY <2>1, <2>2, <2>3 DEF Injection, IsInjective
<1>4. IsFiniteSet(T) /\ Cardinality(T) = submitted[list] - processed[list]
  <2>1. processed[list] + 1 \in Int /\ submitted[list] \in Int
    BY <1>1
  <2>2. /\ IsFiniteSet(T)
        /\ Cardinality(T) = IF processed[list] + 1 > submitted[list] THEN 0
                            ELSE submitted[list] - (processed[list] + 1) + 1
    BY <2>1, FS_Interval
  <2>. QED BY <1>1, <2>2
<1>. QED
  <2>. HIDE DEF S, T, place
  <2>1. IsFiniteSet(S) /\ Cardinality(S) <= Cardinality(T)
    BY <1>3, <1>4, FS_Injection
  <2>. QED BY <1>4, <2>1 DEF S

\* The thread of a paragraph never waits in submit_one, whatever its workers do.
THEOREM SubmitNeverWaits == Spec => []SubmitHasASlot
<1>1. IInv => SubmitHasASlot
  <2>. SUFFICES ASSUME IInv, pc = "fill", CanSubmit
                PROVE  Cardinality(Unfinished(list)) < ProviderQueueSize
    BY DEF SubmitHasASlot
  <2>1. list \in Lists
    BY DEF IInv, TypeOK, PlaceOK
  <2>2. submitted[list] - processed[list] < Window
    BY DEF CanSubmit
  <2>3. Window <= ProviderQueueSize /\ Window \in Nat /\ ProviderQueueSize \in Nat
    BY PoolAssumption DEF Window
  <2>4. Cardinality(Unfinished(list)) \in Nat
    BY <2>1, HeldAreAhead, FS_CardinalityType
  <2>5. submitted[list] \in Nat /\ processed[list] \in Nat
    BY <2>1, Numbers DEF IInv
  <2>. QED BY <2>1, <2>2, <2>3, <2>4, <2>5, HeldAreAhead
<1>. QED BY <1>1, SearchInvariant, PTL

\* While the pool holds a query, one of its queries can go on.
LEMMA HeldGoOn ==
  ASSUME IInv, NEW t \in Tasks, fut[t] \in {"queued", "running"}
  PROVE  \E s \in Tasks : QueryCanGoOn(s)
<1>1. CASE \E s \in Tasks : fut[s] = "running"
  BY <1>1 DEF QueryCanGoOn
<1>2. CASE \A s \in Tasks : fut[s] # "running"
  <2>. DEFINE T == {s[2] : s \in {s \in Pool(t[1]) : fut[s] = "queued"}}
  <2>1. fut[t] = "queued" /\ t \in Pool(t[1])
    BY <1>2 DEF Pool
  <2>2. T \in SUBSET Nat /\ T # {}
    BY <2>1, TaskParts DEF Pool
  <2>3. PICK n \in T : \A m \in T : n <= m
    <3>. HIDE DEF T
    <3>. QED BY <2>2, HasLeast
  <2>4. PICK s \in Pool(t[1]) : fut[s] = "queued" /\ s[2] = n
    OBVIOUS
  <2>5. Running(s[1]) = {}
    BY <1>2 DEF Running, Pool
  <2>6. Cardinality(Running(s[1])) < ProviderWorkers
    BY <2>5, FS_EmptySet, PoolAssumption
  <2>7. s \in Tasks /\ s[1] = t[1]
    BY DEF Pool
  <2>. QED BY <2>3, <2>4, <2>6, <2>7 DEF QueryCanGoOn
<1>. QED BY <1>1, <1>2

\* No thread of a search waits for something that cannot come: until the search
\* is over and its last query back, its thread or a worker can take a step.
THEOREM SearchIsNeverStuck == Spec => []NeverStuck
<1>1. IInv /\ PoolInv => NeverStuck
  <2>. SUFFICES ASSUME IInv, PoolInv, ~Over, ~CollectorCanGoOn
                PROVE  \E t \in Tasks : QueryCanGoOn(t)
    BY DEF NeverStuck
  <2>. USE DEF IInv
  <2>1. CASE pc \in {"done", "failed"}
    <3>1. PICK t \in Tasks : fut[t] = "running"
      BY <2>1 DEF Over
    <3>. QED BY <3>1, HeldGoOn
  <2>2. CASE pc \in {"fill", "drain"}
    <3>1. list \in Lists
      BY <2>2 DEF TypeOK, PlaceOK
    <3>2. Unfinished(list) # {}
      <4>1. CASE pc = "drain"
        BY <4>1 DEF CollectorCanGoOn
      <4>2. CASE pc = "fill"
        <5>1. ~(Cardinality(Unfinished(list)) < ProviderQueueSize)
          BY <4>2 DEF CollectorCanGoOn
        <5>. QED BY <5>1, FS_EmptySet, PoolAssumption
      <4>. QED BY <2>2, <4>1, <4>2
    <3>. QED BY <3>2, HeldGoOn DEF Unfinished, Pool
  <2>3. CASE pc = "loop"
    <3>1. list \in Lists
      BY <2>3 DEF TypeOK, PlaceOK
    <3>2. processed[list] <= plan.tasks[list]
      BY <3>1, Numbers DEF CountsOK
    <3>. QED BY <2>3, <3>2 DEF CollectorCanGoOn
  <2>4. CASE pc = "await"
    <3>1. list \in Lists /\ processed[list] < plan.tasks[list]
      BY <2>4 DEF TypeOK, PlaceOK
    <3>2. Current \in Tasks /\ Current[1] = list /\ Current[2] = processed[list] + 1
      BY <3>1, CurrentIsTask
    <3>3. submitted[list] >= processed[list] + 1
      <4>1. CASE Parallel
        <5>1. ~CanSubmit
          BY <2>4, <3>1, <4>1 DEF PoolInv, WindowIsFull
        <5>. QED BY <3>1, <5>1, Numbers, WindowIsPositive DEF CanSubmit
      <4>2. CASE ~Parallel
        BY <2>4, <3>1, <4>2, Numbers DEF AheadOK
      <4>. QED BY <4>1, <4>2
    <3>4. fut[Current] # "new"
      BY <3>1, <3>2, <3>3, Numbers DEF FuturesOK
    <3>5. fut[Current] # "dropped"
      BY <3>1, <3>2, RanksOfLists DEF PoolInv, DroppedAreBehind
    <3>6. fut[Current] \in Futures /\ fut[Current] \notin {"answered", "raised"}
      BY <2>4, <3>2 DEF TypeOK, CollectorCanGoOn
    <3>. QED BY <3>2, <3>4, <3>5, <3>6, HeldGoOn DEF Futures
  <2>. QED BY <2>1, <2>2, <2>3, <2>4 DEF TypeOK, Places, CollectorCanGoOn
<1>. QED BY <1>1, PoolInvariant, PTL

-----------------------------------------------------------------------------
(* A search goes forward only.                                             *)

\* How far a query is, and where the thread is within the turn of one result.
Age == [new |-> 0, queued |-> 1, running |-> 2, answered |-> 3, raised |-> 3,
        dropped |-> 3]
Turn == [open |-> 0, judge |-> 1, fill |-> 2, loop |-> 3, await |-> 4, drain |-> 5,
         failed |-> 6, done |-> 7]

Moment ==
  [list |-> RankOf(list), taken |-> IF list \in Lists THEN processed[list] ELSE 0,
   turn |-> Turn[pc]]

\* First by the list, then by the results taken of it, then by the turn.
Earlier(m, n) ==
  \/ m.list < n.list
  \/ m.list = n.list /\ m.taken < n.taken
  \/ m.list = n.list /\ m.taken = n.taken /\ m.turn < n.turn

\* No step takes anything back (a list, a result, the state of a query, a counted
\* attempt, the budget), and each brings one of them forward.
Forward ==
  /\ Moment' = Moment \/ Earlier(Moment, Moment')
  /\ \A t \in Tasks : Age[fut[t]] <= Age[fut'[t]] /\ tries[t] <= tries'[t]
  /\ spent => spent'
  /\ \/ Earlier(Moment, Moment')
     \/ \E t \in Tasks : Age[fut[t]] < Age[fut'[t]] \/ tries[t] < tries'[t]
     \/ spent' # spent

LEMMA NotBackward ==
  ASSUME IInv, UNCHANGED <<fut, tries, spent>>, Earlier(Moment, Moment')
  PROVE  Forward
<1>1. \A t \in Tasks : Age[fut[t]] \in Nat /\ tries[t] \in Nat
  BY BoundsAssumption DEF IInv, TypeOK, Futures, Age
<1>. QED BY <1>1 DEF Forward

LEMMA MomentParts ==
  /\ Moment.list = RankOf(list) /\ Moment'.list = RankOf(list')
  /\ Moment.taken = IF list \in Lists THEN processed[list] ELSE 0
  /\ Moment'.taken = IF list' \in Lists THEN processed'[list'] ELSE 0
  /\ Moment.turn = Turn[pc] /\ Moment'.turn = Turn[pc']
<1>1. Moment' = [list |-> RankOf(list'),
                 taken |-> IF list' \in Lists THEN processed'[list'] ELSE 0,
                 turn |-> Turn[pc']]
  BY DEF Moment, RankOf, Rank
<1>. QED BY <1>1 DEF Moment

LEMMA TurnsOn ==
  ASSUME IInv, UNCHANGED <<list, processed, fut, tries, spent>>,
         Turn[pc] < Turn[pc']
  PROVE  Forward
<1>1. /\ Moment.list = RankOf(list) /\ Moment'.list = RankOf(list)
      /\ Moment.taken = Moment'.taken
      /\ Moment.turn = Turn[pc] /\ Moment'.turn = Turn[pc']
  BY MomentParts
<1>2. Earlier(Moment, Moment')
  BY <1>1 DEF Earlier
<1>. QED BY <1>2, NotBackward

\* A query advances while the thread stays or goes on.
LEMMA Advances ==
  ASSUME IInv, TypeOK', UNCHANGED spent, NEW t \in Tasks,
         Moment' = Moment \/ Earlier(Moment, Moment'),
         \A s \in Tasks : s # t => fut'[s] = fut[s] /\ tries'[s] = tries[s],
         \/ Age[fut[t]] < Age[fut'[t]] /\ tries'[t] = tries[t]
         \/ fut'[t] = fut[t] /\ tries[t] < tries'[t]
  PROVE  Forward
<1>1. \A s \in Tasks : /\ Age[fut[s]] \in Nat /\ tries[s] \in Nat
                       /\ Age[fut'[s]] \in Nat /\ tries'[s] \in Nat
  BY BoundsAssumption DEF IInv, TypeOK, Futures, Age
<1>2. Age[fut[t]] <= Age[fut'[t]] /\ tries[t] <= tries'[t]
  BY <1>1
<1>. QED BY <1>1, <1>2 DEF Forward

\* The same place of the thread.
LEMMA SameMoment ==
  ASSUME UNCHANGED <<list, pc, processed>>
  PROVE  Moment' = Moment
BY DEF Moment, RankOf, Rank, Turn

\* Every step of a search, whoever takes it, brings something forward and nothing
\* back: no list is opened again, no query asked twice but for its retries, no
\* result taken twice. All of it is bounded, so no search can go on for ever.
THEOREM SearchGoesForward == Spec => [][Forward]_vars
<1>1. IInv /\ [Next]_vars => [Forward]_vars
  <2>. SUFFICES ASSUME IInv, Next, ~UNCHANGED vars PROVE Forward
    OBVIOUS
  <2>0. TypeOK'
    BY TypesStay
  <2>. USE DEF IInv
  <2>1. ASSUME Leave, list \in Lists PROVE Forward
    <3>1. list' \in Lists \cup {"done"} /\ RankOf(list) < RankOf(list')
      BY <2>1, FollowingIsLater, RanksOfLists DEF Leave
    <3>2. Moment.list = RankOf(list) /\ Moment'.list = RankOf(list')
      BY MomentParts
    <3>3. Earlier(Moment, Moment')
      BY <3>1, <3>2 DEF Earlier
    <3>4. \A t \in Tasks : Age[fut[t]] <= Age[fut'[t]] /\ tries[t] <= tries'[t]
      <4>. SUFFICES ASSUME NEW t \in Tasks
                    PROVE  Age[fut[t]] <= Age[fut'[t]] /\ tries[t] <= tries'[t]
        OBVIOUS
      <4>1. tries[t] \in Nat /\ fut[t] \in Futures /\ tries'[t] = tries[t]
        BY <2>1, BoundsAssumption DEF Leave, TypeOK
      <4>2. fut'[t] = fut[t] \/ (fut[t] = "queued" /\ fut'[t] = "dropped")
        BY <2>1 DEF Leave, Abandoned
      <4>. QED BY <4>1, <4>2 DEF Futures, Age
    <3>. QED BY <2>1, <3>3, <3>4 DEF Leave, Forward
  <2>2. CASE Open
    BY <2>2, TurnsOn DEF Open, Turn
  <2>3. CASE Submit
    <3>1. list \in Lists
      BY <2>3 DEF Submit, TypeOK, PlaceOK
    <3>. DEFINE n == <<list, submitted[list] + 1>>
    <3>2. submitted[list] + 1 \in 1..MaxTasks /\ submitted[list] \in Nat
      BY <2>3, <3>1, Numbers DEF Submit, CanSubmit
    <3>3. n \in Tasks /\ fut' = [fut EXCEPT ![n] = "queued"]
      BY <2>3, <3>1, <3>2 DEF Submit, Tasks, TypeOK
    <3>4. fut[n] = "new" /\ fut'[n] = "queued"
      BY <3>1, <3>2, <3>3 DEF FuturesOK, TypeOK
    <3>5. \A s \in Tasks : s # n => fut'[s] = fut[s]
      BY <3>3 DEF TypeOK
    <3>6. Moment' = Moment
      BY <2>3, SameMoment DEF Submit
    <3>7. Age[fut[n]] < Age[fut'[n]]
      BY <3>4 DEF Age
    <3>8. UNCHANGED <<tries, spent>>
      BY <2>3 DEF Submit
    <3>. HIDE DEF n
    <3>. QED BY <2>0, <3>3, <3>5, <3>6, <3>7, <3>8, Advances
  <2>4. CASE Filled
    <3>1. list \in Lists
      BY <2>4 DEF Filled, TypeOK, PlaceOK
    <3>. QED BY <2>1, <2>4, <3>1, TurnsOn DEF Filled, Turn
  <2>5. CASE Judge
    <3>1. list \in Lists
      BY <2>5 DEF Judge, TypeOK, PlaceOK
    <3>. QED BY <2>1, <2>5, <3>1, TurnsOn DEF Judge, Turn
  <2>6. CASE Finish
    <3>1. list \in Lists
      BY <2>6 DEF Finish, TypeOK, PlaceOK
    <3>. QED BY <2>1, <2>6, <3>1 DEF Finish
  <2>7. CASE Await
    <3>1. list \in Lists /\ processed[list] < plan.tasks[list]
      BY <2>7 DEF Await, TypeOK, PlaceOK
    <3>2. CASE Parallel
      BY <2>7, <3>2, TurnsOn DEF Await, Turn
    <3>3. CASE ~Parallel
      <4>1. Current \in Tasks /\ Current[1] = list /\ Current[2] = processed[list] + 1
        BY <3>1, CurrentIsTask
      <4>2. submitted[list] = processed[list]
        BY <2>7, <3>1, <3>3 DEF Await, AheadOK
      <4>3. fut[Current] = "new"
        BY <3>1, <4>1, <4>2, Numbers DEF FuturesOK
      <4>4. fut'[Current] = "running" /\ \A s \in Tasks : s # Current => fut'[s] = fut[s]
        BY <2>7, <3>3, <4>1 DEF Await, TypeOK
      <4>5. Earlier(Moment, Moment')
        <5>1. /\ Moment.list = RankOf(list) /\ Moment'.list = RankOf(list)
              /\ Moment.taken = Moment'.taken
              /\ Moment.turn = 3 /\ Moment'.turn = 4
          BY <2>7, MomentParts DEF Await, Turn
        <5>. QED BY <5>1 DEF Earlier
      <4>6. Age[fut[Current]] < Age[fut'[Current]]
        BY <4>3, <4>4 DEF Age
      <4>7. UNCHANGED <<tries, spent>>
        BY <2>7 DEF Await
      <4>. QED BY <2>0, <4>1, <4>4, <4>5, <4>6, <4>7, Advances
    <3>. QED BY <3>2, <3>3
  <2>8. CASE TakeResult
    <3>1. list \in Lists
      BY <2>8 DEF TakeResult, TypeOK, PlaceOK
    <3>2. processed[list] \in Nat /\ processed'[list] = processed[list] + 1
      BY <2>8, <3>1, Numbers DEF TakeResult, TypeOK
    <3>3. /\ Moment.list = RankOf(list) /\ Moment'.list = RankOf(list)
          /\ Moment.taken = processed[list] /\ Moment'.taken = processed'[list]
      BY <2>8, <3>1, MomentParts DEF TakeResult
    <3>4. Earlier(Moment, Moment')
      BY <3>2, <3>3 DEF Earlier
    <3>. QED BY <2>8, <3>4, NotBackward DEF TakeResult
  <2>9. CASE ResultRaises
    BY <2>9, TurnsOn DEF ResultRaises, Turn
  <2>10. CASE Drained
    BY <2>10, TurnsOn DEF Drained, Turn
  <2>11. ASSUME NEW t \in Tasks, Begin(t) \/ Attempt(t) PROVE Forward
    <3>1. Moment' = Moment /\ UNCHANGED spent
      BY <2>11, SameMoment
      DEF Begin, Attempt, AttemptFails, Answer, Raise, collector
    <3>2. \A s \in Tasks : s # t => fut'[s] = fut[s] /\ tries'[s] = tries[s]
      BY <2>11 DEF Begin, Attempt, AttemptFails, Answer, Raise, TypeOK
    <3>3. \/ Age[fut[t]] < Age[fut'[t]] /\ tries'[t] = tries[t]
          \/ fut'[t] = fut[t] /\ tries[t] < tries'[t]
      <4>1. CASE AttemptFails(t)
        BY <4>1, BoundsAssumption DEF AttemptFails, TypeOK
      <4>2. CASE ~AttemptFails(t)
        BY <2>11, <4>2 DEF Begin, Attempt, Answer, Raise, TypeOK, Age
      <4>. QED BY <4>1, <4>2
    <3>. QED BY <2>0, <3>1, <3>2, <3>3, Advances
  <2>12. CASE Expire
    <3>1. Moment' = Moment
      BY <2>12, SameMoment DEF Expire, collector
    <3>2. \A t \in Tasks : Age[fut[t]] \in Nat /\ tries[t] \in Nat
      BY BoundsAssumption DEF TypeOK, Futures, Age
    <3>3. (spent => spent') /\ spent' # spent
      BY <2>12, Zenon DEF Expire
    <3>4. \A t \in Tasks : Age[fut[t]] <= Age[fut'[t]] /\ tries[t] <= tries'[t]
      BY <2>12, <3>2 DEF Expire
    <3>. QED BY <3>1, <3>3, <3>4, Zenon DEF Forward
  <2>. QED
    BY <2>2, <2>3, <2>4, <2>5, <2>6, <2>7, <2>8, <2>9, <2>10, <2>11, <2>12
    DEF Next, Collect, Terminated
<1>. QED BY <1>1, SearchInvariant, PTL DEF Spec
=============================================================================
