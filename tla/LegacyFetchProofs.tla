--------------------------- MODULE LegacyFetchProofs ---------------------------
(***************************************************************************)
(* Proofs about LegacyFetch, for any jobs, candidates, contents, sizes of  *)
(* the batches and of the pools, retries and faults.                       *)
(*                                                                         *)
(* Types is TypeOK without its two counts. PoolInv says what is idle at    *)
(* each stage of the end of a run; BatchInv that candidates ahead of a     *)
(* batch are untouched and that no two accepted ones have one content;     *)
(* TempInv when the temporary file of a content that one candidate alone   *)
(* has is torn, that it stays until the candidate is saved, and which      *)
(* files of the run directory are torn; CauseInv follows from that, as a   *)
(* missing file can then only be a shared one. CountInv and ConnInv are    *)
(* the two counts. The last two sections prove what the end of a run       *)
(* rests on: nobody waits for what cannot come, and nothing is done for    *)
(* ever.                                                                   *)
(***************************************************************************)
EXTENDS LegacyFetch, FiniteSetTheorems, WellFoundedInduction, TLAPS

JobStates == Active \cup {"queued", "finished", "raised", "cancelled"}
ItemStates ==
  Loading \cup Judging \cup Judged \cup
    {"new", "queued", "loaded", "failed", "waiting", "accepted", "rejected",
     "dropped"}

Mains == {"collect", "keywords", "relevance", "downloads", "report", "close",
          "closed"}

MainTypes ==
  /\ plan \in Plans
  /\ main \in Mains
  /\ failed \in BOOLEAN /\ results \subseteq Jobs

JobTypes ==
  /\ job \in [Jobs -> JobStates]
  /\ found \in [Jobs -> 0..MaxCandidates] /\ offset \in [Jobs -> Nat]
  /\ hand \in [Jobs -> SUBSET Items] /\ accepted \in [Jobs -> Seq(Items)]

ItemTypes ==
  /\ saved \in [Items -> {"no", "whole", "torn"}]
  /\ item \in [Items -> ItemStates]
  /\ tries \in [Items -> 0..Retries]

StoreTypes ==
  /\ seen \subseteq Contents
  /\ verdicts \in [Keywords -> [Contents -> Judged \cup {"none"}]]
  /\ searched \in [Keywords -> (0..MaxCandidates) \cup {None}]
  /\ conns \in Nat
  /\ temp \in [Contents -> Files]
  /\ faults \subseteq Contents \cup {"database", "disk"}

Types == MainTypes /\ JobTypes /\ ItemTypes /\ StoreTypes

LEMMA PlanFacts ==
  ASSUME plan \in Plans
  PROVE  /\ plan.video \in BOOLEAN /\ plan.failFast \in BOOLEAN
         /\ plan.batchSize \in Nat \ {0}
         /\ \A j \in Jobs : plan.keyword[j] \in Keywords /\ plan.upTo[j] \in 0..MaxCandidates
         /\ \A i \in Items : /\ i[1] \in Jobs /\ i[2] \in 1..MaxCandidates
                             /\ i = <<i[1], i[2]>>
                             /\ Content(i) \in Contents /\ Keyword(i) \in Keywords
BY PlansAssumption DEF PlanType, Content, Keyword, Items

LEMMA Counts ==
  /\ {NumJobs, MaxCandidates, Needed, KeywordWorkers, DownloadWorkers,
      RelevanceWorkers, QueueLimit, Retries} \subseteq Nat
  /\ NumJobs \in Nat /\ MaxCandidates \in Nat /\ Needed \in Nat \ {0}
  /\ KeywordWorkers \in Nat \ {0} /\ Retries \in Nat
BY CountsAssumption

LEMMA ItemsFinite ==
  /\ IsFiniteSet(Jobs) /\ IsFiniteSet(Items)
  /\ \A S \in SUBSET Items : IsFiniteSet(S) /\ Cardinality(S) \in Nat
  /\ \A S \in SUBSET Jobs : IsFiniteSet(S) /\ Cardinality(S) \in Nat
<1>1. IsFiniteSet(Jobs) /\ IsFiniteSet(1..MaxCandidates)
  BY CountsAssumption, FS_Interval DEF Jobs
<1>2. IsFiniteSet(Items)
  BY <1>1, FS_Product DEF Items
<1>. QED BY <1>1, <1>2, FS_Subset, FS_CardinalityType

LEMMA TailFacts ==
  ASSUME NEW s \in Seq(Items), s # <<>>
  PROVE  /\ Head(s) = s[1] /\ 1 \in 1..Len(s) /\ Len(Tail(s)) = Len(s) - 1
         /\ \A n \in 1..Len(Tail(s)) : n + 1 \in 1..Len(s) /\ Tail(s)[n] = s[n + 1]
<1>1. Len(s) \in Nat \ {0}
  OBVIOUS
<1>. QED BY <1>1

LEMMA States ==
  /\ {"queued", "search", "connect", "look", "ask", "batch", "load", "judge",
      "take", "save", "clean", "finished", "raised", "cancelled"} \subseteq JobStates
  /\ {"new", "queued", "fetch", "open", "write", "probe", "loaded", "failed",
      "waiting", "judging", "asking", "accepted", "rejected", "dropped"}
        \subseteq ItemStates
  /\ Judged \subseteq ItemStates /\ "no" \in Judged
BY DEF JobStates, ItemStates, Active, Searching, Loading, Judging, Judged

LEMMA BatchIsOfItems ==
  ASSUME NEW j \in Jobs, found[j] \in 0..MaxCandidates, offset[j] \in Nat,
         plan.batchSize \in Nat
  PROVE  InBatch(j) \subseteq Items /\ Pending(j) \subseteq Items
<1>1. \A n \in (offset[j] + 1)..Least(offset[j] + plan.batchSize, found[j]) :
        n \in 1..MaxCandidates
  BY Counts DEF Least
<1>. QED BY <1>1 DEF Pending, InBatch, Items

-----------------------------------------------------------------------------
LEMMA TypesInductive == Types /\ [Next]_vars => Types'
<1>. SUFFICES ASSUME Types, [Next]_vars PROVE Types'
  OBVIOUS
<1>. USE States DEF MainTypes, JobTypes, ItemTypes, StoreTypes, keeper, batch, caches, disk
<1>0. MainTypes /\ JobTypes /\ ItemTypes /\ StoreTypes
  BY DEF Types
<1>1. /\ plan.batchSize \in Nat
      /\ \A j \in Jobs : plan.keyword[j] \in Keywords
      /\ \A j \in Jobs : \A n \in 0..plan.upTo[j] : n \in 0..MaxCandidates
      /\ \A i \in Items : i[1] \in Jobs /\ Content(i) \in Contents /\ Keyword(i) \in Keywords
  BY <1>0, PlanFacts, Counts
<1>2. ASSUME NEW j \in Jobs,
             \/ Start(j) \/ Search(j) \/ OpenCache(j) \/ Connect(j) \/ LookUp(j)
             \/ Answer(j) \/ AskFails(j) \/ CacheBreaks(j)
      PROVE Types'
  <2>1. JobTypes'
    <3>1. CASE \E n \in 0..MaxCandidates : Found(j, n) /\ UNCHANGED <<offset, hand, accepted>>
      BY <1>0, <3>1 DEF Found
    <3>2. CASE Start(j) \/ OpenCache(j) \/ Connect(j) \/ CacheBreaks(j)
      <4>1. /\ \E st \in JobStates : job' = [job EXCEPT ![j] = st]
            /\ UNCHANGED batch
        BY <3>2 DEF Start, OpenCache, Connect, CacheBreaks
      <4>. QED BY <1>0, <4>1
    <3>3. CASE Search(j) \/ Answer(j) \/ AskFails(j)
      BY <1>1, <3>1, <3>3 DEF Search, Answer, AskFails
    <3>4. CASE LookUp(j)
      <4>1. searched[plan.keyword[j]] \in (0..MaxCandidates) \cup {None}
        BY <1>0, <1>1
      <4>2. CASE searched[plan.keyword[j]] # None
        BY <3>1, <3>4, <4>1, <4>2 DEF LookUp
      <4>3. CASE searched[plan.keyword[j]] = None
        BY <1>0, <3>4, <4>3 DEF LookUp
      <4>. QED BY <4>2, <4>3
    <3>. QED BY <1>2, <3>2, <3>3, <3>4
  <2>2. MainTypes' /\ ItemTypes'
    BY <1>0, <1>2 DEF Start, Search, OpenCache, Connect, LookUp, Answer, AskFails, CacheBreaks
  <2>3. StoreTypes'
    <3>1. CASE Answer(j)
      BY <1>0, <1>1, <3>1 DEF Answer
    <3>2. CASE Connect(j) \/ CacheBreaks(j)
      BY <1>0, <3>2 DEF Connect, CacheBreaks
    <3>3. CASE Start(j) \/ Search(j) \/ OpenCache(j) \/ LookUp(j) \/ AskFails(j)
      BY <1>0, <3>3 DEF Start, Search, OpenCache, LookUp, AskFails
    <3>. QED BY <1>2, <3>1, <3>2, <3>3
  <2>. QED BY <2>1, <2>2, <2>3 DEF Types
<1>3. ASSUME NEW j \in Jobs,
             \/ NextBatch(j) \/ JobEnds(j) \/ BatchLoaded(j) \/ TakeDone(j)
             \/ TakenAll(j) \/ NothingPending(j) \/ SavedAll(j) \/ BatchEnds(j)
      PROVE Types'
  <2>1. InBatch(j) \subseteq Items /\ Pending(j) \subseteq Items
    <3>1. found[j] \in 0..MaxCandidates /\ offset[j] \in Nat
      BY <1>0
    <3>. QED BY <1>1, <3>1, BatchIsOfItems
  <2>2. JobTypes'
    <3>1. CASE NextBatch(j) \/ JobEnds(j) \/ BatchLoaded(j) \/ NothingPending(j)
      <4>1. /\ \E st \in JobStates : job' = [job EXCEPT ![j] = st]
            /\ UNCHANGED batch
        BY <3>1 DEF NextBatch, JobEnds, BatchLoaded, NothingPending
      <4>. QED BY <1>0, <4>1
    <3>2. CASE TakeDone(j)
      BY <1>0, <2>1, <3>2 DEF TakeDone
    <3>3. CASE TakenAll(j)
      <4>1. Remaining(j) \in Int
        BY ItemsFinite, Counts DEF Remaining, Collected
      <4>2. Len(accepted[j]) >= Remaining(j) =>
              SubSeq(accepted[j], 1, Remaining(j)) \in Seq(Items)
        BY <1>0, <4>1
      <4>3. /\ \E st \in JobStates : job' = [job EXCEPT ![j] = st]
            /\ \E s \in Seq(Items) : accepted' = [accepted EXCEPT ![j] = s]
            /\ UNCHANGED <<found, offset, hand>>
        <5>1. CASE Len(accepted[j]) >= Remaining(j)
          BY <3>3, <4>2, <5>1 DEF TakenAll
        <5>2. CASE ~(Len(accepted[j]) >= Remaining(j))
          <6>1. accepted' = [accepted EXCEPT ![j] = accepted[j]] /\ accepted[j] \in Seq(Items)
            BY <1>0, <3>3, <5>2 DEF TakenAll
          <6>. QED BY <3>3, <5>2, <6>1 DEF TakenAll
        <5>. QED BY <5>1, <5>2
      <4>. QED BY <1>0, <4>3
    <3>4. CASE SavedAll(j)
      BY <1>0, <2>1, <3>4 DEF SavedAll
    <3>5. CASE BatchEnds(j)
      BY <1>0, <1>1, <3>5 DEF BatchEnds
    <3>. QED BY <1>3, <3>1, <3>2, <3>3, <3>4, <3>5
  <2>3. ItemTypes'
    <3>1. CASE NextBatch(j)
      BY <1>0, <3>1 DEF NextBatch
    <3>2. CASE TakenAll(j)
      <4>1. UNCHANGED <<saved, tries>>
        BY <3>2 DEF TakenAll
      <4>2. item' \in [Items -> ItemStates]
        BY <1>0, <3>2 DEF TakenAll
      <4>. QED BY <1>0, <4>1, <4>2
    <3>. QED
      BY <1>0, <1>3, <3>1, <3>2
         DEF JobEnds, BatchLoaded, TakeDone, NothingPending, SavedAll, BatchEnds
  <2>4. MainTypes' /\ StoreTypes'
    BY <1>0, <1>3 DEF NextBatch, JobEnds, BatchLoaded, TakeDone, TakenAll,
                      NothingPending, SavedAll, BatchEnds
  <2>. QED BY <2>2, <2>3, <2>4 DEF Types
<1>4. ASSUME NEW j \in Jobs, Save(j) \/ SaveFails(j) PROVE Types'
  <2>1. /\ accepted[j] # <<>>
        /\ Head(accepted[j]) \in Items /\ Tail(accepted[j]) \in Seq(Items)
    BY <1>0, <1>4 DEF Save, SaveFails
  <2>2. Source(Head(accepted[j])) \in {"none", "torn", "whole"}
    <3>1. temp[Content(Head(accepted[j]))] \in Files
      BY <1>0, <1>1, <2>1
    <3>. QED BY <3>1 DEF Source, Files, NoFile
  <2>3. MainTypes'
    BY <1>0, <1>4 DEF Save, SaveFails
  <2>4. JobTypes'
    <3>1. CASE Save(j)
      BY <1>0, <2>1, <3>1 DEF Save
    <3>2. CASE SaveFails(j)
      BY <1>0, <3>2 DEF SaveFails
    <3>. QED BY <1>4, <3>1, <3>2
  <2>5. ItemTypes'
    <3>1. UNCHANGED <<item, tries>>
      BY <1>4 DEF Save, SaveFails
    <3>2. \/ UNCHANGED saved
          \/ \E w \in {"no", "whole", "torn"} :
               saved' = [saved EXCEPT ![Head(accepted[j])] = w]
      BY <1>4, <2>2 DEF Save, SaveFails
    <3>. QED BY <1>0, <2>1, <3>1, <3>2
  <2>6. StoreTypes'
    BY <1>0, <1>4 DEF Save, SaveFails
  <2>. QED BY <2>3, <2>4, <2>5, <2>6 DEF Types
<1>5. ASSUME NEW i \in Items, SubmitItem(i) \/ TakeVerdict(i) \/ Unlink(i) PROVE Types'
  <2>1. MainTypes'
    BY <1>0, <1>5 DEF SubmitItem, TakeVerdict, Unlink
  <2>2. JobTypes'
    <3>1. CASE SubmitItem(i)
      BY <1>0, <3>1 DEF SubmitItem
    <3>2. CASE TakeVerdict(i)
      <4>1. /\ hand' = [hand EXCEPT ![i[1]] = hand[i[1]] \ {i}]
            /\ \/ UNCHANGED accepted
               \/ accepted' = [accepted EXCEPT ![i[1]] = Append(accepted[i[1]], i)]
            /\ UNCHANGED <<job, found, offset>>
        BY <3>2 DEF TakeVerdict
      <4>2. Append(accepted[i[1]], i) \in Seq(Items) /\ hand[i[1]] \ {i} \in SUBSET Items
        BY <1>0, <1>1
      <4>3. hand' \in [Jobs -> SUBSET Items]
        BY <1>0, <4>1, <4>2
      <4>4. accepted' \in [Jobs -> Seq(Items)]
        BY <1>0, <4>1, <4>2
      <4>. QED BY <1>0, <4>1, <4>3, <4>4
    <3>3. CASE Unlink(i)
      BY <1>0, <1>1, <3>3 DEF Unlink
    <3>. QED BY <1>5, <3>1, <3>2, <3>3
  <2>3. ItemTypes'
    <3>1. UNCHANGED <<saved, tries>>
      BY <1>5 DEF SubmitItem, TakeVerdict, Unlink
    <3>2. \/ UNCHANGED item
          \/ \E st \in {"waiting", "accepted", "rejected"} :
               item' = [item EXCEPT ![i] = st]
      BY <1>5 DEF SubmitItem, TakeVerdict, Unlink
    <3>3. item' \in [Items -> ItemStates]
      BY <1>0, <3>2
    <3>. QED BY <1>0, <3>1, <3>3
  <2>4. StoreTypes'
    <3>1. CASE SubmitItem(i)
      BY <1>0, <3>1 DEF SubmitItem
    <3>2. CASE TakeVerdict(i)
      BY <1>0, <1>1, <3>2 DEF TakeVerdict
    <3>3. CASE Unlink(i)
      <4>1. NoFile \in Files
        BY DEF Files
      <4>2. temp' = temp \/ temp' = [temp EXCEPT ![Content(i)] = NoFile]
        BY <3>3 DEF Unlink
      <4>3. temp' \in [Contents -> Files]
        BY <1>0, <1>1, <4>1, <4>2
      <4>. QED BY <1>0, <3>3, <4>3 DEF Unlink
    <3>. QED BY <1>5, <3>1, <3>2, <3>3
  <2>. QED BY <2>1, <2>2, <2>3, <2>4 DEF Types
<1>6. ASSUME NEW i \in Items, Load(i) PROVE Types'
  <2>. USE DEF Load, BeginLoad, Fetch, OpenTemp, CloseTemp, Probe, LoadFails, Becomes
  <2>1. MainTypes' /\ JobTypes'
    BY <1>0, <1>6
  <2>2. ItemTypes'
    <3>1. CASE BeginLoad(i) \/ Fetch(i) \/ OpenTemp(i) \/ CloseTemp(i) \/ Probe(i)
      <4>1. /\ \E st \in ItemStates : item' = [item EXCEPT ![i] = st]
            /\ UNCHANGED <<saved, tries>>
        BY <3>1
      <4>. QED BY <1>0, <4>1
    <3>2. CASE LoadFails(i)
      <4>1. \E st \in ItemStates : item' = [item EXCEPT ![i] = st]
        BY <3>2
      <4>2. \E n \in 0..Retries : tries' = [tries EXCEPT ![i] = n]
        <5>1. tries[i] \in 0..Retries /\ [tries EXCEPT ![i] = tries[i]] = tries
          BY <1>0
        <5>2. tries[i] < Retries => tries[i] + 1 \in 0..Retries
          BY <5>1, Counts
        <5>. QED BY <3>2, <5>1, <5>2
      <4>3. UNCHANGED saved
        BY <3>2
      <4>. QED BY <1>0, <4>1, <4>2, <4>3
    <3>. QED BY <1>6, <3>1, <3>2
  <2>3. StoreTypes'
    <3>1. CASE BeginLoad(i) \/ Fetch(i) \/ Probe(i)
      BY <1>0, <3>1
    <3>2. CASE OpenTemp(i)
      <4>1. [is |-> "torn", by |-> i] \in Files
        BY DEF Files
      <4>. QED BY <1>0, <1>1, <3>2, <4>1
    <3>3. CASE CloseTemp(i)
      <4>1. temp[Content(i)] \in Files
        BY <1>0, <1>1
      <4>2. temp[Content(i)].by = i =>
              [temp[Content(i)] EXCEPT !.is = "whole"] \in Files
        BY <4>1, PlansAssumption DEF Files, NoFile
      <4>3. \/ UNCHANGED temp
            \/ /\ temp[Content(i)].by = i
               /\ temp' = [temp EXCEPT ![Content(i)] =
                             [temp[Content(i)] EXCEPT !.is = "whole"]]
        BY <3>3
      <4>4. temp' \in [Contents -> Files]
        BY <1>0, <1>1, <4>2, <4>3
      <4>. QED BY <1>0, <3>3, <4>4
    <3>4. CASE LoadFails(i)
      BY <1>0, <1>1, <3>4
    <3>. QED BY <1>6, <3>1, <3>2, <3>3, <3>4
  <2>. QED BY <2>1, <2>2, <2>3 DEF Types
<1>7. ASSUME NEW i \in Items, Judge(i) PROVE Types'
  <2>. USE DEF Judge, BeginJudge, Frames, Verdict, JudgeFails, Becomes
  <2>1. MainTypes' /\ JobTypes'
    BY <1>0, <1>7
  <2>2. ItemTypes'
    <3>1. Cached(i) # "none" => Cached(i) \in ItemStates
      BY <1>0, <1>1 DEF Cached
    <3>. QED BY <1>0, <1>7, <3>1
  <2>3. StoreTypes'
    <3>1. CASE Verdict(i)
      <4>1. PICK v \in Judged : Remember(i, v)
        BY <3>1
      <4>2. UNCHANGED <<seen, searched, conns, temp, faults>>
        BY <3>1
      <4>3. verdicts' \in [Keywords -> [Contents -> Judged \cup {"none"}]]
        BY <1>0, <1>1, <4>1 DEF Remember
      <4>. QED BY <1>0, <4>2, <4>3
    <3>2. CASE BeginJudge(i) \/ Frames(i) \/ JudgeFails(i)
      BY <1>0, <3>2
    <3>. QED BY <1>7, <3>1, <3>2
  <2>. QED BY <2>1, <2>2, <2>3 DEF Types
<1>8. ASSUME NEW j \in Jobs, Collect(j) PROVE Types'
  <2>1. MainTypes'
    <3>1. /\ UNCHANGED plan /\ main' \in {"collect", "keywords"}
          /\ failed' \in {failed, TRUE} /\ results' \in {results, results \cup {j}}
      BY <1>8 DEF Collect
    <3>. QED BY <1>0, <3>1 DEF Mains
  <2>2. JobTypes' /\ ItemTypes' /\ StoreTypes'
    BY <1>0, <1>8 DEF Collect
  <2>. QED BY <2>1, <2>2 DEF Types
<1>9. CASE JoinKeywords \/ JoinRelevance \/ JoinDownloads \/ Report \/ Close
  <2>1. MainTypes'
    BY <1>0, <1>9 DEF JoinKeywords, JoinRelevance, JoinDownloads, Report, Close, Mains
  <2>2. JobTypes' /\ ItemTypes'
    BY <1>0, <1>9 DEF JoinKeywords, JoinRelevance, JoinDownloads, Report, Close
  <2>3. StoreTypes'
    BY <1>0, <1>9 DEF JoinKeywords, JoinRelevance, JoinDownloads, Report, Close, Files
  <2>. QED BY <2>1, <2>2, <2>3 DEF Types
<1>10. ASSUME NEW k \in Keywords, Expire(k) PROVE Types'
  BY <1>0, <1>10 DEF Expire, Types
<1>11. CASE UNCHANGED vars
  BY <1>0, <1>11 DEF vars, Types
<1>12. \A j \in Jobs, n \in 1..MaxCandidates : <<j, n>> \in Items
  BY DEF Items
<1>. QED
  BY <1>2, <1>3, <1>4, <1>5, <1>6, <1>7, <1>8, <1>9, <1>10, <1>11, <1>12
     DEF Next, Main, JobStep, Terminated

-----------------------------------------------------------------------------
(* The pools are left one after the other.                                 *)

\* What a job's step does to the jobs.
LEMMA JobStepMoves ==
  ASSUME Types, NEW j \in Jobs, JobStep(j)
  PROVE  /\ UNCHANGED <<plan, keeper>>
         /\ job[j] \in Active \cup {"queued"}
         /\ \E st \in JobStates \ {"queued", "cancelled"} : job' = [job EXCEPT ![j] = st]
<1>. USE States DEF keeper, Active, Searching
<1>1. [job EXCEPT ![j] = job[j]] = job
  BY DEF Types, JobTypes
<1>2. CASE Start(j) \/ OpenCache(j) \/ Connect(j) \/ CacheBreaks(j)
  BY <1>2 DEF Start, OpenCache, Connect, CacheBreaks
<1>3. CASE Search(j) \/ LookUp(j) \/ Answer(j) \/ AskFails(j)
  BY <1>3 DEF Search, LookUp, Answer, AskFails, Found
<1>4. CASE NextBatch(j) \/ JobEnds(j) \/ BatchLoaded(j) \/ TakeDone(j) \/ TakenAll(j)
  BY <1>4 DEF NextBatch, JobEnds, BatchLoaded, TakeDone, TakenAll
<1>5. CASE NothingPending(j) \/ SaveFails(j) \/ SavedAll(j) \/ BatchEnds(j)
  BY <1>5 DEF NothingPending, SaveFails, SavedAll, BatchEnds
<1>6. CASE Save(j)
  BY <1>1, <1>6 DEF Save
<1>7. ASSUME NEW n \in 1..MaxCandidates,
             SubmitItem(<<j, n>>) \/ TakeVerdict(<<j, n>>) \/ Unlink(<<j, n>>)
      PROVE  /\ UNCHANGED <<plan, main, failed, results, job>>
             /\ job[j] \in Active
  BY <1>7 DEF SubmitItem, TakeVerdict, Unlink
<1>. QED BY <1>1, <1>2, <1>3, <1>4, <1>5, <1>6, <1>7 DEF JobStep

\* What the workers do to them.
LEMMA WorkerItems ==
  ASSUME Types, NEW k \in Items, Load(k) \/ Judge(k)
  PROVE  /\ UNCHANGED <<plan, keeper, job, batch, saved>>
         /\ Load(k) => item[k] \in {"queued"} \cup Loading
         /\ Judge(k) => item[k] \in {"waiting"} \cup Judging
         /\ \E st \in Loading \cup Judging \cup Judged \cup {"loaded", "failed"} :
              item' = [item EXCEPT ![k] = st]
         /\ Load(k) => item'[k] \in Loading \cup {"loaded", "failed"}
         /\ Judge(k) => item'[k] \in Judging \cup Judged
<1>0. \A st : item' = [item EXCEPT ![k] = st] => item'[k] = st
  BY DEF Types, ItemTypes
<1>1. CASE Load(k)
  <2>. USE DEF Loading, Becomes
  <2>1. /\ UNCHANGED <<plan, keeper, job, batch, saved>>
        /\ item[k] \in {"queued"} \cup Loading
    BY <1>1 DEF keeper, batch, Load, BeginLoad, Fetch, OpenTemp, CloseTemp, Probe,
                LoadFails
  <2>2. \E st \in Loading \cup {"loaded", "failed"} : item' = [item EXCEPT ![k] = st]
    BY <1>1 DEF Load, BeginLoad, Fetch, OpenTemp, CloseTemp, Probe, LoadFails
  <2>3. ~(Judge(k) /\ item[k] \notin {"waiting"} \cup Judging)
    BY DEF Judge, BeginJudge, Frames, Verdict, JudgeFails, Judging
  <2>4. item[k] \notin {"waiting"} \cup Judging
    BY <2>1 DEF Judging
  <2>. QED BY <1>0, <2>1, <2>2, <2>3, <2>4
<1>2. CASE Judge(k)
  <2>. USE DEF Judging, Becomes
  <2>1. Cached(k) \in Judged \cup {"none"}
    BY PlanFacts DEF Cached, Types, MainTypes, StoreTypes
  <2>2. /\ UNCHANGED <<plan, keeper, job, batch, saved>>
        /\ item[k] \in {"waiting"} \cup Judging
    BY <1>2 DEF keeper, batch, Judge, BeginJudge, Frames, Verdict, JudgeFails
  <2>3. \E st \in Judging \cup Judged : item' = [item EXCEPT ![k] = st]
    <3>1. CASE BeginJudge(k)
      BY <2>1, <3>1 DEF BeginJudge
    <3>2. CASE Frames(k) \/ Verdict(k) \/ JudgeFails(k)
      BY <3>2 DEF Frames, Verdict, JudgeFails, Judged
    <3>. QED BY <1>2, <3>1, <3>2 DEF Judge
  <2>4. ~(Load(k) /\ item[k] \notin {"queued"} \cup Loading)
    BY DEF Load, BeginLoad, Fetch, OpenTemp, CloseTemp, Probe, LoadFails, Loading
  <2>5. item[k] \notin {"queued"} \cup Loading
    BY <2>2 DEF Loading
  <2>. QED BY <1>0, <2>2, <2>3, <2>4, <2>5
<1>. QED BY <1>1, <1>2

PoolInv ==
  /\ \A j \in results : job[j] = "finished"
  /\ main # "collect" => \A j \in Jobs : job[j] # "queued"
  /\ main \notin {"collect", "keywords"} => \A j \in Jobs : job[j] \notin Active
  /\ main \in {"downloads", "report", "close", "closed"} =>
       \A i \in Items : item[i] \notin {"waiting"} \cup Judging
  /\ main \in {"report", "close", "closed"} =>
       \A i \in Items : item[i] \notin {"queued"} \cup Loading

LEMMA PoolInductive == Types /\ PoolInv /\ [Next]_vars => PoolInv'
<1>. SUFFICES ASSUME Types, PoolInv, [Next]_vars PROVE PoolInv'
  OBVIOUS
<1>. USE DEF PoolInv
<1>1. ASSUME NEW j \in Jobs, JobStep(j) PROVE PoolInv'
  <2>1. /\ main' = main /\ results' = results
        /\ job[j] \in Active \cup {"queued"}
        /\ job'[j] # "queued"
        /\ \A k \in Jobs \ {j} : job'[k] = job[k]
    BY <1>1, JobStepMoves DEF keeper, Types, JobTypes
  <2>2. j \notin results /\ (main = "collect" \/ job[j] \in Active)
    BY <2>1 DEF Active, Searching
  <2>3. main \in {"collect", "keywords"}
    BY <2>2
  <2>. QED BY <2>1, <2>2, <2>3 DEF Types, MainTypes
<1>2. ASSUME NEW k \in Items, Load(k) \/ Judge(k) PROVE PoolInv'
  <2>1. UNCHANGED <<main, results, job>>
    BY <1>2, WorkerItems DEF keeper
  <2>2. \A i \in Items \ {k} : item'[i] = item[i]
    BY <1>2, WorkerItems DEF Types, ItemTypes
  <2>3. /\ Load(k) => item[k] \in {"queued"} \cup Loading /\ item'[k] \in Loading \cup {"loaded", "failed"}
        /\ Judge(k) => item[k] \in {"waiting"} \cup Judging /\ item'[k] \in Judging \cup Judged
    BY <1>2, WorkerItems
  <2>. QED BY <1>2, <2>1, <2>2, <2>3 DEF Loading, Judging, Judged
<1>3. ASSUME NEW j \in Jobs, Collect(j) PROVE PoolInv'
  BY <1>3 DEF Collect, Types, JobTypes, MainTypes
<1>4. CASE JoinKeywords
  BY <1>4 DEF JoinKeywords
<1>5. CASE JoinRelevance
  BY <1>5 DEF JoinRelevance, Busy
<1>6. CASE JoinDownloads
  BY <1>6 DEF JoinDownloads, Busy
<1>7. CASE Report \/ Close
  BY <1>7 DEF Report, Close
<1>8. CASE \/ \E k \in Keywords : Expire(k)
           \/ UNCHANGED vars
  BY <1>8 DEF Expire, vars, keeper
<1>. QED
  BY <1>1, <1>2, <1>3, <1>4, <1>5, <1>6, <1>7, <1>8 DEF Next, Main, Terminated

-----------------------------------------------------------------------------
(* The candidates of a batch: those ahead of it are untouched, and the      *)
(* contents of all that are accepted differ.                                *)

Before == {"queued", "search", "connect", "look", "ask", "batch"}
NothingInHand == Before \cup {"load", "clean", "finished", "cancelled"}

AheadInv ==
  \A i \in Items :
    \/ i[2] > offset[i[1]] + plan.batchSize
    \/ job[i[1]] \in Before /\ i[2] > offset[i[1]]
    => item[i] = "new"

HandInv ==
  \A j \in Jobs :
    /\ job[j] = "take" =>
         \A i \in hand[j] : i[1] = j /\ i[2] > offset[j] /\ item[i] \in Judged
    /\ job[j] \in NothingInHand => accepted[j] = <<>>
    /\ \A n \in 1..Len(accepted[j]) :
         LET i == accepted[j][n]
         IN  i[1] = j /\ i[2] > offset[j] /\ item[i] = "accepted"

SeenInv ==
  /\ \A i \in Items : /\ item[i] = "accepted" => Content(i) \in seen
                      /\ saved[i] # "no" => item[i] = "accepted"
  /\ \A i, k \in Items :
       i # k /\ item[i] = "accepted" /\ item[k] = "accepted" => Content(i) # Content(k)

BatchInv == AheadInv /\ HandInv /\ SeenInv

\* A job saves the first of the candidates it accepted.
LEMMA SaveChanges ==
  ASSUME Types, BatchInv, NEW j \in Jobs, accepted[j] # <<>>
  PROVE  LET i == Head(accepted[j])
         IN  /\ i \in Items /\ i[1] = j /\ i[2] > offset[j] /\ item[i] = "accepted"
             /\ Save(j) \/ SaveFails(j) =>
                  \A k \in Items : k # i => saved'[k] = saved[k]
<1>1. accepted[j] \in Seq(Items)
  BY DEF Types, JobTypes
<1>. QED BY <1>1, TailFacts DEF BatchInv, HandInv, Save, SaveFails, Types, ItemTypes

\* A job goes on without a change to its candidates.
LEMMA JobGoesOn ==
  ASSUME Types, BatchInv, NEW j \in Jobs, NEW st,
         job' = [job EXCEPT ![j] = st],
         st # "take", st \in Before => job[j] \in Before,
         st \in NothingInHand => accepted[j] = <<>>,
         \A i \in Items : saved'[i] # "no" => saved[i] # "no" \/ item[i] = "accepted",
         UNCHANGED <<plan, offset, hand, accepted, item, seen>>
  PROVE  BatchInv'
<1>1. job'[j] = st /\ \A k \in Jobs \ {j} : job'[k] = job[k]
  BY DEF Types, JobTypes
<1>2. \A i \in Items : i[1] \in Jobs /\ Content(i)' = Content(i)
  BY DEF Items, Content
<1>3. AheadInv'
  BY <1>1, <1>2 DEF BatchInv, AheadInv
<1>4. HandInv'
  BY <1>1 DEF BatchInv, HandInv
<1>5. SeenInv'
  BY <1>2 DEF BatchInv, SeenInv
<1>. QED BY <1>3, <1>4, <1>5 DEF BatchInv

\* A candidate goes on that is neither in hand nor accepted.
LEMMA ItemGoesOn ==
  ASSUME Types, BatchInv, NEW k \in Items, NEW st,
         item' = [item EXCEPT ![k] = st],
         item[k] \notin Judged \cup {"new", "accepted"}, st # "accepted",
         UNCHANGED <<plan, job, offset, hand, accepted, saved, seen>>
  PROVE  BatchInv'
<1>1. item'[k] = st /\ \A i \in Items \ {k} : item'[i] = item[i]
  BY DEF Types, ItemTypes
<1>2. \A i \in Items : Content(i)' = Content(i)
  BY DEF Content
<1>3. AheadInv'
  BY <1>1 DEF BatchInv, AheadInv
<1>4. HandInv'
  <2>1. \A j \in Jobs : \A i \in hand[j] : i \in Items
    BY DEF Types, JobTypes
  <2>2. \A j \in Jobs : \A n \in 1..Len(accepted[j]) : accepted[j][n] \in Items
    BY DEF Types, JobTypes
  <2>. QED BY <1>1, <2>1, <2>2 DEF BatchInv, HandInv
<1>5. SeenInv'
  BY <1>1, <1>2 DEF BatchInv, SeenInv
<1>. QED BY <1>3, <1>4, <1>5 DEF BatchInv

LEMMA BatchInductive == Types /\ BatchInv /\ [Next]_vars => BatchInv'
<1>. SUFFICES ASSUME Types, BatchInv, [Next]_vars PROVE BatchInv'
  OBVIOUS
<1>0. /\ MainTypes /\ JobTypes /\ ItemTypes /\ AheadInv /\ HandInv /\ SeenInv
      /\ plan.batchSize \in Nat \ {0}
      /\ \A i \in Items : i[1] \in Jobs /\ i[2] \in Nat
  BY PlanFacts, Counts DEF Types, MainTypes, BatchInv
<1>0a. \A j \in Jobs : InBatch(j) \subseteq Items /\ Pending(j) \subseteq InBatch(j)
  BY <1>0, Counts DEF Pending, InBatch, Items, Least, JobTypes
<1>0b. UNCHANGED plan => \A i \in Items : Content(i)' = Content(i)
  BY DEF Content
<1>. USE DEF keeper, batch, caches, disk
<1>1. ASSUME NEW j \in Jobs,
             \/ Start(j) \/ Search(j) \/ OpenCache(j) \/ Connect(j) \/ LookUp(j)
             \/ Answer(j) \/ AskFails(j) \/ CacheBreaks(j) \/ JobEnds(j)
             \/ BatchLoaded(j)
      PROVE BatchInv'
  <2>1. \E st \in Before \cup {"finished", "raised", "judge"} :
          /\ job' = [job EXCEPT ![j] = st]
          /\ st # "judge" => job[j] \in Before
    BY <1>1 DEF Start, Search, OpenCache, Connect, LookUp, Answer, AskFails,
                CacheBreaks, JobEnds, BatchLoaded, Found, Before
  <2>2. UNCHANGED <<plan, offset, hand, accepted, item, saved, seen>>
    BY <1>1 DEF Start, Search, OpenCache, Connect, LookUp, Answer, AskFails,
                CacheBreaks, JobEnds, BatchLoaded
  <2>3. job[j] \in Before => accepted[j] = <<>>
    BY <1>0 DEF HandInv, NothingInHand
  <2>. QED BY <2>1, <2>2, <2>3, JobGoesOn DEF Before, NothingInHand
<1>2. ASSUME NEW j \in Jobs, NextBatch(j) PROVE BatchInv'
  <2>1. /\ job' = [job EXCEPT ![j] = "load"] /\ job[j] = "batch"
        /\ \A i \in Items : item'[i] = IF i \in InBatch(j) THEN "queued" ELSE item[i]
        /\ UNCHANGED <<plan, offset, hand, accepted, saved, seen>>
    BY <1>2 DEF NextBatch
  <2>2. \A i \in InBatch(j) : i[1] = j /\ i[2] > offset[j] /\ i[2] <= offset[j] + plan.batchSize
    BY <1>0, Counts DEF InBatch, Least, JobTypes
  <2>3. \A i \in InBatch(j) : item[i] = "new"
    BY <1>0, <1>0a, <2>1, <2>2 DEF AheadInv, Before
  <2>4. job'[j] = "load" /\ \A k \in Jobs \ {j} : job'[k] = job[k]
    BY <1>0, <2>1 DEF JobTypes
  <2>5. AheadInv'
    <3>1. ASSUME NEW i \in Items,
                 \/ i[2] > offset[i[1]] + plan.batchSize
                 \/ job'[i[1]] \in Before /\ i[2] > offset[i[1]]
          PROVE item'[i] = "new"
      <4>1. i \notin InBatch(j)
        <5>1. offset[j] + plan.batchSize \in Nat
          BY <1>0 DEF JobTypes
        <5>. QED BY <1>0, <2>2, <2>4, <3>1, <5>1 DEF Before
      <4>2. \/ i[2] > offset[i[1]] + plan.batchSize
            \/ job[i[1]] \in Before /\ i[2] > offset[i[1]]
        BY <1>0, <2>1, <2>4, <3>1 DEF Before
      <4>. QED BY <1>0, <2>1, <4>1, <4>2 DEF AheadInv
    <3>. QED BY <2>1, <3>1 DEF AheadInv
  <2>6. HandInv'
    <3>1. \A k \in Jobs : \A i \in hand[k] : i \in Items
      BY <1>0 DEF JobTypes
    <3>2. \A k \in Jobs : \A n \in 1..Len(accepted[k]) : accepted[k][n] \in Items
      BY <1>0 DEF JobTypes
    <3>3. \A i \in Items : item[i] # "new" => item'[i] = item[i]
      BY <2>1, <2>3
    <3>4. \A k \in Jobs : job'[k] = "take" =>
            \A i \in hand[k] : i[1] = k /\ i[2] > offset[k] /\ item'[i] \in Judged
      BY <1>0, <2>4, <3>1, <3>3 DEF HandInv, Judged
    <3>5. \A k \in Jobs : job'[k] \in NothingInHand => accepted[k] = <<>>
      BY <1>0, <2>1, <2>4 DEF HandInv, NothingInHand, Before
    <3>6. ASSUME NEW k \in Jobs, NEW n \in 1..Len(accepted[k])
          PROVE  LET i == accepted[k][n]
                 IN  i[1] = k /\ i[2] > offset[k] /\ item'[i] = "accepted"
      BY <1>0, <3>2, <3>3, <3>6 DEF HandInv
    <3>. QED BY <2>1, <3>4, <3>5, <3>6 DEF HandInv
  <2>7. SeenInv'
    BY <1>0, <1>0b, <2>1, <2>3 DEF SeenInv
  <2>. QED BY <2>5, <2>6, <2>7 DEF BatchInv
<1>3. ASSUME NEW j \in Jobs, TakeDone(j) PROVE BatchInv'
  <2>1. /\ job[j] = "judge" /\ job' = [job EXCEPT ![j] = "take"]
        /\ hand' = [hand EXCEPT ![j] = {i \in Pending(j) : item[i] \in Judged}]
        /\ UNCHANGED <<plan, offset, accepted, item, saved, seen>>
    BY <1>3 DEF TakeDone
  <2>2. /\ job'[j] = "take" /\ \A k \in Jobs \ {j} : job'[k] = job[k]
        /\ hand'[j] \subseteq InBatch(j) /\ \A i \in hand'[j] : item[i] \in Judged
        /\ \A k \in Jobs \ {j} : hand'[k] = hand[k]
    BY <1>0, <1>0a, <2>1 DEF JobTypes
  <2>3. \A i \in hand'[j] : i[1] = j /\ i[2] > offset[j]
    BY <1>0, <2>2, Counts DEF InBatch, Least, JobTypes
  <2>4. AheadInv'
    BY <1>0, <2>1, <2>2 DEF AheadInv, Before
  <2>5. HandInv'
    BY <1>0, <2>1, <2>2, <2>3 DEF HandInv, NothingInHand, Before
  <2>6. SeenInv'
    BY <1>0, <1>0b, <2>1 DEF SeenInv
  <2>. QED BY <2>4, <2>5, <2>6 DEF BatchInv
<1>4. ASSUME NEW j \in Jobs, TakenAll(j) PROVE BatchInv'
  <2>0. job[j] = "take" /\ UNCHANGED <<plan, offset, hand, saved, seen>>
    BY <1>4 DEF TakenAll
  <2>1. CASE Len(accepted[j]) >= Remaining(j)
    <3>1. /\ job' = [job EXCEPT ![j] = "save"]
          /\ accepted' = [accepted EXCEPT ![j] = SubSeq(@, 1, Remaining(j))]
          /\ \A i \in Items : \/ item'[i] = item[i]
                              \/ item[i] = "waiting" /\ item'[i] = "dropped"
      BY <1>4, <2>1 DEF TakenAll
    <3>2. Remaining(j) \in Int /\ accepted[j] \in Seq(Items)
      <4>1. Cardinality(Collected(j)) \in Nat
        BY ItemsFinite DEF Collected
      <4>. QED BY <1>0, <4>1, Counts DEF Remaining, JobTypes
    <3>3. /\ job'[j] = "save" /\ \A k \in Jobs \ {j} : job'[k] = job[k]
          /\ \A k \in Jobs \ {j} : accepted'[k] = accepted[k]
          /\ accepted'[j] = SubSeq(accepted[j], 1, Remaining(j))
      BY <1>0, <3>1 DEF JobTypes
    <3>4. /\ Len(accepted'[j]) \in 0..Len(accepted[j])
          /\ \A n \in 1..Len(accepted'[j]) : accepted'[j][n] = accepted[j][n]
      BY <2>1, <3>2, <3>3
    <3>5. \A i \in Items :
            /\ item[i] = "new" <=> item'[i] = "new"
            /\ item[i] = "accepted" <=> item'[i] = "accepted"
            /\ item[i] \in Judged => item'[i] \in Judged
      BY <3>1 DEF Judged
    <3>6. AheadInv'
      BY <1>0, <2>0, <3>3, <3>5 DEF AheadInv, Before
    <3>7. HandInv'
      <4>1. \A k \in Jobs : \A i \in hand[k] : i \in Items
        BY <1>0 DEF JobTypes
      <4>2. \A k \in Jobs : \A n \in 1..Len(accepted[k]) : accepted[k][n] \in Items
        BY <1>0 DEF JobTypes
      <4>3. \A n \in 1..Len(accepted'[j]) :
              /\ accepted'[j][n] = accepted[j][n]
              /\ accepted[j][n] \in Items
              /\ accepted[j][n][1] = j /\ accepted[j][n][2] > offset[j]
              /\ item[accepted[j][n]] = "accepted"
        BY <1>0, <3>2, <3>4, <4>2 DEF HandInv
      <4>4. \A k \in Jobs : job'[k] = "take" =>
              \A i \in hand[k] : i[1] = k /\ i[2] > offset[k] /\ item'[i] \in Judged
        BY <1>0, <3>3, <3>5, <4>1 DEF HandInv
      <4>5. \A k \in Jobs : job'[k] \in NothingInHand => accepted'[k] = <<>>
        BY <1>0, <3>3 DEF HandInv, NothingInHand, Before
      <4>6. ASSUME NEW k \in Jobs \ {j}, NEW n \in 1..Len(accepted[k])
            PROVE  LET i == accepted[k][n]
                   IN  i[1] = k /\ i[2] > offset[k] /\ item'[i] = "accepted"
        BY <1>0, <3>5, <4>2, <4>6 DEF HandInv
      <4>7. \A n \in 1..Len(accepted'[j]) :
              LET i == accepted'[j][n]
              IN  i[1] = j /\ i[2] > offset[j] /\ item'[i] = "accepted"
        BY <3>5, <4>3
      <4>8. \A k \in Jobs : \A n \in 1..Len(accepted'[k]) :
              LET i == accepted'[k][n]
              IN  i[1] = k /\ i[2] > offset[k] /\ item'[i] = "accepted"
        <5>1. ASSUME NEW k \in Jobs, NEW n \in 1..Len(accepted'[k])
              PROVE  LET i == accepted'[k][n]
                     IN  i[1] = k /\ i[2] > offset[k] /\ item'[i] = "accepted"
          <6>1. CASE k = j
            BY <4>7, <5>1, <6>1
          <6>2. CASE k # j
            BY <3>3, <4>6, <5>1, <6>2
          <6>. QED BY <6>1, <6>2
        <5>. QED BY <5>1
      <4>. QED BY <2>0, <4>4, <4>5, <4>8 DEF HandInv
    <3>8. SeenInv'
      BY <1>0, <1>0b, <2>0, <3>5 DEF SeenInv
    <3>. QED BY <3>6, <3>7, <3>8 DEF BatchInv
  <2>2. CASE ~(Len(accepted[j]) >= Remaining(j))
    <3>1. job' = [job EXCEPT ![j] = "judge"] /\ UNCHANGED <<accepted, item>>
      BY <1>4, <2>2 DEF TakenAll
    <3>. QED BY <2>0, <3>1, JobGoesOn DEF Before, NothingInHand
  <2>. QED BY <2>1, <2>2
<1>5. ASSUME NEW j \in Jobs, NothingPending(j) \/ SaveFails(j) PROVE BatchInv'
  <2>1. /\ \E st \in {"save", "raised"} : job' = [job EXCEPT ![j] = st]
        /\ UNCHANGED <<plan, offset, hand, accepted, item, seen>>
        /\ UNCHANGED saved \/ SaveFails(j)
    BY <1>5 DEF NothingPending, SaveFails
  <2>2. \A i \in Items : saved'[i] # "no" => saved[i] # "no" \/ item[i] = "accepted"
    <3>1. CASE SaveFails(j)
      <4>1. accepted[j] # <<>>
        BY <3>1 DEF SaveFails
      <4>. QED BY <3>1, <4>1, SaveChanges
    <3>. QED BY <2>1, <3>1
  <2>. QED BY <2>1, <2>2, JobGoesOn DEF Before, NothingInHand
<1>6. ASSUME NEW j \in Jobs, Save(j) PROVE BatchInv'
  <2>1. /\ job[j] = "save" /\ accepted[j] # <<>> /\ accepted[j] \in Seq(Items)
        /\ accepted' = [accepted EXCEPT ![j] = Tail(@)]
        /\ \A i \in Items : i # Head(accepted[j]) => saved'[i] = saved[i]
        /\ UNCHANGED <<plan, job, offset, hand, item, seen>>
    BY <1>0, <1>6 DEF Save, JobTypes, ItemTypes
  <2>2. /\ accepted'[j] = Tail(accepted[j])
        /\ \A k \in Jobs \ {j} : accepted'[k] = accepted[k]
    BY <1>0, <2>1 DEF JobTypes
  <2>3. /\ Head(accepted[j]) = accepted[j][1] /\ 1 \in 1..Len(accepted[j])
        /\ Len(accepted'[j]) = Len(accepted[j]) - 1
        /\ \A n \in 1..Len(accepted'[j]) :
             n + 1 \in 1..Len(accepted[j]) /\ accepted'[j][n] = accepted[j][n + 1]
    BY <2>1, <2>2, TailFacts
  <2>4. item[Head(accepted[j])] = "accepted"
    BY <1>0, <2>3 DEF HandInv
  <2>5. AheadInv'
    BY <1>0, <2>1 DEF AheadInv
  <2>6. HandInv'
    BY <1>0, <2>1, <2>2, <2>3 DEF HandInv, NothingInHand, Before
  <2>7. SeenInv'
    BY <1>0, <1>0b, <2>1, <2>4 DEF SeenInv
  <2>. QED BY <2>5, <2>6, <2>7 DEF BatchInv
<1>7. ASSUME NEW j \in Jobs, SavedAll(j) PROVE BatchInv'
  <2>1. /\ accepted[j] = <<>> /\ job' = [job EXCEPT ![j] = "clean"]
        /\ \A k \in Jobs \ {j} : hand'[k] = hand[k]
        /\ UNCHANGED <<plan, offset, accepted, item, saved, seen>>
    BY <1>0, <1>7 DEF SavedAll, JobTypes
  <2>2. job'[j] = "clean" /\ \A k \in Jobs \ {j} : job'[k] = job[k]
    BY <1>0, <2>1 DEF JobTypes
  <2>3. AheadInv'
    BY <1>0, <2>1, <2>2 DEF AheadInv, Before
  <2>4. HandInv'
    BY <1>0, <2>1, <2>2 DEF HandInv
  <2>5. SeenInv'
    BY <1>0, <1>0b, <2>1 DEF SeenInv
  <2>. QED BY <2>3, <2>4, <2>5 DEF BatchInv
<1>8. ASSUME NEW j \in Jobs, BatchEnds(j) PROVE BatchInv'
  <2>1. /\ job[j] = "clean" /\ job' = [job EXCEPT ![j] = "batch"]
        /\ offset' = [offset EXCEPT ![j] = @ + plan.batchSize]
        /\ UNCHANGED <<plan, hand, accepted, item, saved, seen>>
    BY <1>8 DEF BatchEnds
  <2>2. /\ job'[j] = "batch" /\ \A k \in Jobs \ {j} : job'[k] = job[k]
        /\ offset'[j] = offset[j] + plan.batchSize
        /\ \A k \in Jobs \ {j} : offset'[k] = offset[k]
    BY <1>0, <2>1 DEF JobTypes
  <2>3. accepted[j] = <<>>
    BY <1>0, <2>1 DEF HandInv, NothingInHand
  <2>4. AheadInv'
    <3>1. ASSUME NEW i \in Items,
                 \/ i[2] > offset'[i[1]] + plan.batchSize
                 \/ job'[i[1]] \in Before /\ i[2] > offset'[i[1]]
          PROVE item[i] = "new"
      <4>1. CASE i[1] = j
        <5>1. i[2] > offset[j] + plan.batchSize
          BY <1>0, <2>2, <3>1, <4>1 DEF JobTypes
        <5>. QED BY <1>0, <4>1, <5>1 DEF AheadInv
      <4>2. CASE i[1] # j
        BY <1>0, <2>2, <3>1, <4>2 DEF AheadInv
      <4>. QED BY <4>1, <4>2
    <3>. QED BY <2>1, <3>1 DEF AheadInv
  <2>5. HandInv'
    BY <1>0, <2>1, <2>2, <2>3 DEF HandInv
  <2>6. SeenInv'
    BY <1>0, <1>0b, <2>1 DEF SeenInv
  <2>. QED BY <2>4, <2>5, <2>6 DEF BatchInv
<1>9. ASSUME NEW i \in Items, SubmitItem(i) PROVE BatchInv'
  <2>1. /\ item[i] = "loaded" /\ item' = [item EXCEPT ![i] = "waiting"]
        /\ UNCHANGED <<plan, job, offset, hand, accepted, saved, seen>>
    BY <1>9 DEF SubmitItem
  <2>. QED BY <2>1, ItemGoesOn DEF Judged
<1>10. ASSUME NEW i \in Items, Load(i) \/ Judge(i) PROVE BatchInv'
  <2>1. /\ UNCHANGED <<plan, job, offset, hand, accepted, saved>>
        /\ item[i] \in {"queued", "waiting"} \cup Loading \cup Judging
        /\ \E st \in Loading \cup Judging \cup Judged \cup {"loaded", "failed"} :
             item' = [item EXCEPT ![i] = st]
    BY <1>10, WorkerItems
  <2>2. UNCHANGED seen
    BY <1>10 DEF Load, BeginLoad, Fetch, OpenTemp, CloseTemp, Probe, LoadFails, Judge,
                 BeginJudge, Frames, Verdict, JudgeFails
  <2>. QED BY <2>1, <2>2, ItemGoesOn DEF Judged, Loading, Judging
<1>11. ASSUME NEW i \in Items, TakeVerdict(i) PROVE BatchInv'
  <2>. DEFINE j == i[1]
  <2>1. /\ job[j] = "take" /\ i \in hand[j] /\ item[i] \in Judged /\ i[2] > offset[j]
        /\ j \in Jobs
        /\ UNCHANGED <<plan, job, offset, saved>>
    BY <1>0, <1>11 DEF TakeVerdict, HandInv
  <2>2. /\ \A k \in Items \ {i} : item'[k] = item[k]
        /\ \A k \in Jobs \ {j} : hand'[k] = hand[k]
        /\ hand'[j] = hand[j] \ {i}
    BY <1>0, <1>11, <2>1 DEF TakeVerdict, JobTypes, ItemTypes
  <2>3. \/ /\ item'[i] = "accepted" /\ Content(i) \notin seen
           /\ seen' = seen \cup {Content(i)}
           /\ accepted' = [accepted EXCEPT ![j] = Append(@, i)]
        \/ item'[i] = "rejected" /\ UNCHANGED <<seen, accepted>>
    BY <1>0, <1>11 DEF TakeVerdict, ItemTypes
  <2>4. item[i] \notin {"new", "accepted"}
    BY <2>1 DEF Judged
  <2>5. AheadInv'
    BY <1>0, <2>1, <2>2, <2>4 DEF AheadInv
  <2>6. HandInv'
    <3>1. \A k \in Jobs : \A l \in hand[k] : l \in Items
      BY <1>0 DEF JobTypes
    <3>2. ASSUME NEW k \in Jobs, job[k] = "take", NEW l \in hand'[k]
          PROVE  l[1] = k /\ l[2] > offset[k] /\ item'[l] \in Judged
      <4>1. l \in hand[k] /\ l # i
        BY <1>0, <2>1, <2>2, <3>1, <3>2 DEF HandInv
      <4>. QED BY <1>0, <2>2, <3>1, <3>2, <4>1 DEF HandInv
    <3>3. job[j] \notin NothingInHand
      BY <2>1 DEF NothingInHand, Before
    <3>4. \A k \in Jobs \ {j} : accepted'[k] = accepted[k]
      BY <1>0, <2>3 DEF JobTypes
    <3>5. accepted[j] \in Seq(Items)
      BY <1>0, <2>1 DEF JobTypes
    <3>6. \/ accepted'[j] = accepted[j]
          \/ accepted'[j] = Append(accepted[j], i) /\ item'[i] = "accepted"
      BY <1>0, <2>1, <2>3 DEF JobTypes
    <3>7. ASSUME NEW k \in Jobs, NEW n \in 1..Len(accepted'[k])
          PROVE  LET l == accepted'[k][n]
                 IN  l[1] = k /\ l[2] > offset[k] /\ item'[l] = "accepted"
      <4>1. CASE n \in 1..Len(accepted[k]) /\ accepted'[k][n] = accepted[k][n]
        <5>1. accepted[k][n] \in Items /\ item[accepted[k][n]] = "accepted"
          BY <1>0, <4>1 DEF HandInv, JobTypes
        <5>2. item'[accepted[k][n]] = "accepted"
          BY <2>2, <2>4, <5>1
        <5>. QED BY <1>0, <4>1, <5>2 DEF HandInv
      <4>2. CASE k = j /\ accepted'[k][n] = i /\ item'[i] = "accepted"
        BY <2>1, <4>2
      <4>. QED BY <3>4, <3>5, <3>6, <3>7, <4>1, <4>2
    <3>8. \A k \in Jobs : job[k] \in NothingInHand => accepted'[k] = <<>>
      BY <1>0, <3>3, <3>4 DEF HandInv
    <3>. QED BY <2>1, <3>2, <3>7, <3>8 DEF HandInv
  <2>7. SeenInv'
    BY <1>0, <1>0b, <2>1, <2>2, <2>3, <2>4 DEF SeenInv
  <2>. QED BY <2>5, <2>6, <2>7 DEF BatchInv
<1>12. ASSUME NEW i \in Items, Unlink(i) PROVE BatchInv'
  <2>1. /\ job[i[1]] = "clean" /\ \A k \in Jobs \ {i[1]} : hand'[k] = hand[k]
        /\ UNCHANGED <<plan, job, offset, accepted, item, saved, seen>>
    BY <1>0, <1>12 DEF Unlink, JobTypes
  <2>2. AheadInv' /\ HandInv'
    BY <1>0, <2>1 DEF AheadInv, HandInv
  <2>3. SeenInv'
    BY <1>0, <1>0b, <2>1 DEF SeenInv
  <2>. QED BY <2>2, <2>3 DEF BatchInv
<1>13. ASSUME NEW j \in Jobs, Collect(j) PROVE BatchInv'
  <2>1. /\ \A k \in Jobs : job'[k] = job[k] \/ (job[k] = "queued" /\ job'[k] = "cancelled")
        /\ UNCHANGED <<plan, offset, hand, accepted, item, saved, seen>>
    <3>1. UNCHANGED job \/ job' = [k \in Jobs |-> IF job[k] = "queued" THEN "cancelled" ELSE job[k]]
      BY <1>13 DEF Collect
    <3>2. \A k \in Jobs : job'[k] = job[k] \/ (job[k] = "queued" /\ job'[k] = "cancelled")
      BY <3>1
    <3>. QED BY <1>13, <3>2 DEF Collect
  <2>2. AheadInv'
    BY <1>0, <2>1 DEF AheadInv, Before
  <2>3. HandInv'
    BY <1>0, <2>1 DEF HandInv, NothingInHand, Before
  <2>4. SeenInv'
    BY <1>0, <1>0b, <2>1 DEF SeenInv
  <2>. QED BY <2>2, <2>3, <2>4 DEF BatchInv
<1>14. CASE \/ JoinKeywords \/ JoinRelevance \/ JoinDownloads \/ Report \/ Close
            \/ \E k \in Keywords : Expire(k)
            \/ UNCHANGED vars
  <2>1. UNCHANGED <<plan, job, offset, hand, accepted, item, saved, seen>>
    BY <1>14 DEF JoinKeywords, JoinRelevance, JoinDownloads, Report, Close, Expire, vars
  <2>2. AheadInv' /\ HandInv'
    BY <1>0, <2>1 DEF AheadInv, HandInv
  <2>3. SeenInv'
    BY <1>0, <1>0b, <2>1 DEF SeenInv
  <2>. QED BY <2>2, <2>3 DEF BatchInv
<1>15. \A j \in Jobs, n \in 1..MaxCandidates : <<j, n>> \in Items
  BY DEF Items
<1>. QED
  BY <1>1, <1>2, <1>3, <1>4, <1>5, <1>6, <1>7, <1>8, <1>9, <1>10, <1>11, <1>12, <1>13,
     <1>14, <1>15
     DEF Next, Main, JobStep, Terminated

-----------------------------------------------------------------------------
(* The temporary file of a content that one candidate alone has.           *)

\* What a job does to its candidates.
LEMMA JobStepItems ==
  ASSUME Types, BatchInv, NEW j \in Jobs, JobStep(j), NEW i \in Items
  PROVE  \/ item'[i] = item[i]
         \/ item[i] = "new" /\ item'[i] = "queued"
         \/ item[i] = "loaded" /\ item'[i] = "waiting"
         \/ item[i] = "waiting" /\ item'[i] = "dropped"
         \/ item[i] \in Judged /\ item'[i] \in {"accepted", "rejected"}
<1>0. JobTypes /\ ItemTypes /\ AheadInv /\ HandInv /\ plan.batchSize \in Nat
  BY PlanFacts DEF Types, MainTypes, BatchInv
<1>1. CASE UNCHANGED item
  BY <1>1
<1>2. CASE NextBatch(j)
  <2>1. /\ job[j] = "batch"
        /\ item'[i] = IF i \in InBatch(j) THEN "queued" ELSE item[i]
    BY <1>2 DEF NextBatch
  <2>2. i \in InBatch(j) => i[1] = j /\ i[2] > offset[j]
    BY <1>0, Counts DEF InBatch, Least, JobTypes
  <2>. QED BY <1>0, <2>1, <2>2 DEF AheadInv, Before
<1>3. CASE TakenAll(j)
  BY <1>3 DEF TakenAll
<1>4. ASSUME NEW n \in 1..MaxCandidates, SubmitItem(<<j, n>>)
      PROVE  item'[i] = item[i] \/ (item[i] = "loaded" /\ item'[i] = "waiting")
  BY <1>0, <1>4 DEF SubmitItem, ItemTypes
<1>5. ASSUME NEW n \in 1..MaxCandidates, TakeVerdict(<<j, n>>)
      PROVE  \/ item'[i] = item[i]
             \/ item[i] \in Judged /\ item'[i] \in {"accepted", "rejected"}
  <2>. DEFINE k == <<j, n>>
  <2>1. k \in Items /\ k[1] = j
    BY DEF Items
  <2>2. item[k] \in Judged
    BY <1>0, <1>5, <2>1 DEF TakeVerdict, HandInv
  <2>3. i # k => item'[i] = item[i]
    BY <1>0, <1>5, <2>1 DEF TakeVerdict, ItemTypes
  <2>4. item'[k] \in {"accepted", "rejected"}
    BY <1>0, <1>5, <2>1 DEF TakeVerdict, ItemTypes
  <2>. QED BY <2>2, <2>3, <2>4
<1>6. \/ UNCHANGED item \/ NextBatch(j) \/ TakenAll(j)
      \/ \E n \in 1..MaxCandidates : SubmitItem(<<j, n>>) \/ TakeVerdict(<<j, n>>)
  BY DEF JobStep, Start, Search, OpenCache, Connect, LookUp, Answer, AskFails,
         CacheBreaks, JobEnds, BatchLoaded, TakeDone, NothingPending, Save, SaveFails,
         SavedAll, BatchEnds, Unlink
<1>. QED BY <1>1, <1>2, <1>3, <1>4, <1>5, <1>6

InUse == {"load", "judge", "take", "save"}
Present == {"loaded", "waiting", "accepted"} \cup Judging \cup Judged

TornInv ==
  \A i \in Items :
    ~Shared(Content(i)) /\ Content(i) \notin faults /\ temp[Content(i)].is = "torn"
      => item[i] = "write" /\ temp[Content(i)].by = i

SavedInv ==
  \A i \in Items :
    saved[i] = "torn" =>
      \/ plan.video /\ (Shared(Content(i)) \/ Content(i) \in faults)
      \/ "disk" \in faults /\ InTheMaking(i)

PresentInv ==
  \A i \in Items :
    plan.video /\ ~Shared(Content(i)) /\ job[i[1]] \in InUse /\ i[2] > offset[i[1]]
      /\ item[i] \in Present
      => temp[Content(i)] # NoFile

TempInv == TornInv /\ SavedInv /\ PresentInv

LEMMA SharedFacts ==
  ASSUME Types
  PROVE  /\ \A i \in Items : i[1] \in Jobs /\ Content(i) \in Contents
         /\ UNCHANGED plan => \A i \in Items : Content(i)' = Content(i)
         /\ UNCHANGED plan => \A c \in Contents : Shared(c)' <=> Shared(c)
         /\ \A i, k \in Items : ~Shared(Content(i)) /\ k # i => Content(k) # Content(i)
<1>1. \A i \in Items : i[1] \in Jobs /\ Content(i) \in Contents
  BY PlanFacts DEF Types, MainTypes
<1>. QED BY <1>1 DEF Shared, Content

\* What it does to the disk.
LEMMA JobStepDisk ==
  ASSUME Types, NEW j \in Jobs, JobStep(j)
  PROVE  /\ \A c \in faults : c \in faults'
         /\ \/ UNCHANGED temp
            \/ /\ job[j] = "clean" /\ UNCHANGED job
               /\ \E i \in Items : i[1] = j /\ temp' = [temp EXCEPT ![Content(i)] = NoFile]
         /\ UNCHANGED saved \/ Save(j) \/ SaveFails(j)
         /\ job'[j] \in InUse => job[j] \in InUse \cup {"batch"}
         /\ \A k \in Jobs : offset[k] <= offset'[k]
<1>. USE DEF batch, disk, caches
<1>0. JobTypes /\ plan.batchSize \in Nat
  BY PlanFacts DEF Types, MainTypes
<1>1. ASSUME NEW n \in 1..MaxCandidates, Unlink(<<j, n>>)
      PROVE  \/ UNCHANGED temp
             \/ /\ job[j] = "clean" /\ UNCHANGED job
                /\ \E i \in Items : i[1] = j /\ temp' = [temp EXCEPT ![Content(i)] = NoFile]
  BY <1>1 DEF Unlink, Items
<1>2. \/ UNCHANGED temp
      \/ \E n \in 1..MaxCandidates : Unlink(<<j, n>>)
  BY DEF JobStep, Start, Search, OpenCache, Connect, LookUp, Answer, AskFails,
         CacheBreaks, NextBatch, JobEnds, BatchLoaded, TakeDone, TakenAll, NothingPending,
         Save, SaveFails, SavedAll, BatchEnds, SubmitItem, TakeVerdict
<1>3. UNCHANGED saved \/ Save(j) \/ SaveFails(j)
  BY DEF JobStep, Start, Search, OpenCache, Connect, LookUp, Answer, AskFails,
         CacheBreaks, NextBatch, JobEnds, BatchLoaded, TakeDone, TakenAll, NothingPending,
         SavedAll, BatchEnds, SubmitItem, TakeVerdict, Unlink
<1>4. \A c \in faults : c \in faults'
  <2>1. UNCHANGED faults \/ CacheBreaks(j) \/ SaveFails(j)
    BY DEF JobStep, Start, Search, OpenCache, Connect, LookUp, Answer, AskFails,
         NextBatch, JobEnds, BatchLoaded, TakeDone, TakenAll, NothingPending,
         Save, SavedAll, BatchEnds, SubmitItem, TakeVerdict, Unlink
  <2>. QED BY <2>1 DEF CacheBreaks, SaveFails
<1>5. \A k \in Jobs : offset[k] <= offset'[k]
  <2>1. UNCHANGED offset \/ BatchEnds(j)
    BY DEF JobStep, Start, Search, OpenCache, Connect, LookUp, Answer, AskFails,
         CacheBreaks, NextBatch, JobEnds, BatchLoaded, TakeDone, TakenAll, NothingPending,
         Save, SaveFails, SavedAll, SubmitItem, TakeVerdict, Unlink
  <2>2. CASE UNCHANGED offset
    BY <1>0, <2>2 DEF JobTypes
  <2>3. CASE BatchEnds(j)
    BY <1>0, <2>3 DEF BatchEnds, JobTypes
  <2>. QED BY <2>1, <2>2, <2>3
<1>6. job'[j] \in InUse => job[j] \in InUse \cup {"batch"}
  <2>. USE DEF InUse, JobTypes
  <2>1. CASE UNCHANGED job
    BY <2>1
  <2>2. CASE Start(j) \/ Search(j) \/ OpenCache(j) \/ Connect(j) \/ LookUp(j) \/ Answer(j)
             \/ AskFails(j) \/ CacheBreaks(j)
    <3>1. \E st \in {"search", "connect", "look", "ask", "batch", "raised"} :
            job' = [job EXCEPT ![j] = st]
      BY <2>2 DEF Start, Search, OpenCache, Connect, LookUp, Answer, AskFails,
                  CacheBreaks, Found
    <3>. QED BY <1>0, <3>1
  <2>3. CASE NextBatch(j) \/ BatchLoaded(j) \/ TakeDone(j) \/ TakenAll(j) \/ NothingPending(j)
    BY <2>3 DEF NextBatch, BatchLoaded, TakeDone, TakenAll, NothingPending
  <2>4. CASE JobEnds(j) \/ SaveFails(j) \/ SavedAll(j) \/ BatchEnds(j)
    <3>1. \E st \in {"finished", "raised", "clean", "batch"} : job' = [job EXCEPT ![j] = st]
      BY <2>4 DEF JobEnds, SaveFails, SavedAll, BatchEnds
    <3>. QED BY <1>0, <3>1
  <2>5. CASE Save(j)
    BY <2>1, <2>5 DEF Save
  <2>6. ASSUME NEW n \in 1..MaxCandidates,
               SubmitItem(<<j, n>>) \/ TakeVerdict(<<j, n>>) \/ Unlink(<<j, n>>)
        PROVE  UNCHANGED job
    BY <2>6 DEF SubmitItem, TakeVerdict, Unlink
  <2>. QED BY <2>1, <2>2, <2>3, <2>4, <2>5, <2>6 DEF JobStep
<1>. QED BY <1>1, <1>2, <1>3, <1>4, <1>5, <1>6

\* A job leaves to the others what is theirs.
LEMMA JobStepOwn ==
  ASSUME Types, BatchInv, NEW j \in Jobs, JobStep(j)
  PROVE  /\ \A k \in Jobs \ {j} : job'[k] = job[k] /\ accepted'[k] = accepted[k]
         /\ \A i \in Items : i[1] # j => saved'[i] = saved[i]
         /\ \A k \in Jobs \ {j} : Collected(k)' = Collected(k)
         /\ ~Save(j) /\ ~SaveFails(j) => Collected(j)' = Collected(j)
<1>1. \A k \in Jobs \ {j} : job'[k] = job[k]
  BY JobStepMoves DEF Types, JobTypes
<1>2. \/ UNCHANGED accepted \/ Save(j) \/ TakenAll(j)
      \/ \E n \in 1..MaxCandidates : TakeVerdict(<<j, n>>)
  BY DEF JobStep, batch, Start, Search, OpenCache, Connect, LookUp, Answer, AskFails,
         CacheBreaks, NextBatch, JobEnds, BatchLoaded, TakeDone, NothingPending,
         SaveFails, SavedAll, BatchEnds, SubmitItem, Unlink
<1>3. \A k \in Jobs \ {j} : accepted'[k] = accepted[k]
  BY <1>2 DEF Save, TakenAll, TakeVerdict, Types, JobTypes
<1>4. \A i \in Items : i[1] # j => saved'[i] = saved[i]
  <2>1. CASE Save(j) \/ SaveFails(j)
    <3>1. accepted[j] # <<>>
      BY <2>1 DEF Save, SaveFails
    <3>. QED BY <2>1, <3>1, SaveChanges
  <2>2. CASE UNCHANGED saved
    BY <2>2
  <2>. QED BY <2>1, <2>2, JobStepDisk
<1>5. \A k \in Jobs \ {j} : Collected(k)' = Collected(k)
  BY <1>4 DEF Collected
<1>6. ~Save(j) /\ ~SaveFails(j) => Collected(j)' = Collected(j)
  BY JobStepDisk DEF Collected
<1>. QED BY <1>1, <1>3, <1>4, <1>5, <1>6

LEMMA TempInductive ==
  Types /\ PoolInv /\ BatchInv /\ TempInv /\ [Next]_vars => TempInv'
<1>. SUFFICES ASSUME Types, PoolInv, BatchInv, TempInv, [Next]_vars PROVE TempInv'
  OBVIOUS
<1>0. /\ JobTypes /\ ItemTypes /\ StoreTypes
      /\ AheadInv /\ HandInv /\ SeenInv /\ TornInv /\ SavedInv /\ PresentInv
  BY DEF Types, BatchInv, TempInv
<1>0a. /\ \A i \in Items : i[1] \in Jobs /\ i[2] \in Nat /\ Content(i) \in Contents
       /\ \A i, k \in Items : ~Shared(Content(i)) /\ k # i => Content(k) # Content(i)
  BY SharedFacts, PlanFacts, Counts DEF Types, MainTypes
<1>0b. UNCHANGED plan => /\ \A i \in Items : Content(i)' = Content(i)
                         /\ \A c \in Contents : Shared(c)' <=> Shared(c)
  BY SharedFacts
<1>0c. ASSUME UNCHANGED <<plan, accepted, saved>>, \A c \in faults : c \in faults',
              \A j \in Jobs : job[j] = "raised" => job'[j] = "raised"
       PROVE  SavedInv'
  <2>1. ASSUME NEW i \in Items, InTheMaking(i) PROVE InTheMaking(i)'
    BY <1>0a, <1>0c, <2>1 DEF InTheMaking
  <2>. QED BY <1>0, <1>0a, <1>0b, <1>0c, <2>1 DEF SavedInv
<1>. USE DEF keeper, batch, caches, disk
<1>1. ASSUME NEW j \in Jobs, JobStep(j) PROVE TempInv'
  <2>0. /\ UNCHANGED plan /\ job[j] # "raised"
        /\ \A k \in Jobs \ {j} : job'[k] = job[k] /\ accepted'[k] = accepted[k]
    BY <1>1, JobStepMoves, JobStepOwn DEF Active, Searching
  <2>1. /\ \A c \in faults : c \in faults'
        /\ \A k \in Jobs : offset[k] <= offset'[k]
        /\ UNCHANGED saved \/ Save(j) \/ SaveFails(j)
        /\ job'[j] \in InUse => job[j] \in InUse \cup {"batch"}
    BY <1>1, JobStepDisk
  <2>2. \A c \in Contents : temp'[c] = temp[c] \/ temp'[c] = NoFile
    BY <1>0, <1>1, JobStepDisk DEF StoreTypes
  <2>3. \A i \in Items :
          /\ item[i] = "write" => item'[i] = "write"
          /\ item'[i] \in Present => item[i] \in Present
    BY <1>1, JobStepItems DEF Present, Judged, Judging
  <2>4. TornInv'
    <3>1. ASSUME NEW i \in Items, ~Shared(Content(i)), Content(i) \notin faults',
                 temp'[Content(i)].is = "torn"
          PROVE  item'[i] = "write" /\ temp'[Content(i)].by = i
      <4>1. temp'[Content(i)] = temp[Content(i)]
        BY <1>0a, <2>2, <3>1 DEF NoFile
      <4>. QED BY <1>0, <2>1, <2>3, <3>1, <4>1 DEF TornInv
    <3>. QED BY <1>0a, <1>0b, <2>0, <3>1 DEF TornInv
  <2>5. SavedInv'
    <3>1. ASSUME NEW i \in Items, saved'[i] = "torn"
          PROVE  \/ plan.video /\ (Shared(Content(i)) \/ Content(i) \in faults')
                 \/ "disk" \in faults' /\ InTheMaking(i)'
      <4>1. CASE saved[i] = "torn"
        <5>1. \/ plan.video /\ (Shared(Content(i)) \/ Content(i) \in faults)
              \/ "disk" \in faults /\ InTheMaking(i)
          BY <1>0, <4>1 DEF SavedInv
        <5>2. InTheMaking(i) => InTheMaking(i)'
          BY <1>0a, <2>0 DEF InTheMaking
        <5>. QED BY <2>1, <5>1, <5>2
      <4>2. CASE saved[i] # "torn"
        <5>1. Save(j) \/ SaveFails(j)
          BY <2>1, <3>1, <4>2
        <5>2. accepted[j] # <<>>
          BY <5>1 DEF Save, SaveFails
        <5>3. /\ Head(accepted[j]) \in Items /\ i = Head(accepted[j]) /\ i[1] = j
              /\ item[i] = "accepted"
          <6>1. \A k \in Items : k # Head(accepted[j]) => saved'[k] = saved[k]
            BY <5>1, <5>2, SaveChanges
          <6>. QED BY <3>1, <4>2, <5>2, <6>1, SaveChanges
        <5>4. CASE Save(j)
          <6>1. Source(i) = "torn"
            BY <1>0, <3>1, <5>3, <5>4 DEF Save, ItemTypes
          <6>2. plan.video /\ temp[Content(i)].is = "torn"
            BY <6>1 DEF Source
          <6>3. Shared(Content(i)) \/ Content(i) \in faults
            BY <1>0, <5>3, <6>2 DEF TornInv
          <6>. QED BY <2>1, <6>2, <6>3
        <5>5. CASE SaveFails(j)
          <6>1. saved' # saved
            BY <3>1, <4>2
          <6>2. "disk" \in faults' /\ job' = [job EXCEPT ![j] = "raised"]
                /\ UNCHANGED accepted
            BY <5>5, <6>1 DEF SaveFails
          <6>3. InTheMaking(i)'
            BY <1>0, <5>2, <5>3, <6>2 DEF InTheMaking, JobTypes
          <6>. QED BY <6>2, <6>3
        <5>. QED BY <5>1, <5>4, <5>5
      <4>. QED BY <4>1, <4>2
    <3>. QED BY <1>0a, <1>0b, <2>0, <3>1 DEF SavedInv
  <2>6. PresentInv'
    <3>1. ASSUME NEW i \in Items, plan.video, ~Shared(Content(i)),
                 job'[i[1]] \in InUse, i[2] > offset'[i[1]], item'[i] \in Present
          PROVE  temp'[Content(i)] # NoFile
      <4>1. item[i] \in Present /\ i[2] > offset[i[1]]
        <5>1. offset[i[1]] \in Nat /\ offset[i[1]] <= offset'[i[1]]
          BY <1>0, <1>0a, <2>1 DEF JobTypes
        <5>2. offset'[i[1]] \in Nat
          BY <1>0a, <1>1, TypesInductive DEF Types, JobTypes
        <5>. QED BY <1>0a, <2>3, <3>1, <5>1, <5>2
      <4>2. job[i[1]] # "batch"
        <5>1. item[i] # "new"
          BY <4>1 DEF Present, Judged, Judging
        <5>. QED BY <1>0, <4>1, <5>1 DEF AheadInv, Before
      <4>3. job[i[1]] \in InUse
        BY <1>0a, <2>0, <2>1, <3>1, <4>2
      <4>4. temp[Content(i)] # NoFile
        BY <1>0, <3>1, <4>1, <4>3 DEF PresentInv
      <4>5. temp'[Content(i)] = temp[Content(i)]
        <5>1. CASE UNCHANGED temp
          BY <5>1
        <5>2. ASSUME job[j] = "clean", UNCHANGED job, NEW k \in Items, k[1] = j,
                     temp' = [temp EXCEPT ![Content(k)] = NoFile]
              PROVE  temp'[Content(i)] = temp[Content(i)]
          <6>1. k # i
            BY <3>1, <5>2 DEF InUse
          <6>2. Content(k) # Content(i)
            BY <1>0a, <3>1, <6>1
          <6>. QED BY <1>0, <1>0a, <5>2, <6>2 DEF StoreTypes
        <5>. QED BY <1>1, <5>1, <5>2, JobStepDisk
      <4>. QED BY <4>4, <4>5
    <3>. QED BY <1>0a, <1>0b, <2>0, <3>1 DEF PresentInv
  <2>. QED BY <2>4, <2>5, <2>6 DEF TempInv
<1>2. ASSUME NEW k \in Items, Load(k) PROVE TempInv'
  <2>0. UNCHANGED <<plan, job, offset, accepted, saved>>
    BY <1>2, WorkerItems
  <2>1. \A i \in Items \ {k} : item'[i] = item[i]
    BY <1>0, <1>2, WorkerItems DEF ItemTypes
  <2>2. \A i \in Items : i # k /\ ~Shared(Content(i)) => temp'[Content(i)] = temp[Content(i)]
    <3>1. \A c \in Contents : c # Content(k) => temp'[c] = temp[c]
      BY <1>0, <1>2 DEF Load, BeginLoad, Fetch, OpenTemp, CloseTemp, Probe, LoadFails,
                        StoreTypes
    <3>. QED BY <1>0a, <3>1
  <2>3. \A c \in faults : c \in faults'
    BY <1>2 DEF Load, BeginLoad, Fetch, OpenTemp, CloseTemp, Probe, LoadFails
  <2>4. ASSUME ~Shared(Content(k)), Content(k) \notin faults', temp'[Content(k)].is = "torn"
        PROVE  item'[k] = "write" /\ temp'[Content(k)].by = k
    <3>1. CASE OpenTemp(k)
      BY <1>0, <1>0a, <3>1 DEF OpenTemp, Becomes, ItemTypes, StoreTypes
    <3>2. CASE ~OpenTemp(k) /\ item[k] # "write"
      <4>1. UNCHANGED temp
        BY <1>2, <3>2 DEF Load, BeginLoad, Fetch, CloseTemp, Probe, LoadFails
      <4>. QED BY <1>0, <2>3, <2>4, <3>2, <4>1 DEF TornInv
    <3>3. CASE item[k] = "write" /\ CloseTemp(k)
      <4>1. temp'[Content(k)] = temp[Content(k)] /\ temp[Content(k)].by # k
        BY <1>0, <1>0a, <2>4, <3>3 DEF CloseTemp, StoreTypes
      <4>. QED BY <1>0, <2>3, <2>4, <4>1 DEF TornInv
    <3>4. CASE item[k] = "write" /\ LoadFails(k)
      BY <2>4, <3>4 DEF LoadFails
    <3>5. item[k] = "write" => CloseTemp(k) \/ LoadFails(k)
      BY <1>2 DEF Load, BeginLoad, Fetch, OpenTemp, Probe
    <3>. QED BY <3>1, <3>2, <3>3, <3>4, <3>5
  <2>5. TornInv'
    <3>1. ASSUME NEW i \in Items, ~Shared(Content(i)), Content(i) \notin faults',
                 temp'[Content(i)].is = "torn"
          PROVE  item'[i] = "write" /\ temp'[Content(i)].by = i
      <4>1. CASE i = k
        BY <2>4, <3>1, <4>1
      <4>2. CASE i # k
        BY <1>0, <2>1, <2>2, <2>3, <3>1, <4>2 DEF TornInv
      <4>. QED BY <4>1, <4>2
    <3>. QED BY <1>0a, <1>0b, <2>0, <3>1 DEF TornInv
  <2>6. SavedInv'
    BY <1>0c, <2>0, <2>3
  <2>7. ASSUME plan.video, item'[k] \in Present
        PROVE  temp'[Content(k)] # NoFile
    <3>1. Probe(k)
      <4>1. item'[k] \notin {"fetch", "open", "write", "probe", "failed"}
        BY <2>7 DEF Present, Judged, Judging
      <4>2. ASSUME NEW st, Becomes(k, st) PROVE item'[k] = st
        BY <1>0, <4>2 DEF Becomes, ItemTypes
      <4>. QED BY <1>2, <2>7, <4>1, <4>2
                  DEF Load, BeginLoad, Fetch, OpenTemp, CloseTemp, LoadFails
    <3>. QED BY <3>1 DEF Probe
  <2>8. PresentInv'
    <3>1. ASSUME NEW i \in Items, plan.video, ~Shared(Content(i)),
                 job[i[1]] \in InUse, i[2] > offset[i[1]], item'[i] \in Present
          PROVE  temp'[Content(i)] # NoFile
      <4>1. CASE i = k
        BY <2>7, <3>1, <4>1
      <4>2. CASE i # k
        BY <1>0, <2>1, <2>2, <3>1, <4>2 DEF PresentInv
      <4>. QED BY <4>1, <4>2
    <3>. QED BY <1>0a, <1>0b, <2>0, <3>1 DEF PresentInv
  <2>. QED BY <2>5, <2>6, <2>8 DEF TempInv
<1>3. ASSUME NEW k \in Items, Judge(k) PROVE TempInv'
  <2>1. UNCHANGED <<plan, job, offset, accepted, saved, temp, faults>>
    BY <1>3, WorkerItems DEF Judge, BeginJudge, Frames, Verdict, JudgeFails
  <2>2. \A i \in Items \ {k} : item'[i] = item[i]
    BY <1>0, <1>3, WorkerItems DEF ItemTypes
  <2>3. item[k] \in Present /\ item[k] # "write"
    BY <1>3, WorkerItems DEF Present, Judging
  <2>4. TornInv'
    BY <1>0, <1>0a, <1>0b, <2>1, <2>2, <2>3 DEF TornInv
  <2>5. SavedInv'
    BY <1>0c, <2>1
  <2>6. PresentInv'
    BY <1>0, <1>0a, <1>0b, <2>1, <2>2, <2>3 DEF PresentInv
  <2>. QED BY <2>4, <2>5, <2>6 DEF TempInv
<1>4. ASSUME NEW j \in Jobs, Collect(j) PROVE TempInv'
  <2>1. UNCHANGED <<plan, offset, accepted, saved, item, temp, faults>>
    BY <1>4 DEF Collect
  <2>2. \A k \in Jobs : /\ job'[k] = job[k] \/ job'[k] \notin InUse
                        /\ job[k] = "raised" => job'[k] = "raised"
    <3>1. \/ UNCHANGED job
          \/ job' = [k \in Jobs |-> IF job[k] = "queued" THEN "cancelled" ELSE job[k]]
      BY <1>4 DEF Collect
    <3>. QED BY <3>1 DEF InUse
  <2>3. TornInv'
    BY <1>0, <1>0a, <1>0b, <2>1 DEF TornInv
  <2>4. SavedInv'
    BY <1>0c, <2>1, <2>2
  <2>5. PresentInv'
    BY <1>0, <1>0a, <1>0b, <2>1, <2>2 DEF PresentInv
  <2>. QED BY <2>3, <2>4, <2>5 DEF TempInv
<1>5. CASE Close
  <2>1. /\ main = "close" /\ UNCHANGED <<plan, job, offset, accepted, saved, item, faults>>
        /\ \A c \in Contents : temp'[c] = NoFile
    BY <1>5 DEF Close
  <2>2. \A j \in Jobs : job[j] \notin InUse
    BY <2>1 DEF PoolInv, InUse, Active
  <2>3. TornInv'
    BY <1>0a, <1>0b, <2>1 DEF TornInv, NoFile
  <2>4. SavedInv'
    BY <1>0c, <2>1
  <2>5. PresentInv'
    BY <1>0a, <2>1, <2>2 DEF PresentInv
  <2>. QED BY <2>3, <2>4, <2>5 DEF TempInv
<1>6. CASE \/ JoinKeywords \/ JoinRelevance \/ JoinDownloads \/ Report
           \/ \E k \in Keywords : Expire(k)
           \/ UNCHANGED vars
  <2>1. /\ UNCHANGED <<plan, job, offset, accepted, saved, item, temp>>
        /\ \A c \in faults : c \in faults'
    BY <1>6 DEF JoinKeywords, JoinRelevance, JoinDownloads, Report, Expire, vars
  <2>2. TornInv'
    BY <1>0, <1>0a, <1>0b, <2>1 DEF TornInv
  <2>3. SavedInv'
    BY <1>0c, <2>1
  <2>4. PresentInv'
    BY <1>0, <1>0a, <1>0b, <2>1 DEF PresentInv
  <2>. QED BY <2>2, <2>3, <2>4 DEF TempInv
<1>. QED
  BY <1>1, <1>2, <1>3, <1>4, <1>5, <1>6 DEF Next, Main, Terminated

-----------------------------------------------------------------------------
(* Why a run fails.                                                        *)

RaisedInv ==
  \A j \in Jobs :
    job[j] = "raised" =>
      \/ faults \cap {"database", "disk"} # {}
      \/ /\ plan.video /\ accepted[j] # <<>>
         /\ Shared(Content(Head(accepted[j])))

CauseInv == RaisedInv /\ FailsForACause

LEMMA CauseInductive ==
  Types /\ BatchInv /\ TempInv /\ CauseInv /\ [Next]_vars => CauseInv'
<1>. SUFFICES ASSUME Types, BatchInv, TempInv, CauseInv, [Next]_vars PROVE CauseInv'
  OBVIOUS
<1>0. /\ JobTypes /\ ItemTypes /\ HandInv /\ PresentInv /\ RaisedInv /\ FailsForACause
      /\ \A i \in Items : i[1] \in Jobs /\ Content(i) \in Contents
  BY SharedFacts DEF Types, BatchInv, TempInv, CauseInv
<1>0a. UNCHANGED plan => /\ \A i \in Items : Content(i)' = Content(i)
                         /\ \A c \in Contents : Shared(c)' <=> Shared(c)
  BY SharedFacts
<1>0b. \A j \in Jobs : accepted[j] # <<>> => Head(accepted[j]) \in Items
  BY <1>0 DEF JobTypes
<1>. USE DEF keeper, batch, caches, disk
<1>1. ASSUME NEW j \in Jobs, JobStep(j) PROVE CauseInv'
  <2>1. /\ UNCHANGED <<plan, failed>> /\ job[j] \notin {"raised", "finished"}
        /\ \A k \in Jobs \ {j} : /\ job'[k] = job[k] /\ accepted'[k] = accepted[k]
                                 /\ Collected(k)' = Collected(k)
        /\ \A c \in faults : c \in faults'
    BY <1>1, JobStepMoves, JobStepOwn, JobStepDisk DEF Active, Searching
  <2>2. job'[j] = "raised" => CacheBreaks(j) \/ SaveFails(j)
    <3>1. CASE Start(j) \/ Search(j) \/ OpenCache(j) \/ Connect(j) \/ LookUp(j) \/ Answer(j)
               \/ AskFails(j)
      <4>1. \E st \in {"search", "connect", "look", "ask", "batch"} :
              job' = [job EXCEPT ![j] = st]
        BY <3>1 DEF Start, Search, OpenCache, Connect, LookUp, Answer, AskFails, Found
      <4>. QED BY <1>0, <4>1 DEF JobTypes
    <3>2. CASE NextBatch(j) \/ JobEnds(j) \/ BatchLoaded(j) \/ TakeDone(j) \/ TakenAll(j)
               \/ NothingPending(j) \/ SavedAll(j) \/ BatchEnds(j)
      <4>1. \E st \in {"load", "finished", "judge", "take", "save", "clean", "batch"} :
              job' = [job EXCEPT ![j] = st]
        BY <3>2 DEF NextBatch, JobEnds, BatchLoaded, TakeDone, TakenAll, NothingPending,
                    SavedAll, BatchEnds
      <4>. QED BY <1>0, <4>1 DEF JobTypes
    <3>3. CASE \/ Save(j)
               \/ \E n \in 1..MaxCandidates :
                    SubmitItem(<<j, n>>) \/ TakeVerdict(<<j, n>>) \/ Unlink(<<j, n>>)
      <4>1. UNCHANGED job
        BY <3>3 DEF Save, SubmitItem, TakeVerdict, Unlink
      <4>. QED BY <2>1, <4>1
    <3>. QED BY <1>1, <3>1, <3>2, <3>3 DEF JobStep
  <2>3. ASSUME job'[j] = "raised"
        PROVE  \/ faults' \cap {"database", "disk"} # {}
               \/ /\ plan.video /\ accepted'[j] # <<>>
                  /\ Shared(Content(Head(accepted'[j])))
    <3>1. CASE CacheBreaks(j)
      BY <3>1 DEF CacheBreaks
    <3>2. CASE SaveFails(j)
      <4>1. UNCHANGED accepted /\ accepted[j] # <<>> /\ job[j] = "save"
        BY <3>2 DEF SaveFails
      <4>2. CASE Source(Head(accepted[j])) = "none"
        <5>1. LET i == Head(accepted[j])
              IN  i \in Items /\ i[1] = j /\ i[2] > offset[j] /\ item[i] = "accepted"
          BY <4>1, SaveChanges
        <5>2. plan.video /\ temp[Content(Head(accepted[j]))].is = "none"
          BY <4>2 DEF Source
        <5>3. temp[Content(Head(accepted[j]))] \in Files
          BY <1>0, <5>1 DEF Types, StoreTypes
        <5>4. temp[Content(Head(accepted[j]))] = NoFile
          BY <5>2, <5>3 DEF Files
        <5>5. Shared(Content(Head(accepted[j])))
          BY <1>0, <4>1, <5>1, <5>2, <5>4 DEF PresentInv, Present, InUse
        <5>. QED BY <4>1, <5>2, <5>5
      <4>3. CASE Source(Head(accepted[j])) # "none"
        BY <3>2, <4>3 DEF SaveFails
      <4>. QED BY <4>2, <4>3
    <3>. QED BY <2>2, <2>3, <3>1, <3>2
  <2>4. ASSUME NEW k \in Jobs, job'[k] = "raised"
        PROVE  \/ faults' \cap {"database", "disk"} # {}
               \/ /\ plan.video /\ accepted'[k] # <<>>
                  /\ Shared(Content(Head(accepted'[k])))
    <3>1. CASE k = j
      BY <2>3, <2>4, <3>1
    <3>2. CASE k # j
      BY <1>0, <2>1, <2>4, <3>2 DEF RaisedInv
    <3>. QED BY <3>1, <3>2
  <2>5. \A k \in Jobs : accepted'[k] # <<>> => Head(accepted'[k]) \in Items
    <3>1. accepted' \in [Jobs -> Seq(Items)]
      BY <1>1, TypesInductive DEF Types, JobTypes
    <3>. QED BY <3>1
  <2>6. RaisedInv'
    BY <1>0, <1>0a, <2>1, <2>4, <2>5 DEF RaisedInv
  <2>7. FailsForACause'
    <3>1. ASSUME failed
          PROVE  \/ faults' \cap {"database", "disk"} # {}
                 \/ \E k \in Jobs : job'[k] = "finished" /\ TooFew(k)'
                 \/ plan.video /\ \E k \in Jobs :
                      /\ job'[k] = "raised" /\ accepted'[k] # <<>>
                      /\ Shared(Content(Head(accepted'[k])))
      <4>1. CASE faults \cap {"database", "disk"} # {}
        BY <2>1, <4>1
      <4>2. ASSUME NEW k \in Jobs, job[k] = "finished", TooFew(k)
            PROVE  job'[k] = "finished" /\ TooFew(k)'
        BY <2>1, <4>2 DEF TooFew, Remaining
      <4>3. ASSUME NEW k \in Jobs, job[k] = "raised"
            PROVE  job'[k] = "raised" /\ accepted'[k] = accepted[k]
        BY <2>1, <4>3
      <4>. QED BY <1>0, <3>1, <4>1, <4>2, <4>3 DEF FailsForACause
    <3>. QED BY <1>0, <1>0a, <2>1, <2>5, <3>1 DEF FailsForACause
  <2>. QED BY <2>6, <2>7 DEF CauseInv
<1>2. ASSUME NEW k \in Items, Load(k) \/ Judge(k) PROVE CauseInv'
  <2>1. UNCHANGED <<plan, failed, job, accepted, saved>>
    BY <1>2, WorkerItems
  <2>2. \A c \in faults : c \in faults'
    BY <1>2 DEF Load, BeginLoad, Fetch, OpenTemp, CloseTemp, Probe, LoadFails, Judge,
                BeginJudge, Frames, Verdict, JudgeFails
  <2>3. \A j \in Jobs : TooFew(j)' <=> TooFew(j)
    BY <2>1 DEF TooFew, Remaining, Collected
  <2>4. RaisedInv'
    BY <1>0, <1>0a, <1>0b, <2>1, <2>2 DEF RaisedInv
  <2>5. FailsForACause'
    BY <1>0, <1>0a, <1>0b, <2>1, <2>2, <2>3 DEF FailsForACause
  <2>. QED BY <2>4, <2>5 DEF CauseInv
<1>3. ASSUME NEW j \in Jobs, Collect(j) PROVE CauseInv'
  <2>1. UNCHANGED <<plan, accepted, saved, faults>> /\ job[j] \in {"finished", "raised"}
    BY <1>3 DEF Collect
  <2>2. \A k \in Jobs : job'[k] = job[k] \/ (job[k] = "queued" /\ job'[k] = "cancelled")
    <3>1. \/ UNCHANGED job
          \/ job' = [k \in Jobs |-> IF job[k] = "queued" THEN "cancelled" ELSE job[k]]
      BY <1>3 DEF Collect
    <3>. QED BY <3>1
  <2>3. \A k \in Jobs : TooFew(k)' <=> TooFew(k)
    BY <2>1 DEF TooFew, Remaining, Collected
  <2>4. \A k \in Jobs : /\ job[k] = "finished" <=> job'[k] = "finished"
                        /\ job[k] = "raised" <=> job'[k] = "raised"
    BY <2>2
  <2>5. RaisedInv'
    BY <1>0, <1>0a, <1>0b, <2>1, <2>4 DEF RaisedInv
  <2>6. failed' = failed \/ job[j] = "raised" \/ TooFew(j)
    BY <1>3 DEF Collect
  <2>7. FailsForACause'
    <3>1. CASE failed' = failed
      BY <1>0, <1>0a, <1>0b, <2>1, <2>3, <2>4, <3>1 DEF FailsForACause
    <3>2. CASE job[j] = "raised"
      BY <1>0, <1>0a, <1>0b, <2>1, <2>4, <3>2 DEF FailsForACause, RaisedInv
    <3>3. CASE job[j] = "finished" /\ TooFew(j)
      BY <2>3, <2>4, <3>3 DEF FailsForACause
    <3>. QED BY <2>1, <2>6, <3>1, <3>2, <3>3
  <2>. QED BY <2>5, <2>7 DEF CauseInv
<1>4. CASE Report
  <2>1. UNCHANGED <<plan, job, accepted, saved>>
    BY <1>4 DEF Report
  <2>2. \/ UNCHANGED <<failed, faults>>
        \/ "disk" \in faults'
    BY <1>4 DEF Report
  <2>3. \A j \in Jobs : TooFew(j)' <=> TooFew(j)
    BY <2>1 DEF TooFew, Remaining, Collected
  <2>4. RaisedInv'
    BY <1>0, <1>0a, <1>0b, <2>1, <2>2 DEF RaisedInv
  <2>5. FailsForACause'
    BY <1>0, <1>0a, <1>0b, <2>1, <2>2, <2>3 DEF FailsForACause
  <2>. QED BY <2>4, <2>5 DEF CauseInv
<1>5. CASE \/ JoinKeywords \/ JoinRelevance \/ JoinDownloads \/ Close
           \/ \E k \in Keywords : Expire(k)
           \/ UNCHANGED vars
  <2>1. UNCHANGED <<plan, failed, job, accepted, saved, faults>>
    <3>1. CASE JoinKeywords \/ JoinRelevance \/ JoinDownloads \/ Close
      BY <3>1 DEF JoinKeywords, JoinRelevance, JoinDownloads, Close
    <3>2. CASE (\E k \in Keywords : Expire(k)) \/ UNCHANGED vars
      BY <3>2 DEF Expire, vars
    <3>. QED BY <1>5, <3>1, <3>2
  <2>2. \A j \in Jobs : TooFew(j)' <=> TooFew(j)
    BY <2>1 DEF TooFew, Remaining, Collected
  <2>3. RaisedInv'
    BY <1>0, <1>0a, <1>0b, <2>1 DEF RaisedInv
  <2>4. FailsForACause'
    BY <1>0, <1>0a, <1>0b, <2>1, <2>2 DEF FailsForACause
  <2>. QED BY <2>3, <2>4 DEF CauseInv
<1>. QED
  BY <1>1, <1>2, <1>3, <1>4, <1>5 DEF Next, Main, Terminated

-----------------------------------------------------------------------------
(* How many files a job saves, and how many connections there are.         *)

CountInv ==
  \A j \in Jobs :
    LET n == Cardinality(Collected(j)) IN
    /\ n <= Needed
    /\ job[j] \in {"load", "take"} => n < Needed
    /\ job[j] = "judge" => n + Len(accepted[j]) < Needed
    /\ job[j] = "save" => n + Len(accepted[j]) <= Needed

LEMMA CountFacts ==
  ASSUME Types
  PROVE  \A j \in Jobs : /\ Cardinality(Collected(j)) \in Nat
                         /\ Cardinality(Collected(j))' \in Nat
                         /\ IsFiniteSet(Collected(j))
                         /\ Remaining(j) = Needed - Cardinality(Collected(j))
                         /\ Len(accepted[j]) \in Nat
<1>1. \A j \in Jobs : Len(accepted[j]) \in Nat
  BY DEF Types, JobTypes
<1>2. \A j \in Jobs : Collected(j) \in SUBSET Items /\ Collected(j)' \in SUBSET Items
  BY DEF Collected
<1>3. \A j \in Jobs : /\ Cardinality(Collected(j)) \in Nat /\ IsFiniteSet(Collected(j))
                      /\ Cardinality(Collected(j)') \in Nat
  BY <1>2, ItemsFinite
<1>. QED BY <1>1, <1>3 DEF Remaining

LEMMA CountInductive == Types /\ BatchInv /\ CountInv /\ [Next]_vars => CountInv'
<1>. SUFFICES ASSUME Types, BatchInv, CountInv, [Next]_vars PROVE CountInv'
  OBVIOUS
<1>0. JobTypes /\ ItemTypes /\ HandInv /\ Needed \in Nat \ {0}
  BY Counts DEF Types, BatchInv
<1>. DEFINE N(j) == Cardinality(Collected(j))
            Fits(j) == /\ N(j) <= Needed
                       /\ job[j] \in {"load", "take"} => N(j) < Needed
                       /\ job[j] = "judge" => N(j) + Len(accepted[j]) < Needed
                       /\ job[j] = "save" => N(j) + Len(accepted[j]) <= Needed
<1>0a. \A j \in Jobs : Fits(j)
  BY DEF CountInv
<1>0b. \A j \in Jobs : N(j) \in Nat /\ Len(accepted[j]) \in Nat
                       /\ Remaining(j) = Needed - N(j)
  BY CountFacts
<1>. USE DEF keeper, batch, caches, disk
<1>1. ASSUME NEW j \in Jobs, JobStep(j) PROVE CountInv'
  <2>1. \A k \in Jobs \ {j} : /\ job'[k] = job[k] /\ accepted'[k] = accepted[k]
                              /\ Collected(k)' = Collected(k)
    BY <1>1, JobStepOwn
  <2>2. \A k \in Jobs \ {j} : Fits(k)'
    BY <1>0a, <2>1
  <2>3. ~Save(j) /\ ~SaveFails(j) => N(j)' = N(j)
    BY <1>1, JobStepOwn
  <2>3a. ASSUME Save(j) \/ SaveFails(j) PROVE N(j)' <= N(j) + 1 /\ N(j)' \in Nat
    <3>0. accepted[j] # <<>>
      BY <2>3a DEF Save, SaveFails
    <3>1. Collected(j)' \subseteq Collected(j) \cup {Head(accepted[j])}
      BY <2>3a, <3>0, SaveChanges DEF Collected
    <3>2. /\ IsFiniteSet(Collected(j) \cup {Head(accepted[j])})
          /\ Cardinality(Collected(j) \cup {Head(accepted[j])}) \in {N(j), N(j) + 1}
      BY CountFacts, FS_AddElement
    <3>3. Cardinality(Collected(j)') <= Cardinality(Collected(j) \cup {Head(accepted[j])})
      BY <3>1, <3>2, FS_Subset
    <3>4. Cardinality(Collected(j)') \in Nat /\ N(j) \in Nat
      BY CountFacts
    <3>. QED BY <3>2, <3>3, <3>4
  <2>4. Fits(j)'
    <3>1. CASE Start(j) \/ Search(j) \/ OpenCache(j) \/ Connect(j) \/ LookUp(j) \/ Answer(j)
               \/ AskFails(j) \/ CacheBreaks(j) \/ JobEnds(j)
               \/ SavedAll(j) \/ BatchEnds(j)
      <4>1. \E st \in JobStates \ {"load", "take", "judge", "save"} :
              job' = [job EXCEPT ![j] = st]
        BY <3>1, States
           DEF Start, Search, OpenCache, Connect, LookUp, Answer, AskFails,
               CacheBreaks, JobEnds, SavedAll, BatchEnds, Found
      <4>2. N(j)' = N(j)
        <5>1. UNCHANGED saved
          BY <3>1 DEF Start, Search, OpenCache, Connect, LookUp, Answer, AskFails,
                 CacheBreaks, JobEnds, SavedAll, BatchEnds
        <5>. QED BY <5>1 DEF Collected
      <4>. QED BY <1>0, <1>0a, <4>1, <4>2 DEF JobTypes
    <3>2. CASE NextBatch(j)
      <4>1. job'[j] = "load" /\ Remaining(j) > 0 /\ N(j)' = N(j)
        BY <1>0, <2>3, <3>2 DEF NextBatch, Save, SaveFails, JobTypes
      <4>. QED BY <1>0, <1>0a, <1>0b, <4>1
    <3>3. CASE BatchLoaded(j)
      <4>1. job[j] = "load" /\ job'[j] = "judge" /\ UNCHANGED accepted /\ N(j)' = N(j)
        BY <1>0, <2>3, <3>3 DEF BatchLoaded, Save, SaveFails, JobTypes
      <4>2. Len(accepted[j]) = 0
        BY <1>0, <4>1 DEF HandInv, NothingInHand
      <4>. QED BY <1>0, <1>0a, <1>0b, <4>1, <4>2
    <3>4. CASE TakeDone(j)
      <4>1. job[j] = "judge" /\ job'[j] = "take" /\ UNCHANGED accepted /\ N(j)' = N(j)
        BY <1>0, <2>3, <3>4 DEF TakeDone, Save, SaveFails, JobTypes
      <4>. QED BY <1>0, <1>0a, <1>0b, <4>1
    <3>5. CASE TakenAll(j)
      <4>1. job[j] = "take" /\ N(j)' = N(j) /\ N(j) < Needed
        BY <1>0, <1>0a, <2>3, <3>5 DEF TakenAll, Save, SaveFails
      <4>2. CASE Len(accepted[j]) >= Remaining(j)
        <5>1. /\ job'[j] = "save"
              /\ accepted'[j] = SubSeq(accepted[j], 1, Remaining(j))
              /\ accepted[j] \in Seq(Items)
          BY <1>0, <3>5, <4>2 DEF TakenAll, JobTypes
        <5>2. Remaining(j) \in Nat
          BY <1>0, <1>0b, <4>1
        <5>3. Len(accepted'[j]) = Remaining(j)
          BY <1>0b, <4>2, <5>1, <5>2
        <5>. QED BY <1>0, <1>0b, <4>1, <5>1, <5>3
      <4>3. CASE ~(Len(accepted[j]) >= Remaining(j))
        <5>1. job'[j] = "judge" /\ UNCHANGED accepted
          BY <1>0, <3>5, <4>3 DEF TakenAll, JobTypes
        <5>. QED BY <1>0, <1>0b, <4>1, <4>3, <5>1
      <4>. QED BY <4>2, <4>3
    <3>6. CASE NothingPending(j)
      <4>1. job[j] = "judge" /\ job'[j] = "save" /\ UNCHANGED accepted /\ N(j)' = N(j)
        BY <1>0, <2>3, <3>6 DEF NothingPending, Save, SaveFails, JobTypes
      <4>. QED BY <1>0, <1>0a, <1>0b, <4>1
    <3>7. CASE Save(j)
      <4>1. /\ job[j] = "save" /\ UNCHANGED job /\ accepted[j] # <<>>
            /\ accepted[j] \in Seq(Items) /\ accepted'[j] = Tail(accepted[j])
        BY <1>0, <3>7 DEF Save, JobTypes
      <4>2. Len(accepted'[j]) = Len(accepted[j]) - 1
        BY <4>1, TailFacts
      <4>3. N(j)' <= N(j) + 1 /\ N(j)' \in Nat
        BY <2>3a, <3>7
      <4>. QED BY <1>0, <1>0a, <1>0b, <4>1, <4>2, <4>3
    <3>8. ASSUME NEW n \in 1..MaxCandidates, SubmitItem(<<j, n>>) \/ Unlink(<<j, n>>)
          PROVE  Fits(j)'
      <4>1. UNCHANGED <<job, accepted, saved>>
        BY <3>8 DEF SubmitItem, Unlink
      <4>2. N(j)' = N(j)
        BY <4>1 DEF Collected
      <4>. QED BY <1>0a, <4>1, <4>2
    <3>9. ASSUME NEW n \in 1..MaxCandidates, TakeVerdict(<<j, n>>) PROVE Fits(j)'
      <4>1. UNCHANGED <<job, saved>> /\ job[j] = "take"
        BY <3>9 DEF TakeVerdict
      <4>2. N(j)' = N(j)
        BY <4>1 DEF Collected
      <4>. QED BY <1>0a, <4>1, <4>2
    <3>10. CASE SaveFails(j)
      <4>1. /\ job[j] = "save" /\ job'[j] = "raised" /\ accepted[j] # <<>>
            /\ accepted[j] \in Seq(Items)
        BY <1>0, <3>10 DEF SaveFails, JobTypes
      <4>2. Len(accepted[j]) >= 1
        BY <4>1
      <4>3. N(j)' <= N(j) + 1 /\ N(j)' \in Nat
        BY <2>3a, <3>10
      <4>. QED BY <1>0, <1>0a, <1>0b, <4>1, <4>2, <4>3
    <3>. QED
      BY <1>1, <3>1, <3>2, <3>3, <3>4, <3>5, <3>6, <3>7, <3>8, <3>9, <3>10 DEF JobStep
  <2>. QED BY <2>2, <2>4 DEF CountInv
<1>2. ASSUME NEW k \in Items, Load(k) \/ Judge(k) PROVE CountInv'
  <2>1. UNCHANGED <<job, accepted, saved>>
    BY <1>2, WorkerItems
  <2>. QED BY <1>0a, <2>1 DEF CountInv, Collected
<1>3. ASSUME NEW j \in Jobs, Collect(j) PROVE CountInv'
  <2>1. UNCHANGED <<accepted, saved>>
    BY <1>3 DEF Collect
  <2>2. \A k \in Jobs : job'[k] = job[k] \/ (job[k] = "queued" /\ job'[k] = "cancelled")
    <3>1. \/ UNCHANGED job
          \/ job' = [k \in Jobs |-> IF job[k] = "queued" THEN "cancelled" ELSE job[k]]
      BY <1>3 DEF Collect
    <3>. QED BY <3>1
  <2>3. \A k \in Jobs : N(k)' = N(k)
    BY <2>1 DEF Collected
  <2>4. \A k \in Jobs : Fits(k)'
    BY <1>0a, <2>1, <2>2, <2>3
  <2>. QED BY <2>4 DEF CountInv
<1>4. CASE \/ JoinKeywords \/ JoinRelevance \/ JoinDownloads \/ Report \/ Close
           \/ \E k \in Keywords : Expire(k)
           \/ UNCHANGED vars
  <2>1. UNCHANGED <<job, accepted, saved>>
    <3>1. CASE JoinKeywords \/ JoinRelevance \/ JoinDownloads \/ Report \/ Close
      BY <3>1 DEF JoinKeywords, JoinRelevance, JoinDownloads, Report, Close
    <3>2. CASE (\E k \in Keywords : Expire(k)) \/ UNCHANGED vars
      BY <3>2 DEF Expire, vars
    <3>. QED BY <1>4, <3>1, <3>2
  <2>. QED BY <1>0a, <2>1 DEF CountInv, Collected
<1>. QED
  BY <1>1, <1>2, <1>3, <1>4 DEF Next, Main, Terminated

Connecting == {j \in Jobs : job[j] = "connect"}
Running == {j \in Jobs : job[j] \in Active}

ConnInv ==
  /\ Cardinality(Running) <= KeywordWorkers
  /\ conns + Cardinality(Connecting) <= KeywordWorkers

LEMMA ConnInductive == Types /\ ConnInv /\ [Next]_vars => ConnInv'
<1>. SUFFICES ASSUME Types, ConnInv, [Next]_vars PROVE ConnInv'
  OBVIOUS
<1>0. JobTypes /\ KeywordWorkers \in Nat /\ conns \in Nat
  BY Counts DEF Types, StoreTypes
<1>0a. /\ IsFiniteSet(Running) /\ Cardinality(Running) \in Nat
       /\ IsFiniteSet(Running') /\ Cardinality(Running') \in Nat
       /\ IsFiniteSet(Connecting) /\ Cardinality(Connecting) \in Nat
       /\ IsFiniteSet(Connecting') /\ Cardinality(Connecting') \in Nat
       /\ Connecting' \subseteq Running'
  <2>1. /\ Running \in SUBSET Jobs /\ Running' \in SUBSET Jobs
        /\ Connecting \in SUBSET Jobs /\ Connecting' \in SUBSET Jobs
    BY DEF Running, Connecting
  <2>2. Connecting' \subseteq Running'
    BY DEF Running, Connecting, Active, Searching
  <2>. QED BY <2>1, <2>2, ItemsFinite
<1>0b. \A S, T : IsFiniteSet(T) /\ S \subseteq T => Cardinality(S) <= Cardinality(T)
  BY FS_Subset
<1>. USE DEF keeper, batch, caches, disk
<1>1. ASSUME NEW j \in Jobs, JobStep(j) PROVE ConnInv'
  <2>1. /\ \A k \in Jobs \ {j} : job'[k] = job[k]
        /\ job[j] \in Active \/ job[j] = "queued"
    BY <1>0, <1>1, JobStepMoves DEF JobTypes
  <2>2. Cardinality(Running') <= KeywordWorkers
    <3>1. CASE job[j] \in Active
      <4>1. Running' \subseteq Running
        BY <2>1, <3>1 DEF Running
      <4>. QED BY <1>0, <1>0a, <1>0b, <4>1 DEF ConnInv
    <3>2. CASE job[j] = "queued"
      <4>1. Start(j)
        BY <1>1, <3>2
           DEF JobStep, Search, OpenCache, Connect, LookUp, Answer, AskFails,
               CacheBreaks, NextBatch, JobEnds, BatchLoaded, TakeDone, TakenAll,
               NothingPending, Save, SaveFails, SavedAll, BatchEnds, SubmitItem,
               TakeVerdict, Unlink
      <4>2. Cardinality(Running) < KeywordWorkers
        BY <4>1 DEF Start, Running
      <4>3. Running' \subseteq Running \cup {j}
        BY <2>1 DEF Running
      <4>4. /\ IsFiniteSet(Running \cup {j})
            /\ Cardinality(Running \cup {j}) \in {Cardinality(Running), Cardinality(Running) + 1}
        BY <1>0a, FS_AddElement
      <4>5. Cardinality(Running') <= Cardinality(Running \cup {j})
        BY <1>0b, <4>3, <4>4
      <4>. QED BY <1>0, <1>0a, <4>2, <4>4, <4>5
    <3>. QED BY <2>1, <3>1, <3>2
  <2>3. conns' + Cardinality(Connecting') <= KeywordWorkers
    <3>1. CASE OpenCache(j)
      <4>1. UNCHANGED conns
        BY <3>1 DEF OpenCache
      <4>2. CASE conns = 0
        <5>1. Cardinality(Connecting') <= Cardinality(Running')
          BY <1>0a, <1>0b
        <5>. QED BY <1>0, <1>0a, <2>2, <4>1, <4>2, <5>1
      <4>3. CASE conns # 0
        <5>1. Connecting' \subseteq Connecting
          BY <1>0, <2>1, <3>1, <4>3 DEF OpenCache, Connecting, JobTypes
        <5>. QED BY <1>0, <1>0a, <1>0b, <4>1, <5>1 DEF ConnInv
      <4>. QED BY <4>2, <4>3
    <3>2. CASE Connect(j)
      <4>1. conns' = conns + 1 /\ job[j] = "connect" /\ job'[j] = "look"
        BY <1>0, <3>2 DEF Connect, JobTypes
      <4>2. Connecting' \subseteq Connecting \ {j} /\ j \in Connecting
        BY <2>1, <4>1 DEF Connecting
      <4>3. /\ IsFiniteSet(Connecting \ {j})
            /\ Cardinality(Connecting \ {j}) = Cardinality(Connecting) - 1
        BY <1>0a, <4>2, FS_RemoveElement
      <4>4. Cardinality(Connecting') <= Cardinality(Connecting \ {j})
        BY <1>0b, <4>2, <4>3
      <4>. QED BY <1>0, <1>0a, <4>1, <4>3, <4>4 DEF ConnInv
    <3>3. CASE ~OpenCache(j) /\ ~Connect(j)
      <4>1. UNCHANGED conns
        BY <1>1, <3>3
           DEF JobStep, Start, Search, LookUp, Answer, AskFails, CacheBreaks, NextBatch,
               JobEnds, BatchLoaded, TakeDone, TakenAll, NothingPending, Save, SaveFails,
               SavedAll, BatchEnds, SubmitItem, TakeVerdict, Unlink
      <4>2. job'[j] = "connect" => job[j] = "connect"
        <5>1. CASE Start(j) \/ Search(j) \/ LookUp(j) \/ Answer(j) \/ AskFails(j)
                   \/ CacheBreaks(j)
          <6>1. \E st \in {"search", "ask", "batch", "raised"} : job' = [job EXCEPT ![j] = st]
            BY <5>1 DEF Start, Search, LookUp, Answer, AskFails, CacheBreaks, Found
          <6>. QED BY <1>0, <6>1 DEF JobTypes
        <5>2. CASE NextBatch(j) \/ JobEnds(j) \/ BatchLoaded(j) \/ TakeDone(j) \/ TakenAll(j)
                   \/ NothingPending(j) \/ SaveFails(j) \/ SavedAll(j) \/ BatchEnds(j)
          <6>1. \E st \in {"load", "finished", "judge", "take", "save", "raised", "clean",
                           "batch"} : job' = [job EXCEPT ![j] = st]
            BY <5>2 DEF NextBatch, JobEnds, BatchLoaded, TakeDone, TakenAll,
                        NothingPending, SaveFails, SavedAll, BatchEnds
          <6>. QED BY <1>0, <6>1 DEF JobTypes
        <5>3. CASE \/ Save(j)
                   \/ \E n \in 1..MaxCandidates :
                        SubmitItem(<<j, n>>) \/ TakeVerdict(<<j, n>>) \/ Unlink(<<j, n>>)
          BY <5>3 DEF Save, SubmitItem, TakeVerdict, Unlink
        <5>. QED BY <1>1, <3>3, <5>1, <5>2, <5>3 DEF JobStep
      <4>3. Connecting' \subseteq Connecting
        BY <2>1, <4>2 DEF Connecting
      <4>. QED BY <1>0, <1>0a, <1>0b, <4>1, <4>3 DEF ConnInv
    <3>. QED BY <3>1, <3>2, <3>3
  <2>. QED BY <2>2, <2>3 DEF ConnInv
<1>2. ASSUME UNCHANGED conns,
             \A k \in Jobs : job'[k] = job[k] \/ (job[k] = "queued" /\ job'[k] = "cancelled")
      PROVE  ConnInv'
  <2>1. Running' \subseteq Running /\ Connecting' \subseteq Connecting
    BY <1>2 DEF Running, Connecting, Active, Searching
  <2>. QED BY <1>0, <1>0a, <1>0b, <1>2, <2>1 DEF ConnInv
<1>3. ASSUME NEW k \in Items, Load(k) \/ Judge(k) PROVE ConnInv'
  <2>1. UNCHANGED <<job, conns>>
    BY <1>3, WorkerItems DEF Load, BeginLoad, Fetch, OpenTemp, CloseTemp, Probe,
         LoadFails, Judge, BeginJudge, Frames, Verdict, JudgeFails
  <2>. QED BY <1>2, <2>1
<1>4. ASSUME NEW j \in Jobs, Collect(j) PROVE ConnInv'
  <2>1. UNCHANGED conns
    BY <1>4 DEF Collect
  <2>2. \/ UNCHANGED job
        \/ job' = [k \in Jobs |-> IF job[k] = "queued" THEN "cancelled" ELSE job[k]]
    BY <1>4 DEF Collect
  <2>3. \A k \in Jobs : job'[k] = job[k] \/ (job[k] = "queued" /\ job'[k] = "cancelled")
    BY <2>2
  <2>. QED BY <1>2, <2>1, <2>3
<1>5. CASE \/ JoinKeywords \/ JoinRelevance \/ JoinDownloads \/ Report \/ Close
           \/ \E k \in Keywords : Expire(k)
           \/ UNCHANGED vars
  <2>1. UNCHANGED <<job, conns>>
    BY <1>5 DEF JoinKeywords, JoinRelevance, JoinDownloads, Report, Close, Expire, vars
  <2>. QED BY <1>2, <2>1
<1>. QED
  BY <1>1, <1>3, <1>4, <1>5 DEF Next, Main, Terminated

-----------------------------------------------------------------------------
(* The invariant, and what follows from it.                                *)

IInv ==
  Types /\ PoolInv /\ BatchInv /\ TempInv /\ CauseInv /\ CountInv /\ ConnInv

LEMMA Initially == Init => IInv
<1>. SUFFICES ASSUME Init PROVE IInv
  OBVIOUS
<1>. USE DEF Init
<1>1. Types
  <2>1. MainTypes /\ JobTypes /\ ItemTypes
    <3>1. 0 \in 0..MaxCandidates /\ 0 \in 0..Retries
      BY Counts
    <3>2. MainTypes
      BY DEF MainTypes, Mains
    <3>3. JobTypes
      BY <3>1, States DEF JobTypes
    <3>4. ItemTypes
      BY <3>1, States DEF ItemTypes
    <3>. QED BY <3>2, <3>3, <3>4
  <2>2. StoreTypes
    BY DEF StoreTypes, Files
  <2>. QED BY <2>1, <2>2 DEF Types
<1>2. PoolInv /\ BatchInv /\ CauseInv
  BY DEF PoolInv, BatchInv, AheadInv, HandInv, SeenInv, CauseInv, RaisedInv,
         FailsForACause
<1>3. TempInv
  BY <1>1, SharedFacts DEF TempInv, TornInv, SavedInv, PresentInv, NoFile, Present,
         Judged, Judging
<1>4. CountInv
  <2>1. \A j \in Jobs : Collected(j) = {}
    BY DEF Collected
  <2>2. \A j \in Jobs : Cardinality(Collected(j)) = 0 /\ job[j] = "queued"
    BY <2>1, FS_EmptySet
  <2>. QED BY <2>2, Counts DEF CountInv
<1>5. ConnInv
  <2>1. Running = {} /\ Connecting = {}
    BY DEF Running, Connecting, Active, Searching
  <2>. QED BY <2>1, FS_EmptySet, Counts DEF ConnInv
<1>. QED BY <1>1, <1>2, <1>3, <1>4, <1>5 DEF IInv

\* The seven parts of the invariant hold in every state of a run.
THEOREM FetchInvariant == Spec => []IInv
<1>1. Init => IInv
  BY Initially
<1>2. IInv /\ [Next]_vars => IInv'
  BY TypesInductive, PoolInductive, BatchInductive, TempInductive, CauseInductive,
     CountInductive, ConnInductive
     DEF IInv
<1>. QED BY <1>1, <1>2, PTL DEF Spec

\* The state of a run has its types: no job of a keyword saves more files than
\* it wants, and the race of the jobs to open the search cache makes no more
\* connections than there are workers.
THEOREM FetchTypes == Spec => []TypeOK
<1>1. IInv => TypeOK
  <2>. SUFFICES ASSUME IInv PROVE TypeOK
    OBVIOUS
  <2>1. MainTypes /\ JobTypes /\ ItemTypes /\ StoreTypes /\ CountInv
    BY DEF IInv, Types
  <2>2. conns \in 0..KeywordWorkers
    <3>1. conns \in Nat /\ KeywordWorkers \in Nat
      BY <2>1, Counts DEF StoreTypes
    <3>2. Connecting \in SUBSET Jobs
      BY DEF Connecting
    <3>3. Cardinality(Connecting) \in Nat
      BY <3>2, ItemsFinite
    <3>. QED BY <3>1, <3>3 DEF IInv, ConnInv
  <2>. QED
    BY <2>1, <2>2
       DEF TypeOK, MainTypes, JobTypes, ItemTypes, StoreTypes, JobStates, ItemStates,
           Mains, CountInv
<1>. QED BY <1>1, FetchInvariant, PTL

\* No content is saved twice, and what is in the run directory is whole unless its
\* temporary file was shared with another candidate or its write broke, or the disk
\* failed under it and its job raised with it in hand.
THEOREM SavesSoundFiles == Spec => []SavedFilesAreSound
<1>1. IInv => SavedFilesAreSound
  BY DEF IInv, BatchInv, SeenInv, TempInv, SavedInv, SavedFilesAreSound
<1>. QED BY <1>1, FetchInvariant, PTL

\* A run fails for a cause of the four: neither providers nor downloads,
\* time-outs or the model are one.
THEOREM FailsOnlyForACause == Spec => []FailsForACause
<1>1. IInv => FailsForACause
  BY DEF IInv, CauseInv
<1>. QED BY <1>1, FetchInvariant, PTL

\* A pool that is left gets no more work, and nothing uses the caches or the
\* temporary directory once they are gone.
THEOREM PoolsAreLeftIdle == Spec => []NothingUsedAfterClose
<1>1. IInv => NothingUsedAfterClose
  BY DEF IInv, PoolInv, NothingUsedAfterClose, Busy
<1>. QED BY <1>1, FetchInvariant, PTL
-----------------------------------------------------------------------------
(* No step is waited for that cannot come. The guards of the steps that     *)
(* Fairness forces are written out as conditions on the state.              *)

JobCanGoOn(j) ==
  \/ /\ job[j] = "queued" /\ \A k \in Jobs : k < j => job[k] # "queued"
     /\ Cardinality({k \in Jobs : job[k] \in Active}) < KeywordWorkers
  \/ job[j] \in Searching \cup {"save"}
  \/ /\ job[j] = "batch"
     /\ offset[j] >= found[j] \/ Remaining(j) = 0
          \/ (offset[j] < found[j] /\ Remaining(j) > 0)
  \/ job[j] = "load" /\ \A i \in InBatch(j) : item[i] \in {"loaded", "failed"}
  \/ /\ job[j] = "judge"
     /\ MaySubmit(j) \/ Pending(j) = {} \/ \E i \in Pending(j) : item[i] \in Judged
  \/ /\ job[j] \in {"take", "clean"}
     /\ hand[j] = {} \/ \E n \in 1..MaxCandidates : <<j, n>> \in hand[j]

LoadCanGoOn(i) ==
  \/ /\ item[i] = "queued" /\ \A n \in 1..(i[2] - 1) : item[<<i[1], n>>] # "queued"
     /\ Cardinality({k \in Items : item[k] \in Loading}) < DownloadWorkers
  \/ item[i] \in Loading

JudgeCanGoOn(i) ==
  \/ /\ item[i] = "waiting"
     /\ Cardinality({k \in Items : item[k] \in Judging}) < RelevanceWorkers
  \/ item[i] \in Judging

MainCanGoOn ==
  \/ /\ main = "collect"
     /\ \E j \in Jobs : job[j] \in {"finished", "raised"} /\ j \notin results
  \/ main = "keywords" /\ \A j \in Jobs : job[j] \notin Active
  \/ main = "relevance" /\ ~Busy({"waiting"} \cup Judging)
  \/ main = "downloads" /\ ~Busy({"queued"} \cup Loading)
  \/ main \in {"report", "close"}

NeverStuck ==
  main # "closed" =>
    \/ MainCanGoOn
    \/ \E j \in Jobs : JobCanGoOn(j)
    \/ \E i \in Items : LoadCanGoOn(i) \/ JudgeCanGoOn(i)

\* What main and the jobs wait for is still to come.
WaitInv ==
  /\ main = "collect" => results # Jobs
  /\ \A j \in Jobs : job[j] = "cancelled" => main # "collect"
  /\ \A j \in Jobs : \A i \in hand[j] : i[1] = j
  /\ \A j \in Jobs : job[j] = "load" =>
       \A i \in InBatch(j) : item[i] \in {"queued", "loaded", "failed"} \cup Loading

LEMMA BatchItems ==
  ASSUME Types, NEW j \in Jobs
  PROVE  InBatch(j) \subseteq Items /\ \A i \in InBatch(j) : i[1] = j
<1>1. offset[j] \in Nat /\ found[j] \in 0..MaxCandidates /\ plan.batchSize \in Nat
  BY PlanFacts DEF Types, MainTypes, JobTypes
<1>2. (offset[j] + 1)..Least(offset[j] + plan.batchSize, found[j]) \subseteq 1..MaxCandidates
  BY <1>1, Counts DEF Least
<1>. QED BY <1>2 DEF InBatch, Items

\* A job takes in hand what is of its batch, and moves no candidate of another.
LEMMA JobStepHand ==
  ASSUME Types, BatchInv, NEW j \in Jobs, JobStep(j)
  PROVE  /\ \A k \in Jobs \ {j} : hand'[k] = hand[k] /\ InBatch(k)' = InBatch(k)
         /\ hand'[j] \subseteq hand[j] \cup InBatch(j)
         /\ \A i \in Items : i[1] # j => item'[i] = item[i]
<1>0. JobTypes /\ ItemTypes /\ plan.batchSize \in Nat
  BY PlanFacts DEF Types, MainTypes
<1>0a. Pending(j) \subseteq InBatch(j) /\ \A i \in InBatch(j) : i[1] = j
  BY DEF Pending, InBatch
<1>. USE DEF batch
<1>1. CASE \/ Start(j) \/ OpenCache(j) \/ Connect(j) \/ CacheBreaks(j) \/ JobEnds(j)
           \/ BatchLoaded(j) \/ NothingPending(j) \/ SaveFails(j)
  BY <1>1 DEF Start, OpenCache, Connect, CacheBreaks, JobEnds, BatchLoaded,
              NothingPending, SaveFails, InBatch
<1>2. CASE Search(j) \/ LookUp(j) \/ Answer(j) \/ AskFails(j)
  <2>1. \/ UNCHANGED found
        \/ \E n \in 0..plan.upTo[j] : found' = [found EXCEPT ![j] = n]
        \/ found' = [found EXCEPT ![j] = searched[plan.keyword[j]]]
    BY <1>2 DEF Search, LookUp, Answer, AskFails, Found
  <2>2. UNCHANGED <<plan, offset, hand, item>>
    BY <1>2 DEF Search, LookUp, Answer, AskFails
  <2>. QED BY <1>0, <2>1, <2>2 DEF InBatch, JobTypes
<1>3. CASE NextBatch(j)
  BY <1>0, <1>0a, <1>3 DEF NextBatch, InBatch, ItemTypes
<1>4. CASE TakeDone(j) \/ SavedAll(j)
  <2>1. /\ \E S \in SUBSET InBatch(j) : hand' = [hand EXCEPT ![j] = S]
        /\ UNCHANGED <<plan, found, offset, item>>
    <3>1. CASE TakeDone(j)
      BY <1>0a, <3>1 DEF TakeDone
    <3>2. CASE SavedAll(j)
      BY <3>2 DEF SavedAll
    <3>. QED BY <1>4, <3>1, <3>2
  <2>. QED BY <1>0, <2>1 DEF InBatch, JobTypes
<1>5. CASE TakenAll(j)
  <2>1. /\ UNCHANGED <<plan, found, offset, hand>>
        /\ \/ UNCHANGED item
           \/ item' = [i \in Items |-> IF i \in Pending(j) /\ item[i] = "waiting"
                                       THEN "dropped" ELSE item[i]]
    BY <1>5 DEF TakenAll
  <2>. QED BY <1>0a, <2>1 DEF InBatch
<1>6. CASE Save(j)
  BY <1>6 DEF Save, InBatch
<1>7. CASE BatchEnds(j)
  BY <1>0, <1>7 DEF BatchEnds, InBatch, JobTypes
<1>8. ASSUME NEW n \in 1..MaxCandidates,
             SubmitItem(<<j, n>>) \/ TakeVerdict(<<j, n>>) \/ Unlink(<<j, n>>)
      PROVE  /\ \A k \in Jobs \ {j} : hand'[k] = hand[k] /\ InBatch(k)' = InBatch(k)
             /\ hand'[j] \subseteq hand[j]
             /\ \A i \in Items : i[1] # j => item'[i] = item[i]
  <2>1. UNCHANGED <<plan, found, offset>>
    BY <1>8 DEF SubmitItem, TakeVerdict, Unlink
  <2>2. UNCHANGED hand \/ hand' = [hand EXCEPT ![j] = hand[j] \ {<<j, n>>}]
    BY <1>8 DEF SubmitItem, TakeVerdict, Unlink
  <2>3. UNCHANGED item \/ \E st : item' = [item EXCEPT ![<<j, n>>] = st]
    BY <1>8 DEF SubmitItem, TakeVerdict, Unlink
  <2>. QED BY <1>0, <2>1, <2>2, <2>3 DEF InBatch, JobTypes, ItemTypes
<1>. QED
  BY <1>1, <1>2, <1>3, <1>4, <1>5, <1>6, <1>7, <1>8 DEF JobStep

LEMMA WaitStays == IInv /\ WaitInv /\ [Next]_vars => WaitInv'
<1>. SUFFICES ASSUME IInv, WaitInv, [Next]_vars PROVE WaitInv'
  OBVIOUS
<1>0. Types /\ BatchInv /\ JobTypes /\ ItemTypes
  BY DEF IInv, Types
<1>. USE DEF WaitInv
<1>1. ASSUME NEW j \in Jobs, JobStep(j) PROVE WaitInv'
  <2>1. /\ UNCHANGED <<main, results>>
        /\ job'[j] # "cancelled"
        /\ \A k \in Jobs \ {j} : job'[k] = job[k]
    BY <1>0, <1>1, JobStepMoves DEF keeper, JobTypes
  <2>2. \A k \in Jobs : \A i \in hand'[k] : i[1] = k
    <3>1. \A i \in InBatch(j) : i[1] = j
      BY DEF InBatch
    <3>. QED BY <1>0, <1>1, <3>1, JobStepHand
  <2>3. ASSUME NEW k \in Jobs, job'[k] = "load"
        PROVE  \A i \in InBatch(k)' : item'[i] \in {"queued", "loaded", "failed"} \cup Loading
    <3>1. InBatch(k) \subseteq Items /\ \A i \in InBatch(k) : i[1] = k
      BY <1>0, BatchItems
    <3>2. CASE k # j
      BY <1>0, <1>1, <2>1, <2>3, <3>1, <3>2, JobStepHand
    <3>3. CASE k = j
      <4>1. NextBatch(j)
        <5>1. CASE Start(j) \/ OpenCache(j) \/ Connect(j) \/ CacheBreaks(j)
          BY <1>0, <2>3, <3>3, <5>1 DEF Start, OpenCache, Connect, CacheBreaks, JobTypes
        <5>2. CASE Search(j) \/ LookUp(j) \/ Answer(j) \/ AskFails(j)
          BY <1>0, <2>3, <3>3, <5>2 DEF Search, LookUp, Answer, AskFails, Found, JobTypes
        <5>3. CASE JobEnds(j) \/ BatchLoaded(j) \/ TakeDone(j) \/ TakenAll(j)
          BY <1>0, <2>3, <3>3, <5>3 DEF JobEnds, BatchLoaded, TakeDone, TakenAll, JobTypes
        <5>4. CASE NothingPending(j) \/ Save(j) \/ SaveFails(j) \/ SavedAll(j) \/ BatchEnds(j)
          BY <1>0, <2>3, <3>3, <5>4
             DEF NothingPending, Save, SaveFails, SavedAll, BatchEnds, JobTypes
        <5>5. ASSUME NEW n \in 1..MaxCandidates,
                     SubmitItem(<<j, n>>) \/ TakeVerdict(<<j, n>>) \/ Unlink(<<j, n>>)
              PROVE  FALSE
          BY <2>3, <3>3, <5>5 DEF SubmitItem, TakeVerdict, Unlink
        <5>. QED BY <1>1, <5>1, <5>2, <5>3, <5>4, <5>5 DEF JobStep
      <4>. QED BY <3>1, <3>3, <4>1 DEF NextBatch, InBatch, batch
    <3>. QED BY <3>2, <3>3
  <2>. QED BY <2>1, <2>2, <2>3
<1>2. ASSUME NEW k \in Items, Load(k) \/ Judge(k) PROVE WaitInv'
  <2>1. UNCHANGED <<plan, main, results, job, found, offset, hand>>
    BY <1>0, <1>2, WorkerItems DEF keeper, batch
  <2>2. \A j \in Jobs : InBatch(j)' = InBatch(j) /\ InBatch(j) \subseteq Items
    BY <1>0, <2>1, BatchItems DEF InBatch
  <2>3. \A i \in Items \ {k} : item'[i] = item[i]
    BY <1>0, <1>2, WorkerItems DEF ItemTypes
  <2>4. /\ Load(k) => item'[k] \in Loading \cup {"loaded", "failed"}
        /\ Judge(k) => item[k] \in {"waiting"} \cup Judging
    BY <1>0, <1>2, WorkerItems
  <2>5. item[k] \in {"waiting"} \cup Judging =>
          item[k] \notin {"queued", "loaded", "failed"} \cup Loading
    BY DEF Judging, Loading
  <2>. QED BY <1>2, <2>1, <2>2, <2>3, <2>4, <2>5
<1>3. ASSUME UNCHANGED <<plan, found, offset, hand, item>>,
             main' = "collect" => main = "collect" /\ results' # Jobs,
             \A j \in Jobs : /\ job'[j] = "load" => job[j] = "load"
                             /\ job'[j] = "cancelled" => main' # "collect"
      PROVE  WaitInv'
  BY <1>3 DEF InBatch
<1>4. ASSUME NEW j \in Jobs, Collect(j) PROVE WaitInv'
  <2>1. UNCHANGED <<plan, found, offset, hand, item>> /\ main = "collect"
    BY <1>4 DEF Collect, batch
  <2>2. CASE job[j] = "raised" \/ TooFew(j)
    BY <1>3, <1>4, <2>1, <2>2 DEF Collect
  <2>3. CASE ~(job[j] = "raised" \/ TooFew(j))
    BY <1>3, <1>4, <2>1, <2>3 DEF Collect
  <2>. QED BY <2>2, <2>3
<1>5. CASE JoinKeywords \/ JoinRelevance \/ JoinDownloads \/ Report \/ Close
  BY <1>3, <1>5 DEF JoinKeywords, JoinRelevance, JoinDownloads, Report, Close, batch
<1>6. CASE (\E k \in Keywords : Expire(k)) \/ UNCHANGED vars
  BY <1>3, <1>6 DEF Expire, vars, keeper, batch
<1>. QED
  BY <1>1, <1>2, <1>4, <1>5, <1>6 DEF Next, Main, Terminated

Below == {ab \in Nat \X Nat : ab[1] < ab[2]}

LEMMA HasLeast ==
  ASSUME NEW T \in SUBSET Nat, T # {}
  PROVE  \E x \in T : \A y \in T : x <= y
<1>1. IsWellFoundedOn(OpToRel(<, Nat), Nat)
  BY NatLessThanWellFounded
<1>2. IsWellFoundedOn(Below, Nat)
  BY <1>1 DEF OpToRel, Below
<1>3. PICK x \in T : \A y \in T : <<y, x>> \notin Below
  BY <1>2, WFMin
<1>4. ASSUME NEW y \in T PROVE x <= y
  <2>1. x \in Nat /\ y \in Nat
    OBVIOUS
  <2>2. ~(y < x)
    BY <1>3, <2>1 DEF Below
  <2>. QED BY <2>1, <2>2
<1>. QED BY <1>4

\* While a download or a judgement is queued or runs, its pool can go on.
LEMMA WorkersGoOn ==
  ASSUME Types, NEW i \in Items,
         item[i] \in {"queued", "waiting"} \cup Loading \cup Judging
  PROVE  \E k \in Items : LoadCanGoOn(k) \/ JudgeCanGoOn(k)
<1>1. CASE \E k \in Items : item[k] \in Loading \cup Judging
  BY <1>1 DEF LoadCanGoOn, JudgeCanGoOn
<1>2. CASE \A k \in Items : item[k] \notin Loading \cup Judging
  <2>1. /\ Cardinality({k \in Items : item[k] \in Loading}) < DownloadWorkers
        /\ Cardinality({k \in Items : item[k] \in Judging}) < RelevanceWorkers
    <3>1. {k \in Items : item[k] \in Loading} = {} /\ {k \in Items : item[k] \in Judging} = {}
      BY <1>2
    <3>. QED BY <3>1, FS_EmptySet, CountsAssumption
  <2>2. CASE item[i] = "waiting"
    BY <2>1, <2>2 DEF JudgeCanGoOn
  <2>3. CASE item[i] = "queued"
    <3>. DEFINE T == {n \in 1..MaxCandidates : item[<<i[1], n>>] = "queued"}
    <3>1. i[1] \in Jobs /\ i[2] \in 1..MaxCandidates /\ i = <<i[1], i[2]>>
      BY DEF Items
    <3>2. T \in SUBSET Nat /\ T # {}
      BY <2>3, <3>1, Counts
    <3>3. PICK n \in T : \A m \in T : n <= m
      BY <3>2, HasLeast
    <3>4. <<i[1], n>> \in Items /\ n \in 1..MaxCandidates /\ MaxCandidates \in Nat
      BY <3>1, Counts DEF Items
    <3>5. \A m \in 1..(n - 1) : m \in 1..MaxCandidates /\ m < n
      BY <3>4
    <3>6. \A m \in 1..(n - 1) : item[<<i[1], m>>] # "queued"
      BY <3>3, <3>5
    <3>. QED BY <2>1, <3>3, <3>4, <3>6 DEF LoadCanGoOn
  <2>. QED BY <1>2, <2>2, <2>3
<1>. QED BY <1>1, <1>2

\* So a job that is not over can go on, or a worker can for it.
LEMMA JobsGoOn ==
  ASSUME IInv, WaitInv, NEW j \in Jobs, job[j] \in Active \cup {"queued"}
  PROVE  \/ \E k \in Jobs : JobCanGoOn(k)
         \/ \E i \in Items : LoadCanGoOn(i) \/ JudgeCanGoOn(i)
<1>0. Types /\ JobTypes /\ ItemTypes /\ CountInv
  BY DEF IInv, Types
<1>1. ASSUME NEW k \in Jobs, job[k] \in Active
      PROVE  JobCanGoOn(k) \/ \E i \in Items : LoadCanGoOn(i) \/ JudgeCanGoOn(i)
  <2>0. InBatch(k) \subseteq Items /\ Pending(k) \subseteq InBatch(k)
    BY <1>0, BatchItems DEF Pending
  <2>1. CASE job[k] \in Searching \cup {"save"}
    BY <2>1 DEF JobCanGoOn
  <2>2. CASE job[k] = "batch"
    <3>1. Remaining(k) \in Int /\ Remaining(k) >= 0
      <4>1. Cardinality(Collected(k)) \in Nat /\ Cardinality(Collected(k)) <= Needed
        BY <1>0, CountFacts DEF CountInv
      <4>. QED BY <4>1, Counts DEF Remaining
    <3>2. offset[k] \in Nat /\ found[k] \in Nat
      BY <1>0, Counts DEF JobTypes
    <3>. QED BY <2>2, <3>1, <3>2 DEF JobCanGoOn
  <2>3. CASE job[k] = "load"
    <3>1. CASE \A i \in InBatch(k) : item[i] \in {"loaded", "failed"}
      BY <2>3, <3>1 DEF JobCanGoOn
    <3>2. CASE \E i \in InBatch(k) : item[i] \notin {"loaded", "failed"}
      <4>1. PICK i \in InBatch(k) : item[i] \in {"queued"} \cup Loading
        BY <2>3, <3>2 DEF WaitInv
      <4>. QED BY <1>0, <2>0, <4>1, WorkersGoOn
    <3>. QED BY <3>1, <3>2
  <2>4. CASE job[k] = "judge"
    <3>1. CASE Pending(k) = {} \/ \E i \in Pending(k) : item[i] \in Judged
      BY <2>4, <3>1 DEF JobCanGoOn
    <3>2. CASE Pending(k) # {} /\ \A i \in Pending(k) : item[i] \notin Judged
      <4>1. PICK i \in Pending(k) : item[i] \in {"waiting"} \cup Judging
        BY <3>2 DEF Pending, Judging
      <4>. QED BY <1>0, <2>0, <4>1, WorkersGoOn
    <3>. QED BY <3>1, <3>2
  <2>5. CASE job[k] \in {"take", "clean"}
    <3>1. \A i \in hand[k] : i[2] \in 1..MaxCandidates /\ i = <<k, i[2]>>
      BY <1>0 DEF JobTypes, WaitInv, Items
    <3>. QED BY <2>5, <3>1 DEF JobCanGoOn
  <2>. QED BY <1>1, <2>1, <2>2, <2>3, <2>4, <2>5 DEF Active
<1>2. CASE \A k \in Jobs : job[k] \notin Active
  <2>. DEFINE T == {k \in Jobs : job[k] = "queued"}
  <2>1. T \in SUBSET Nat /\ T # {}
    BY <1>2, Counts DEF Jobs
  <2>2. PICK k \in T : \A l \in T : k <= l
    BY <2>1, HasLeast
  <2>3. \A l \in Jobs : l < k => job[l] # "queued"
    <3>1. \A l \in Jobs : l \in Nat
      BY Counts DEF Jobs
    <3>. QED BY <2>2, <3>1
  <2>4. Cardinality({l \in Jobs : job[l] \in Active}) < KeywordWorkers
    <3>1. {l \in Jobs : job[l] \in Active} = {}
      BY <1>2
    <3>. QED BY <3>1, FS_EmptySet, Counts
  <2>. QED BY <2>2, <2>3, <2>4 DEF JobCanGoOn
<1>. QED BY <1>1, <1>2

\* No pool of a run and nobody who waits for it stand still for ever: until it
\* is closed the run, a job or a worker can take a step.
THEOREM FetchIsNeverStuck == Spec => []NeverStuck
<1>1. Init => WaitInv
  <2>1. 1 \in Jobs
    BY CountsAssumption DEF Jobs
  <2>. QED BY <2>1 DEF Init, WaitInv
<1>2. IInv /\ WaitInv => NeverStuck
  <2>. SUFFICES ASSUME IInv, WaitInv, main # "closed", ~MainCanGoOn
                PROVE  \/ \E j \in Jobs : JobCanGoOn(j)
                       \/ \E i \in Items : LoadCanGoOn(i) \/ JudgeCanGoOn(i)
    BY DEF NeverStuck
  <2>0. Types /\ MainTypes /\ JobTypes
    BY DEF IInv, Types
  <2>1. CASE \E j \in Jobs : job[j] \in Active \cup {"queued"}
    BY <2>1, JobsGoOn
  <2>2. CASE \E i \in Items : item[i] \in {"queued", "waiting"} \cup Loading \cup Judging
    BY <2>0, <2>2, WorkersGoOn
  <2>3. CASE /\ \A j \in Jobs : job[j] \notin Active \cup {"queued"}
             /\ \A i \in Items : item[i] \notin {"queued", "waiting"} \cup Loading \cup Judging
    <3>1. CASE main = "collect"
      <4>1. PICK j \in Jobs : j \notin results
        BY <2>0, <3>1 DEF WaitInv, MainTypes
      <4>2. job[j] \in {"finished", "raised"}
        BY <2>0, <2>3, <3>1 DEF WaitInv, JobTypes, JobStates
      <4>. QED BY <3>1, <4>1, <4>2 DEF MainCanGoOn
    <3>2. CASE main \in {"keywords", "relevance", "downloads", "report", "close"}
      BY <2>3, <3>2 DEF MainCanGoOn, Busy
    <3>. QED BY <2>0, <3>1, <3>2 DEF MainTypes, Mains
  <2>. QED BY <2>1, <2>2, <2>3
<1>. QED BY <1>1, <1>2, WaitStays, FetchInvariant, Initially, PTL DEF Spec
-----------------------------------------------------------------------------
(* No step is taken for ever. Whatever is done brings the run, a job or a   *)
(* candidate forward, or a job nearer to the end of its batch.              *)

\* How far a candidate has come: one attempt to load it has four steps, and there
\* are Retries + 1 of them; then it is judged and its job takes the verdict.
LoadedAge == 4 * Retries + 6
InHand(i) == job[i[1]] = "take" /\ i \in hand[i[1]]
Age(i) ==
  CASE item[i] = "new"    -> 0
    [] item[i] = "queued" -> 1
    [] item[i] = "fetch"  -> 4 * tries[i] + 2
    [] item[i] = "open"   -> 4 * tries[i] + 3
    [] item[i] = "write"  -> 4 * tries[i] + 4
    [] item[i] = "probe"  -> 4 * tries[i] + 5
    [] item[i] \in {"loaded", "failed"} -> LoadedAge
    [] item[i] = "waiting" -> LoadedAge + 1
    [] item[i] = "judging" -> LoadedAge + 2
    [] item[i] = "asking"  -> LoadedAge + 3
    [] item[i] \in Judged  -> LoadedAge + IF InHand(i) THEN 5 ELSE 4
    [] OTHER -> LoadedAge + 6

\* How far a job has come, and where it is in a batch.
StageOf(st) ==
  CASE st = "queued" -> 0
    [] st = "search" -> 1
    [] st = "connect" -> 2
    [] st = "look" -> 3
    [] st = "ask" -> 4
    [] st \in {"finished", "raised", "cancelled"} -> 6
    [] OTHER -> 5

PhaseOf(st) ==
  CASE st = "load" -> 1
    [] st = "take" -> 2
    [] st = "judge" -> 3
    [] st = "save" -> 4
    [] st = "clean" -> 5
    [] OTHER -> 0

MainOf(st) ==
  CASE st = "collect" -> 0
    [] st = "keywords" -> 1
    [] st = "relevance" -> 2
    [] st = "downloads" -> 3
    [] st = "report" -> 4
    [] st = "close" -> 5
    [] OTHER -> 6

NothingLost ==
  /\ MainOf(main) <= MainOf(main') /\ results \subseteq results'
  /\ \A j \in Jobs : StageOf(job[j]) <= StageOf(job'[j]) /\ offset[j] <= offset'[j]
  /\ \A i \in Items : Age(i) <= Age(i)'

SomethingGained ==
  \/ MainOf(main) < MainOf(main') \/ results # results'
  \/ \E j \in Jobs : StageOf(job[j]) < StageOf(job'[j]) \/ offset[j] < offset'[j]
  \/ \E i \in Items : Age(i) < Age(i)'

\* A job nearer to the end of its batch: further in it, with less to save or
\* with less to remove.
Nearer(j) ==
  \/ PhaseOf(job[j]) < PhaseOf(job'[j])
  \/ /\ job[j] = "save" /\ job'[j] = "save"
     /\ Len(accepted'[j]) < Len(accepted[j])
  \/ /\ job[j] = "clean" /\ job'[j] = "clean"
     /\ hand'[j] \subseteq hand[j] /\ hand'[j] # hand[j]

NearerAlone(j) ==
  /\ Nearer(j)
  /\ \A k \in Jobs \ {j} :
       job'[k] = job[k] /\ accepted'[k] = accepted[k] /\ hand'[k] = hand[k]

Forward == NothingLost /\ (SomethingGained \/ \E j \in Jobs : NearerAlone(j))

\* All of the state but the search cache, whose entries expire at any time.
progress == <<plan, main, failed, results, job, batch, saved, item, tries, seen,
              verdicts, conns, disk>>

LEMMA StagesAreNat ==
  \A st : StageOf(st) \in Nat /\ PhaseOf(st) \in Nat /\ MainOf(st) \in Nat
BY DEF StageOf, PhaseOf, MainOf

LEMMA AgeIsNat ==
  ASSUME NEW i \in Items
  PROVE  /\ Types => Age(i) \in Nat
         /\ Types' => Age(i)' \in Nat
<1>1. /\ Types => tries[i] \in 0..Retries
      /\ Types' => tries'[i] \in 0..Retries
      /\ Retries \in Nat
  BY Counts DEF Types, ItemTypes
<1>. QED BY <1>1 DEF Judged, Age, LoadedAge

\* A step of a worker is a gain for its candidate, and no loss for another.
LEMMA WorkerGains ==
  ASSUME Types, Types', NEW k \in Items, Load(k) \/ Judge(k)
  PROVE  Age(k) < Age(k)' /\ \A i \in Items \ {k} : Age(i)' = Age(i)
<1>0. /\ ItemTypes /\ Retries \in Nat
      /\ tries[k] \in 0..Retries /\ tries'[k] \in 0..Retries
      /\ UNCHANGED <<job, hand>>
  BY WorkerItems, Counts DEF Types, ItemTypes, batch
<1>1. \A i \in Items \ {k} : Age(i)' = Age(i)
  <2>1. \A i \in Items \ {k} : item'[i] = item[i]
    BY <1>0, WorkerItems DEF ItemTypes
  <2>2. \A i \in Items \ {k} : tries'[i] = tries[i]
    BY <1>0 DEF ItemTypes, Load, BeginLoad, Fetch, OpenTemp, CloseTemp, Probe,
                LoadFails, Judge, BeginJudge, Frames, Verdict, JudgeFails
  <2>3. \A i \in Items \ {k} : InHand(i)' <=> InHand(i)
    BY <1>0 DEF InHand
  <2>. QED BY <2>1, <2>2, <2>3 DEF Judged, Age
<1>2. ASSUME NEW st, item' = [item EXCEPT ![k] = st] PROVE item'[k] = st
  BY <1>0, <1>2 DEF ItemTypes
<1>3. CASE BeginLoad(k) \/ Fetch(k) \/ OpenTemp(k) \/ CloseTemp(k) \/ Probe(k)
  <2>1. UNCHANGED tries
    BY <1>3 DEF BeginLoad, Fetch, OpenTemp, CloseTemp, Probe
  <2>2. \/ item[k] = "queued" /\ item'[k] = "fetch"
        \/ item[k] = "fetch" /\ item'[k] \in {"loaded", "open", "probe"}
        \/ item[k] = "open" /\ item'[k] = "write"
        \/ item[k] = "write" /\ item'[k] = "probe"
        \/ item[k] = "probe" /\ item'[k] = "loaded"
    BY <1>2, <1>3 DEF BeginLoad, Fetch, OpenTemp, CloseTemp, Probe, Becomes
  <2>3. Age(k) < Age(k)'
    BY <1>0, <2>1, <2>2 DEF Judged, Age, LoadedAge
  <2>. QED BY <1>1, <2>3
<1>4. CASE LoadFails(k)
  <2>1. /\ item[k] \in Loading
        /\ \/ item'[k] = "fetch" /\ tries'[k] = tries[k] + 1
           \/ item'[k] = "failed"
    BY <1>0, <1>2, <1>4 DEF LoadFails, Becomes, ItemTypes
  <2>2. /\ 4 * tries[k] + 2 <= Age(k) /\ Age(k) <= 4 * tries[k] + 5
        /\ Age(k) \in Nat
    BY <1>0, <2>1 DEF Judged, Age, Loading
  <2>3. CASE item'[k] = "fetch" /\ tries'[k] = tries[k] + 1
    <3>1. Age(k)' = 4 * tries[k] + 6
      BY <1>0, <2>3 DEF Judged, Age
    <3>. QED BY <1>0, <1>1, <2>2, <3>1
  <2>4. CASE item'[k] = "failed"
    <3>1. Age(k)' = LoadedAge
      BY <2>4 DEF Judged, Age
    <3>. QED BY <1>0, <1>1, <2>2, <3>1 DEF LoadedAge
  <2>. QED BY <2>1, <2>3, <2>4
<1>5. CASE Judge(k)
  <2>1. Cached(k) \in Judged \cup {"none"}
    BY PlanFacts DEF Cached, Types, MainTypes, StoreTypes
  <2>2. \/ item[k] = "waiting" /\ item'[k] \in Judged \cup {"judging"}
        \/ item[k] = "judging" /\ item'[k] \in Judged \cup {"asking"}
        \/ item[k] = "asking" /\ item'[k] \in Judged
    BY <1>2, <1>5, <2>1
       DEF Judge, BeginJudge, Frames, Verdict, JudgeFails, Becomes, Judging, Judged
  <2>3. LoadedAge \in Nat
    BY <1>0 DEF LoadedAge
  <2>4. /\ item[k] = "waiting" => Age(k) = LoadedAge + 1
        /\ item[k] = "judging" => Age(k) = LoadedAge + 2
        /\ item[k] = "asking" => Age(k) = LoadedAge + 3
    BY DEF Judged, Age
  <2>5. /\ item'[k] = "judging" => Age(k)' = LoadedAge + 2
        /\ item'[k] = "asking" => Age(k)' = LoadedAge + 3
    BY DEF Judged, Age
  <2>6. item'[k] \in Judged => Age(k)' \in {LoadedAge + 4, LoadedAge + 5}
    BY DEF Age, Judged
  <2>. QED BY <1>1, <2>2, <2>3, <2>4, <2>5, <2>6
<1>. QED BY <1>3, <1>4, <1>5 DEF Load

\* A verdict in hand stays there until it is taken.
LEMMA HeldVerdicts ==
  ASSUME Types, BatchInv, NEW j \in Jobs, JobStep(j), NEW i \in Items,
         InHand(i), item[i] \in Judged, item'[i] = item[i]
  PROVE  InHand(i)'
<1>0. JobTypes /\ ItemTypes /\ i[1] \in Jobs
  BY DEF Types, Items
<1>1. CASE i[1] # j
  <2>1. job'[i[1]] = job[i[1]] /\ hand'[i[1]] = hand[i[1]]
    BY <1>0, <1>1, JobStepHand, JobStepOwn
  <2>. QED BY <2>1 DEF InHand
<1>2. CASE i[1] = j
  <2>1. job[j] = "take" /\ i \in hand[j]
    BY <1>2 DEF InHand
  <2>2. PICK n \in 1..MaxCandidates : TakeVerdict(<<j, n>>)
    BY <2>1 DEF JobStep, Start, Search, OpenCache, Connect, LookUp, Answer, AskFails,
         CacheBreaks, NextBatch, JobEnds, BatchLoaded, TakeDone, TakenAll,
         NothingPending, Save, SaveFails, SavedAll, BatchEnds, SubmitItem, Unlink
  <2>3. <<j, n>> \in Items /\ <<j, n>>[1] = j
    BY DEF Items
  <2>4. <<j, n>> # i
    <3>1. item'[<<j, n>>] \in {"accepted", "rejected"}
      BY <1>0, <2>2, <2>3 DEF TakeVerdict, ItemTypes
    <3>. QED BY <3>1 DEF Judged
  <2>5. job'[j] = "take" /\ i \in hand'[j]
    BY <1>0, <2>1, <2>2, <2>3, <2>4 DEF TakeVerdict, JobTypes
  <2>. QED BY <1>2, <2>5 DEF InHand
<1>. QED BY <1>1, <1>2

\* A step of a job is no loss for any candidate.
LEMMA JobStepAges ==
  ASSUME Types, BatchInv, NEW j \in Jobs, JobStep(j), NEW i \in Items
  PROVE  /\ Age(i) <= Age(i)'
         /\ item'[i] # item[i] => Age(i) < Age(i)'
<1>0. tries'[i] = tries[i] /\ tries[i] \in 0..Retries /\ Retries \in Nat
  BY Counts DEF JobStep, Types, ItemTypes, Start, Search, OpenCache, Connect, LookUp,
     Answer, AskFails, CacheBreaks, NextBatch, JobEnds, BatchLoaded, TakeDone, TakenAll,
     NothingPending, Save, SaveFails, SavedAll, BatchEnds, SubmitItem, TakeVerdict, Unlink
<1>1. CASE item'[i] = item[i]
  <2>1. item[i] \in Judged /\ InHand(i) => InHand(i)'
    BY <1>1, HeldVerdicts
  <2>. QED BY <1>0, <1>1, <2>1 DEF Judged, Age, LoadedAge
<1>2. CASE \/ item[i] = "new" /\ item'[i] = "queued"
           \/ item[i] = "loaded" /\ item'[i] = "waiting"
           \/ item[i] = "waiting" /\ item'[i] = "dropped"
           \/ item[i] \in Judged /\ item'[i] \in {"accepted", "rejected"}
  BY <1>0, <1>2 DEF Age, LoadedAge, Judged
<1>. QED BY <1>1, <1>2, JobStepItems
\* A step of a job loses nothing, and gains something or leads it on alone.
LEMMA JobStepGains ==
  ASSUME IInv, IInv', NEW j \in Jobs, JobStep(j)
  PROVE  Forward
<1>0. Types /\ BatchInv /\ JobTypes /\ JobTypes'
  BY DEF IInv, Types
<1>0a. /\ UNCHANGED <<main, results>>
       /\ \A i \in Items : Age(i) <= Age(i)'
       /\ \A i \in Items : item'[i] # item[i] => Age(i) < Age(i)'
  BY <1>0, JobStepMoves, JobStepAges DEF keeper
<1>0b. \A k \in Jobs \ {j} :
         job'[k] = job[k] /\ accepted'[k] = accepted[k] /\ hand'[k] = hand[k]
  BY <1>0, JobStepOwn, JobStepHand
<1>0c. \A k \in Jobs : offset[k] \in Nat /\ offset'[k] \in Nat
  BY <1>0 DEF JobTypes
<1>0d. MainOf(main) <= MainOf(main')
  BY <1>0a DEF MainOf
<1>0e. \A k \in Jobs \ {j} : StageOf(job[k]) <= StageOf(job'[k])
  BY <1>0b DEF StageOf
<1>. USE DEF batch
<1>1. ASSUME StageOf(job[j]) <= StageOf(job'[j]),
             \A k \in Jobs : offset[k] <= offset'[k],
             SomethingGained \/ Nearer(j)
      PROVE  Forward
  BY <1>0a, <1>0b, <1>0d, <1>0e, <1>1 DEF Forward, NothingLost, NearerAlone
<1>2. ASSUME UNCHANGED offset, StageOf(job[j]) < StageOf(job'[j]) PROVE Forward
  BY <1>0c, <1>1, <1>2, StagesAreNat DEF SomethingGained
<1>3. ASSUME UNCHANGED <<offset, job>>, NEW i \in Items, item'[i] # item[i]
      PROVE  Forward
  BY <1>0a, <1>0c, <1>1, <1>3, StagesAreNat DEF SomethingGained
<1>4. ASSUME NEW st, job' = [job EXCEPT ![j] = st] PROVE job'[j] = st
  BY <1>0, <1>4 DEF JobTypes
<1>5. CASE Start(j) \/ OpenCache(j) \/ Connect(j) \/ CacheBreaks(j)
  <2>1. \/ job[j] = "queued" /\ job'[j] = "search"
        \/ job[j] = "search" /\ job'[j] \in {"connect", "look"}
        \/ job[j] = "connect" /\ job'[j] = "look"
        \/ job[j] \in {"connect", "look", "ask"} /\ job'[j] = "raised"
    BY <1>4, <1>5 DEF Start, OpenCache, Connect, CacheBreaks
  <2>2. StageOf(job[j]) < StageOf(job'[j])
    BY <2>1 DEF StageOf
  <2>3. UNCHANGED offset
    BY <1>5 DEF Start, OpenCache, Connect, CacheBreaks
  <2>. QED BY <1>2, <2>2, <2>3
<1>6. CASE Search(j) \/ LookUp(j) \/ Answer(j) \/ AskFails(j)
  <2>1. /\ job[j] \in {"search", "look", "ask"} /\ job'[j] \in {"ask", "batch"}
        /\ job[j] = "ask" => job'[j] = "batch"
    BY <1>4, <1>6 DEF Search, LookUp, Answer, AskFails, Found
  <2>2. StageOf(job[j]) < StageOf(job'[j])
    BY <2>1 DEF StageOf
  <2>3. UNCHANGED offset
    BY <1>6 DEF Search, LookUp, Answer, AskFails
  <2>. QED BY <1>2, <2>2, <2>3
<1>7. CASE JobEnds(j) \/ SaveFails(j)
  <2>1. job[j] \in {"batch", "save"} /\ job'[j] \in {"finished", "raised"}
    BY <1>4, <1>7 DEF JobEnds, SaveFails
  <2>2. StageOf(job[j]) < StageOf(job'[j])
    BY <2>1 DEF StageOf
  <2>3. UNCHANGED offset
    BY <1>7 DEF JobEnds, SaveFails
  <2>. QED BY <1>2, <2>2, <2>3
<1>8. CASE NextBatch(j)
  <2>. DEFINE i == <<j, offset[j] + 1>>
  <2>1. i \in InBatch(j) /\ i \in Items
    <3>1. /\ offset[j] \in Nat /\ found[j] \in 0..MaxCandidates /\ offset[j] < found[j]
          /\ plan.batchSize \in Nat \ {0}
      BY <1>0, <1>8, PlanFacts DEF NextBatch, JobTypes, Types, MainTypes
    <3>2. offset[j] + 1 \in (offset[j] + 1)..Least(offset[j] + plan.batchSize, found[j])
      BY <3>1, Counts DEF Least
    <3>3. offset[j] + 1 \in 1..MaxCandidates
      BY <3>1, Counts
    <3>. QED BY <3>2, <3>3 DEF InBatch, Items
  <2>2. item[i] = "new"
    <3>1. i[1] = j /\ i[2] > offset[j] /\ job[j] = "batch"
      BY <1>0c, <1>8 DEF NextBatch
    <3>. QED BY <1>0, <2>1, <3>1 DEF BatchInv, AheadInv, Before
  <2>3. item'[i] = "queued"
    BY <1>8, <2>1 DEF NextBatch
  <2>4. SomethingGained
    BY <1>0a, <2>1, <2>2, <2>3 DEF SomethingGained
  <2>5. StageOf(job[j]) <= StageOf(job'[j])
    BY <1>4, <1>8 DEF NextBatch, StageOf
  <2>6. UNCHANGED offset
    BY <1>8 DEF NextBatch
  <2>. QED BY <1>0c, <1>1, <2>4, <2>5, <2>6
<1>9. CASE BatchLoaded(j) \/ TakenAll(j) \/ NothingPending(j) \/ SavedAll(j)
  <2>1. \/ job[j] = "load" /\ job'[j] = "judge"
        \/ job[j] = "take" /\ job'[j] \in {"judge", "save"}
        \/ job[j] = "judge" /\ job'[j] = "save"
        \/ job[j] = "save" /\ job'[j] = "clean"
    BY <1>4, <1>9 DEF BatchLoaded, TakenAll, NothingPending, SavedAll
  <2>2. Nearer(j) /\ StageOf(job[j]) <= StageOf(job'[j])
    BY <2>1 DEF Nearer, PhaseOf, StageOf
  <2>3. UNCHANGED offset
    BY <1>9 DEF BatchLoaded, TakenAll, NothingPending, SavedAll
  <2>. QED BY <1>0c, <1>1, <2>2, <2>3
<1>10. CASE TakeDone(j)
  <2>1. PICK i \in Pending(j) : item[i] \in Judged
    BY <1>10 DEF TakeDone
  <2>2. i \in Items /\ i[1] = j
    BY <1>0, <2>1, BatchItems DEF Pending
  <2>3. /\ job[j] = "judge" /\ job'[j] = "take"
        /\ hand'[j] = {k \in Pending(j) : item[k] \in Judged}
        /\ UNCHANGED <<offset, item>>
    BY <1>0, <1>4, <1>10 DEF TakeDone, JobTypes
  <2>4. item'[i] = item[i] /\ ~InHand(i) /\ InHand(i)'
    BY <2>1, <2>2, <2>3 DEF InHand
  <2>5. Age(i) = LoadedAge + 4 /\ Age(i)' = LoadedAge + 5
    BY <2>1, <2>4 DEF Age, Judged
  <2>6. LoadedAge \in Nat
    BY Counts DEF LoadedAge
  <2>7. SomethingGained
    BY <2>2, <2>5, <2>6 DEF SomethingGained
  <2>8. StageOf(job[j]) <= StageOf(job'[j])
    BY <2>3 DEF StageOf
  <2>. QED BY <1>0c, <1>1, <2>3, <2>7, <2>8
<1>11. CASE Save(j)
  <2>1. /\ job[j] = "save" /\ job' = job /\ UNCHANGED offset
        /\ accepted[j] # <<>> /\ accepted'[j] = Tail(accepted[j])
    BY <1>0, <1>11 DEF Save, JobTypes
  <2>2. accepted[j] \in Seq(Items)
    BY <1>0 DEF JobTypes
  <2>3. Len(accepted'[j]) < Len(accepted[j])
    BY <2>1, <2>2
  <2>4. Nearer(j)
    BY <2>1, <2>3 DEF Nearer
  <2>. QED BY <1>0c, <1>1, <2>1, <2>4, StagesAreNat
<1>12. CASE BatchEnds(j)
  <2>1. plan.batchSize \in Nat \ {0}
    BY <1>0, PlanFacts DEF Types, MainTypes
  <2>2. /\ offset'[j] = offset[j] + plan.batchSize
        /\ \A k \in Jobs \ {j} : offset'[k] = offset[k]
        /\ job[j] = "clean" /\ job'[j] = "batch"
    BY <1>0, <1>4, <1>12 DEF BatchEnds, JobTypes
  <2>3. (\A k \in Jobs : offset[k] <= offset'[k]) /\ offset[j] < offset'[j]
    BY <1>0c, <2>1, <2>2
  <2>4. StageOf(job[j]) <= StageOf(job'[j])
    BY <2>2 DEF StageOf
  <2>. QED BY <1>1, <2>3, <2>4 DEF SomethingGained
<1>13. ASSUME NEW n \in 1..MaxCandidates,
              SubmitItem(<<j, n>>) \/ TakeVerdict(<<j, n>>) \/ Unlink(<<j, n>>)
       PROVE  Forward
  <2>1. <<j, n>> \in Items /\ <<j, n>>[1] = j
    BY DEF Items
  <2>2. UNCHANGED <<offset, job>>
    BY <1>13 DEF SubmitItem, TakeVerdict, Unlink
  <2>3. CASE SubmitItem(<<j, n>>)
    <3>1. item[<<j, n>>] = "loaded" /\ item'[<<j, n>>] = "waiting"
      BY <1>0, <2>1, <2>3 DEF SubmitItem, Types, ItemTypes
    <3>. QED BY <1>3, <2>1, <2>2, <3>1
  <2>4. CASE TakeVerdict(<<j, n>>)
    <3>1. item[<<j, n>>] \in Judged
      BY <1>0, <2>1, <2>4 DEF TakeVerdict, BatchInv, HandInv
    <3>2. item'[<<j, n>>] \in {"accepted", "rejected"}
      BY <1>0, <2>1, <2>4 DEF TakeVerdict, Types, ItemTypes
    <3>3. item'[<<j, n>>] # item[<<j, n>>]
      BY <3>1, <3>2 DEF Judged
    <3>. QED BY <1>3, <2>1, <2>2, <3>3
  <2>5. CASE Unlink(<<j, n>>)
    <3>1. /\ job[j] = "clean" /\ job'[j] = "clean"
          /\ <<j, n>> \in hand[j] /\ hand'[j] = hand[j] \ {<<j, n>>}
      BY <1>0, <2>1, <2>5 DEF Unlink, JobTypes
    <3>2. Nearer(j)
      BY <3>1 DEF Nearer
    <3>. QED BY <1>0c, <1>1, <2>2, <3>2, StagesAreNat
  <2>. QED BY <1>13, <2>3, <2>4, <2>5
<1>. QED
  BY <1>5, <1>6, <1>7, <1>8, <1>9, <1>10, <1>11, <1>12, <1>13 DEF JobStep

\* Every step of a run but the expiry of a cached search loses nothing and gains
\* something, or brings a job nearer to a gain: no candidate is loaded beyond its
\* retries, judged or taken twice, no batch repeated, no job begun again. All of it
\* is bounded, so no run can go on for ever.
THEOREM FetchGoesForward == Spec => [][Forward]_progress
<1>1. IInv /\ IInv' /\ [Next]_vars => [Forward]_progress
  <2>. SUFFICES ASSUME IInv, IInv', Next, ~UNCHANGED progress
                PROVE  Forward
    <3>1. UNCHANGED vars => UNCHANGED progress
      BY DEF vars, progress, keeper, batch, caches, disk
    <3>. QED BY <3>1
  <2>0. Types /\ Types' /\ MainTypes /\ JobTypes
    BY DEF IInv, Types
  <2>0a. \A j \in Jobs : offset[j] \in Nat
    BY <2>0 DEF JobTypes
  <2>1. ASSUME NEW k \in Items, Load(k) \/ Judge(k) PROVE Forward
    <3>1. UNCHANGED <<main, results, job, offset>>
      BY <2>0, <2>1, WorkerItems DEF keeper, batch
    <3>2. Age(k) < Age(k)' /\ \A i \in Items \ {k} : Age(i)' = Age(i)
      BY <2>0, <2>1, WorkerGains
    <3>3. \A i \in Items : Age(i) <= Age(i)'
      BY <2>0, <3>2, AgeIsNat
    <3>4. NothingLost
      BY <2>0a, <3>1, <3>3, StagesAreNat DEF NothingLost
    <3>. QED BY <3>2, <3>4 DEF Forward, SomethingGained
  <2>2. ASSUME UNCHANGED <<item, tries, hand, offset>>,
               results \subseteq results',
               \A j \in Jobs : \/ job'[j] = job[j]
                               \/ job[j] = "queued" /\ job'[j] = "cancelled",
               \/ MainOf(main) < MainOf(main')
               \/ main' = main /\ results' # results
        PROVE  Forward
    <3>1. \A j \in Jobs : StageOf(job[j]) <= StageOf(job'[j])
      <4>1. StageOf("queued") = 0 /\ StageOf("cancelled") = 6
        BY DEF StageOf
      <4>. QED BY <2>2, <4>1, StagesAreNat
    <3>2. \A i \in Items : Age(i)' = Age(i)
      <4>1. \A i \in Items : i[1] \in Jobs
        BY DEF Items
      <4>2. \A i \in Items : InHand(i)' <=> InHand(i)
        BY <2>2, <4>1 DEF InHand
      <4>. QED BY <2>2, <4>2 DEF Age
    <3>3. \A i \in Items : Age(i) <= Age(i)'
      BY <2>0, <3>2, AgeIsNat
    <3>4. MainOf(main) <= MainOf(main')
      BY <2>2, StagesAreNat
    <3>. QED BY <2>0a, <2>2, <3>1, <3>3, <3>4 DEF Forward, NothingLost, SomethingGained
  <2>3. ASSUME NEW j \in Jobs, Collect(j) PROVE Forward
    <3>1. main = "collect" /\ j \notin results
          /\ UNCHANGED <<item, tries, hand, offset>>
      BY <2>3 DEF Collect, batch
    <3>2. CASE job[j] = "raised" \/ TooFew(j)
      <4>1. main' = "keywords" /\ results' = results
            /\ job' = [k \in Jobs |-> IF job[k] = "queued" THEN "cancelled" ELSE job[k]]
        BY <2>3, <3>2 DEF Collect
      <4>2. MainOf(main) < MainOf(main')
        BY <3>1, <4>1 DEF MainOf
      <4>3. \A k \in Jobs : \/ job'[k] = job[k]
                            \/ job[k] = "queued" /\ job'[k] = "cancelled"
        BY <4>1
      <4>. QED BY <2>2, <3>1, <4>1, <4>2, <4>3
    <3>3. CASE ~(job[j] = "raised" \/ TooFew(j))
      <4>1. results' = results \cup {j} /\ main' \in {"keywords", "collect"}
            /\ UNCHANGED job
        BY <2>3, <3>3 DEF Collect
      <4>2. main' = main \/ MainOf(main) < MainOf(main')
        BY <3>1, <4>1 DEF MainOf
      <4>. QED BY <2>2, <3>1, <4>1, <4>2
    <3>. QED BY <3>2, <3>3
  <2>4. CASE JoinKeywords \/ JoinRelevance \/ JoinDownloads \/ Report \/ Close
    <3>1. UNCHANGED <<item, tries, hand, offset, job, results>>
      BY <2>4 DEF JoinKeywords, JoinRelevance, JoinDownloads, Report, Close, batch
    <3>2. \/ main = "keywords" /\ main' = "relevance"
          \/ main = "relevance" /\ main' = "downloads"
          \/ main = "downloads" /\ main' \in {"close", "report"}
          \/ main = "report" /\ main' = "close"
          \/ main = "close" /\ main' = "closed"
      BY <2>4 DEF JoinKeywords, JoinRelevance, JoinDownloads, Report, Close
    <3>3. MainOf(main) < MainOf(main')
      BY <3>2 DEF MainOf
    <3>. QED BY <2>2, <3>1, <3>3
  <2>5. ASSUME NEW k \in Keywords, Expire(k) PROVE FALSE
    BY <2>5 DEF Expire, progress, keeper, batch, disk
  <2>6. ~Terminated
    BY DEF Terminated, vars, progress, keeper, batch, caches, disk
  <2>. QED BY <2>1, <2>3, <2>4, <2>5, <2>6, JobStepGains DEF Next, Main
<1>. QED BY <1>1, FetchInvariant, PTL DEF Spec
=============================================================================
