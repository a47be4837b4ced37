----------------------------- MODULE LegacyFetch -----------------------------
(***************************************************************************)
(* The command lines that fetch the images or the videos of a list of      *)
(* keywords (image_fetcher, video_fetcher). A job per keyword searches,     *)
(* then takes its candidates batch by batch: downloads all of a batch, has  *)
(* them judged by a model until enough are relevant and new to the run, and *)
(* saves those. The jobs run on a pool and share a pool of downloads, one   *)
(* of judgements, the set of contents seen, two caches and, for videos, a   *)
(* directory of temporary files named by their contents.                    *)
(*                                                                         *)
(* A file of the temporary directory that is still written, or whose write  *)
(* failed, is there but not whole; the probe may or may not notice. Ranks,  *)
(* scores and licences are the choice of Search, Answer and Verdict.        *)
(***************************************************************************)
EXTENDS Naturals, Sequences, FiniteSets

CONSTANTS
  Keywords, Contents,
  None,
  NumJobs,          \* the jobs of a run: one for each keyword of a paragraph
  MaxCandidates,    \* max_candidates_per_keyword
  Needed,           \* images_per_keyword, videos_per_keyword
  KeywordWorkers, DownloadWorkers, RelevanceWorkers,
  QueueLimit,       \* max(2, relevance_workers * MAX_RELEVANCE_QUEUE_FACTOR)
  Retries,          \* retries of a download
  Plans             \* the runs to look at

Jobs == 1..NumJobs
Items == Jobs \X (1..MaxCandidates)

\* video: the video command line, else the one for images; failFast: --fail-fast;
\* keyword: of each job; content: what each candidate turns out to be; upTo: how
\* many candidates there are for a job; batchSize: --batch-size.
PlanType == [video : BOOLEAN, failFast : BOOLEAN, keyword : [Jobs -> Keywords],
             content : [Items -> Contents], upTo : [Jobs -> 0..MaxCandidates],
             batchSize : Nat \ {0}]

ASSUME CountsAssumption ==
  {NumJobs, MaxCandidates, Needed, KeywordWorkers, DownloadWorkers,
   RelevanceWorkers, QueueLimit} \subseteq Nat \ {0} /\ Retries \in Nat
ASSUME PlansAssumption == Plans \subseteq PlanType /\ None \notin Items

VARIABLES
  plan,       \* constant: the run
  main,       \* where run_image_fetch or run_video_fetch is
  failed,     \* it is about to raise, or did
  results,    \* results_by_key
  job,        \* where each job is
  found,      \* how many candidates its search returned
  offset,     \* how many of them its batches have left behind
  hand,       \* done_set of a job, or the files it still has to remove
  accepted,   \* accepted of its batch
  saved,      \* files in the run directory: "no", "whole" or "torn"
  item,       \* where each candidate is
  tries,      \* failed attempts to download it
  seen,       \* seen_hashes of the run
  verdicts,   \* the relevance cache
  searched,   \* the search cache: how many candidates, or None
  conns,      \* connections of the search cache that were opened
  temp,       \* the temporary file of each content, and who opened it last
  faults      \* history: contents whose write broke; "database" and "disk" errors

vars == <<plan, main, failed, results, job, found, offset, hand, accepted, saved,
          item, tries, seen, verdicts, searched, conns, temp, faults>>

keeper == <<main, failed, results>>
batch == <<found, offset, hand, accepted>>
caches == <<verdicts, searched, conns>>
disk == <<temp, faults>>

Least(m, n) == IF m < n THEN m ELSE n
NoFile == [is |-> "none", by |-> None]
Files == [is : {"torn", "whole"}, by : Items] \cup {NoFile}
Content(i) == plan.content[i]
Keyword(i) == plan.keyword[i[1]]

Init ==
  /\ plan \in Plans
  /\ main = "collect" /\ failed = FALSE /\ results = {}
  /\ job = [j \in Jobs |-> "queued"]
  /\ found = [j \in Jobs |-> 0] /\ offset = [j \in Jobs |-> 0]
  /\ hand = [j \in Jobs |-> {}] /\ accepted = [j \in Jobs |-> <<>>]
  /\ saved = [i \in Items |-> "no"]
  /\ item = [i \in Items |-> "new"] /\ tries = [i \in Items |-> 0]
  /\ seen = {}
  /\ verdicts = [k \in Keywords |-> [c \in Contents |-> "none"]]
  /\ searched = [k \in Keywords |-> None] /\ conns = 0
  /\ temp = [c \in Contents |-> NoFile] /\ faults = {}

-----------------------------------------------------------------------------
(* The search of a job.                                                    *)

Searching == {"search", "connect", "look", "ask"}
Active == Searching \cup {"batch", "load", "judge", "take", "save", "clean"}

\* The pool of the keywords takes the oldest job.
Start(j) ==
  /\ job[j] = "queued" /\ \A k \in Jobs : k < j => job[k] # "queued"
  /\ Cardinality({k \in Jobs : job[k] \in Active}) < KeywordWorkers
  /\ job' = [job EXCEPT ![j] = "search"]
  /\ UNCHANGED <<plan, keeper, batch, saved, item, tries, seen, caches, disk>>

Found(j, n) ==
  /\ found' = [found EXCEPT ![j] = n]
  /\ job' = [job EXCEPT ![j] = "batch"]

\* Videos: every provider is asked, and the errors of one are only recorded.
Search(j) ==
  /\ job[j] = "search" /\ plan.video
  /\ \E n \in 0..plan.upTo[j] : Found(j, n)
  /\ UNCHANGED <<plan, keeper, offset, hand, accepted, saved, item, tries, seen,
                 caches, disk>>

\* _search_cache: the connection is made on first use, without a lock, so that
\* two jobs may both see none and both make one.
OpenCache(j) ==
  /\ job[j] = "search" /\ ~plan.video
  /\ job' = [job EXCEPT ![j] = IF conns = 0 THEN "connect" ELSE "look"]
  /\ UNCHANGED <<plan, keeper, batch, saved, item, tries, seen, caches, disk>>

Connect(j) ==
  /\ job[j] = "connect"
  /\ conns' = conns + 1
  /\ job' = [job EXCEPT ![j] = "look"]
  /\ UNCHANGED <<plan, keeper, batch, saved, item, tries, seen, verdicts, searched,
                 disk>>

LookUp(j) ==
  /\ job[j] = "look"
  /\ LET n == searched[plan.keyword[j]]
     IN  IF n # None THEN Found(j, n)
         ELSE job' = [job EXCEPT ![j] = "ask"] /\ UNCHANGED found
  /\ UNCHANGED <<plan, keeper, offset, hand, accepted, saved, item, tries, seen,
                 caches, disk>>

\* The answer is stored. A job that missed the cache at the same time asks, too.
Answer(j) ==
  /\ job[j] = "ask"
  /\ \E n \in 0..plan.upTo[j] :
       /\ Found(j, n)
       /\ searched' = [searched EXCEPT ![plan.keyword[j]] = n]
  /\ UNCHANGED <<plan, keeper, offset, hand, accepted, saved, item, tries, seen,
                 verdicts, conns, disk>>

BugAskFails(j) ==
  /\ job[j] = "ask"
  /\ job' = [job EXCEPT ![j] = "raised"]
  /\ UNCHANGED <<plan, keeper, batch, saved, item, tries, seen, caches, disk>>

\* A provider's error is recorded, and nothing stored; the others are still asked.
AskFails(j) ==
  /\ job[j] = "ask"
  /\ \E n \in 0..plan.upTo[j] : Found(j, n)
  /\ UNCHANGED <<plan, keeper, offset, hand, accepted, saved, item, tries, seen,
                 caches, disk>>

\* The database of the search cache may be locked or broken; no handler of the
\* job catches that.
CacheBreaks(j) ==
  /\ job[j] \in {"connect", "look", "ask"}
  /\ job' = [job EXCEPT ![j] = "raised"]
  /\ faults' = faults \cup {"database"}
  /\ UNCHANGED <<plan, keeper, batch, saved, item, tries, seen, caches, temp>>

\* Six hours are over for an entry: the next look-up or clean-up removes it.
Expire(k) ==
  /\ main = "collect"
  /\ searched[k] # None
  /\ searched' = [searched EXCEPT ![k] = None]
  /\ UNCHANGED <<plan, keeper, job, batch, saved, item, tries, seen, verdicts, conns,
                 disk>>

-----------------------------------------------------------------------------
(* A batch of a job.                                                       *)

InBatch(j) ==
  {j} \X ((offset[j] + 1)..Least(offset[j] + plan.batchSize, found[j]))

\* The file a job was saving when it raised counts here, too: nobody asks any more.
Collected(j) == {i \in Items : i[1] = j /\ saved[i] # "no"}
Remaining(j) == Needed - Cardinality(Collected(j))

\* _download_candidates_parallel submits all of the batch.
NextBatch(j) ==
  /\ job[j] = "batch"
  /\ offset[j] < found[j] /\ Remaining(j) > 0
  /\ item' = [i \in Items |-> IF i \in InBatch(j) THEN "queued" ELSE item[i]]
  /\ job' = [job EXCEPT ![j] = "load"]
  /\ UNCHANGED <<plan, keeper, batch, saved, tries, seen, caches, disk>>

JobEnds(j) ==
  /\ job[j] = "batch"
  /\ offset[j] >= found[j] \/ Remaining(j) = 0
  /\ job' = [job EXCEPT ![j] = "finished"]
  /\ UNCHANGED <<plan, keeper, batch, saved, item, tries, seen, caches, disk>>

BatchLoaded(j) ==
  /\ job[j] = "load"
  /\ \A i \in InBatch(j) : item[i] \in {"loaded", "failed"}
  /\ job' = [job EXCEPT ![j] = "judge"]
  /\ UNCHANGED <<plan, keeper, batch, saved, item, tries, seen, caches, disk>>

Judged == {"yes", "no"}
Pending(j) ==
  {i \in InBatch(j) : item[i] \in {"waiting", "judging", "asking"} \cup Judged}
MaySubmit(j) ==
  Cardinality(Pending(j)) < QueueLimit /\ \E i \in InBatch(j) : item[i] = "loaded"

\* submit_next, in the order of completion (videos) or of rank (images).
SubmitItem(i) ==
  LET j == i[1] IN
  /\ job[j] = "judge" /\ MaySubmit(j)
  /\ i \in InBatch(j) /\ item[i] = "loaded"
  /\ item' = [item EXCEPT ![i] = "waiting"]
  /\ UNCHANGED <<plan, keeper, job, batch, saved, tries, seen, caches, disk>>

\* wait(FIRST_COMPLETED) returns whatever is done by then.
TakeDone(j) ==
  /\ job[j] = "judge" /\ ~MaySubmit(j)
  /\ LET done == {i \in Pending(j) : item[i] \in Judged}
     IN  done # {} /\ hand' = [hand EXCEPT ![j] = done]
  /\ job' = [job EXCEPT ![j] = "take"]
  /\ UNCHANGED <<plan, keeper, found, offset, accepted, saved, item, tries, seen,
                 caches, disk>>

BugTakeVerdict(i) ==
  LET j == i[1] IN
  /\ job[j] = "take" /\ i \in hand[j]
  /\ hand' = [hand EXCEPT ![j] = @ \ {i}]
  /\ item' = [item EXCEPT ![i] = IF item[i] = "yes" THEN "accepted" ELSE "rejected"]
  /\ IF item[i] = "yes" THEN /\ seen' = seen \cup {Content(i)}
                            /\ accepted' = [accepted EXCEPT ![j] = Append(@, i)]
     ELSE UNCHANGED <<seen, accepted>>
  /\ UNCHANGED <<plan, keeper, job, found, offset, saved, tries, caches, disk>>

\* Under the lock: what is relevant and not seen in the run is accepted.
TakeVerdict(i) ==
  LET j == i[1]
      unique == item[i] = "yes" /\ Content(i) \notin seen
  IN
  /\ job[j] = "take" /\ i \in hand[j]
  /\ hand' = [hand EXCEPT ![j] = @ \ {i}]
  /\ item' = [item EXCEPT ![i] = IF unique THEN "accepted" ELSE "rejected"]
  /\ IF unique THEN /\ seen' = seen \cup {Content(i)}
                    /\ accepted' = [accepted EXCEPT ![j] = Append(@, i)]
     ELSE UNCHANGED <<seen, accepted>>
  /\ UNCHANGED <<plan, keeper, job, found, offset, saved, tries, caches, disk>>

\* Enough is known once all that was done is taken: judgements not begun are
\* cancelled, those that run go on, and what is accepted beyond it is left.
TakenAll(j) ==
  /\ job[j] = "take" /\ hand[j] = {}
  /\ IF Len(accepted[j]) >= Remaining(j)
     THEN /\ accepted' = [accepted EXCEPT ![j] = SubSeq(@, 1, Remaining(j))]
          /\ item' = [i \in Items |->
                        IF i \in Pending(j) /\ item[i] = "waiting" THEN "dropped"
                        ELSE item[i]]
          /\ job' = [job EXCEPT ![j] = "save"]
     ELSE job' = [job EXCEPT ![j] = "judge"] /\ UNCHANGED <<accepted, item>>
  /\ UNCHANGED <<plan, keeper, found, offset, hand, saved, tries, seen, caches, disk>>

NothingPending(j) ==
  /\ job[j] = "judge" /\ ~MaySubmit(j) /\ Pending(j) = {}
  /\ job' = [job EXCEPT ![j] = "save"]
  /\ UNCHANGED <<plan, keeper, batch, saved, item, tries, seen, caches, disk>>

\* What there is to save of a candidate: the temporary file of a video, which may
\* be gone, or the image in memory.
Source(i) == IF plan.video THEN temp[Content(i)].is ELSE "whole"

\* copy2 of the temporary file, or write_bytes of the image.
Save(j) ==
  /\ job[j] = "save" /\ accepted[j] # <<>>
  /\ LET i == Head(accepted[j])
     IN  Source(i) # "none" /\ saved' = [saved EXCEPT ![i] = Source(i)]
  /\ accepted' = [accepted EXCEPT ![j] = Tail(@)]
  /\ UNCHANGED <<plan, keeper, job, found, offset, hand, item, tries, seen, caches,
                 disk>>

\* The temporary file is gone, or the disk broken: the job raises. Both write in
\* place, under the final name, so the disk leaves there what it took: nothing, a
\* part, or all of it, when only the closing of the file or the copy of its times
\* failed. Nobody removes it.
SaveFails(j) ==
  /\ job[j] = "save" /\ accepted[j] # <<>>
  /\ LET i == Head(accepted[j])
     IN  IF Source(i) = "none" THEN UNCHANGED <<saved, faults>>
         ELSE /\ \E is \in {"no", "torn", Source(i)} :
                   saved' = [saved EXCEPT ![i] = is]
              /\ faults' = faults \cup {"disk"}
  /\ job' = [job EXCEPT ![j] = "raised"]
  /\ UNCHANGED <<plan, keeper, batch, item, tries, seen, caches, temp>>

Duplicate(i) ==
  \E n \in 1..(i[2] - 1) :
    <<i[1], n>> \in InBatch(i[1]) /\ item[<<i[1], n>>] # "failed"
      /\ Content(<<i[1], n>>) = Content(i)

\* Videos: every temporary file of the batch is to be removed, once.
SavedAll(j) ==
  /\ job[j] = "save" /\ accepted[j] = <<>>
  /\ hand' = [hand EXCEPT ![j] = IF plan.video
                 THEN {i \in InBatch(j) : item[i] # "failed" /\ ~Duplicate(i)}
                 ELSE {}]
  /\ job' = [job EXCEPT ![j] = "clean"]
  /\ UNCHANGED <<plan, keeper, found, offset, accepted, saved, item, tries, seen,
                 caches, disk>>

\* What cannot be removed stays, and the clean-up goes on.
Unlink(i) ==
  LET j == i[1] IN
  /\ job[j] = "clean" /\ i \in hand[j]
  /\ hand' = [hand EXCEPT ![j] = @ \ {i}]
  /\ temp' \in {temp, [temp EXCEPT ![Content(i)] = NoFile]}
  /\ UNCHANGED <<plan, keeper, job, found, offset, accepted, saved, item, tries, seen,
                 caches, faults>>

BatchEnds(j) ==
  /\ job[j] = "clean" /\ hand[j] = {}
  /\ offset' = [offset EXCEPT ![j] = @ + plan.batchSize]
  /\ job' = [job EXCEPT ![j] = "batch"]
  /\ UNCHANGED <<plan, keeper, found, hand, accepted, saved, item, tries, seen, caches,
                 disk>>

-----------------------------------------------------------------------------
(* The pool of downloads.                                                  *)

Loading == {"fetch", "open", "write", "probe"}
Becomes(i, state) == item' = [item EXCEPT ![i] = state]

\* A worker takes the oldest download a job has queued.
BeginLoad(i) ==
  /\ item[i] = "queued" /\ \A n \in 1..(i[2] - 1) : item[<<i[1], n>>] # "queued"
  /\ Cardinality({k \in Items : item[k] \in Loading}) < DownloadWorkers
  /\ Becomes(i, "fetch")
  /\ UNCHANGED <<plan, keeper, job, batch, saved, tries, seen, caches, disk>>

\* The bytes are read: an image stays in memory; for a video, write_hashed_temp_
\* file looks whether its file is there ...
Fetch(i) ==
  /\ item[i] = "fetch"
  /\ Becomes(i, IF ~plan.video THEN "loaded"
                ELSE IF temp[Content(i)] = NoFile THEN "open" ELSE "probe")
  /\ UNCHANGED <<plan, keeper, job, batch, saved, tries, seen, caches, disk>>

\* ... and opens it, which empties a file another download made meanwhile ...
OpenTemp(i) ==
  /\ item[i] = "open"
  /\ Becomes(i, "write")
  /\ temp' = [temp EXCEPT ![Content(i)] = [is |-> "torn", by |-> i]]
  /\ UNCHANGED <<plan, keeper, job, batch, saved, tries, seen, caches, faults>>

\* ... and writes it. It is whole when the last to open it is through, unless it
\* was removed under its hands.
CloseTemp(i) ==
  /\ item[i] = "write"
  /\ Becomes(i, "probe")
  /\ temp' = IF temp[Content(i)].by = i
             THEN [temp EXCEPT ![Content(i)].is = "whole"] ELSE temp
  /\ UNCHANGED <<plan, keeper, job, batch, saved, tries, seen, caches, faults>>

\* ffprobe finds a video that is good enough. It need not notice a torn file.
Probe(i) ==
  /\ item[i] = "probe" /\ temp[Content(i)] # NoFile
  /\ Becomes(i, "loaded")
  /\ UNCHANGED <<plan, keeper, job, batch, saved, tries, seen, caches, disk>>

BugLoadFails(i) ==
  /\ item[i] \in Loading
  /\ Becomes(i, "fetch")
  /\ faults' = IF item[i] = "write" THEN faults \cup {Content(i)} ELSE faults
  /\ UNCHANGED <<plan, keeper, job, batch, saved, tries, seen, caches, temp>>

\* Any exception of an attempt; what a broken write leaves is not removed, and
\* the next attempt takes it for the file.
LoadFails(i) ==
  /\ item[i] \in Loading
  /\ IF tries[i] < Retries
     THEN Becomes(i, "fetch") /\ tries' = [tries EXCEPT ![i] = @ + 1]
     ELSE Becomes(i, "failed") /\ UNCHANGED tries
  /\ faults' = IF item[i] = "write" THEN faults \cup {Content(i)} ELSE faults
  /\ UNCHANGED <<plan, keeper, job, batch, saved, seen, caches, temp>>

-----------------------------------------------------------------------------
(* The pool of judgements.                                                 *)

Judging == {"judging", "asking"}
Cached(i) == verdicts[Keyword(i)][Content(i)]
Remember(i, v) == verdicts' = [verdicts EXCEPT ![Keyword(i)][Content(i)] = v]

\* A cached verdict is taken without a look at the file.
BeginJudge(i) ==
  /\ item[i] = "waiting"
  /\ Cardinality({k \in Items : item[k] \in Judging}) < RelevanceWorkers
  /\ Becomes(i, IF Cached(i) # "none" THEN Cached(i) ELSE "judging")
  /\ UNCHANGED <<plan, keeper, job, batch, saved, tries, seen, caches, disk>>

\* _extract_keyframes; an image is shown as it is.
Frames(i) ==
  /\ item[i] = "judging"
  /\ plan.video => temp[Content(i)] # NoFile
  /\ Becomes(i, "asking")
  /\ UNCHANGED <<plan, keeper, job, batch, saved, tries, seen, caches, disk>>

Verdict(i) ==
  /\ item[i] = "asking"
  /\ \E v \in Judged : Becomes(i, v) /\ Remember(i, v)
  /\ UNCHANGED <<plan, keeper, job, batch, saved, tries, seen, searched, conns, disk>>

\* The third attempt failed too, or the cache did: rejected, and not cached.
JudgeFails(i) ==
  /\ item[i] \in Judging
  /\ Becomes(i, "no")
  /\ UNCHANGED <<plan, keeper, job, batch, saved, tries, seen, caches, disk>>

-----------------------------------------------------------------------------
(* The run.                                                                *)

TooFew(j) == plan.failFast /\ Remaining(j) > 0

\* as_completed: the first job that raised, or has too few under --fail-fast,
\* cancels the jobs that did not start.
Collect(j) ==
  /\ main = "collect"
  /\ job[j] \in {"finished", "raised"} /\ j \notin results
  /\ IF job[j] = "raised" \/ TooFew(j)
     THEN /\ failed' = TRUE /\ main' = "keywords"
          /\ job' = [k \in Jobs |-> IF job[k] = "queued" THEN "cancelled" ELSE job[k]]
          /\ UNCHANGED results
     ELSE /\ results' = results \cup {j}
          /\ main' = IF results' = Jobs THEN "keywords" ELSE "collect"
          /\ UNCHANGED <<failed, job>>
  /\ UNCHANGED <<plan, batch, saved, item, tries, seen, caches, disk>>

Busy(states) == \E i \in Items : item[i] \in states

\* The pools are left in the reverse order of their creation, each once its
\* workers are idle.
JoinKeywords ==
  /\ main = "keywords" /\ \A j \in Jobs : job[j] \notin Active
  /\ main' = "relevance"
  /\ UNCHANGED <<plan, failed, results, job, batch, saved, item, tries, seen, caches,
                 disk>>

BugJoinRelevance ==
  /\ main = "relevance"
  /\ main' = "downloads"
  /\ UNCHANGED <<plan, failed, results, job, batch, saved, item, tries, seen, caches,
                 disk>>

JoinRelevance ==
  /\ main = "relevance" /\ ~Busy({"waiting"} \cup Judging)
  /\ main' = "downloads"
  /\ UNCHANGED <<plan, failed, results, job, batch, saved, item, tries, seen, caches,
                 disk>>

JoinDownloads ==
  /\ main = "downloads" /\ ~Busy({"queued"} \cup Loading)
  /\ main' = IF failed THEN "close" ELSE "report"
  /\ UNCHANGED <<plan, failed, results, job, batch, saved, item, tries, seen, caches,
                 disk>>

\* The report of the run, unless the disk refuses it.
Report ==
  /\ main = "report"
  /\ main' = "close"
  /\ \/ UNCHANGED <<failed, faults>>
     \/ failed' = TRUE /\ faults' = faults \cup {"disk"}
  /\ UNCHANGED <<plan, results, job, batch, saved, item, tries, seen, caches, temp>>

\* Either way the caches are closed and the temporary directory removed.
Close ==
  /\ main = "close"
  /\ main' = "closed"
  /\ temp' = [c \in Contents |-> NoFile]
  /\ UNCHANGED <<plan, failed, results, job, batch, saved, item, tries, seen, caches,
                 faults>>

Terminated == main = "closed" /\ UNCHANGED vars

JobStep(j) ==
  \/ Start(j) \/ Search(j) \/ OpenCache(j) \/ Connect(j) \/ LookUp(j) \/ Answer(j)
  \/ AskFails(j) \/ CacheBreaks(j)
  \/ NextBatch(j) \/ JobEnds(j) \/ BatchLoaded(j) \/ TakeDone(j) \/ TakenAll(j)
  \/ NothingPending(j) \/ Save(j) \/ SaveFails(j) \/ SavedAll(j) \/ BatchEnds(j)
  \/ \E n \in 1..MaxCandidates :
       SubmitItem(<<j, n>>) \/ TakeVerdict(<<j, n>>) \/ Unlink(<<j, n>>)

Load(i) ==
  BeginLoad(i) \/ Fetch(i) \/ OpenTemp(i) \/ CloseTemp(i) \/ Probe(i) \/ LoadFails(i)

Judge(i) == BeginJudge(i) \/ Frames(i) \/ Verdict(i) \/ JudgeFails(i)

Main ==
  \/ \E j \in Jobs : Collect(j)
  \/ JoinKeywords \/ JoinRelevance \/ JoinDownloads \/ Report \/ Close

Next ==
  \/ Main
  \/ \E j \in Jobs : JobStep(j)
  \/ \E i \in Items : Load(i) \/ Judge(i)
  \/ \E k \in Keywords : Expire(k)
  \/ Terminated

Spec == Init /\ [][Next]_vars

\* Threads are scheduled; searches, downloads, ffmpeg and the model have time-outs.
Fairness ==
  /\ WF_vars(Main)
  /\ \A j \in Jobs : WF_vars(JobStep(j))
  /\ \A i \in Items : WF_vars(Load(i)) /\ WF_vars(Judge(i))

FairSpec == Spec /\ Fairness

-----------------------------------------------------------------------------
(* Properties.                                                             *)

\* Types of the state of a run, with no more files than a keyword wants and no
\* more connections to the search cache than jobs that may open one.
TypeOK ==
  /\ plan \in Plans
  /\ main \in {"collect", "keywords", "relevance", "downloads", "report", "close",
               "closed"}
  /\ failed \in BOOLEAN /\ results \subseteq Jobs
  /\ job \in [Jobs -> Active \cup {"queued", "finished", "raised", "cancelled"}]
  /\ found \in [Jobs -> 0..MaxCandidates] /\ offset \in [Jobs -> Nat]
  /\ hand \in [Jobs -> SUBSET Items] /\ accepted \in [Jobs -> Seq(Items)]
  /\ saved \in [Items -> {"no", "whole", "torn"}]
  /\ \A j \in Jobs : Cardinality(Collected(j)) <= Needed
  /\ item \in [Items -> Loading \cup Judging \cup Judged \cup
                 {"new", "queued", "loaded", "failed", "waiting", "accepted",
                  "rejected", "dropped"}]
  /\ tries \in [Items -> 0..Retries]
  /\ seen \subseteq Contents
  /\ verdicts \in [Keywords -> [Contents -> Judged \cup {"none"}]]
  /\ searched \in [Keywords -> (0..MaxCandidates) \cup {None}]
  /\ conns \in 0..KeywordWorkers
  /\ temp \in [Contents -> Files]
  /\ faults \subseteq Contents \cup {"database", "disk"}

\* What another candidate of the run turned out to be, too.
Shared(c) == \E i, k \in Items : i # k /\ Content(i) = c /\ Content(k) = c

\* The file a job was about to save when it raised, if it raised there.
InTheMaking(i) ==
  job[i[1]] = "raised" /\ accepted[i[1]] # <<>> /\ Head(accepted[i[1]]) = i

\* No content is saved twice in a run, by whatever jobs it was found and judged
\* at once; and what is in the run directory is whole, unless its bytes passed
\* through a temporary file that another candidate shared or whose write broke,
\* or the disk failed while its job saved it, which then raised: no job goes on
\* after a torn file of its own making.
SavedFilesAreSound ==
  /\ \A i, k \in Items :
       i # k /\ saved[i] # "no" /\ saved[k] # "no" => Content(i) # Content(k)
  /\ \A i \in Items :
       saved[i] = "torn" =>
         \/ plan.video /\ (Shared(Content(i)) \/ Content(i) \in faults)
         \/ "disk" \in faults /\ InTheMaking(i)

\* Neither providers nor downloads, time-outs or the model make a run fail: the
\* database of the search cache does, the disk, a keyword with too few files
\* under --fail-fast, or a video whose temporary file another job removed.
FailsForACause ==
  failed =>
    \/ faults \cap {"database", "disk"} # {}
    \/ \E j \in Jobs : job[j] = "finished" /\ TooFew(j)
    \/ plan.video /\ \E j \in Jobs :
         /\ job[j] = "raised" /\ accepted[j] # <<>>
         /\ Shared(Content(Head(accepted[j])))

\* A pool that is left gets no more work, and once the caches are closed and the
\* temporary directory is gone nothing runs that would use them: not even the
\* judgements a satisfied job left behind, or the jobs beside one that raised.
NothingUsedAfterClose ==
  /\ main \notin {"collect", "keywords"} =>
       \A j \in Jobs : job[j] \notin Active \cup {"queued"}
  /\ main = "closed" => ~Busy({"queued", "waiting"} \cup Loading \cup Judging)

\* A run comes to its end: no job waits for ever for a pool.
RunEnds == <>(main = "closed")
=============================================================================
