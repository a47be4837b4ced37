---------------------------- MODULE MediaDownload ----------------------------
(***************************************************************************)
(* From the candidates of a paragraph to its files (pipeline/media,        *)
(* browser/downloads): videos are ranked, through a pool that may be full, *)
(* fail or be late, and downloaded in that order until one succeeds; the   *)
(* images of both roles are downloaded all, through a pool when no         *)
(* Storyblocks provider is selected, and the failed ones dropped.          *)
(*                                                                         *)
(* A download writes its file in place. The directory belongs to the       *)
(* project when an output directory is set, so that a later run, and a     *)
(* candidate of the same name, meet what earlier ones left. Names are      *)
(* FileOf: the name of a Storyblocks file keeps 20 characters of the       *)
(* asset's slug, the digest of a free image fits.                          *)
(***************************************************************************)
EXTENDS Naturals, Sequences, FiniteSets

CONSTANTS
  Assets,             \* candidates
  None,               \* no asset
  Files,              \* names in the download directory
  FileOf,             \* _asset_filename
  RankHint,           \* rank_hint of a candidate
  Storyblocks,        \* the assets of Storyblocks; the others are free images
  Selections,         \* what a search may leave a paragraph with
  RankedLimit,        \* ranked_candidate_limit
  RankingWorkers, RankingQueueSize,
  DownloadWorkers, DownloadQueueSize,
  RetryBudget,        \* retries of a free image; Storyblocks has none
  MaxRuns             \* bound: runs over the same directory

Roles == {"supporting", "fallback"}

ASSUME NamesAssumption ==
  /\ FileOf \in [Assets -> Files] /\ None \notin Assets
  /\ \A a, b \in Assets \ Storyblocks : FileOf[a] = FileOf[b] => a = b
  /\ \A a \in Storyblocks, b \in Assets \ Storyblocks : FileOf[a] # FileOf[b]
ASSUME LimitsAssumption ==
  /\ {RankedLimit, RankingWorkers, RankingQueueSize, DownloadWorkers,
      DownloadQueueSize, MaxRuns} \subseteq Nat \ {0}
  /\ RetryBudget \in Nat
ASSUME RanksAssumption == RankHint \in [Assets -> Nat]
\* video, supporting, fallback: what the search found; images: an image may take
\* the place of the video; serial: a Storyblocks provider is selected.
SelectionType == [video : Seq(Assets), supporting : Seq(Assets),
                  fallback : Seq(Assets), images : BOOLEAN, serial : BOOLEAN]

\* The deduper of the paragraph lets a candidate through once.
Distinct(s) == \A i, j \in DOMAIN s : s[i] = s[j] => i = j
Apart(s, t) == \A i \in DOMAIN s, j \in DOMAIN t : s[i] # t[j]

ASSUME SelectionsAssumption ==
  /\ Selections \subseteq SelectionType
  /\ \A c \in Selections :
       /\ Distinct(c.video) /\ Distinct(c.supporting) /\ Distinct(c.fallback)
       /\ Apart(c.video, c.supporting) /\ Apart(c.video, c.fallback)
       /\ Apart(c.supporting, c.fallback)
       /\ \A r \in Roles : \A i \in DOMAIN c[r] : c[r][i] \in Storyblocks => c.serial

VARIABLES
  runs,     \* how many runs used the directory
  choice,   \* the candidates of the paragraph in this run
  pc,       \* where the thread of the paragraph is
  rank,     \* the ranking task of each video candidate
  ranked,   \* the video candidates in the order they are tried
  next,     \* position in ranked, or in the images in hand
  primary,  \* the video selected
  role,     \* the role of the images in hand
  job,      \* the download of each asset
  tries,    \* its failed attempts
  got,      \* the images in hand, each at its index once its result is collected
  kept,     \* the images selected, per role, each at its place
  disk      \* what a file holds: an asset, whole or torn

vars == <<runs, choice, pc, rank, ranked, next, primary, role, job, tries, got,
          kept, disk>>
ranking == <<rank, ranked>>
selected == <<next, primary, role, got, kept>>

Least(m, n) == IF m < n THEN m ELSE n
NoFile == [of |-> None, whole |-> FALSE]
Empty(f) == disk[f] = NoFile

Init ==
  /\ runs = 1
  /\ choice \in Selections
  /\ pc = "rank" /\ rank = <<>> /\ ranked = <<>>
  /\ next = 1 /\ primary = None /\ role = "supporting"
  /\ job = [a \in Assets |-> "new"]
  /\ tries = [a \in Assets |-> 0]
  /\ got = <<>> /\ kept = [r \in Roles |-> <<>>]
  /\ disk = [f \in Files |-> NoFile]

-----------------------------------------------------------------------------
(* Ranking.                                                                *)

\* _asset_rank and the _raw_asset_rank it falls back to are the same number.
RawRank(a) == RankHint[a]
AssetRank(a) == RawRank(a)

Pooled ==
  RankingWorkers > 1 /\ RankingQueueSize > 1 /\ Len(choice.video) > 1

InRanking == Cardinality({i \in DOMAIN rank : rank[i] = "queued"})

\* try_submit: a full pool is not waited for.
RankSubmit ==
  /\ pc = "rank" /\ Pooled
  /\ Len(rank) < Len(choice.video)
  /\ rank' = Append(rank, IF InRanking < RankingQueueSize THEN "queued"
                          ELSE "dropped")
  /\ UNCHANGED <<runs, choice, pc, ranked, selected, job, tries, disk>>

RankScore(i) ==
  /\ pc = "rank" /\ rank[i] = "queued"
  /\ \E outcome \in {"scored", "broken"} : rank' = [rank EXCEPT ![i] = outcome]
  /\ UNCHANGED <<runs, choice, pc, ranked, selected, job, tries, disk>>

\* The score of a candidate, or its raw rank where there is none.
Score(i) ==
  IF i \in DOMAIN rank /\ rank[i] = "scored"
  THEN AssetRank(choice.video[i]) ELSE RawRank(choice.video[i])

Better(i, j) == Score(i) > Score(j) \/ (Score(i) = Score(j) /\ i < j)

\* The orders of n candidates.
Orders(n) ==
  {order \in [1..n -> 1..n] : \A i \in 1..n : \E k \in 1..n : order[k] = i}

BugByRank ==
  LET Preferred(i, j) == IF rank = <<>> THEN Better(i, j)
                         ELSE rank[i] = "scored" /\ (rank[j] = "scored" => Better(i, j))
  IN  {order \in Orders(Len(choice.video)) :
         \A k, l \in DOMAIN order : Preferred(order[k], order[l]) => k < l}

\* Best first, ties in the order of the results.
ByRank ==
  {order \in Orders(Len(choice.video)) :
     \A k, l \in DOMAIN order : k < l => Better(order[k], order[l])}

\* All tasks done, or ranking_timeout_seconds over: either way all are ranked.
RankEnds ==
  /\ pc = "rank"
  /\ Pooled => Len(rank) = Len(choice.video)
  /\ \E order \in ByRank :
       ranked' = [k \in 1..Least(Len(choice.video), RankedLimit) |->
                    choice.video[order[k]]]
  /\ pc' = "video"
  /\ UNCHANGED <<runs, choice, rank, selected, job, tries, disk>>

-----------------------------------------------------------------------------
(* One download, on a worker of the pool or on the thread itself.          *)

Ended(a) == job[a] \in {"completed", "failed"}

\* download_one takes a file that is there, and not empty, for the asset.
Adopt(a) ==
  /\ job[a] = "running"
  /\ a \in Storyblocks /\ ~Empty(FileOf[a])
  /\ job' = [job EXCEPT ![a] = "completed"]
  /\ UNCHANGED <<runs, choice, pc, ranking, selected, tries, disk>>

BugRetries(a) ==
  /\ job[a] = "running"
  /\ a \notin Storyblocks /\ tries[a] <= RetryBudget
  /\ tries' = [tries EXCEPT ![a] = @ + 1]
  /\ UNCHANGED <<runs, choice, pc, ranking, selected, job, disk>>

\* A time-out, a 429, a 5xx or a broken connection of a free image.
Retry(a) ==
  /\ job[a] = "running"
  /\ a \notin Storyblocks /\ tries[a] < RetryBudget
  /\ tries' = [tries EXCEPT ![a] = @ + 1]
  /\ UNCHANGED <<runs, choice, pc, ranking, selected, job, disk>>

BugWrite(a) ==
  /\ job[a] = "running"
  /\ job' = [job EXCEPT ![a] = "completed"]
  /\ disk' = [disk EXCEPT ![FileOf[a]] = [of |-> a, whole |-> FALSE]]
  /\ UNCHANGED <<runs, choice, pc, ranking, selected, tries>>

\* save_as, copy2 or write_bytes opens the file under its final name ...
Write(a) ==
  /\ job[a] = "running"
  /\ a \in Storyblocks => Empty(FileOf[a])
  /\ job' = [job EXCEPT ![a] = "writing"]
  /\ disk' = [disk EXCEPT ![FileOf[a]] = [of |-> a, whole |-> FALSE]]
  /\ UNCHANGED <<runs, choice, pc, ranking, selected, tries>>

\* ... and closes it.
Written(a) ==
  /\ job[a] = "writing"
  /\ job' = [job EXCEPT ![a] = "completed"]
  /\ disk' = [disk EXCEPT ![FileOf[a]].whole = TRUE]
  /\ UNCHANGED <<runs, choice, pc, ranking, selected, tries>>

\* No attempt left, an error not worth one, or a write that fails in the middle
\* and leaves what it has written.
DownloadFails(a) ==
  /\ job[a] \in {"running", "writing"}
  /\ job[a] = "running" /\ a \in Storyblocks => Empty(FileOf[a])
  /\ job' = [job EXCEPT ![a] = "failed"]
  /\ UNCHANGED <<runs, choice, pc, ranking, selected, tries, disk>>

-----------------------------------------------------------------------------
(* The thread of the paragraph: videos.                                    *)

Candidate == ranked[next]

\* _select_primary_video_asset, one candidate after the other.
TryVideo ==
  /\ pc = "video" /\ next <= Len(ranked)
  /\ job[Candidate] = "new"
  /\ job' = [job EXCEPT ![Candidate] = "running"]
  /\ UNCHANGED <<runs, choice, pc, ranking, selected, tries, disk>>

\* Whatever it failed with, the next candidate is tried.
VideoFailed ==
  /\ pc = "video" /\ next <= Len(ranked)
  /\ job[Candidate] = "failed"
  /\ next' = next + 1
  /\ UNCHANGED <<runs, choice, pc, ranking, primary, role, job, tries, got, kept,
                 disk>>

VideoChosen ==
  /\ pc = "video" /\ next <= Len(ranked)
  /\ job[Candidate] = "completed"
  /\ primary' = Candidate
  /\ pc' = "images" /\ next' = 1
  /\ UNCHANGED <<runs, choice, ranking, role, job, tries, got, kept, disk>>

\* Without a video the paragraph fails if no image could take its place.
NoVideo ==
  /\ pc = "video" /\ next > Len(ranked)
  /\ pc' = IF ranked # <<>> /\ ~choice.images THEN "failed" ELSE "images"
  /\ next' = 1
  /\ UNCHANGED <<runs, choice, ranking, primary, role, job, tries, got, kept, disk>>

-----------------------------------------------------------------------------
(* The thread of the paragraph: images, supporting ones first.             *)

Images == choice[role]
\* One after the other, as always when a Storyblocks provider is selected.
Serial == choice.serial \/ DownloadWorkers <= 1 \/ Len(Images) <= 1
Waiting == {i \in DOMAIN Images : i < next /\ got[i] = None}
Workers == IF Serial THEN 1 ELSE DownloadWorkers
Window == IF Serial THEN 1 ELSE DownloadQueueSize

OpenImages ==
  /\ pc = "images" /\ got = <<>> /\ Images # <<>>
  /\ got' = [i \in DOMAIN Images |-> None]
  /\ UNCHANGED <<runs, choice, pc, ranking, next, primary, role, job, tries, kept,
                 disk>>

\* submit_next, as long as fewer than a queue of results are out.
SubmitImage ==
  /\ pc = "images" /\ got # <<>> /\ next <= Len(Images)
  /\ Cardinality(Waiting) < Window
  /\ job' = [job EXCEPT ![Images[next]] = "queued"]
  /\ next' = next + 1
  /\ UNCHANGED <<runs, choice, pc, ranking, primary, role, tries, got, kept, disk>>

\* A free worker takes the oldest download of its queue.
BeginImage(i) ==
  /\ pc = "images" /\ got # <<>>
  /\ job[Images[i]] = "queued"
  /\ \A j \in 1..(i - 1) : job[Images[j]] # "queued"
  /\ Cardinality({j \in DOMAIN Images : job[Images[j]] \in {"running", "writing"}})
       < Workers
  /\ job' = [job EXCEPT ![Images[i]] = "running"]
  /\ UNCHANGED <<runs, choice, pc, ranking, selected, tries, disk>>

BugCollectImage(i) ==
  /\ pc = "images"
  /\ i \in Waiting /\ Ended(Images[i])
  /\ LET slot == CHOOSE j \in DOMAIN got :
                   got[j] = None /\ \A k \in 1..(j - 1) : got[k] # None
     IN  got' = [got EXCEPT ![slot] = Images[i]]
  /\ UNCHANGED <<runs, choice, pc, ranking, next, primary, role, job, tries, kept,
                 disk>>

\* A result in whatever order it is done, put at its index.
CollectImage(i) ==
  /\ pc = "images"
  /\ i \in Waiting /\ Ended(Images[i])
  /\ got' = [got EXCEPT ![i] = Images[i]]
  /\ UNCHANGED <<runs, choice, pc, ranking, next, primary, role, job, tries, kept,
                 disk>>

\* _successful_image_assets of the role, once all of them are through.
CloseImages ==
  /\ pc = "images"
  /\ Len(got) = Len(Images) /\ \A i \in DOMAIN got : got[i] # None
  /\ kept' = [kept EXCEPT ![role] =
                [i \in {i \in DOMAIN got : job[got[i]] = "completed"} |-> got[i]]]
  /\ got' = <<>> /\ next' = 1
  /\ role' = "fallback"
  /\ pc' = IF role = "fallback" THEN "done" ELSE "images"
  /\ UNCHANGED <<runs, choice, ranking, primary, job, tries, disk>>

-----------------------------------------------------------------------------

\* Another run over the directory, after the end of this one or a crash.
NewRun ==
  /\ runs < MaxRuns
  /\ runs' = runs + 1
  /\ choice' \in Selections
  /\ pc' = "rank" /\ rank' = <<>> /\ ranked' = <<>>
  /\ next' = 1 /\ primary' = None /\ role' = "supporting"
  /\ job' = [a \in Assets |-> "new"]
  /\ tries' = [a \in Assets |-> 0]
  /\ got' = <<>> /\ kept' = [r \in Roles |-> <<>>]
  /\ UNCHANGED disk

Over == pc \in {"done", "failed"}

Terminated == Over /\ UNCHANGED vars

Rank == RankSubmit \/ (\E i \in DOMAIN rank : RankScore(i)) \/ RankEnds

Videos == TryVideo \/ VideoFailed \/ VideoChosen \/ NoVideo

ImageSteps ==
  \/ OpenImages \/ SubmitImage \/ CloseImages
  \/ \E i \in DOMAIN Images : BeginImage(i) \/ CollectImage(i)

Load(a) == Adopt(a) \/ Retry(a) \/ Write(a) \/ Written(a) \/ DownloadFails(a)

Next ==
  \/ Rank \/ Videos \/ ImageSteps
  \/ \E a \in Assets : Load(a)
  \/ NewRun
  \/ Terminated

Spec == Init /\ [][Next]_vars

-----------------------------------------------------------------------------
(* Properties.                                                             *)

\* Types of the state of a paragraph's downloads and of the directory.
TypeOK ==
  /\ runs \in 1..MaxRuns /\ choice \in Selections
  /\ pc \in {"rank", "video", "images", "done", "failed"}
  /\ rank \in Seq({"queued", "dropped", "scored", "broken"})
  /\ ranked \in Seq(Assets) /\ next \in Nat \ {0}
  /\ primary \in Assets \cup {None} /\ role \in Roles
  /\ job \in [Assets -> {"new", "queued", "running", "writing", "completed", "failed"}]
  /\ tries \in [Assets -> 0..RetryBudget]
  /\ got \in Seq(Assets \cup {None})
  /\ DOMAIN kept = Roles
  /\ \A r \in Roles : DOMAIN kept[r] \subseteq DOMAIN choice[r]
  /\ disk \in [Files -> [of : Assets \cup {None}, whole : BOOLEAN]]

\* The candidates that stand before candidate i by rank and order of results.
Preferred(i) ==
  {j \in DOMAIN choice.video :
     LET r == RankHint[choice.video[j]]
         s == RankHint[choice.video[i]]
     IN  r > s \/ (r = s /\ j < i)}

\* The primary video is the best candidate that loads: everything ranked above
\* it was tried and failed, even when the ranking pool was full, broken or late;
\* and a paragraph fails for want of a video only after it tried as many as it may.
BestVideoThatLoads ==
  /\ \A i \in DOMAIN choice.video :
       primary = choice.video[i] =>
         \A j \in Preferred(i) : job[choice.video[j]] = "failed"
  /\ pc = "failed" =>
       \A i \in DOMAIN choice.video :
         Cardinality(Preferred(i)) < RankedLimit => job[choice.video[i]] = "failed"

\* The images of a role stay in the order they were selected, whatever the order
\* of completion, and none is kept that failed nor lost that loaded.
ImagesKeepTheirOrder ==
  \A r \in Roles :
    (pc = "done" \/ (role = "fallback" /\ r = "supporting")) =>
      kept[r] = [i \in {i \in DOMAIN choice[r] : job[choice[r][i]] = "completed"} |->
                   choice[r][i]]

\* A completed download has a whole file, and its own, unless the file was left
\* there by an earlier run or by a candidate of the same name.
CompletedFilesAreWhole ==
  \A a \in Assets :
    job[a] = "completed" =>
      \/ disk[FileOf[a]] = [of |-> a, whole |-> TRUE]
      \/ /\ a \in Storyblocks
         /\ \/ runs > 1
            \/ \E b \in Assets \ {a} :
                 FileOf[b] = FileOf[a] /\ job[b] \in {"completed", "failed"}
=============================================================================
