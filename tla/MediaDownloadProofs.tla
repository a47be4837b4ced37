-------------------------- MODULE MediaDownloadProofs --------------------------
(***************************************************************************)
(* Proofs about MediaDownload, for any candidates, names, ranks, limits,   *)
(* pools, retries and runs over one directory.                             *)
(***************************************************************************)
EXTENDS MediaDownload, FiniteSetTheorems, TLAPS

Busy(a) == job[a] \in {"queued", "running", "writing"}
JobStates == {"new", "queued", "running", "writing", "completed", "failed"}
Places == {"rank", "video", "images", "done", "failed"}

\* Candidate i stands before candidate j.
Before(i, j) ==
  LET r == RankHint[choice.video[i]]
      s == RankHint[choice.video[j]]
  IN  r > s \/ (r = s /\ i < j)

Sorted(order) == \A k, l \in DOMAIN order : k < l => Before(order[k], order[l])
Tried == Least(Len(choice.video), RankedLimit)

RankedInv ==
  /\ pc = "rank" => ranked = <<>>
  /\ pc # "rank" => \E order \in Orders(Len(choice.video)) :
       Sorted(order) /\ ranked = [k \in 1..Tried |-> choice.video[order[k]]]

\* What was done before the images.
PlaceInv ==
  /\ role = "fallback" => pc \in {"images", "done"}
  /\ pc = "done" => role = "fallback"
  /\ pc # "images" => got = <<>>
  /\ pc = "rank" => next = 1 /\ \A a \in Assets : job[a] = "new"

VideoInv ==
  /\ pc \notin {"images", "done"} => primary = None
  /\ pc = "video" => \A k \in DOMAIN ranked :
       /\ k < next => job[ranked[k]] = "failed"
       /\ k > next => job[ranked[k]] = "new"
  /\ pc = "failed" => \A k \in DOMAIN ranked : job[ranked[k]] = "failed"
  /\ primary # None =>
       \E m \in DOMAIN ranked :
         primary = ranked[m] /\ \A k \in 1..(m - 1) : job[ranked[k]] = "failed"

\* Which images are to be downloaded, and which are.
ToCome(r) ==
  \/ pc \in {"rank", "video", "failed"}
  \/ pc = "images" /\ role = "supporting" /\ r = "fallback"
  \/ pc = "images" /\ role = r /\ got = <<>>
Through(r) == pc = "done" \/ (role = "fallback" /\ r = "supporting")

ImagesInv ==
  /\ \A r \in Roles : ToCome(r) =>
       \A i \in DOMAIN choice[r] : job[choice[r][i]] = "new"
  /\ got = <<>> /\ pc = "images" => next = 1
  /\ got # <<>> =>
       /\ DOMAIN got = DOMAIN Images
       /\ \A i \in DOMAIN Images :
            /\ got[i] # None => got[i] = Images[i] /\ Ended(Images[i])
            /\ i >= next => job[Images[i]] = "new"

BusyInv ==
  /\ \A a \in Assets : Busy(a) =>
       \/ pc = "video" /\ next \in DOMAIN ranked /\ a = ranked[next]
       \/ pc = "images" /\ got # <<>> /\ \E i \in DOMAIN Images : a = Images[i]
  /\ pc = "images" /\ choice.serial =>
       \A i, j \in DOMAIN Images :
         {job[Images[i]], job[Images[j]]} \subseteq {"running", "writing"} => i = j

KeptInv ==
  /\ ImagesKeepTheirOrder
  /\ \A r \in Roles : Through(r) =>
       \A i \in DOMAIN choice[r] : Ended(choice[r][i])

FileInv ==
  /\ \A a \in Assets : job[a] = "writing" => disk[FileOf[a]].of = a
  /\ runs = 1 => \A f \in Files : ~Empty(f) =>
       \E b \in Assets : FileOf[b] = f /\ job[b] \in {"writing", "completed", "failed"}
  /\ CompletedFilesAreWhole

IInv == /\ TypeOK /\ RankedInv /\ PlaceInv /\ VideoInv
        /\ ImagesInv /\ BusyInv /\ KeptInv /\ FileInv

\* Where a run begins, whatever the directory holds.
Fresh ==
  /\ runs \in 1..MaxRuns /\ choice \in Selections
  /\ pc = "rank" /\ rank = <<>> /\ ranked = <<>>
  /\ next = 1 /\ primary = None /\ role = "supporting"
  /\ job = [a \in Assets |-> "new"] /\ tries = [a \in Assets |-> 0]
  /\ got = <<>> /\ kept = [r \in Roles |-> <<>>]

\* A step within the run.
Step == Rank \/ Videos \/ ImageSteps \/ \E a \in Assets : Load(a)

DiskType == disk \in [Files -> [of : Assets \cup {None}, whole : BOOLEAN]]

-----------------------------------------------------------------------------
LEMMA Limits ==
  /\ RankedLimit \in Nat \ {0} /\ RetryBudget \in Nat /\ MaxRuns \in Nat \ {0}
BY LimitsAssumption

LEMMA Choices ==
  ASSUME NEW c \in Selections
  PROVE  /\ c.video \in Seq(Assets) /\ \A r \in Roles : c[r] \in Seq(Assets)
         /\ c.images \in BOOLEAN /\ c.serial \in BOOLEAN
         /\ Len(c.video) \in Nat /\ DOMAIN c.video = 1..Len(c.video)
         /\ \A i \in DOMAIN c.video : c.video[i] \in Assets
         /\ \A r \in Roles : /\ Len(c[r]) \in Nat /\ DOMAIN c[r] = 1..Len(c[r])
                             /\ \A i \in DOMAIN c[r] : c[r][i] \in Assets
                             /\ Distinct(c[r]) /\ Apart(c.video, c[r])
         /\ Distinct(c.video) /\ Apart(c["supporting"], c["fallback"])
         /\ \A r \in Roles : \A i \in DOMAIN c[r] : c[r][i] \in Storyblocks => c.serial
<1>1. c \in SelectionType
  BY SelectionsAssumption
<1>2. c.video \in Seq(Assets) /\ c.supporting \in Seq(Assets) /\ c.fallback \in Seq(Assets)
  BY <1>1 DEF SelectionType
<1>3. c["supporting"] = c.supporting /\ c["fallback"] = c.fallback
  OBVIOUS
<1>4. \A r \in Roles : c[r] \in Seq(Assets) /\ Distinct(c[r]) /\ Apart(c.video, c[r])
  BY <1>2, <1>3, SelectionsAssumption DEF Roles
<1>5. \A s \in Seq(Assets) : /\ Len(s) \in Nat /\ DOMAIN s = 1..Len(s)
                             /\ \A i \in DOMAIN s : s[i] \in Assets
  OBVIOUS
<1>6. /\ Distinct(c.video) /\ Apart(c["supporting"], c["fallback"])
      /\ \A r \in Roles : \A i \in DOMAIN c[r] : c[r][i] \in Storyblocks => c.serial
  BY <1>3, SelectionsAssumption
<1>. QED BY <1>1, <1>2, <1>4, <1>5, <1>6 DEF SelectionType

\* What the ranking does: whatever was scored, the rank hints decide.
LEMMA RankEffect ==
  ASSUME choice \in Selections, RankEnds
  PROVE  \E order \in Orders(Len(choice.video)) :
           Sorted(order) /\ ranked' = [k \in 1..Tried |-> choice.video[order[k]]]
<1>1. PICK order \in ByRank :
        ranked' = [k \in 1..Tried |-> choice.video[order[k]]]
  BY DEF RankEnds, Tried
<1>2. \A i, j : Better(i, j) <=> Before(i, j)
  BY DEF Better, Score, AssetRank, RawRank, Before
<1>3. order \in Orders(Len(choice.video)) /\ Sorted(order)
  BY <1>1, <1>2 DEF ByRank, Sorted
<1>. QED BY <1>1, <1>3

LEMMA RankedFacts ==
  (choice \in Selections /\ RankedInv) =>
    /\ ranked \in Seq(Assets)
    /\ \A k \in DOMAIN ranked : \E i \in DOMAIN choice.video : ranked[k] = choice.video[i]
<1>. SUFFICES ASSUME choice \in Selections, RankedInv
     PROVE  /\ ranked \in Seq(Assets)
            /\ \A k \in DOMAIN ranked :
                 \E i \in DOMAIN choice.video : ranked[k] = choice.video[i]
  OBVIOUS
<1>1. CASE pc = "rank"
  BY <1>1 DEF RankedInv
<1>2. CASE pc # "rank"
  <2>1. PICK order \in Orders(Len(choice.video)) :
          ranked = [k \in 1..Tried |-> choice.video[order[k]]]
    BY <1>2 DEF RankedInv
  <2>2. Tried \in Nat /\ Tried <= Len(choice.video) /\ Len(choice.video) \in Nat
    BY Limits, Choices DEF Tried, Least
  <2>3. \A k \in 1..Tried : order[k] \in DOMAIN choice.video
    <3>1. order \in [1..Len(choice.video) -> 1..Len(choice.video)]
      BY <2>1 DEF Orders
    <3>2. DOMAIN choice.video = 1..Len(choice.video)
      BY Choices
    <3>. QED BY <2>2, <3>1, <3>2
  <2>4. \A k \in 1..Tried : choice.video[order[k]] \in Assets
    BY <2>3, Choices
  <2>5. DOMAIN ranked = 1..Tried /\ \A k \in 1..Tried : ranked[k] = choice.video[order[k]]
    BY <2>1
  <2>6. [k \in 1..Tried |-> choice.video[order[k]]] \in Seq(Assets)
    BY <2>2, <2>4
  <2>. QED BY <2>1, <2>3, <2>5, <2>6
<1>. QED BY <1>1, <1>2

\* What a download does to its asset.
LEMMA LoadMoves ==
  ASSUME TypeOK, NEW a \in Assets, Load(a)
  PROVE  /\ UNCHANGED <<runs, choice, pc, rank, ranked, next, primary, role, got, kept>>
         /\ job[a] \in {"running", "writing"}
         /\ \A b \in Assets \ {a} : job'[b] = job[b]
         /\ job'[a] \in {"running", "writing", "completed", "failed"}
         /\ job' \in [Assets -> JobStates]
<1>1. job \in [Assets -> JobStates]
  BY DEF TypeOK, JobStates
<1>2. /\ UNCHANGED <<runs, choice, pc, rank, ranked, next, primary, role, got, kept>>
      /\ job[a] \in {"running", "writing"}
  BY DEF Load, Adopt, Retry, Write, Written, DownloadFails, ranking, selected
<1>3. CASE Retry(a)
  BY <1>1, <1>2, <1>3 DEF Retry
<1>4. CASE ~Retry(a)
  <2>1. \E st \in {"writing", "completed", "failed"} : job' = [job EXCEPT ![a] = st]
    BY <1>4 DEF Load, Adopt, Write, Written, DownloadFails
  <2>. QED BY <1>1, <1>2, <2>1 DEF JobStates
<1>. QED BY <1>3, <1>4

-----------------------------------------------------------------------------
(* A run begins.                                                           *)

LEMMA FreshTypes == ASSUME Fresh, DiskType PROVE TypeOK
<1>1. \A r \in Roles : DOMAIN kept[r] \subseteq DOMAIN choice[r]
  BY DEF Fresh
<1>2. 0 \in 0..RetryBudget
  BY Limits
<1>. QED BY <1>1, <1>2 DEF Fresh, TypeOK, DiskType, Roles

LEMMA FreshPlaces ==
  ASSUME Fresh PROVE RankedInv /\ PlaceInv /\ VideoInv /\ ImagesInv /\ BusyInv /\ KeptInv
<1>1. \A r \in Roles : \A i \in DOMAIN choice[r] : choice[r][i] \in Assets
  BY Choices DEF Fresh
<1>2. \A a \in Assets : job[a] = "new"
  BY DEF Fresh
<1>3. RankedInv /\ PlaceInv /\ VideoInv
  BY <1>2 DEF Fresh, RankedInv, PlaceInv, VideoInv
<1>4. ImagesInv
  BY <1>1, <1>2 DEF Fresh, ImagesInv
<1>5. BusyInv
  BY <1>2 DEF Fresh, BusyInv, Busy
<1>6. KeptInv
  BY DEF Fresh, KeptInv, ImagesKeepTheirOrder, Through
<1>. QED BY <1>3, <1>4, <1>5, <1>6

LEMMA FreshFiles ==
  ASSUME Fresh, runs = 1 => \A f \in Files : Empty(f)
  PROVE  FileInv
BY DEF Fresh, FileInv, CompletedFilesAreWhole

LEMMA FreshRun ==
  (Fresh /\ DiskType /\ (runs = 1 => \A f \in Files : Empty(f))) => IInv
BY FreshTypes, FreshPlaces, FreshFiles DEF IInv

LEMMA InitInv == Init => IInv
<1>. SUFFICES ASSUME Init PROVE IInv
  OBVIOUS
<1>1. Fresh
  BY Limits DEF Init, Fresh
<1>2. DiskType /\ \A f \in Files : Empty(f)
  BY DEF Init, DiskType, Empty, NoFile
<1>. QED BY <1>1, <1>2, FreshRun

LEMMA NewRunInv == ASSUME IInv, NewRun PROVE IInv'
<1>1. runs' \in 1..MaxRuns /\ runs' # 1
  BY Limits DEF IInv, TypeOK, NewRun
<1>2. (Fresh /\ DiskType /\ (runs = 1 => \A f \in Files : Empty(f)))'
  BY <1>1 DEF IInv, TypeOK, NewRun, Fresh, DiskType
<1>. QED BY <1>2, FreshRun, PTL

-----------------------------------------------------------------------------
(* Types.                                                                  *)

LEMMA LoadTypes == ASSUME TypeOK, NEW a \in Assets, Load(a) PROVE TypeOK'
<1>1. job' \in [Assets -> JobStates]
  BY LoadMoves
<1>2. tries' \in [Assets -> 0..RetryBudget]
  <2>1. CASE Retry(a)
    <3>1. tries[a] \in Nat /\ tries[a] + 1 \in 0..RetryBudget
      BY <2>1, Limits DEF TypeOK, Retry
    <3>. QED BY <2>1, <3>1 DEF TypeOK, Retry
  <2>2. CASE ~Retry(a)
    BY <2>2 DEF TypeOK, Load, Adopt, Write, Written, DownloadFails
  <2>. QED BY <2>1, <2>2
<1>3. disk' \in [Files -> [of : Assets \cup {None}, whole : BOOLEAN]]
  <2>1. FileOf[a] \in Files
    BY NamesAssumption
  <2>2. CASE Write(a)
    BY <2>1, <2>2 DEF TypeOK, Write
  <2>3. CASE Written(a)
    <3>1. disk[FileOf[a]] \in [of : Assets \cup {None}, whole : BOOLEAN]
      BY <2>1 DEF TypeOK
    <3>2. [disk[FileOf[a]] EXCEPT !.whole = TRUE] \in [of : Assets \cup {None}, whole : BOOLEAN]
      BY <3>1
    <3>3. disk' = [disk EXCEPT ![FileOf[a]] = [disk[FileOf[a]] EXCEPT !.whole = TRUE]]
      BY <2>3 DEF Written
    <3>. QED BY <3>2, <3>3 DEF TypeOK
  <2>4. CASE ~Write(a) /\ ~Written(a)
    BY <2>4 DEF TypeOK, Load, Adopt, Retry, DownloadFails
  <2>. QED BY <2>2, <2>3, <2>4
<1>. QED BY <1>1, <1>2, <1>3, LoadMoves DEF TypeOK, JobStates

LEMMA RankEndsInv == ASSUME IInv, RankEnds PROVE RankedInv' /\ ranked' \in Seq(Assets)
<1>1. choice' = choice /\ choice \in Selections /\ pc' = "video"
  BY DEF RankEnds, IInv, TypeOK
<1>2. RankedInv'
  BY <1>1, RankEffect DEF RankedInv, Sorted, Before, Tried
<1>3. (choice \in Selections /\ RankedInv)'
  BY <1>1, <1>2
<1>4. (ranked \in Seq(Assets))'
  BY <1>3, RankedFacts, PTL
<1>. QED BY <1>2, <1>4

LEMMA RankTypes == ASSUME IInv, Rank PROVE TypeOK'
<1>. USE DEF IInv, TypeOK, ranking, selected
<1>1. CASE RankSubmit
  BY <1>1 DEF RankSubmit
<1>2. ASSUME NEW i \in DOMAIN rank, RankScore(i) PROVE TypeOK'
  BY <1>2 DEF RankScore
<1>3. CASE RankEnds
  BY <1>3, RankEndsInv DEF RankEnds
<1>. QED BY <1>1, <1>2, <1>3 DEF Rank

LEMMA VideoTypes == ASSUME IInv, Videos PROVE TypeOK'
<1>. USE DEF IInv, TypeOK, ranking, selected
<1>1. next <= Len(ranked) => Candidate \in Assets
  BY DEF Candidate
<1>2. CASE TryVideo
  BY <1>1, <1>2 DEF TryVideo
<1>3. CASE VideoFailed
  BY <1>3 DEF VideoFailed
<1>4. CASE VideoChosen
  BY <1>1, <1>4 DEF VideoChosen
<1>5. CASE NoVideo
  BY <1>5 DEF NoVideo
<1>. QED BY <1>2, <1>3, <1>4, <1>5 DEF Videos

LEMMA SameLength == ASSUME NEW m \in Nat, NEW n \in Nat, 1..m = 1..n PROVE m = n
<1>1. (m > 0 => m \in 1..n) /\ (n > 0 => n \in 1..m)
  BY SMT
<1>. QED BY <1>1

\* The images in hand.
LEMMA InHand ==
  ASSUME IInv
  PROVE  /\ Images \in Seq(Assets) /\ Len(Images) \in Nat /\ DOMAIN Images = 1..Len(Images)
         /\ \A i \in DOMAIN Images : i \in Nat /\ Images[i] \in Assets
         /\ IsFiniteSet(DOMAIN Images)
         /\ Distinct(Images) /\ Apart(choice.video, Images)
         /\ \A i \in DOMAIN Images : Images[i] \in Storyblocks => choice.serial
         /\ got \in Seq(Assets \cup {None}) /\ Len(got) \in Nat /\ DOMAIN got = 1..Len(got)
         /\ (got # <<>> => Len(got) = Len(Images))
<1>1. choice \in Selections /\ role \in Roles /\ got \in Seq(Assets \cup {None})
  BY DEF IInv, TypeOK
<1>2. Len(got) \in Nat /\ DOMAIN got = 1..Len(got)
  BY <1>1
<1>3. Len(Images) \in Nat /\ DOMAIN Images = 1..Len(Images)
  BY <1>1, Choices DEF Images
<1>4. got # <<>> => Len(got) = Len(Images)
  <2>1. got # <<>> => DOMAIN got = DOMAIN Images
    BY DEF IInv, ImagesInv
  <2>. QED BY <1>2, <1>3, <2>1, SameLength
<1>5. \A n \in Nat : IsFiniteSet(1..n) /\ \A i \in 1..n : i \in Nat
  BY FS_Interval
<1>6. IsFiniteSet(DOMAIN Images) /\ \A i \in DOMAIN Images : i \in Nat
  BY <1>3, <1>5
<1>. QED BY <1>1, <1>2, <1>3, <1>4, <1>6, Choices DEF Images

\* A result is collected from an open list.
LEMMA Collected ==
  ASSUME IInv, NEW i \in DOMAIN Images, CollectImage(i)
  PROVE  got # <<>> /\ i \in DOMAIN got /\ got' # <<>> /\ DOMAIN got' = DOMAIN got
<1>1. i \in 1..Len(Images) /\ i < next /\ pc = "images"
  BY InHand DEF CollectImage, Waiting
<1>2. got = <<>> => next = 1
  BY <1>1 DEF IInv, ImagesInv
<1>3. got # <<>>
  BY <1>1, <1>2
<1>4. i \in DOMAIN got
  BY <1>3, InHand
<1>5. DOMAIN got' = DOMAIN got
  BY DEF CollectImage
<1>. QED BY <1>3, <1>4, <1>5

LEMMA ImageTypes == ASSUME IInv, ImageSteps PROVE TypeOK'
<1>. USE DEF IInv, TypeOK, ranking, selected
<1>1. CASE OpenImages
  BY <1>1, InHand DEF OpenImages
<1>2. CASE SubmitImage
  BY <1>2, InHand DEF SubmitImage
<1>3. CASE CloseImages
  <2>1. DOMAIN kept'[role] \subseteq DOMAIN Images
    BY <1>3, InHand DEF CloseImages, Roles
  <2>2. \A r \in Roles : DOMAIN kept'[r] \subseteq DOMAIN choice[r]
    BY <1>3, <2>1 DEF CloseImages, Images
  <2>. QED BY <1>3, <2>2 DEF CloseImages, Roles
<1>4. ASSUME NEW i \in DOMAIN Images, BeginImage(i) PROVE TypeOK'
  BY <1>4, InHand DEF BeginImage
<1>5. ASSUME NEW i \in DOMAIN Images, CollectImage(i) PROVE TypeOK'
  <2>1. i \in 1..Len(got) /\ Images[i] \in Assets
    BY <1>5, Collected, InHand
  <2>2. got' = [got EXCEPT ![i] = Images[i]]
    BY <1>5 DEF CollectImage
  <2>3. got' \in Seq(Assets \cup {None})
    BY <2>1, <2>2
  <2>. QED BY <1>5, <2>3 DEF CollectImage
<1>. QED BY <1>1, <1>2, <1>3, <1>4, <1>5 DEF ImageSteps
LEMMA StepTypes == ASSUME IInv, Step PROVE TypeOK'
<1>1. TypeOK
  BY DEF IInv
<1>2. ASSUME NEW a \in Assets, Load(a) PROVE TypeOK'
  BY <1>1, <1>2, LoadTypes
<1>. QED BY <1>2, RankTypes, VideoTypes, ImageTypes DEF Step

-----------------------------------------------------------------------------
(* What a step moves.                                                      *)

\* The next image of an open list was not downloaded yet.
LEMMA NextImage ==
  ASSUME IInv, pc = "images", got # <<>>, next <= Len(Images)
  PROVE  next \in DOMAIN Images /\ Images[next] \in Assets /\ job[Images[next]] = "new"
<1>1. next \in Nat \ {0}
  BY DEF IInv, TypeOK
<1>2. next \in DOMAIN Images
  BY <1>1, InHand
<1>. QED BY <1>1, <1>2, InHand DEF IInv, ImagesInv

\* An asset is moved by the step that is about it, and an ended one by none.
LEMMA Moves ==
  ASSUME IInv, Step
  PROVE  /\ choice' = choice /\ runs' = runs
         /\ \A b \in Assets : Ended(b) => job'[b] = job[b]
<1>1. TypeOK
  BY DEF IInv
<1>2. CASE Rank
  BY <1>2 DEF Rank, RankSubmit, RankScore, RankEnds
<1>3. CASE Videos
  BY <1>1, <1>3 DEF Videos, TryVideo, VideoFailed, VideoChosen, NoVideo, TypeOK, Ended
<1>4. CASE SubmitImage
  BY <1>1, <1>4, NextImage DEF SubmitImage, TypeOK, Ended
<1>5. CASE ImageSteps /\ ~SubmitImage
  BY <1>1, <1>5 DEF ImageSteps, OpenImages, CloseImages, BeginImage, CollectImage, TypeOK, Ended
<1>6. ASSUME NEW a \in Assets, Load(a)
      PROVE  /\ choice' = choice /\ runs' = runs
             /\ \A b \in Assets : Ended(b) => job'[b] = job[b]
  <2>1. /\ UNCHANGED <<runs, choice>> /\ ~Ended(a)
        /\ \A b \in Assets \ {a} : job'[b] = job[b]
    BY <1>1, <1>6, LoadMoves DEF Ended
  <2>. QED BY <2>1
<1>. QED BY <1>2, <1>3, <1>4, <1>5, <1>6 DEF Step

LEMMA PlaceStep == ASSUME IInv, Step PROVE PlaceInv'
<1>. USE DEF IInv, PlaceInv, ranking, selected
<1>1. CASE Rank
  BY <1>1 DEF Rank, RankSubmit, RankScore, RankEnds
<1>2. CASE Videos
  BY <1>2 DEF Videos, TryVideo, VideoFailed, VideoChosen, NoVideo
<1>3. CASE ImageSteps
  BY <1>3 DEF ImageSteps, OpenImages, SubmitImage, CloseImages, BeginImage, CollectImage, TypeOK, Roles
<1>4. ASSUME NEW a \in Assets, Load(a) PROVE PlaceInv'
  BY <1>4, LoadMoves
<1>. QED BY <1>1, <1>2, <1>3, <1>4 DEF Step

LEMMA RankedStep == ASSUME IInv, Step PROVE RankedInv'
<1>1. CASE RankEnds
  BY <1>1, RankEndsInv
<1>2. CASE ~RankEnds
  <2>1. choice' = choice /\ ranked' = ranked /\ (pc' = "rank" <=> pc = "rank")
    <3>1. CASE Rank
      BY <1>2, <3>1 DEF Rank, RankSubmit, RankScore
    <3>2. CASE Videos
      BY <3>2 DEF Videos, TryVideo, VideoFailed, VideoChosen, NoVideo, ranking
    <3>3. CASE ImageSteps
      BY <3>3 DEF ImageSteps, OpenImages, SubmitImage, CloseImages, BeginImage,
                  CollectImage, ranking
    <3>4. ASSUME NEW a \in Assets, Load(a)
          PROVE  choice' = choice /\ ranked' = ranked /\ (pc' = "rank" <=> pc = "rank")
      BY <3>4, LoadMoves DEF IInv
    <3>. QED BY <3>1, <3>2, <3>3, <3>4 DEF Step
  <2>. QED BY <2>1 DEF IInv, RankedInv, Sorted, Before, Tried
<1>. QED BY <1>1, <1>2
-----------------------------------------------------------------------------
(* Videos.                                                                 *)

\* Rank hints are numbers, and only one of two candidates stands before the other.
LEMMA BeforeFacts ==
  ASSUME choice \in Selections, NEW i \in DOMAIN choice.video, NEW j \in DOMAIN choice.video
  PROVE  /\ ~(Before(i, j) /\ Before(j, i))
         /\ i # j => Before(i, j) \/ Before(j, i)
<1>1. i \in Nat /\ j \in Nat
  BY Choices
<1>2. RankHint[choice.video[i]] \in Nat /\ RankHint[choice.video[j]] \in Nat
  BY Choices, RanksAssumption
<1>. QED BY <1>1, <1>2 DEF Before

\* What is tried is a candidate of its own.
LEMMA RankedApart ==
  ASSUME IInv
  PROVE  /\ \A k, l \in DOMAIN ranked : ranked[k] = ranked[l] => k = l
         /\ \A k \in DOMAIN ranked : \E i \in DOMAIN choice.video : ranked[k] = choice.video[i]
         /\ ranked \in Seq(Assets) /\ Len(ranked) \in Nat /\ DOMAIN ranked = 1..Len(ranked)
         /\ \A k \in DOMAIN ranked : ranked[k] \in Assets
<1>1. choice \in Selections /\ RankedInv
  BY DEF IInv, TypeOK
<1>2. /\ ranked \in Seq(Assets)
      /\ \A k \in DOMAIN ranked : \E i \in DOMAIN choice.video : ranked[k] = choice.video[i]
  BY <1>1, RankedFacts
<1>3. ASSUME pc # "rank", NEW k \in DOMAIN ranked, NEW l \in DOMAIN ranked,
             ranked[k] = ranked[l]
      PROVE  k = l
  <2>1. PICK order \in Orders(Len(choice.video)) :
          Sorted(order) /\ ranked = [m \in 1..Tried |-> choice.video[order[m]]]
    BY <1>1, <1>3 DEF RankedInv
  <2>2. Tried \in Nat /\ Tried <= Len(choice.video) /\ Len(choice.video) \in Nat
    BY <1>1, Limits, Choices DEF Tried, Least
  <2>3. DOMAIN order = DOMAIN choice.video /\ k \in 1..Tried /\ l \in 1..Tried
        /\ k \in DOMAIN order /\ l \in DOMAIN order
        /\ order[k] \in DOMAIN choice.video /\ order[l] \in DOMAIN choice.video
    <3>1. order \in [1..Len(choice.video) -> 1..Len(choice.video)]
      BY <2>1 DEF Orders
    <3>2. DOMAIN choice.video = 1..Len(choice.video)
      BY <1>1, Choices
    <3>3. k \in 1..Tried /\ l \in 1..Tried
      BY <2>1
    <3>. QED BY <2>2, <3>1, <3>2, <3>3
  <2>4. order[k] = order[l]
    BY <1>1, <1>3, <2>1, <2>3, Choices DEF Distinct
  <2>5. ~Before(order[k], order[l])
    BY <1>1, <2>3, <2>4, BeforeFacts
  <2>6. ~(k < l) /\ ~(l < k)
    BY <2>1, <2>3, <2>4, <2>5 DEF Sorted
  <2>. QED BY <2>2, <2>3, <2>6
<1>4. pc = "rank" => DOMAIN ranked = {}
  BY <1>1 DEF RankedInv
<1>. QED BY <1>2, <1>3, <1>4

LEMMA RankVideos == ASSUME IInv, Rank PROVE VideoInv'
<1>1. CASE RankEnds
  <2>1. /\ pc = "rank" /\ pc' = "video" /\ next' = next /\ primary' = primary /\ job' = job
        /\ next = 1 /\ \A a \in Assets : job[a] = "new"
    BY <1>1 DEF RankEnds, selected, IInv, PlaceInv
  <2>2. primary = None /\ ranked' \in Seq(Assets)
    BY <1>1, <2>1, RankEndsInv DEF IInv, VideoInv
  <2>3. \A k \in DOMAIN ranked' : k \in Nat \ {0} /\ ranked'[k] \in Assets
    BY <2>2
  <2>. QED BY <2>1, <2>2, <2>3 DEF VideoInv
<1>2. CASE ~RankEnds
  BY <1>2 DEF Rank, RankSubmit, RankScore, IInv, VideoInv, selected
<1>. QED BY <1>1, <1>2

LEMMA VideoVideos == ASSUME IInv, Videos PROVE VideoInv'
<1>1. next \in Nat \ {0} /\ job \in [Assets -> JobStates]
  BY DEF IInv, TypeOK, JobStates
<1>2. ASSUME pc = "video", next <= Len(ranked)
      PROVE  next \in DOMAIN ranked /\ Candidate = ranked[next] /\ Candidate \in Assets
  BY <1>1, <1>2, RankedApart DEF Candidate
<1>3. CASE TryVideo
  <2>1. pc = "video" /\ next <= Len(ranked) /\ job' = [job EXCEPT ![Candidate] = "running"]
        /\ ranked' = ranked /\ UNCHANGED <<pc, next, primary>>
    BY <1>3 DEF TryVideo, ranking, selected
  <2>2. \A k \in DOMAIN ranked : k # next => job'[ranked[k]] = job[ranked[k]]
    BY <1>1, <1>2, <2>1, RankedApart
  <2>. QED BY <1>1, <2>1, <2>2, RankedApart DEF IInv, VideoInv
<1>4. CASE VideoFailed
  <2>1. /\ pc = "video" /\ next <= Len(ranked) /\ job[Candidate] = "failed" /\ next' = next + 1
        /\ UNCHANGED <<pc, ranked, primary, job>>
    BY <1>4 DEF VideoFailed, ranking
  <2>2. \A k \in DOMAIN ranked : k < next + 1 => job[ranked[k]] = "failed"
    BY <1>1, <1>2, <2>1, RankedApart DEF IInv, VideoInv
  <2>3. \A k \in DOMAIN ranked : k > next + 1 => job[ranked[k]] = "new"
    BY <1>1, <2>1, RankedApart DEF IInv, VideoInv
  <2>. QED BY <2>1, <2>2, <2>3 DEF IInv, VideoInv
<1>5. CASE VideoChosen
  <2>1. /\ pc = "video" /\ next <= Len(ranked) /\ primary' = Candidate /\ pc' = "images"
        /\ UNCHANGED <<ranked, job>>
    BY <1>5 DEF VideoChosen, ranking
  <2>2. \A k \in 1..(next - 1) : job[ranked[k]] = "failed"
    BY <1>1, <1>2, <2>1, RankedApart DEF IInv, VideoInv
  <2>. QED BY <1>2, <2>1, <2>2 DEF VideoInv
<1>6. CASE NoVideo
  <2>1. /\ pc = "video" /\ next > Len(ranked) /\ pc' \in {"failed", "images"}
        /\ UNCHANGED <<ranked, job, primary>>
    BY <1>6 DEF NoVideo, ranking
  <2>2. primary = None /\ \A k \in DOMAIN ranked : job[ranked[k]] = "failed"
    BY <1>1, <2>1, RankedApart DEF IInv, VideoInv
  <2>. QED BY <2>1, <2>2 DEF VideoInv
<1>. QED BY <1>3, <1>4, <1>5, <1>6 DEF Videos

LEMMA ImageVideos == ASSUME IInv, ImageSteps PROVE VideoInv'
<1>1. pc = "images" /\ pc' \in {"images", "done"} /\ primary' = primary /\ ranked' = ranked
  BY DEF ImageSteps, OpenImages, SubmitImage, CloseImages, BeginImage, CollectImage,
         ranking, selected
<1>2. \A b \in Assets : job[b] = "failed" => job'[b] = "failed"
  BY Moves DEF Step, Ended
<1>3. ASSUME primary # None
      PROVE  \E m \in DOMAIN ranked :
               primary = ranked[m] /\ \A k \in 1..(m - 1) : job'[ranked[k]] = "failed"
  <2>1. PICK m \in DOMAIN ranked :
          primary = ranked[m] /\ \A k \in 1..(m - 1) : job[ranked[k]] = "failed"
    BY <1>3 DEF IInv, VideoInv
  <2>2. \A k \in 1..(m - 1) : ranked[k] \in Assets
    BY RankedApart
  <2>. QED BY <1>2, <2>1, <2>2
<1>. QED BY <1>1, <1>3 DEF VideoInv

LEMMA LoadVideos == ASSUME IInv, NEW a \in Assets, Load(a) PROVE VideoInv'
<1>1. /\ UNCHANGED <<pc, ranked, next, primary>> /\ Busy(a) /\ job[a] # "failed"
      /\ \A b \in Assets \ {a} : job'[b] = job[b]
  BY LoadMoves DEF IInv, Busy
<1>2. pc # "failed"
  BY <1>1 DEF IInv, BusyInv
<1>3. pc = "video" => next \in DOMAIN ranked /\ a = ranked[next]
  BY <1>1 DEF IInv, BusyInv
<1>4. pc = "video" => \A k \in DOMAIN ranked : k # next => job'[ranked[k]] = job[ranked[k]]
  BY <1>1, <1>3, RankedApart
<1>5. next \in Nat
  BY DEF IInv, TypeOK
<1>6. ASSUME primary # None
      PROVE  \E m \in DOMAIN ranked :
               primary = ranked[m] /\ \A k \in 1..(m - 1) : job'[ranked[k]] = "failed"
  <2>1. PICK m \in DOMAIN ranked :
          primary = ranked[m] /\ \A k \in 1..(m - 1) : job[ranked[k]] = "failed"
    BY <1>6 DEF IInv, VideoInv
  <2>2. \A k \in 1..(m - 1) : ranked[k] \in Assets /\ ranked[k] # a
    BY <1>1, <2>1, RankedApart
  <2>. QED BY <1>1, <2>1, <2>2
<1>. QED BY <1>1, <1>2, <1>4, <1>5, <1>6, RankedApart DEF IInv, VideoInv

LEMMA VideoStep == ASSUME IInv, Step PROVE VideoInv'
BY RankVideos, VideoVideos, ImageVideos, LoadVideos DEF Step
-----------------------------------------------------------------------------
(* Images.                                                                 *)

\* No step but those of its role is about an image.
LEMMA ImagesApart ==
  ASSUME choice \in Selections, NEW r \in Roles, NEW i \in DOMAIN choice[r]
  PROVE  /\ choice[r][i] \in Assets
         /\ \A k \in DOMAIN choice.video : choice[r][i] # choice.video[k]
         /\ \A s \in Roles : \A j \in DOMAIN choice[s] :
              choice[r][i] = choice[s][j] => r = s /\ i = j
<1>1. /\ choice[r][i] \in Assets
      /\ \A k \in DOMAIN choice.video : choice[r][i] # choice.video[k]
  BY Choices DEF Apart
<1>2. ASSUME NEW s \in Roles, NEW j \in DOMAIN choice[s], choice[r][i] = choice[s][j]
      PROVE  r = s /\ i = j
  BY <1>2, Choices DEF Apart, Distinct, Roles
<1>. QED BY <1>1, <1>2

\* Images that are still to come stay untouched.
LEMMA ToComeStep ==
  ASSUME IInv, Step, NEW r \in Roles, ToCome(r)', NEW i \in DOMAIN choice[r]
  PROVE  job'[choice[r][i]] = "new"
<1>. DEFINE b == choice[r][i]
<1>1. choice \in Selections /\ role \in Roles /\ TypeOK /\ next \in Nat \ {0}
  BY DEF IInv, TypeOK
<1>2. /\ b \in Assets /\ \A k \in DOMAIN choice.video : b # choice.video[k]
      /\ role # r => \A j \in DOMAIN Images : b # Images[j]
  BY <1>1, ImagesApart DEF Images
<1>3. CASE Rank
  BY <1>3, <1>2 DEF Rank, RankSubmit, RankScore, RankEnds, IInv, PlaceInv
<1>4. CASE Videos
  <2>1. pc = "video" /\ ToCome(r)
    BY <1>4 DEF Videos, TryVideo, VideoFailed, VideoChosen, NoVideo, ToCome
  <2>2. job[b] = "new"
    BY <2>1 DEF IInv, ImagesInv
  <2>3. CASE TryVideo
    <3>1. Candidate # b
      BY <1>1, <1>2, <2>3, RankedApart DEF TryVideo, Candidate
    <3>. QED BY <1>1, <1>2, <2>2, <2>3, <3>1 DEF TryVideo, TypeOK
  <2>. QED BY <1>4, <2>2, <2>3 DEF Videos, VideoFailed, VideoChosen, NoVideo
<1>5. CASE ImageSteps
  <2>1. pc = "images" /\ ToCome(r)
    <3>1. CASE CloseImages
      BY <1>1, <3>1 DEF CloseImages, ToCome, Roles
    <3>2. CASE OpenImages
      BY <1>1, <3>2, InHand DEF OpenImages, ToCome, Roles
    <3>3. CASE SubmitImage
      BY <3>3 DEF SubmitImage, ToCome
    <3>4. ASSUME NEW j \in DOMAIN Images, BeginImage(j) PROVE pc = "images" /\ ToCome(r)
      BY <3>4 DEF BeginImage, ToCome, selected
    <3>5. ASSUME NEW j \in DOMAIN Images, CollectImage(j) PROVE pc = "images" /\ ToCome(r)
      BY <3>5, Collected DEF CollectImage, ToCome
    <3>. QED BY <1>5, <3>1, <3>2, <3>3, <3>4, <3>5 DEF ImageSteps
  <2>2. job[b] = "new"
    BY <2>1 DEF IInv, ImagesInv
  <2>3. CASE SubmitImage
    <3>1. role # r
      BY <2>1, <2>3 DEF SubmitImage, ToCome
    <3>2. Images[next] # b
      BY <1>2, <2>3, <3>1, NextImage DEF SubmitImage
    <3>. QED BY <1>1, <1>2, <2>2, <2>3, <3>2 DEF SubmitImage, TypeOK
  <2>4. ASSUME NEW j \in DOMAIN Images, BeginImage(j) PROVE job'[b] = "new"
    <3>1. role # r
      BY <2>1, <2>4 DEF BeginImage, ToCome
    <3>. QED BY <1>1, <1>2, <2>2, <2>4, <3>1 DEF BeginImage, TypeOK
  <2>. QED BY <1>5, <2>2, <2>3, <2>4 DEF ImageSteps, OpenImages, CloseImages, CollectImage
<1>6. ASSUME NEW a \in Assets, Load(a) PROVE job'[b] = "new"
  <2>1. ToCome(r)
    BY <1>1, <1>6, LoadMoves DEF ToCome
  <2>2. job[b] = "new" /\ job[a] # "new"
    BY <1>1, <1>6, <2>1, LoadMoves DEF IInv, ImagesInv
  <2>. QED BY <1>1, <1>2, <1>6, <2>2, LoadMoves
<1>. QED BY <1>3, <1>4, <1>5, <1>6 DEF Step
\* The list of images in hand: as long as its results, each of them its own.
OpenList ==
  got # <<>> =>
    /\ DOMAIN got = DOMAIN Images
    /\ \A i \in DOMAIN Images :
         /\ got[i] # None => got[i] = Images[i] /\ Ended(Images[i])
         /\ i >= next => job[Images[i]] = "new"

LEMMA OpenListStep == ASSUME IInv, Step PROVE OpenList'
<1>1. TypeOK /\ OpenList /\ next \in Nat \ {0} /\ (pc # "images" => got = <<>>)
  BY DEF IInv, ImagesInv, OpenList, TypeOK, PlaceInv
<1>2. \A i \in DOMAIN Images :
        /\ i \in Nat /\ Images[i] \in Assets
        /\ Ended(Images[i]) => job'[Images[i]] = job[Images[i]]
  <2>1. \A i \in DOMAIN Images : i \in Nat /\ Images[i] \in Assets
    BY InHand
  <2>2. \A b \in Assets : Ended(b) => job'[b] = job[b]
    BY Moves
  <2>. QED BY <2>1, <2>2
<1>3. CASE Rank \/ Videos
  BY <1>1, <1>3 DEF Rank, RankSubmit, RankScore, RankEnds, Videos, TryVideo, VideoFailed,
                    VideoChosen, NoVideo, selected, OpenList
<1>4. CASE OpenImages
  <2>1. got = <<>> /\ pc = "images" /\ next' = next /\ job' = job /\ Images' = Images
        /\ got' = [i \in DOMAIN Images |-> None]
    BY <1>4 DEF OpenImages, Images
  <2>2. ToCome(role) /\ role \in Roles
    BY <1>1, <2>1 DEF ToCome, TypeOK
  <2>3. \A i \in DOMAIN Images : job[Images[i]] = "new"
    BY <2>2 DEF IInv, ImagesInv, Images
  <2>. QED BY <2>1, <2>3 DEF OpenList
<1>5. CASE SubmitImage
  <2>1. /\ got # <<>> /\ pc = "images" /\ next <= Len(Images) /\ next' = next + 1 /\ got' = got
        /\ Images' = Images /\ job' = [job EXCEPT ![Images[next]] = "queued"]
    BY <1>5 DEF SubmitImage, Images
  <2>2. \A i \in DOMAIN Images : i >= next + 1 => i >= next /\ Images[i] # Images[next]
    BY <1>1, <1>2, <2>1, NextImage, InHand DEF Distinct
  <2>3. \A i \in DOMAIN Images : i >= next + 1 => job'[Images[i]] = "new"
    BY <1>1, <1>2, <2>1, <2>2 DEF OpenList, TypeOK
  <2>. QED BY <1>1, <1>2, <2>1, <2>3 DEF OpenList, Ended
<1>6. CASE CloseImages
  BY <1>6 DEF CloseImages, OpenList
<1>7. ASSUME NEW j \in DOMAIN Images, BeginImage(j) PROVE OpenList'
  <2>1. /\ job[Images[j]] = "queued" /\ next' = next /\ got' = got /\ Images' = Images
        /\ job' = [job EXCEPT ![Images[j]] = "running"]
    BY <1>7 DEF BeginImage, selected, Images
  <2>2. \A i \in DOMAIN Images : job[Images[i]] = "new" => job'[Images[i]] = "new"
    BY <1>1, <1>2, <2>1 DEF TypeOK
  <2>. QED BY <1>1, <1>2, <2>1, <2>2 DEF OpenList, Ended
<1>8. ASSUME NEW j \in DOMAIN Images, CollectImage(j) PROVE OpenList'
  <2>1. /\ Ended(Images[j]) /\ next' = next /\ job' = job /\ Images' = Images
        /\ got' = [got EXCEPT ![j] = Images[j]]
    BY <1>8 DEF CollectImage, Images
  <2>2. got # <<>> /\ DOMAIN got' = DOMAIN got /\ j \in DOMAIN got
    BY <1>8, Collected
  <2>. QED BY <1>1, <2>1, <2>2 DEF OpenList, Ended
<1>9. ASSUME NEW a \in Assets, Load(a) PROVE OpenList'
  <2>1. /\ got' = got /\ next' = next /\ Images' = Images /\ job[a] # "new"
        /\ \A b \in Assets \ {a} : job'[b] = job[b]
    BY <1>1, <1>9, LoadMoves DEF Images
  <2>2. \A i \in DOMAIN Images : job[Images[i]] = "new" => job'[Images[i]] = "new"
    BY <1>2, <2>1
  <2>. QED BY <1>1, <1>2, <2>1, <2>2 DEF OpenList, Ended
<1>. QED BY <1>3, <1>4, <1>5, <1>6, <1>7, <1>8, <1>9 DEF Step, ImageSteps

LEMMA ImagesStep == ASSUME IInv, Step PROVE ImagesInv'
<1>1. \A r \in Roles : ToCome(r)' => \A i \in DOMAIN choice'[r] : job'[choice'[r][i]] = "new"
  BY ToComeStep, Moves
<1>2. ASSUME got' = <<>>, pc' = "images" PROVE next' = 1
  <2>1. CASE ImageSteps
    <3>1. ASSUME NEW j \in DOMAIN Images, CollectImage(j) PROVE FALSE
      BY <1>2, <3>1, Collected
    <3>2. ASSUME OpenImages PROVE FALSE
      <4>1. 1 \in DOMAIN Images
        BY <3>2, InHand DEF OpenImages
      <4>2. DOMAIN got' = DOMAIN Images
        BY <3>2 DEF OpenImages
      <4>. QED BY <1>2, <4>1, <4>2
    <3>. QED BY <1>2, <2>1, <3>1, <3>2 DEF ImageSteps, SubmitImage, CloseImages, BeginImage, selected
  <2>2. CASE Rank \/ Videos
    BY <1>2, <2>2 DEF Rank, RankSubmit, RankScore, RankEnds, Videos, TryVideo, VideoFailed,
                      VideoChosen, NoVideo
  <2>3. ASSUME NEW a \in Assets, Load(a) PROVE next' = 1
    BY <1>2, <2>3, LoadMoves DEF IInv, ImagesInv
  <2>. QED BY <2>1, <2>2, <2>3 DEF Step
<1>. QED BY <1>1, <1>2, OpenListStep DEF ImagesInv, OpenList

LEMMA BusyVideos == ASSUME IInv, Videos PROVE BusyInv'
<1>0. TypeOK /\ next \in Nat \ {0}
  BY DEF IInv, TypeOK
<1>1. pc = "video" /\ choice' = choice /\ ranked' = ranked
  BY DEF Videos, TryVideo, VideoFailed, VideoChosen, NoVideo, ranking
<1>2. \A a \in Assets : Busy(a) => next \in DOMAIN ranked /\ a = ranked[next]
  BY <1>1 DEF IInv, BusyInv
<1>3. CASE TryVideo
  <2>1. next \in DOMAIN ranked /\ Candidate = ranked[next] /\ Candidate \in Assets
        /\ UNCHANGED <<pc, next>> /\ job' = [job EXCEPT ![Candidate] = "running"]
    BY <1>0, <1>3, RankedApart DEF TryVideo, Candidate, selected
  <2>. QED BY <1>0, <1>1, <1>2, <2>1 DEF BusyInv, Busy, TypeOK
<1>4. CASE ~TryVideo
  <2>1. job' = job /\ \A a \in Assets : ~Busy(a)
    BY <1>0, <1>1, <1>2, <1>4, RankedApart
       DEF Videos, VideoFailed, VideoChosen, NoVideo, Candidate, Busy
  <2>2. got' = got /\ role' = role
    BY <1>4 DEF Videos, VideoFailed, VideoChosen, NoVideo
  <2>3. \A i \in DOMAIN Images : ~Busy(Images[i])
    BY <2>1, InHand
  <2>. QED BY <1>1, <2>1, <2>2, <2>3 DEF BusyInv, Busy, Images
<1>. QED BY <1>3, <1>4

\* One image at a time when a Storyblocks provider is selected.
LEMMA BeginsAlone ==
  ASSUME IInv, NEW i \in DOMAIN Images, BeginImage(i), choice.serial
  PROVE  \A j \in DOMAIN Images : job[Images[j]] \notin {"running", "writing"}
<1>. DEFINE Loading == {j \in DOMAIN Images : job[Images[j]] \in {"running", "writing"}}
<1>1. Cardinality(Loading) < 1
  BY DEF BeginImage, Workers, Serial
<1>2. IsFiniteSet(Loading)
  BY InHand, FS_Subset
<1>3. Loading = {}
  BY <1>1, <1>2, FS_CardinalityType, FS_EmptySet
<1>. QED BY <1>3

LEMMA BusyImages == ASSUME IInv, ImageSteps PROVE BusyInv'
<1>1. TypeOK /\ pc = "images" /\ BusyInv /\ next \in Nat \ {0} /\ choice \in Selections
  BY DEF IInv, TypeOK, ImageSteps, OpenImages, SubmitImage, CloseImages, BeginImage, CollectImage
<1>2. \A a \in Assets : Busy(a) => got # <<>> /\ \E i \in DOMAIN Images : a = Images[i]
  BY <1>1 DEF BusyInv
<1>3. CASE OpenImages
  <2>1. \A a \in Assets : ~Busy(a)
    BY <1>2, <1>3 DEF OpenImages
  <2>2. \A i \in DOMAIN Images : ~Busy(Images[i])
    BY <2>1, InHand
  <2>3. job' = job /\ Images' = Images
    BY <1>3 DEF OpenImages, Images
  <2>. QED BY <2>1, <2>2, <2>3 DEF BusyInv, Busy
<1>4. CASE SubmitImage
  <2>1. /\ UNCHANGED <<pc, choice, got>> /\ Images' = Images /\ got # <<>>
        /\ job' = [job EXCEPT ![Images[next]] = "queued"]
        /\ next \in DOMAIN Images
    BY <1>1, <1>4, NextImage DEF SubmitImage, Images
  <2>2. \A i \in DOMAIN Images : job'[Images[i]] \in {"running", "writing"} =>
                                   job[Images[i]] = job'[Images[i]]
    BY <1>1, <2>1, InHand DEF TypeOK
  <2>3. \A a \in Assets : Busy(a)' => Busy(a) \/ a = Images[next]
    BY <1>1, <2>1 DEF TypeOK, Busy
  <2>. QED BY <1>1, <1>2, <2>1, <2>2, <2>3 DEF BusyInv
<1>5. CASE CloseImages
  <2>1. \A i \in DOMAIN Images : got # <<>> => ~Busy(Images[i])
    BY <1>5 DEF CloseImages, IInv, ImagesInv, Busy, Ended
  <2>2. \A a \in Assets : ~Busy(a)
    BY <1>2, <2>1
  <2>3. job' = job /\ choice' = choice /\ role' \in Roles
    BY <1>5 DEF CloseImages, Roles
  <2>4. \A i \in DOMAIN Images' : Images'[i] \in Assets
    BY <1>1, <2>3, Choices DEF Images
  <2>. QED BY <2>2, <2>3, <2>4 DEF BusyInv, Busy
<1>6. ASSUME NEW i \in DOMAIN Images, BeginImage(i) PROVE BusyInv'
  <2>1. /\ UNCHANGED <<pc, choice, got>> /\ Images' = Images /\ got # <<>>
        /\ job' = [job EXCEPT ![Images[i]] = "running"]
    BY <1>6 DEF BeginImage, selected, Images
  <2>2. ASSUME choice.serial, NEW j \in DOMAIN Images, job'[Images[j]] \in {"running", "writing"}
        PROVE  j = i
    <3>1. job[Images[j]] \notin {"running", "writing"}
      BY <1>6, <2>2, BeginsAlone
    <3>2. Images[j] = Images[i]
      BY <1>1, <2>1, <2>2, <3>1, InHand DEF TypeOK
    <3>. QED BY <1>6, <3>2, InHand DEF Distinct
  <2>3. \A a \in Assets : Busy(a)' => Busy(a) \/ a = Images[i]
    BY <1>1, <2>1 DEF TypeOK, Busy
  <2>. QED BY <1>1, <1>2, <1>6, <2>1, <2>2, <2>3 DEF BusyInv
<1>7. ASSUME NEW i \in DOMAIN Images, CollectImage(i) PROVE BusyInv'
  BY <1>1, <1>7, Collected DEF CollectImage, BusyInv, Busy, Images
<1>. QED BY <1>3, <1>4, <1>5, <1>6, <1>7 DEF ImageSteps

LEMMA BusyLoad == ASSUME IInv, NEW a \in Assets, Load(a) PROVE BusyInv'
<1>1. /\ UNCHANGED <<choice, pc, ranked, next, got>> /\ Images' = Images
      /\ job[a] \in {"running", "writing"} /\ \A b \in Assets \ {a} : job'[b] = job[b]
  BY LoadMoves DEF IInv, Images
<1>2. \A b \in Assets : /\ Busy(b)' => Busy(b)
                        /\ job'[b] \in {"running", "writing"} => job[b] \in {"running", "writing"}
  BY <1>1 DEF Busy
<1>3. \A i \in DOMAIN Images : Images[i] \in Assets
  BY InHand
<1>. QED BY <1>1, <1>2, <1>3 DEF IInv, BusyInv

LEMMA BusyStep == ASSUME IInv, Step PROVE BusyInv'
<1>1. CASE Rank
  BY <1>1 DEF Rank, RankSubmit, RankScore, RankEnds, IInv, PlaceInv, BusyInv, Busy
<1>. QED BY <1>1, BusyVideos, BusyImages, BusyLoad DEF Step

-----------------------------------------------------------------------------
(* What is kept, and what the files hold.                                  *)

LEMMA KeptStep == ASSUME IInv, Step PROVE KeptInv'
<1>1. choice \in Selections /\ role \in Roles /\ DOMAIN kept = Roles /\ choice' = choice
  BY Moves DEF IInv, TypeOK
<1>2. \A r \in Roles : \A i \in DOMAIN choice[r] : choice[r][i] \in Assets
  BY <1>1, Choices
<1>3. CASE CloseImages
  <2>1. \A i \in DOMAIN Images : got[i] = Images[i] /\ Ended(Images[i])
    <3>1. DOMAIN got = DOMAIN Images
      BY <1>3, InHand DEF CloseImages
    <3>. QED BY <1>3, <3>1, InHand DEF CloseImages, IInv, ImagesInv
  <2>2. /\ DOMAIN got = DOMAIN Images /\ job' = job /\ role' = "fallback"
        /\ kept' = [kept EXCEPT ![role] =
             [i \in {i \in DOMAIN got : job[got[i]] = "completed"} |-> got[i]]]
        /\ (pc' = "done" <=> role = "fallback")
    BY <1>3, InHand DEF CloseImages
  <2>3. kept'[role] = [i \in {i \in DOMAIN Images : job[Images[i]] = "completed"} |-> Images[i]]
    BY <1>1, <2>1, <2>2
  <2>4. ASSUME NEW r \in Roles, pc' = "done" \/ (role' = "fallback" /\ r = "supporting")
        PROVE  r = role \/ (role = "fallback" /\ r = "supporting")
    BY <1>1, <2>2, <2>4 DEF Roles
  <2>5. ASSUME NEW r \in Roles, pc' = "done" \/ (role' = "fallback" /\ r = "supporting")
        PROVE  /\ kept'[r] = [i \in {i \in DOMAIN choice[r] : job[choice[r][i]] = "completed"} |->
                                choice[r][i]]
               /\ \A i \in DOMAIN choice[r] : Ended(choice[r][i])
    <3>1. CASE r = role
      BY <2>1, <2>3, <3>1 DEF Images
    <3>2. CASE r # role
      BY <1>1, <2>2, <2>4, <2>5, <3>2 DEF IInv, KeptInv, ImagesKeepTheirOrder, Through
    <3>. QED BY <3>1, <3>2
  <2>6. ImagesKeepTheirOrder'
    <3>1. \A r \in Roles : (pc' = "done" \/ (role' = "fallback" /\ r = "supporting")) =>
            kept'[r] = [i \in {i \in DOMAIN choice'[r] : job'[choice'[r][i]] = "completed"} |->
                          choice'[r][i]]
      <4>1. job' = job /\ choice' = choice
        BY <1>1, <2>2
      <4>2. \A r : {i \in DOMAIN choice'[r] : job'[choice'[r][i]] = "completed"}
                    = {i \in DOMAIN choice[r] : job[choice[r][i]] = "completed"}
        BY <4>1
      <4>. QED BY <2>5, <4>1, <4>2
    <3>. QED BY <3>1 DEF ImagesKeepTheirOrder
  <2>7. \A r \in Roles : Through(r)' => \A i \in DOMAIN choice[r] : Ended(choice[r][i])
    BY <2>5 DEF Through
  <2>8. \A a : Ended(a)' <=> Ended(a)
    BY <2>2 DEF Ended
  <2>9. \A r \in Roles : Through(r)' => \A i \in DOMAIN choice'[r] : (job'[choice'[r][i]] \in {"completed", "failed"})
    BY <1>1, <2>2, <2>7 DEF Ended
  <2>. QED BY <2>6, <2>9 DEF KeptInv, Ended
<1>4. CASE ~CloseImages
  <2>1. kept' = kept /\ role' = role /\ (pc' = "done" <=> pc = "done")
    <3>1. CASE Rank \/ Videos
      BY <3>1 DEF Rank, RankSubmit, RankScore, RankEnds, selected, Videos, TryVideo, VideoFailed,
                  VideoChosen, NoVideo
    <3>2. CASE ImageSteps
      BY <1>4, <3>2 DEF ImageSteps, OpenImages, SubmitImage, BeginImage, CollectImage, selected
    <3>3. ASSUME NEW a \in Assets, Load(a)
          PROVE  kept' = kept /\ role' = role /\ (pc' = "done" <=> pc = "done")
      BY <3>3, LoadMoves DEF IInv
    <3>. QED BY <3>1, <3>2, <3>3 DEF Step
  <2>2. ASSUME NEW r \in Roles, Through(r), NEW i \in DOMAIN choice[r]
        PROVE  Ended(choice[r][i]) /\ job'[choice[r][i]] = job[choice[r][i]]
    BY <1>2, <2>2, Moves DEF IInv, KeptInv
  <2>3. ASSUME NEW r \in Roles, Through(r)
        PROVE  {i \in DOMAIN choice[r] : job'[choice[r][i]] = "completed"}
                 = {i \in DOMAIN choice[r] : job[choice[r][i]] = "completed"}
    BY <2>2, <2>3
  <2>4. \A r \in Roles : Through(r)' <=> Through(r)
    BY <2>1 DEF Through
  <2>5. ASSUME NEW r \in Roles, Through(r)
        PROVE  kept'[r] = [i \in {i \in DOMAIN choice[r] : job'[choice[r][i]] = "completed"} |->
                             choice[r][i]]
    BY <2>1, <2>3, <2>5 DEF IInv, KeptInv, ImagesKeepTheirOrder, Through
  <2>6. ImagesKeepTheirOrder'
    BY <1>1, <2>4, <2>5 DEF ImagesKeepTheirOrder, Through
  <2>7. \A r \in Roles : Through(r)' => \A i \in DOMAIN choice'[r] : (job'[choice'[r][i]] \in {"completed", "failed"})
    BY <1>1, <2>2, <2>4 DEF Ended
  <2>. QED BY <2>6, <2>7 DEF KeptInv, Ended
<1>. QED BY <1>3, <1>4
\* A Storyblocks asset is loaded alone.
LEMMA Alone ==
  ASSUME IInv, NEW a \in Storyblocks \cap Assets, NEW b \in Assets,
         {job[a], job[b]} \subseteq {"running", "writing"}
  PROVE  a = b
<1>1. Busy(a) /\ Busy(b)
  BY DEF Busy
<1>2. CASE pc = "video"
  BY <1>1, <1>2 DEF IInv, BusyInv
<1>3. CASE pc # "video"
  <2>1. pc = "images" /\ \E i \in DOMAIN Images : a = Images[i]
    BY <1>1, <1>3 DEF IInv, BusyInv
  <2>2. PICK i \in DOMAIN Images : a = Images[i]
    BY <2>1
  <2>3. PICK j \in DOMAIN Images : b = Images[j]
    BY <1>1, <1>3 DEF IInv, BusyInv
  <2>4. choice.serial
    BY <2>2, InHand
  <2>. QED BY <2>1, <2>2, <2>3, <2>4 DEF IInv, BusyInv
<1>. QED BY <1>2, <1>3

\* No step but a download's writes, or ends one.
LEMMA QuietFiles ==
  ASSUME IInv, Rank \/ Videos \/ ImageSteps
  PROVE  /\ UNCHANGED <<runs, disk>>
         /\ \A b \in Assets : \/ job'[b] = job[b]
                             \/ {job[b], job'[b]} \subseteq {"new", "queued", "running"}
<1>1. job \in [Assets -> JobStates]
  BY DEF IInv, TypeOK, JobStates
<1>2. CASE Rank
  BY <1>2 DEF Rank, RankSubmit, RankScore, RankEnds
<1>3. CASE Videos
  BY <1>1, <1>3 DEF Videos, TryVideo, VideoFailed, VideoChosen, NoVideo
<1>4. CASE SubmitImage
  BY <1>1, <1>4, NextImage DEF SubmitImage
<1>5. CASE ImageSteps /\ ~SubmitImage
  BY <1>1, <1>5 DEF ImageSteps, OpenImages, CloseImages, BeginImage, CollectImage, selected
<1>. QED BY <1>2, <1>3, <1>4, <1>5

LEMMA QuietFileStep == ASSUME IInv, Rank \/ Videos \/ ImageSteps PROVE FileInv'
<1>1. /\ runs' = runs /\ disk' = disk
      /\ \A b \in Assets : \A s \in {"writing", "completed", "failed"} :
           job'[b] = s <=> job[b] = s
  BY QuietFiles
<1>. QED BY <1>1 DEF IInv, FileInv, CompletedFilesAreWhole, Empty

\* Only Storyblocks assets share a name.
LEMMA Namesakes ==
  ASSUME NEW a \in Assets, NEW b \in Assets \ {a}, FileOf[a] = FileOf[b]
  PROVE  a \in Storyblocks /\ b \in Storyblocks
BY NamesAssumption

LEMMA WriteFiles == ASSUME IInv, NEW a \in Assets, Write(a) PROVE FileInv'
<1>1. /\ job[a] = "running" /\ (a \in Storyblocks => Empty(FileOf[a])) /\ runs' = runs
      /\ job' = [job EXCEPT ![a] = "writing"]
      /\ disk' = [disk EXCEPT ![FileOf[a]] = [of |-> a, whole |-> FALSE]]
  BY DEF Write
<1>2. job \in [Assets -> JobStates] /\ disk \in [Files -> [of : Assets \cup {None}, whole : BOOLEAN]]
  BY DEF IInv, TypeOK, JobStates
<1>3. \A b \in Assets : FileOf[b] \in Files /\ b # None
  BY NamesAssumption
<1>4. disk'[FileOf[a]].of = a /\ \A f \in Files \ {FileOf[a]} : disk'[f] = disk[f]
  BY <1>1, <1>2, <1>3
<1>5. \A b \in Assets \ {a} : job'[b] = job[b]
  BY <1>1, <1>2
<1>6. job'[a] = "writing"
  BY <1>1, <1>2
<1>7. \A b \in Assets \ {a} : FileOf[b] = FileOf[a] => disk[FileOf[b]].of # b
  BY <1>1, <1>3, Namesakes DEF Empty, NoFile
<1>8. ASSUME NEW b \in Assets, job'[b] = "writing" PROVE disk'[FileOf[b]].of = b
  BY <1>3, <1>4, <1>5, <1>7, <1>8 DEF IInv, FileInv
<1>9. ASSUME runs' = 1, NEW f \in Files, ~Empty(f)'
      PROVE  \E b \in Assets : FileOf[b] = f /\ job'[b] \in {"writing", "completed", "failed"}
  <2>1. CASE f = FileOf[a]
    BY <1>6, <2>1
  <2>2. CASE f # FileOf[a]
    <3>1. ~Empty(f)
      BY <1>4, <1>9, <2>2 DEF Empty
    <3>2. PICK b \in Assets : FileOf[b] = f /\ job[b] \in {"writing", "completed", "failed"}
      BY <1>1, <1>9, <3>1 DEF IInv, FileInv
    <3>. QED BY <1>5, <2>2, <3>2
  <2>. QED BY <2>1, <2>2
<1>10. ASSUME NEW b \in Assets, job'[b] = "completed"
       PROVE  \/ disk'[FileOf[b]] = [of |-> b, whole |-> TRUE]
              \/ /\ b \in Storyblocks
                 /\ \/ runs' > 1
                    \/ \E c \in Assets \ {b} :
                         FileOf[c] = FileOf[b] /\ job'[c] \in {"completed", "failed"}
  <2>1. b # a /\ job[b] = "completed"
    BY <1>5, <1>6, <1>10
  <2>2. CASE FileOf[b] # FileOf[a] /\ disk[FileOf[b]] = [of |-> b, whole |-> TRUE]
    BY <1>3, <1>4, <2>2
  <2>3. CASE FileOf[b] = FileOf[a] \/ disk[FileOf[b]] # [of |-> b, whole |-> TRUE]
    <3>1. disk[FileOf[b]] # [of |-> b, whole |-> TRUE]
      BY <1>7, <2>1, <2>3
    <3>2. /\ b \in Storyblocks
          /\ \/ runs > 1
             \/ \E c \in Assets \ {b} :
                  FileOf[c] = FileOf[b] /\ job[c] \in {"completed", "failed"}
      BY <2>1, <3>1 DEF IInv, FileInv, CompletedFilesAreWhole
    <3>. QED BY <1>1, <1>5, <3>2
  <2>. QED BY <2>2, <2>3
<1>. QED BY <1>8, <1>9, <1>10 DEF FileInv, CompletedFilesAreWhole
\* A download that leaves the disk alone, or makes its own file whole.
LEMMA CloseFiles ==
  ASSUME IInv, NEW a \in Assets, Load(a), ~Write(a)
  PROVE  /\ runs' = runs /\ \A b \in Assets \ {a} : job'[b] = job[b]
         /\ \A f \in Files : disk'[f].of = disk[f].of /\ (Empty(f)' <=> Empty(f))
         /\ \A f \in Files : disk'[f] = disk[f] \/ (f = FileOf[a] /\ Written(a))
         /\ job'[a] = "writing" => job[a] = "writing"
         /\ job[a] = "writing" => job'[a] \in {"writing", "completed", "failed"}
<1>1. TypeOK /\ job \in [Assets -> JobStates]
  BY DEF IInv, TypeOK, JobStates
<1>2. /\ \A b \in Assets \ {a} : job'[b] = job[b]
      /\ runs' = runs
      /\ job'[a] \in {"running", "writing", "completed", "failed"}
  BY <1>1, LoadMoves
<1>3. CASE Written(a)
  <2>1. /\ job[a] = "writing" /\ job'[a] = "completed"
        /\ disk' = [disk EXCEPT ![FileOf[a]].whole = TRUE]
    BY <1>1, <1>3 DEF Written
  <2>2. \A f \in Files : disk[f] \in [of : Assets \cup {None}, whole : BOOLEAN]
    BY <1>1 DEF TypeOK
  <2>3. disk[FileOf[a]].of = a /\ FileOf[a] \in Files /\ a # None
    BY <2>1, NamesAssumption DEF IInv, FileInv
  <2>4. \A f \in Files \ {FileOf[a]} : disk'[f] = disk[f]
    BY <1>1, <2>1 DEF TypeOK
  <2>5. disk'[FileOf[a]].of = a
    BY <1>1, <2>1, <2>2, <2>3 DEF TypeOK
  <2>6. \A f \in Files : disk'[f].of = disk[f].of
    BY <2>3, <2>4, <2>5
  <2>7. ~Empty(FileOf[a]) /\ ~Empty(FileOf[a])'
    BY <2>3, <2>5 DEF Empty, NoFile
  <2>8. \A f \in Files : Empty(f)' <=> Empty(f)
    BY <2>4, <2>7 DEF Empty
  <2>. QED BY <1>2, <1>3, <2>1, <2>4, <2>6, <2>8
<1>4. CASE ~Written(a)
  <2>1. disk' = disk /\ (job[a] = "writing" => job'[a] \in {"writing", "completed", "failed"})
        /\ (job'[a] = "writing" => job[a] = "writing")
    BY <1>1, <1>4 DEF Load, Adopt, Retry, DownloadFails
  <2>. QED BY <1>2, <2>1 DEF Empty
<1>. QED BY <1>3, <1>4

\* What an adopted file is worth.
LEMMA AdoptedFile ==
  ASSUME IInv, NEW a \in Assets, Adopt(a)
  PROVE  /\ a \in Storyblocks
         /\ \/ runs > 1
            \/ \E b \in Assets \ {a} : FileOf[b] = FileOf[a] /\ job[b] \in {"completed", "failed"}
<1>1. /\ job[a] = "running" /\ a \in Storyblocks /\ ~Empty(FileOf[a])
      /\ runs \in Nat \ {0} /\ FileOf[a] \in Files
  <2>1. job[a] = "running" /\ a \in Storyblocks /\ ~Empty(FileOf[a]) /\ FileOf[a] \in Files
    BY NamesAssumption DEF Adopt
  <2>2. runs \in 1..MaxRuns /\ MaxRuns \in Nat
    BY Limits DEF IInv, TypeOK
  <2>. QED BY <2>1, <2>2
<1>2. ASSUME runs = 1
      PROVE  \E b \in Assets \ {a} : FileOf[b] = FileOf[a] /\ job[b] \in {"completed", "failed"}
  <2>1. PICK b \in Assets : FileOf[b] = FileOf[a] /\ job[b] \in {"writing", "completed", "failed"}
    BY <1>1, <1>2 DEF IInv, FileInv
  <2>2. b # a /\ job[b] # "writing"
    BY <1>1, <2>1, Alone
  <2>. QED BY <2>1, <2>2
<1>. QED BY <1>1, <1>2

LEMMA CloseFileStep == ASSUME IInv, NEW a \in Assets, Load(a), ~Write(a) PROVE FileInv'
<1>1. \A b \in Assets : FileOf[b] \in Files /\ b # None
  BY NamesAssumption
<1>2. job[a] \in {"running", "writing"} /\ job' \in [Assets -> JobStates]
  BY LoadMoves DEF IInv
<1>3. ASSUME NEW b \in Assets, job'[b] = "writing" PROVE disk'[FileOf[b]].of = b
  BY <1>1, <1>3, CloseFiles DEF IInv, FileInv
<1>4. ASSUME runs' = 1, NEW f \in Files, ~Empty(f)'
      PROVE  \E b \in Assets : FileOf[b] = f /\ job'[b] \in {"writing", "completed", "failed"}
  <2>1. PICK b \in Assets : FileOf[b] = f /\ job[b] \in {"writing", "completed", "failed"}
    BY <1>4, CloseFiles DEF IInv, FileInv
  <2>. QED BY <1>2, <2>1, CloseFiles
<1>5. ASSUME NEW b \in Assets, job'[b] = "completed"
      PROVE  \/ disk'[FileOf[b]] = [of |-> b, whole |-> TRUE]
             \/ /\ b \in Storyblocks
                /\ \/ runs' > 1
                   \/ \E c \in Assets \ {b} :
                        FileOf[c] = FileOf[b] /\ job'[c] \in {"completed", "failed"}
  <2>1. \A c \in Assets : job[c] \in {"completed", "failed"} => job'[c] = job[c]
    BY <1>2, CloseFiles
  <2>2. CASE b = a
    <3>1. CASE Adopt(a)
      BY <2>1, <2>2, <3>1, AdoptedFile, CloseFiles
    <3>2. CASE ~Adopt(a)
      <4>1. Written(a)
        <5>1. job \in [Assets -> JobStates]
          BY DEF IInv, TypeOK, JobStates
        <5>. QED BY <1>2, <1>5, <2>2, <3>2, <5>1 DEF Load, Retry, DownloadFails
      <4>2. disk[FileOf[a]].of = a /\ disk[FileOf[a]] \in [of : Assets \cup {None}, whole : BOOLEAN]
        BY <1>1, <4>1 DEF Written, IInv, FileInv, TypeOK
      <4>3. disk' = [disk EXCEPT ![FileOf[a]] = [disk[FileOf[a]] EXCEPT !.whole = TRUE]]
        BY <4>1 DEF Written
      <4>4. disk'[FileOf[a]] = [of |-> a, whole |-> TRUE]
        BY <1>1, <4>2, <4>3 DEF IInv, TypeOK
      <4>. QED BY <2>2, <4>4
    <3>. QED BY <3>1, <3>2
  <2>3. CASE b # a
    <3>1. job[b] = "completed"
      BY <1>5, <2>3, CloseFiles
    <3>2. CASE disk[FileOf[b]] = [of |-> b, whole |-> TRUE]
      <4>1. CASE FileOf[b] = FileOf[a] /\ Written(a)
        <5>1. disk[FileOf[a]].of = a
          BY <4>1 DEF Written, IInv, FileInv
        <5>. QED BY <2>3, <3>2, <4>1, <5>1
      <4>. QED BY <1>1, <3>2, <4>1, CloseFiles
    <3>3. CASE disk[FileOf[b]] # [of |-> b, whole |-> TRUE]
      <4>1. /\ b \in Storyblocks
            /\ \/ runs > 1
               \/ \E c \in Assets \ {b} :
                    FileOf[c] = FileOf[b] /\ job[c] \in {"completed", "failed"}
        BY <3>1, <3>3 DEF IInv, FileInv, CompletedFilesAreWhole
      <4>. QED BY <2>1, <4>1, CloseFiles
    <3>. QED BY <3>2, <3>3
  <2>. QED BY <2>2, <2>3
<1>. QED BY <1>3, <1>4, <1>5 DEF FileInv, CompletedFilesAreWhole

LEMMA FileStep == ASSUME IInv, Step PROVE FileInv'
BY QuietFileStep, WriteFiles, CloseFileStep DEF Step

-----------------------------------------------------------------------------
(* The invariant, and what follows from it.                                *)

LEMMA SameState == ASSUME IInv, UNCHANGED vars PROVE IInv'
<1>1. /\ UNCHANGED <<runs, choice, pc, rank, ranked, next, primary, role, job>>
      /\ UNCHANGED <<tries, got, kept, disk>>
  BY DEF vars
<1>2. TypeOK' /\ RankedInv' /\ PlaceInv' /\ VideoInv'
  BY <1>1 DEF IInv, TypeOK, RankedInv, Sorted, Before, Tried, PlaceInv, VideoInv
<1>3. ImagesInv'
  BY <1>1 DEF IInv, ImagesInv, ToCome, Images, Ended
<1>4. BusyInv'
  BY <1>1 DEF IInv, BusyInv, Busy, Images
<1>5. KeptInv'
  BY <1>1 DEF IInv, KeptInv, ImagesKeepTheirOrder, Through, Ended
<1>6. FileInv'
  BY <1>1 DEF IInv, FileInv, Empty, CompletedFilesAreWhole
<1>. QED BY <1>2, <1>3, <1>4, <1>5, <1>6 DEF IInv

LEMMA StepInv == ASSUME IInv, Step PROVE IInv'
BY StepTypes, RankedStep, PlaceStep, VideoStep, ImagesStep, BusyStep, KeptStep, FileStep DEF IInv

\* The invariant behind the results below: where the thread of the paragraph is,
\* what was ranked, tried and loaded until then, who is busy, and what the files hold.
THEOREM DownloadInvariant == Spec => []IInv
<1>1. Init => IInv
  BY InitInv
<1>2. IInv /\ [Next]_vars => IInv'
  <2>. SUFFICES ASSUME IInv, [Next]_vars PROVE IInv'
    OBVIOUS
  <2>1. CASE Step
    BY <2>1, StepInv
  <2>2. CASE NewRun
    BY <2>2, NewRunInv
  <2>3. CASE UNCHANGED vars
    BY <2>3, SameState
  <2>. QED BY <2>1, <2>2, <2>3 DEF Next, Step, Terminated
<1>. QED BY <1>1, <1>2, PTL DEF Spec
LEMMA CountTo == \A m \in Nat : IsFiniteSet(1..m) /\ Cardinality(1..m) = m
<1>. SUFFICES ASSUME NEW m \in Nat PROVE IsFiniteSet(1..m) /\ Cardinality(1..m) = m
  OBVIOUS
<1>1. m \in Int /\ 1 \in Int
  OBVIOUS
<1>2. IsFiniteSet(1..m) /\ Cardinality(1..m) = IF 1 > m THEN 0 ELSE m - 1 + 1
  BY <1>1, FS_Interval
<1>. QED BY <1>2

\* The order in which candidates are tried ranks all of them, and the primary
\* video is the first of those tried that loads.
LEMMA BestVideo == IInv => BestVideoThatLoads
<1>. SUFFICES ASSUME IInv PROVE BestVideoThatLoads
  OBVIOUS
<1>. DEFINE n == Len(choice.video)
<1>1. choice \in Selections /\ DOMAIN choice.video = 1..n /\ n \in Nat /\ RankedLimit \in Nat
      /\ Distinct(choice.video) /\ Tried \in Nat /\ Tried <= n
      /\ (Tried = n \/ Tried = RankedLimit)
  <2>1. choice \in Selections
    BY DEF IInv, TypeOK
  <2>. QED BY <2>1, Choices, Limits DEF Tried, Least
<1>2. \A i : Preferred(i) = {j \in DOMAIN choice.video : Before(j, i)}
  BY DEF Preferred, Before
<1>3. primary # None \/ pc = "failed" => pc # "rank"
  BY DEF IInv, VideoInv
<1>4. ASSUME NEW order \in Orders(n), Sorted(order),
             ranked = [k \in 1..Tried |-> choice.video[order[k]]]
      PROVE  /\ DOMAIN order = 1..n /\ \A k \in 1..n : order[k] \in 1..n
             /\ \A i \in 1..n : \E k \in 1..n : order[k] = i
             /\ DOMAIN ranked = 1..Tried
             /\ \A k \in 1..Tried : k \in 1..n /\ ranked[k] = choice.video[order[k]]
             /\ \A k, l \in 1..n : Before(order[k], order[l]) => k < l
  <2>1. /\ DOMAIN order = 1..n /\ \A k \in 1..n : order[k] \in 1..n
        /\ \A i \in 1..n : \E k \in 1..n : order[k] = i
    BY <1>4 DEF Orders
  <2>2. DOMAIN ranked = 1..Tried
        /\ \A k \in 1..Tried : k \in 1..n /\ ranked[k] = choice.video[order[k]]
    BY <1>1, <1>4
  <2>3. ASSUME NEW k \in 1..n, NEW l \in 1..n, Before(order[k], order[l]) PROVE k < l
    <3>1. order[k] \in DOMAIN choice.video /\ order[l] \in DOMAIN choice.video
      BY <1>1, <2>1
    <3>2. ~Before(order[l], order[k])
      BY <1>1, <2>3, <3>1, BeforeFacts
    <3>3. ~(l < k) /\ l # k
      BY <1>4, <2>1, <2>3, <3>2 DEF Sorted
    <3>. QED BY <3>3
  <2>. QED BY <2>1, <2>2, <2>3
<1>5. ASSUME NEW i \in DOMAIN choice.video, primary = choice.video[i], NEW j \in Preferred(i)
      PROVE  job[choice.video[j]] = "failed"
  <2>1. primary # None
    BY <1>1, <1>5, Choices, NamesAssumption
  <2>2. PICK order \in Orders(n) :
          Sorted(order) /\ ranked = [k \in 1..Tried |-> choice.video[order[k]]]
    BY <1>3, <2>1 DEF IInv, RankedInv
  <2>3. PICK m \in DOMAIN ranked :
          primary = ranked[m] /\ \A k \in 1..(m - 1) : job[ranked[k]] = "failed"
    BY <2>1 DEF IInv, VideoInv
  <2>4. m \in 1..n /\ m \in 1..Tried /\ order[m] = i
    BY <1>1, <1>4, <1>5, <2>2, <2>3 DEF Distinct
  <2>5. PICK l \in 1..n : order[l] = j
    BY <1>1, <1>2, <1>4, <1>5, <2>2
  <2>6. l < m
    BY <1>2, <1>4, <1>5, <2>2, <2>4, <2>5
  <2>7. l \in 1..(m - 1) /\ l \in 1..Tried
    BY <1>1, <2>4, <2>5, <2>6
  <2>. QED BY <1>4, <2>2, <2>3, <2>5, <2>7
<1>6. ASSUME pc = "failed", NEW i \in DOMAIN choice.video, Cardinality(Preferred(i)) < RankedLimit
      PROVE  job[choice.video[i]] = "failed"
  <2>1. PICK order \in Orders(n) :
          Sorted(order) /\ ranked = [k \in 1..Tried |-> choice.video[order[k]]]
    BY <1>3, <1>6 DEF IInv, RankedInv
  <2>2. PICK m \in 1..n : order[m] = i
    BY <1>1, <1>4, <2>1
  <2>3. m \in 1..Tried
    <3>1. SUFFICES ASSUME ~(m <= Tried) PROVE FALSE
      BY <1>1, <2>2
    <3>2. Tried = RankedLimit /\ RankedLimit < m
      BY <1>1, <2>2, <3>1
    <3>3. \A k \in 1..RankedLimit : k \in 1..n /\ k < m
      BY <1>1, <2>2, <3>2
    <3>4. \A k \in 1..RankedLimit : order[k] \in Preferred(i)
      BY <1>1, <1>2, <1>4, <2>1, <2>2, <3>3 DEF Sorted
    <3>5. IsFiniteSet(Preferred(i))
      <4>1. IsFiniteSet(DOMAIN choice.video)
        BY <1>1, CountTo
      <4>2. Preferred(i) \in SUBSET DOMAIN choice.video
        BY <1>2
      <4>. QED BY <4>1, <4>2, FS_Subset
    <3>6. IsFiniteSet(1..RankedLimit) /\ Cardinality(1..RankedLimit) = RankedLimit
      BY <1>1, CountTo
    <3>. DEFINE f == [k \in 1..RankedLimit |-> order[k]]
    <3>7. f \in [1..RankedLimit -> Preferred(i)]
      BY <3>4
    <3>. HIDE DEF f
    <3>8. \E x, y \in 1..RankedLimit : x # y /\ f[x] = f[y]
      BY <1>6, <3>5, <3>6, <3>7, FS_PigeonHole
    <3>9. PICK x \in 1..RankedLimit, y \in 1..RankedLimit : x # y /\ order[x] = order[y]
      BY <3>8 DEF f
    <3>10. x \in 1..n /\ y \in 1..n /\ (x < y \/ y < x)
      BY <1>1, <3>3, <3>9
    <3>11. Before(order[x], order[y]) \/ Before(order[y], order[x])
      BY <1>4, <2>1, <3>10 DEF Sorted
    <3>12. order[x] \in DOMAIN choice.video /\ Before(order[x], order[x])
      BY <1>1, <1>4, <2>1, <3>9, <3>10, <3>11
    <3>. QED BY <1>1, <3>12, BeforeFacts
  <2>4. job[ranked[m]] = "failed"
    BY <1>4, <1>6, <2>1, <2>3 DEF IInv, VideoInv
  <2>. QED BY <1>4, <2>1, <2>2, <2>3, <2>4
<1>. QED BY <1>5, <1>6 DEF BestVideoThatLoads

\* Types of the variables (TypeOK): attempts within the budget, images kept from
\* those that were found.
THEOREM DownloadTypes == Spec => []TypeOK
BY DownloadInvariant, PTL DEF IInv

\* However many tasks the ranking pool drops, breaks or finishes late, the best
\* video that loads is the primary one (_rank_video_candidates and
\* _select_primary_video_asset), for any candidates, ranks and limits.
THEOREM SelectsTheBestVideo == Spec => []BestVideoThatLoads
<1>1. IInv => BestVideoThatLoads
  BY BestVideo
<1>. QED BY <1>1, DownloadInvariant, PTL

\* The images of a role are kept in their order, those that loaded and no other,
\* for any pool, window and order of completion (_download_image_assets).
THEOREM KeepsImagesInOrder == Spec => []ImagesKeepTheirOrder
<1>1. IInv => ImagesKeepTheirOrder
  BY DEF IInv, KeptInv
<1>. QED BY <1>1, DownloadInvariant, PTL

\* A completed download has its own whole file unless an earlier run or a
\* namesake left one there, which download_one takes for its own.
THEOREM CompletesWholeFiles == Spec => []CompletedFilesAreWhole
<1>1. IInv => CompletedFilesAreWhole
  BY DEF IInv, FileInv
<1>. QED BY <1>1, DownloadInvariant, PTL
=============================================================================
