-------------------------- MODULE ParagraphManifest --------------------------
(***************************************************************************)
(* The state that ParagraphMediaPipeline (pipeline/media) keeps for one    *)
(* run while several workers process paragraphs: the live manifest, its    *)
(* copy on disk, the run's AssetDeduper and the entry index. Everything    *)
(* between two lock sections of process_paragraph is a step of its own, so *)
(* the assets that a worker found can be taken by another before it        *)
(* reserves them.                                                          *)
(*                                                                         *)
(* Which workers run, and when, is RunOrchestrator's business: here any    *)
(* paragraph may start while fewer than MaxActive are being processed, and *)
(* execute may end whenever none is.                                       *)
(*                                                                         *)
(* An operator named Bug... is no part of the specification: it is the     *)
(* next definition with a plausible mistake, kept to see that the          *)
(* properties notice it.                                                   *)
(***************************************************************************)
EXTENDS Naturals, FiniteSets, Sequences

CONSTANTS
  Paragraphs,   \* entries of the manifest
  Assets,       \* candidates that searches may return
  Sig,          \* the values an asset puts into the deduper's buckets: its
                \* source id, file hash, perceptual hash, semantic signature
  MaxActive,    \* paragraph workers
  MaxPicked,    \* bound: length of a selection
  Faults        \* "flush": ManifestRepository.save may raise;
                \* "run": RunRepository.save may, which ends execute early

ASSUME AssetsAssumption == \A a \in Assets : Sig[a] # {}
ASSUME ActiveAssumption == MaxActive \in Nat \ {0}
ASSUME PickedAssumption == MaxPicked \in Nat

VARIABLES
  main,      \* where execute is
  live,      \* TRUE while the run has a live manifest
  mem,       \* entries of the active manifest
  disk,      \* entries in manifest.json
  step,      \* how far process_paragraph has come
  picked,    \* the assets of the selection, in the order of their roles
  kept,      \* those of them that were reserved
  claimed,   \* what the run's deduper has registered
  indexed,   \* which manifest object the entry index points into
  unsaved    \* history: paragraphs with an outcome no flush has written yet

vars == <<main, live, mem, disk, step, picked, kept, claimed, indexed, unsaved>>

Signatures == UNION {Sig[a] : a \in Assets}
Sigs(A) == UNION {Sig[a] : a \in A}
Picked(p) == {picked[p][i] : i \in DOMAIN picked[p]}

Pending == [status |-> "pending", assets |-> {}]
Active == {p \in Paragraphs : step[p] \notin {"idle", "ok", "failed"}}

Init ==
  /\ main = "fresh"
  /\ live = FALSE
  /\ mem = [p \in Paragraphs |-> Pending]
  /\ disk = mem
  /\ step = [p \in Paragraphs |-> "idle"]
  /\ picked = [p \in Paragraphs |-> <<>>]
  /\ kept = [p \in Paragraphs |-> {}]
  /\ claimed = {}
  /\ indexed = "active"
  /\ unsaved = {}

-----------------------------------------------------------------------------
(* Helpers of the lock sections.                                           *)

BugUpdate(p, e) ==
  /\ mem' = IF indexed = "active" THEN [mem EXCEPT ![p] = e] ELSE mem
  /\ UNCHANGED indexed

\* _entry_for rebuilds the index when its owner is another manifest object.
Update(p, e) ==
  /\ mem' = [mem EXCEPT ![p] = e]
  /\ indexed' = "active"

FlushWorks ==
  /\ disk' = mem'
  /\ unsaved' = {}

FlushFails(p) ==
  /\ "flush" \in Faults
  /\ unsaved' = unsaved \cup {p}
  /\ UNCHANGED disk

Duplicate(a, taken) == Sig[a] \cap taken # {}

\* What filtering s one after the other against taken lets through: an asset
\* that meets neither taken nor an earlier asset that was let through.
IsFiltered(s, taken, K) ==
  \A i \in DOMAIN s :
    s[i] \in K <=>
      /\ ~Duplicate(s[i], taken)
      /\ \A j \in 1..(i - 1) : s[j] \in K => ~Duplicate(s[i], Sig[s[j]])

Selections == UNION {[1..n -> Assets] : n \in 0..MaxPicked}

\* The searches filter through a child of the run's deduper, which knows what
\* is claimed and what this paragraph was offered before.
Offered ==
  {s \in Selections : IsFiltered(s, claimed, {s[i] : i \in DOMAIN s})}

-----------------------------------------------------------------------------
(* The thread in ParagraphMediaRunService.execute, and readers.            *)

Register ==
  /\ main = "fresh"
  /\ main' = "running"
  /\ live' = TRUE
  /\ indexed' = "active"
  /\ UNCHANGED <<mem, disk, step, picked, kept, claimed, unsaved>>

\* load_manifest from the user interface points the index at its own object, at
\* any time: after the release this recreates the index, and nobody removes it.
LoadCopy ==
  /\ indexed' = "copy"
  /\ UNCHANGED <<main, live, mem, disk, step, picked, kept, claimed, unsaved>>

\* After RunOrchestrator.execute: the manifest is read back from disk ...
Reload ==
  /\ main = "running"
  /\ Active = {}
  /\ main' = "loaded"
  /\ mem' = disk
  /\ indexed' = "copy"
  /\ UNCHANGED <<live, disk, step, picked, kept, claimed, unsaved>>

\* ... flushed, which cannot change it any more, and the run's state released.
Release ==
  /\ main = "loaded"
  /\ main' = "closed"
  /\ live' = FALSE
  /\ claimed' = {}
  /\ disk' = mem
  /\ indexed' = "none"
  /\ UNCHANGED <<mem, step, picked, kept, unsaved>>

\* A failed save of the run ends execute while the status is still RUNNING:
\* nothing is released, and workers finish what they have.
ExecuteRaises ==
  /\ "run" \in Faults
  /\ main = "running"
  /\ main' = "raised"
  /\ UNCHANGED <<live, mem, disk, step, picked, kept, claimed, indexed, unsaved>>

-----------------------------------------------------------------------------
(* process_paragraph and record_paragraph_failure, section by section.     *)

Begin(p) ==
  /\ main = "running"
  /\ step[p] = "idle"
  /\ Cardinality(Active) < MaxActive
  /\ step' = [step EXCEPT ![p] = "searching"]
  /\ Update(p, [status |-> "processing", assets |-> {}])
  /\ UNCHANGED <<main, live, disk, picked, kept, claimed, unsaved>>

\* Searches, ranking and downloads, without any lock of the run.
Find(p) ==
  /\ step[p] = "searching"
  /\ step' = [step EXCEPT ![p] = "found"]
  /\ \E s \in Offered : picked' = [picked EXCEPT ![p] = s]
  /\ UNCHANGED <<main, live, mem, disk, kept, claimed, indexed, unsaved>>

FindFails(p) ==
  /\ step[p] = "searching"
  /\ step' = [step EXCEPT ![p] = "failing"]
  /\ UNCHANGED <<main, live, mem, disk, picked, kept, claimed, indexed, unsaved>>

BugReserve(p) ==
  /\ step[p] = "found"
  /\ step' = [step EXCEPT ![p] = "reserved"]
  /\ kept' = [kept EXCEPT ![p] = Picked(p)]
  /\ claimed' = claimed \cup Sigs(Picked(p))
  /\ UNCHANGED <<main, live, mem, disk, picked, indexed, unsaved>>

\* The mistake here: the searches' own deduper, which knows every candidate it
\* let through, filters the selection again.
BugReserveStale(p) ==
  /\ step[p] = "found"
  /\ step' = [step EXCEPT ![p] = "reserved"]
  /\ UNCHANGED <<main, live, mem, disk, picked, kept, claimed, indexed, unsaved>>

\* _reserve_selection_assets, under the run lock: filter again through a fresh
\* child, keep what is left and register it with the run's deduper.
Reserve(p) ==
  /\ step[p] = "found"
  /\ step' = [step EXCEPT ![p] = "reserved"]
  /\ \E K \in SUBSET Picked(p) :
       /\ IsFiltered(picked[p], claimed, K)
       /\ kept' = [kept EXCEPT ![p] = K]
       /\ claimed' = claimed \cup Sigs(K)
  /\ UNCHANGED <<main, live, mem, disk, picked, indexed, unsaved>>

Outcome(p) ==
  [status |-> IF kept[p] = {} THEN "no_match" ELSE "completed",
   assets |-> kept[p]]

\* The section that writes the entry and flushes; a flush that raises makes
\* the paragraph a failed one.
Persist(p) ==
  /\ step[p] = "reserved"
  /\ Update(p, Outcome(p))
  /\ \/ FlushWorks /\ step' = [step EXCEPT ![p] = "ok"]
     \/ FlushFails(p) /\ step' = [step EXCEPT ![p] = "failing"]
  /\ UNCHANGED <<main, live, picked, kept, claimed>>

RecordParagraphFailure(p) ==
  /\ step[p] = "failing"
  /\ Update(p, [status |-> "failed", assets |-> {}])
  /\ FlushWorks \/ FlushFails(p)
  /\ step' = [step EXCEPT ![p] = "failed"]
  /\ UNCHANGED <<main, live, picked, kept, claimed>>

-----------------------------------------------------------------------------
(* The specification.                                                      *)

Next ==
  \/ Register \/ LoadCopy \/ Reload \/ Release \/ ExecuteRaises
  \/ \E p \in Paragraphs :
       \/ Begin(p) \/ Find(p) \/ FindFails(p) \/ Reserve(p) \/ Persist(p)
       \/ RecordParagraphFailure(p)

Spec == Init /\ [][Next]_vars
-----------------------------------------------------------------------------
(* Properties.                                                             *)

Statuses == {"pending", "processing", "completed", "no_match", "failed"}
Entries == [status : Statuses, assets : SUBSET Assets]

\* Types of the run's state; no more paragraphs are in work than workers.
TypeOK ==
  /\ main \in {"fresh", "running", "loaded", "closed", "raised"}
  /\ live \in BOOLEAN
  /\ mem \in [Paragraphs -> Entries] /\ disk \in [Paragraphs -> Entries]
  /\ step \in [Paragraphs -> {"idle", "searching", "found", "reserved",
                              "failing", "ok", "failed"}]
  /\ picked \in [Paragraphs -> Selections]
  /\ kept \in [Paragraphs -> SUBSET Assets]
  /\ claimed \subseteq Signatures
  /\ indexed \in {"active", "copy", "none"}
  /\ unsaved \subseteq Paragraphs
  /\ Cardinality(Active) <= MaxActive

Clash(A, B) == Sigs(A) \cap Sigs(B) # {}

\* No two paragraphs of a manifest get the same asset, nor two assets that the
\* deduper takes for one, however their searches and downloads interleave.
NoAssetUsedTwice ==
  \A p, q \in Paragraphs :
    p # q => /\ ~Clash(mem[p].assets, mem[q].assets)
             /\ ~Clash(disk[p].assets, disk[q].assets)

\* A paragraph that found assets is left empty-handed only when each of them
\* clashes with one that another paragraph reserved.
NoMatchMeansTaken ==
  \A p \in Paragraphs :
    step[p] \in {"reserved", "ok"} /\ kept[p] = {} =>
      \A a \in Picked(p) : \E q \in Paragraphs \ {p} : Clash({a}, kept[q])

\* What a worker reports to execute is what manifest.json says of the paragraph,
\* whatever else reads and writes it, once a flush has worked.
OutcomeIsOnDisk ==
  \A p \in Paragraphs \ unsaved :
    /\ step[p] = "ok" => disk[p] = Outcome(p)
    /\ step[p] = "failed" => disk[p].status = "failed"
=============================================================================
