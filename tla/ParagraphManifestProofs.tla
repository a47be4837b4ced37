----------------------- MODULE ParagraphManifestProofs -----------------------
(***************************************************************************)
(* Proofs about ParagraphManifest for every set of paragraphs and assets,  *)
(* every deduplication relation and any number of workers.                 *)
(*                                                                         *)
(* The properties are about the manifest; what makes them true is what the *)
(* workers have reserved. ReservedInv says that the run's deduper knows    *)
(* exactly the reservations and that they do not clash, RecordInv that the *)
(* manifest holds nothing else.                                            *)
(***************************************************************************)
EXTENDS ParagraphManifest, FiniteSetTheorems, TLAPS

Steps == {"idle", "searching", "found", "reserved", "failing", "ok", "failed"}

Types ==
  /\ main \in {"fresh", "running", "loaded", "closed", "raised"}
  /\ step \in [Paragraphs -> Steps]
  /\ kept \in [Paragraphs -> SUBSET Assets]
  /\ mem \in [Paragraphs -> Entries] /\ disk \in [Paragraphs -> Entries]
  /\ DOMAIN picked = Paragraphs
  /\ \A p \in Paragraphs : Picked(p) \subseteq Assets

\* While assets can be reserved, claimed is the union of the reservations; a
\* paragraph has none before its turn.
ReservedInv ==
  /\ main # "closed" => claimed = UNION {Sigs(kept[p]) : p \in Paragraphs}
  /\ main \in {"loaded", "closed"} => Active = {}
  /\ \A p \in Paragraphs :
       step[p] \in {"idle", "searching", "found"} => kept[p] = {}
  /\ \A p, q \in Paragraphs : p # q => ~Clash(kept[p], kept[q])

\* The entries follow from the steps and reservations, in memory until execute
\* reads the manifest back, on disk unless a flush failed.
EntryInv ==
  /\ \A p \in Paragraphs : /\ mem[p].assets \subseteq kept[p]
                           /\ disk[p].assets \subseteq kept[p]
  /\ main \in {"loaded", "closed"} => mem = disk
  /\ main \notin {"loaded", "closed"} =>
       \A p \in Paragraphs : /\ step[p] = "ok" => mem[p] = Outcome(p)
                             /\ step[p] = "failed" => mem[p].status = "failed"

IInv ==
  /\ Types
  /\ ReservedInv
  /\ EntryInv
  /\ NoMatchMeansTaken
  /\ OutcomeIsOnDisk

-----------------------------------------------------------------------------
(* Signatures.                                                             *)

\* Smaller sets clash less.
LEMMA ClashMonotone ==
  ASSUME NEW A, NEW B, NEW C, NEW D, A \subseteq C, B \subseteq D, ~Clash(C, D)
  PROVE  ~Clash(A, B)
BY DEF Clash, Sigs

\* What a filter against claimed lets through meets nothing that is claimed.
LEMMA FilteredIsFree ==
  ASSUME NEW p \in Paragraphs, NEW K \in SUBSET Picked(p),
         IsFiltered(picked[p], claimed, K)
  PROVE  Sigs(K) \cap claimed = {}
BY DEF Picked, IsFiltered, Duplicate, Sigs

\* A filter that lets nothing through was given claimed assets only.
LEMMA NothingFiltered ==
  ASSUME NEW p \in Paragraphs, IsFiltered(picked[p], claimed, {})
  PROVE  \A a \in Picked(p) : Sig[a] \cap claimed # {}
BY DEF Picked, IsFiltered, Duplicate

-----------------------------------------------------------------------------
(* Every step preserves IInv.                                              *)

\* Outcomes, selections and what follows from them stay when these three do.
LEMMA Untouched ==
  ASSUME UNCHANGED <<step, picked, kept>>
  PROVE  /\ Active' = Active
         /\ \A p \in Paragraphs : Outcome(p)' = Outcome(p) /\ Picked(p)' = Picked(p)
         /\ NoMatchMeansTaken' = NoMatchMeansTaken
BY DEF Active, Outcome, Picked, NoMatchMeansTaken

\* An entry is replaced by one its reservation covers.
LEMMA UpdatePreserves ==
  ASSUME Types, EntryInv, NEW p \in Paragraphs, NEW e \in Entries,
         Update(p, e), UNCHANGED <<kept, picked, main>>,
         e.assets \subseteq kept[p],
         main \notin {"loaded", "closed"},
         \A q \in Paragraphs \ {p} : step'[q] = step[q],
         step'[p] = "ok" => e = Outcome(p),
         step'[p] = "failed" => e.status = "failed"
  PROVE  /\ mem' \in [Paragraphs -> Entries]
         /\ \A q \in Paragraphs : mem'[q].assets \subseteq kept'[q]
         /\ \A q \in Paragraphs : /\ step'[q] = "ok" => mem'[q] = Outcome(q)'
                                  /\ step'[q] = "failed" => mem'[q].status = "failed"
<1>1. mem' = [mem EXCEPT ![p] = e] /\ mem' \in [Paragraphs -> Entries]
  BY DEF Update, Types
<1>2. mem'[p] = e /\ \A q \in Paragraphs \ {p} : mem'[q] = mem[q]
  BY <1>1 DEF Types
<1>3. \A q \in Paragraphs : Outcome(q)' = Outcome(q)
  BY DEF Outcome
<1>4. \A q \in Paragraphs : mem'[q].assets \subseteq kept'[q]
  <2>1. \A q \in Paragraphs \ {p} : mem[q].assets \subseteq kept[q]
    BY DEF EntryInv
  <2>. QED BY <1>2, <2>1
<1>5. ASSUME NEW q \in Paragraphs
      PROVE  /\ step'[q] = "ok" => mem'[q] = Outcome(q)'
             /\ step'[q] = "failed" => mem'[q].status = "failed"
  <2>1. CASE q = p
    BY <1>2, <1>3, <2>1
  <2>2. CASE q # p
    BY <1>2, <1>3, <2>2 DEF EntryInv
  <2>. QED BY <2>1, <2>2
<1>. QED BY <1>1, <1>4, <1>5

THEOREM Inductive == IInv /\ [Next]_vars => IInv'
<1>. SUFFICES ASSUME IInv, [Next]_vars PROVE IInv'
  OBVIOUS
<1>. USE DEF IInv, Types, Steps
<1>1. CASE Register
  <2>1. UNCHANGED <<step, picked, kept>> /\ UNCHANGED <<mem, disk, claimed, unsaved>>
    BY <1>1 DEF Register
  <2>2. main = "fresh" /\ main' = "running"
    BY <1>1 DEF Register
  <2>. QED BY <2>1, <2>2, Untouched DEF ReservedInv, EntryInv, OutcomeIsOnDisk
<1>2. CASE LoadCopy
  <2>1. UNCHANGED <<step, picked, kept>> /\ UNCHANGED <<main, mem, disk, claimed, unsaved>>
    BY <1>2 DEF LoadCopy
  <2>. QED BY <2>1, Untouched DEF ReservedInv, EntryInv, OutcomeIsOnDisk
<1>3. CASE Reload
  <2>1. /\ UNCHANGED <<step, picked, kept>> /\ UNCHANGED <<disk, claimed, unsaved>>
        /\ main = "running" /\ main' = "loaded" /\ mem' = disk /\ Active = {}
    BY <1>3 DEF Reload
  <2>. QED BY <2>1, Untouched DEF ReservedInv, EntryInv, OutcomeIsOnDisk
<1>4. CASE Release
  <2>1. /\ UNCHANGED <<step, picked, kept>> /\ UNCHANGED <<mem, unsaved>>
        /\ main = "loaded" /\ main' = "closed" /\ disk' = mem
    BY <1>4 DEF Release
  <2>2. disk' = disk
    BY <2>1 DEF EntryInv
  <2>. QED BY <2>1, <2>2, Untouched DEF ReservedInv, EntryInv, OutcomeIsOnDisk
<1>5. CASE ExecuteRaises
  <2>1. /\ UNCHANGED <<step, picked, kept>> /\ UNCHANGED <<mem, disk, claimed, unsaved>>
        /\ main = "running" /\ main' = "raised"
    BY <1>5 DEF ExecuteRaises
  <2>. QED BY <2>1, Untouched DEF ReservedInv, EntryInv, OutcomeIsOnDisk
<1>6. ASSUME NEW p \in Paragraphs, Begin(p) PROVE IInv'
  <2>. DEFINE e == [status |-> "processing", assets |-> {}]
  <2>1. e \in Entries /\ e.assets \subseteq kept[p]
    BY DEF Entries, Statuses
  <2>2. /\ step'[p] = "searching" /\ \A q \in Paragraphs \ {p} : step'[q] = step[q]
        /\ step' \in [Paragraphs -> Steps] /\ step[p] = "idle"
        /\ main = "running" /\ Update(p, e)
        /\ UNCHANGED <<main, kept, picked, claimed, disk, unsaved>>
        /\ \A q \in Paragraphs : Picked(q)' = Picked(q) /\ Outcome(q)' = Outcome(q)
    BY <1>6 DEF Begin, Picked, Outcome
  <2>3. /\ mem' \in [Paragraphs -> Entries]
        /\ \A q \in Paragraphs : mem'[q].assets \subseteq kept'[q]
        /\ \A q \in Paragraphs : /\ step'[q] = "ok" => mem'[q] = Outcome(q)'
                                 /\ step'[q] = "failed" => mem'[q].status = "failed"
    BY <2>1, <2>2, UpdatePreserves
  <2>4. ReservedInv'
    BY <2>2 DEF ReservedInv
  <2>5. EntryInv'
    BY <2>2, <2>3 DEF EntryInv
  <2>6. NoMatchMeansTaken' /\ OutcomeIsOnDisk'
    BY <2>2 DEF NoMatchMeansTaken, OutcomeIsOnDisk
  <2>. QED BY <2>2, <2>3, <2>4, <2>5, <2>6
<1>7. ASSUME NEW p \in Paragraphs, Find(p) \/ FindFails(p) PROVE IInv'
  <2>1. /\ step[p] = "searching" /\ step'[p] \in {"found", "failing"}
        /\ \A q \in Paragraphs \ {p} : step'[q] = step[q]
        /\ \A q \in Paragraphs \ {p} : Picked(q)' = Picked(q)
        /\ step' \in [Paragraphs -> Steps] /\ DOMAIN picked' = Paragraphs
        /\ UNCHANGED <<main, mem, disk, kept, claimed, unsaved>>
        /\ \A q \in Paragraphs : Outcome(q)' = Outcome(q)
    BY <1>7 DEF Find, FindFails, Picked, Outcome
  <2>1a. Picked(p)' \subseteq Assets
    <3>1. picked'[p] = picked[p] \/ picked'[p] \in Selections
      BY <1>7 DEF Find, FindFails, Offered
    <3>2. picked'[p] \in Selections => Picked(p)' \subseteq Assets
      BY DEF Selections, Picked
    <3>3. picked'[p] = picked[p] => Picked(p)' = Picked(p)
      BY DEF Picked
    <3>. QED BY <3>1, <3>2, <3>3
  <2>2. main \notin {"loaded", "closed"}
    BY <2>1 DEF ReservedInv, Active
  <2>3. ReservedInv'
    BY <2>1, <2>2 DEF ReservedInv
  <2>4. EntryInv'
    BY <2>1, <2>2 DEF EntryInv, Outcome
  <2>5. NoMatchMeansTaken' /\ OutcomeIsOnDisk'
    BY <2>1 DEF NoMatchMeansTaken, OutcomeIsOnDisk
  <2>. QED BY <2>1, <2>1a, <2>3, <2>4, <2>5
<1>8. ASSUME NEW p \in Paragraphs, Reserve(p) PROVE IInv'
  <2>1. PICK K \in SUBSET Picked(p) :
          /\ IsFiltered(picked[p], claimed, K)
          /\ kept' = [kept EXCEPT ![p] = K]
          /\ claimed' = claimed \cup Sigs(K)
    BY <1>8 DEF Reserve
  <2>2. /\ step[p] = "found" /\ step'[p] = "reserved"
        /\ \A q \in Paragraphs \ {p} : step'[q] = step[q]
        /\ step' \in [Paragraphs -> Steps]
        /\ UNCHANGED <<main, mem, disk, picked, unsaved>>
    BY <1>8 DEF Reserve
  <2>3. /\ kept[p] = {} /\ main \notin {"loaded", "closed"}
        /\ claimed = UNION {Sigs(kept[q]) : q \in Paragraphs}
    BY <2>2 DEF ReservedInv, Active
  <2>4. kept'[p] = K /\ \A q \in Paragraphs \ {p} : kept'[q] = kept[q]
    BY <2>1
  <2>5. Sigs(K) \cap claimed = {}
    BY <2>1, FilteredIsFree
  <2>6. ReservedInv'
    <3>1. claimed' = UNION {Sigs(kept'[q]) : q \in Paragraphs}
      <4>1. Sigs(kept[p]) = {}
        BY <2>3 DEF Sigs
      <4>2. UNION {Sigs(kept'[q]) : q \in Paragraphs}
              = Sigs(K) \cup UNION {Sigs(kept[q]) : q \in Paragraphs}
        BY <2>4, <4>1
      <4>. QED BY <2>1, <2>3, <4>2
    <3>2. \A q \in Paragraphs \ {p} : ~Clash(K, kept[q]) /\ ~Clash(kept[q], K)
      BY <2>3, <2>5 DEF Clash
    <3>3. \A q, r \in Paragraphs : q # r => ~Clash(kept'[q], kept'[r])
      BY <2>4, <3>2 DEF ReservedInv
    <3>. QED BY <2>2, <2>3, <2>4, <3>1, <3>3 DEF ReservedInv
  <2>7. EntryInv'
    BY <2>2, <2>3, <2>4 DEF EntryInv, Outcome
  <2>8. NoMatchMeansTaken'
    <3>. SUFFICES ASSUME NEW r \in Paragraphs, step'[r] \in {"reserved", "ok"},
                         kept'[r] = {}, NEW a \in Picked(r)'
                  PROVE  \E q \in Paragraphs \ {r} : Clash({a}, kept'[q])
      BY DEF NoMatchMeansTaken
    <3>0. Picked(r)' = Picked(r)
      BY <2>2 DEF Picked
    <3>1. CASE r = p
      <4>1. Sig[a] \cap claimed # {}
        BY <2>1, <2>4, <3>0, <3>1, NothingFiltered
      <4>2. PICK q \in Paragraphs : Sig[a] \cap Sigs(kept[q]) # {}
        BY <2>3, <4>1
      <4>3. q # p
        BY <2>3, <4>2 DEF Sigs
      <4>. QED BY <2>4, <3>1, <4>2, <4>3 DEF Clash, Sigs
    <3>2. CASE r # p
      <4>1. PICK q \in Paragraphs \ {r} : Clash({a}, kept[q])
        BY <2>2, <2>4, <3>0, <3>2 DEF NoMatchMeansTaken
      <4>2. q # p
        BY <2>3, <4>1 DEF Clash, Sigs
      <4>. QED BY <2>4, <4>1, <4>2
    <3>. QED BY <3>1, <3>2
  <2>9. OutcomeIsOnDisk'
    BY <2>2, <2>4 DEF OutcomeIsOnDisk, Outcome
  <2>10. Types'
    <3>1. K \subseteq Assets
      OBVIOUS
    <3>2. \A q \in Paragraphs : Picked(q)' = Picked(q)
      BY <2>2 DEF Picked
    <3>. QED BY <2>1, <2>2, <3>1, <3>2
  <2>. QED BY <2>6, <2>7, <2>8, <2>9, <2>10
<1>9. ASSUME NEW p \in Paragraphs, Persist(p) PROVE IInv'
  <2>1. /\ step[p] = "reserved" /\ step'[p] \in {"ok", "failing"}
        /\ \A q \in Paragraphs \ {p} : step'[q] = step[q]
        /\ step' \in [Paragraphs -> Steps] /\ Update(p, Outcome(p))
        /\ UNCHANGED <<main, kept, picked, claimed>>
        /\ \/ disk' = mem' /\ unsaved' = {}
           \/ step'[p] = "failing" /\ disk' = disk /\ unsaved' = unsaved \cup {p}
    BY <1>9 DEF Persist, FlushWorks, FlushFails
  <2>2. Outcome(p) \in Entries /\ Outcome(p).assets \subseteq kept[p]
    BY DEF Outcome, Entries, Statuses
  <2>3. main \notin {"loaded", "closed"}
    BY <2>1 DEF ReservedInv, Active
  <2>4. /\ mem' \in [Paragraphs -> Entries]
        /\ \A q \in Paragraphs : mem'[q].assets \subseteq kept'[q]
        /\ \A q \in Paragraphs : /\ step'[q] = "ok" => mem'[q] = Outcome(q)'
                                 /\ step'[q] = "failed" => mem'[q].status = "failed"
    BY <2>1, <2>2, <2>3, UpdatePreserves
  <2>5. Types'
    BY <2>1, <2>4 DEF Picked
  <2>6. ReservedInv'
    BY <2>1, <2>3 DEF ReservedInv
  <2>7. EntryInv'
    BY <2>1, <2>3, <2>4 DEF EntryInv
  <2>8. NoMatchMeansTaken'
    <3>1. \A q \in Paragraphs :
            /\ step'[q] \in {"reserved", "ok"} => step[q] \in {"reserved", "ok"}
            /\ Picked(q)' = Picked(q)
      BY <2>1 DEF Picked
    <3>. QED BY <2>1, <3>1 DEF NoMatchMeansTaken
  <2>9. OutcomeIsOnDisk'
    BY <2>1, <2>4 DEF OutcomeIsOnDisk, Outcome
  <2>. QED BY <2>5, <2>6, <2>7, <2>8, <2>9
<1>10. ASSUME NEW p \in Paragraphs, RecordParagraphFailure(p) PROVE IInv'
  <2>. DEFINE e == [status |-> "failed", assets |-> {}]
  <2>1. /\ step[p] = "failing" /\ step'[p] = "failed"
        /\ \A q \in Paragraphs \ {p} : step'[q] = step[q]
        /\ step' \in [Paragraphs -> Steps] /\ Update(p, e)
        /\ UNCHANGED <<main, kept, picked, claimed>>
        /\ \/ disk' = mem' /\ unsaved' = {}
           \/ disk' = disk /\ unsaved' = unsaved \cup {p}
    BY <1>10 DEF RecordParagraphFailure, FlushWorks, FlushFails
  <2>2. e \in Entries /\ e.assets \subseteq kept[p]
    BY DEF Entries, Statuses
  <2>3. main \notin {"loaded", "closed"}
    BY <2>1 DEF ReservedInv, Active
  <2>4. /\ mem' \in [Paragraphs -> Entries]
        /\ \A q \in Paragraphs : mem'[q].assets \subseteq kept'[q]
        /\ \A q \in Paragraphs : /\ step'[q] = "ok" => mem'[q] = Outcome(q)'
                                 /\ step'[q] = "failed" => mem'[q].status = "failed"
    BY <2>1, <2>2, <2>3, UpdatePreserves
  <2>5. Types'
    BY <2>1, <2>4 DEF Picked
  <2>6. ReservedInv'
    BY <2>1, <2>3 DEF ReservedInv
  <2>7. EntryInv'
    BY <2>1, <2>3, <2>4 DEF EntryInv
  <2>8. NoMatchMeansTaken'
    <3>1. \A q \in Paragraphs :
            /\ step'[q] \in {"reserved", "ok"} => step[q] \in {"reserved", "ok"}
            /\ Picked(q)' = Picked(q)
      BY <2>1 DEF Picked
    <3>. QED BY <2>1, <3>1 DEF NoMatchMeansTaken
  <2>9. OutcomeIsOnDisk'
    BY <2>1, <2>4 DEF OutcomeIsOnDisk, Outcome
  <2>. QED BY <2>5, <2>6, <2>7, <2>8, <2>9
<1>11. CASE UNCHANGED vars
  <2>1. UNCHANGED <<step, picked, kept>> /\ UNCHANGED <<main, mem, disk, claimed, unsaved>>
    BY <1>11 DEF vars
  <2>. QED BY <2>1, Untouched DEF ReservedInv, EntryInv, OutcomeIsOnDisk
<1>. QED
  BY <1>1, <1>2, <1>3, <1>4, <1>5, <1>6, <1>7, <1>8, <1>9, <1>10, <1>11 DEF Next

-----------------------------------------------------------------------------
(* Theorems of the specification.                                          *)

THEOREM InvariantHolds == Spec => []IInv
<1>1. Init => IInv
  <2>. SUFFICES ASSUME Init PROVE IInv
    OBVIOUS
  <2>1. Pending \in Entries /\ Pending.assets = {} /\ Pending.status = "pending"
    BY DEF Pending, Entries, Statuses
  <2>2. \A p \in Paragraphs : picked[p] = <<>> /\ Picked(p) = {}
    BY DEF Init, Picked
  <2>3. Types
    BY <2>1, <2>2 DEF Init, Types, Steps
  <2>4. ReservedInv
    BY DEF Init, ReservedInv, Clash, Sigs
  <2>5. EntryInv /\ NoMatchMeansTaken /\ OutcomeIsOnDisk
    BY <2>1 DEF Init, EntryInv, NoMatchMeansTaken, OutcomeIsOnDisk
  <2>. QED BY <2>3, <2>4, <2>5 DEF IInv
<1>. QED BY <1>1, Inductive, PTL DEF Spec

\* No asset, and no duplicate of it, is given to two paragraphs of a run.
THEOREM AssetsAreUsedOnce == Spec => []NoAssetUsedTwice
<1>1. IInv => NoAssetUsedTwice
  <2>. SUFFICES ASSUME IInv, NEW p \in Paragraphs, NEW q \in Paragraphs, p # q
                PROVE  /\ ~Clash(mem[p].assets, mem[q].assets)
                       /\ ~Clash(disk[p].assets, disk[q].assets)
    BY DEF NoAssetUsedTwice
  <2>. QED BY ClashMonotone DEF IInv, ReservedInv, EntryInv
<1>. QED BY <1>1, InvariantHolds, PTL

\* A paragraph stays empty-handed only because others were faster.
THEOREM NoMatchesAreJustified == Spec => []NoMatchMeansTaken
<1>1. IInv => NoMatchMeansTaken
  BY DEF IInv
<1>. QED BY <1>1, InvariantHolds, PTL

\* Run and manifest agree about every paragraph whose flush worked.
THEOREM OutcomesAreOnDisk == Spec => []OutcomeIsOnDisk
<1>1. IInv => OutcomeIsOnDisk
  BY DEF IInv
<1>. QED BY <1>1, InvariantHolds, PTL

-----------------------------------------------------------------------------
(* Types, and the number of paragraphs in work. A worker starts on a         *)
(* paragraph only while fewer than MaxActive are in work, and no other step  *)
(* adds to them.                                                             *)

WorkInv == IsFiniteSet(Active) /\ Cardinality(Active) <= MaxActive

LEMMA WorkInductive == IInv /\ WorkInv /\ [Next]_vars => WorkInv'
<1>. SUFFICES ASSUME IInv, WorkInv, [Next]_vars PROVE WorkInv'
  OBVIOUS
<1>. USE DEF WorkInv
<1>1. ASSUME NEW p \in Paragraphs, Begin(p) PROVE WorkInv'
  <2>1. p \notin Active /\ Active' = Active \cup {p} /\ Cardinality(Active) < MaxActive
    BY <1>1 DEF Begin, Active, IInv, Types
  <2>2. Cardinality(Active') = Cardinality(Active) + 1 /\ IsFiniteSet(Active')
    BY <2>1, FS_AddElement
  <2>. QED BY <2>1, <2>2, FS_CardinalityType, ActiveAssumption
<1>2. ASSUME Active' \subseteq Active PROVE WorkInv'
  BY <1>2, FS_Subset, FS_CardinalityType, ActiveAssumption
<1>3. ASSUME NEW p \in Paragraphs, Find(p) \/ FindFails(p) \/ Reserve(p)
      PROVE WorkInv'
  BY <1>2, <1>3 DEF Find, FindFails, Reserve, Active, IInv, Types
<1>4. ASSUME NEW p \in Paragraphs, Persist(p) \/ RecordParagraphFailure(p)
      PROVE WorkInv'
  BY <1>2, <1>4 DEF Persist, RecordParagraphFailure, Active, IInv, Types
<1>5. ASSUME UNCHANGED step PROVE WorkInv'
  BY <1>2, <1>5 DEF Active
<1>6. CASE Register \/ LoadCopy \/ Reload \/ Release \/ ExecuteRaises
  BY <1>5, <1>6 DEF Register, LoadCopy, Reload, Release, ExecuteRaises
<1>7. CASE UNCHANGED vars
  BY <1>5, <1>7 DEF vars
<1>. QED BY <1>1, <1>3, <1>4, <1>6, <1>7 DEF Next

OtherTypes ==
  /\ live \in BOOLEAN
  /\ picked \in [Paragraphs -> Selections]
  /\ claimed \subseteq Signatures
  /\ indexed \in {"active", "copy", "none"}
  /\ unsaved \subseteq Paragraphs

LEMMA OtherTypesInductive == IInv /\ OtherTypes /\ [Next]_vars => OtherTypes'
<1>. SUFFICES ASSUME IInv, OtherTypes, [Next]_vars PROVE OtherTypes'
  OBVIOUS
<1>. USE DEF OtherTypes
<1>1. CASE Register \/ LoadCopy \/ Reload \/ Release \/ ExecuteRaises
  BY <1>1 DEF Register, LoadCopy, Reload, Release, ExecuteRaises
<1>2. ASSUME NEW p \in Paragraphs, Find(p) PROVE OtherTypes'
  <2>1. \A s \in Offered : s \in Selections
    BY DEF Offered
  <2>. QED BY <1>2, <2>1 DEF Find
<1>3. ASSUME NEW p \in Paragraphs, Reserve(p) PROVE OtherTypes'
  <2>1. PICK K \in SUBSET Picked(p) : claimed' = claimed \cup Sigs(K)
    BY <1>3 DEF Reserve
  <2>2. K \subseteq Assets
    BY DEF IInv, Types
  <2>3. Sigs(K) \subseteq Signatures
    BY <2>2 DEF Sigs, Signatures
  <2>. QED BY <1>3, <2>1, <2>3 DEF Reserve
<1>4. ASSUME NEW p \in Paragraphs,
             \/ Begin(p) \/ FindFails(p) \/ Persist(p) \/ RecordParagraphFailure(p)
      PROVE OtherTypes'
  BY <1>4 DEF Begin, FindFails, Persist, RecordParagraphFailure, Update,
              FlushWorks, FlushFails
<1>5. CASE UNCHANGED vars
  BY <1>5 DEF vars
<1>. QED BY <1>1, <1>2, <1>3, <1>4, <1>5 DEF Next

\* The state of the pipeline stays well-formed, and no more paragraphs are in
\* work at a time than there are workers.
THEOREM TypeCorrect == Spec => []TypeOK
<1>1. Init => WorkInv /\ OtherTypes
  <2>. SUFFICES ASSUME Init PROVE WorkInv /\ OtherTypes
    OBVIOUS
  <2>1. Active = {}
    BY DEF Init, Active
  <2>2. WorkInv
    BY <2>1, FS_EmptySet, ActiveAssumption DEF WorkInv
  <2>3. <<>> \in [1..0 -> Assets] /\ 0 \in 0..MaxPicked
    BY PickedAssumption
  <2>4. <<>> \in Selections
    BY <2>3 DEF Selections
  <2>. QED BY <2>2, <2>4 DEF Init, OtherTypes
<1>2. IInv /\ WorkInv /\ OtherTypes => TypeOK
  BY DEF IInv, Types, Steps, WorkInv, OtherTypes, TypeOK
<1>. QED
  BY <1>1, <1>2, WorkInductive, OtherTypesInductive, InvariantHolds, PTL DEF Spec
=============================================================================
