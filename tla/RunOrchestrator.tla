-------------------------- MODULE RunOrchestrator ---------------------------
(***************************************************************************)
(* RunOrchestrator.create_run, cancel and execute (pipeline/orchestrator), *)
(* for one run: the thread inside execute, the worker threads of its       *)
(* BoundedExecutor, and the user interface thread that calls cancel.       *)
(*                                                                         *)
(* MaxWorkers = 1 is the sequential branch, where the executing thread     *)
(* calls the processor itself; MaxWorkers > 1 is the branch that submits   *)
(* paragraphs to the executor and collects the futures.                    *)
(*                                                                         *)
(* The processor is MediaRunService's closure: it reads the cancel flag    *)
(* once, when it starts, raises InterruptedError at once if the flag was   *)
(* set, and is never interrupted afterwards.                               *)
(*                                                                         *)
(* An operator named Bug... is no part of the specification: it is the     *)
(* next definition with a plausible mistake, kept to see that the          *)
(* properties notice it.                                                   *)
(***************************************************************************)
EXTENDS Naturals, FiniteSets

CONSTANTS
  Paragraphs,   \* paragraph numbers of the document, processed in this order
  Requestable,  \* numbers a caller may select, known to the document or not
  MaxWorkers,   \* max_workers of configure
  QueueSize,    \* queue_size of configure: slots of the BoundedExecutor
  Faults        \* which of "save" (RunRepository.save raises) and "crash"
                \* (the process dies) may happen

ASSUME ParagraphsAssumption == Paragraphs \subseteq Nat /\ IsFiniteSet(Paragraphs)
ASSUME WorkersAssumption == MaxWorkers \in Nat \ {0} /\ QueueSize \in Nat \ {0}
ASSUME FaultsAssumption == Faults \subseteq {"save", "crash"}

VARIABLES
  pc,              \* where the thread that owns the run is
  run,             \* the Run object execute updates
  disk,            \* the Run last written to run.json ("absent" before)
  wanted,          \* "remaining" as execute computes it
  todo,            \* the part of it from next_submit_index on
  pending,         \* keys of the pending dict (sequential: the one in hand)
  fut,             \* state of each paragraph's future or call
  settled,         \* futures whose result wait() can see
  batch,           \* what is left of the set the current loop walks over
  inflight,        \* BoundedExecutor._inflight
  cancelRequested, \* RunControls.cancel_requested
  sawInterrupt,    \* saw_interrupt of the current batch
  transition,      \* transition
  report,          \* cancelled_futures of the transition payload
  late             \* history: paragraphs handed over after a cancel request

vars == <<pc, run, disk, wanted, todo, pending, fut, settled, batch, inflight,
          cancelRequested, sawInterrupt, transition, report, late>>

poolVars   == <<pending, fut, settled, batch, inflight>>
cancelVars == <<cancelRequested, sawInterrupt, transition, report>>

Parallel  == MaxWorkers > 1
BugWindow == MaxWorkers
Window    == IF MaxWorkers < QueueSize THEN MaxWorkers ELSE QueueSize

Terminal == {"completed", "failed", "cancelled"}
Outcomes == {"ok", "failed", "interrupted"}

BugRemaining(selected) == IF selected = {} THEN Paragraphs ELSE selected

\* An empty selection means the whole document; unknown numbers are ignored.
Remaining(selected) ==
  IF selected = {} THEN Paragraphs ELSE Paragraphs \cap selected

IsNext(p) == p \in todo /\ \A q \in todo : p <= q

NoRun == [status |-> "absent", stage |-> "idle",
          completed |-> {}, failed |-> {}, error |-> FALSE]

Init ==
  /\ pc = "idle"
  /\ run = NoRun
  /\ disk = NoRun
  /\ wanted = {}
  /\ todo = {}
  /\ pending = {}
  /\ fut = [p \in Paragraphs |-> "unsubmitted"]
  /\ settled = {}
  /\ batch = {}
  /\ inflight = 0
  /\ cancelRequested = FALSE
  /\ sawInterrupt = FALSE
  /\ transition = FALSE
  /\ report = 0
  /\ late = {}

-----------------------------------------------------------------------------
(* Calls from outside: create_run, cancel, and the start of execute.       *)

CreateRun(selected) ==
  /\ pc = "idle"
  /\ pc' = "created"
  /\ run' = [run EXCEPT !.status = "running"]
  /\ disk' = run'
  /\ wanted' = Remaining(selected)
  /\ todo' = wanted'
  /\ UNCHANGED <<poolVars, cancelVars, late>>

\* cancel stores no status: it sets the flag and announces the request.
RequestCancel ==
  /\ pc \notin {"idle", "dead"}
  /\ ~cancelRequested
  /\ cancelRequested' = TRUE
  /\ UNCHANGED <<pc, run, disk, wanted, todo, poolVars, sawInterrupt,
                 transition, report, late>>

\* The head of execute: nothing is saved here, run.json still says IDLE.
StartRun ==
  /\ pc = "created"
  /\ pc' = IF Parallel THEN "fill" ELSE "loop"
  /\ run' = [run EXCEPT !.status = "running", !.stage = "provider_search",
                        !.error = FALSE]
  /\ UNCHANGED <<disk, wanted, todo, poolVars, cancelVars, late>>

-----------------------------------------------------------------------------
(* Updates of the Run object. Each ends in _save_run: pc becomes "save".   *)

CancelRun ==
  /\ run' = [run EXCEPT !.status = "cancelled", !.stage = "persist"]
  /\ pc' = "save"

BugFinalizeRun ==
  /\ run' = [run EXCEPT !.status = "completed", !.stage = "complete"]
  /\ pc' = "save"

FinalizeRun ==
  LET verdict == IF run.failed # {} THEN "failed" ELSE "completed"
  IN /\ run' = [run EXCEPT !.status = verdict, !.stage = "complete",
                           !.error = @ /\ verdict = "failed"]
     /\ pc' = "save"

BugRecordFailure(p) ==
  /\ run' = [run EXCEPT !.error = TRUE, !.failed = @ \cup {p}]
  /\ pc' = IF Parallel THEN "batch" ELSE "loop"

RecordFailure(p) ==
  /\ run' = [run EXCEPT !.stage = "persist", !.error = TRUE,
                        !.failed = @ \cup {p}]
  /\ pc' = "save"

BugRecordSuccess(p) ==
  /\ run' = IF cancelRequested THEN run
            ELSE [run EXCEPT !.stage = "persist", !.completed = @ \cup {p}]
  /\ pc' = "save"

RecordSuccess(p) ==
  /\ run' = [run EXCEPT !.stage = "persist", !.completed = @ \cup {p},
                        !.failed = @ \ {p},
                        !.error = @ /\ run.failed \ {p} # {}]
  /\ pc' = "save"

AfterSave ==
  IF run.status \in Terminal THEN "done"
  ELSE IF Parallel THEN "batch" ELSE "loop"

SaveRun ==
  /\ pc = "save"
  /\ disk' = run
  /\ pc' = AfterSave
  /\ UNCHANGED <<run, wanted, todo, poolVars, cancelVars, late>>

\* The exception leaves execute; its finally clause shuts the executor down,
\* which drops the queued work only when a transition was under way.
SaveFails ==
  /\ "save" \in Faults
  /\ pc = "save"
  /\ pc' = "raised"
  /\ fut' = [p \in Paragraphs |->
               IF transition /\ fut[p] = "queued" THEN "cancelled" ELSE fut[p]]
  /\ UNCHANGED <<run, disk, wanted, todo, pending, settled, batch, inflight,
                 cancelVars, late>>

Crash ==
  /\ "crash" \in Faults
  /\ pc \notin {"idle", "dead"}
  /\ pc' = "dead"
  /\ UNCHANGED <<run, disk, wanted, todo, poolVars, cancelVars, late>>

-----------------------------------------------------------------------------
(* A paragraph is handed to the processor.                                 *)

HandOver(p) ==
  /\ IsNext(p)
  /\ todo' = todo \ {p}
  /\ pending' = pending \cup {p}
  /\ fut' = [fut EXCEPT ![p] = "queued"]
  /\ late' = IF cancelRequested THEN late \cup {p} ELSE late

-----------------------------------------------------------------------------
(* The sequential branch.                                                  *)

SequentialNext ==
  /\ pc = "loop"
  /\ todo # {} /\ ~cancelRequested
  /\ pc' = "call"
  /\ \E p \in todo : HandOver(p)
  /\ UNCHANGED <<run, disk, wanted, settled, batch, inflight, cancelVars>>

BugSequentialCancel ==
  /\ pc = "loop"
  /\ todo # {} /\ cancelRequested
  /\ FinalizeRun
  /\ UNCHANGED <<disk, wanted, todo, poolVars, cancelVars, late>>

SequentialCancel ==
  /\ pc = "loop"
  /\ todo # {} /\ cancelRequested
  /\ CancelRun
  /\ UNCHANGED <<disk, wanted, todo, poolVars, cancelVars, late>>

SequentialEnd ==
  /\ pc = "loop"
  /\ todo = {}
  /\ FinalizeRun
  /\ UNCHANGED <<disk, wanted, todo, poolVars, cancelVars, late>>

\* The processor returned or raised to the loop.
SequentialCollect(p) ==
  /\ pc = "call"
  /\ p \in pending
  /\ pending' = pending \ {p}
  /\ \/ fut[p] = "ok" /\ RecordSuccess(p)
     \/ fut[p] = "failed" /\ RecordFailure(p)
     \/ fut[p] = "interrupted" /\ CancelRun
  /\ UNCHANGED <<disk, wanted, todo, fut, settled, batch, inflight, cancelVars,
                 late>>

-----------------------------------------------------------------------------
(* The parallel branch: while len(pending) < window and submit_next().     *)

BugSubmitChecked ==
  /\ pc = "fill"
  /\ Cardinality(pending) < Window
  /\ todo # {}
  /\ pc' = "submit"
  /\ UNCHANGED <<run, disk, wanted, todo, poolVars, cancelVars, late>>

\* submit_next got past its two early returns.
SubmitChecked ==
  /\ pc = "fill"
  /\ Cardinality(pending) < Window
  /\ ~transition /\ ~cancelRequested
  /\ todo # {}
  /\ pc' = "submit"
  /\ UNCHANGED <<run, disk, wanted, todo, poolVars, cancelVars, late>>

\* executor.submit blocks until _acquire_slot finds a free slot.
Submit ==
  /\ pc = "submit"
  /\ inflight < QueueSize
  /\ inflight' = inflight + 1
  /\ pc' = "fill"
  /\ \E p \in todo : HandOver(p)
  /\ UNCHANGED <<run, disk, wanted, settled, batch, cancelVars>>

Collected == (wanted \ todo) \ pending

\* The loop is over: the window is full, nothing is left, or cancel was seen.
FillEnds ==
  /\ pc = "fill"
  /\ \/ Cardinality(pending) >= Window
     \/ transition \/ cancelRequested
     \/ todo = {}
  /\ pc' = IF Collected = {} THEN "filled" ELSE "wait"
  /\ UNCHANGED <<run, disk, wanted, todo, poolVars, cancelVars, late>>

\* Only after the first fill: a cancel before anything was submitted.
FirstFillCancel ==
  /\ pc = "filled"
  /\ cancelRequested /\ pending = {}
  /\ transition' = TRUE
  /\ CancelRun
  /\ UNCHANGED <<disk, wanted, todo, poolVars, cancelRequested, sawInterrupt,
                 report, late>>

FirstFillDone ==
  /\ pc = "filled"
  /\ ~(cancelRequested /\ pending = {})
  /\ pc' = "wait"
  /\ UNCHANGED <<run, disk, wanted, todo, poolVars, cancelVars, late>>

\* wait(..., FIRST_COMPLETED) returns every future that is done by then.
WaitReturns ==
  /\ pc = "wait"
  /\ pending \cap settled # {}
  /\ batch' = pending \cap settled
  /\ sawInterrupt' = FALSE
  /\ pc' = "batch"
  /\ UNCHANGED <<run, disk, wanted, todo, pending, fut, settled, inflight,
                 cancelRequested, transition, report, late>>

\* while pending: is over without a transition.
AllCollected ==
  /\ pc = "wait"
  /\ pending = {}
  /\ IF transition THEN CancelRun ELSE FinalizeRun
  /\ UNCHANGED <<disk, wanted, todo, poolVars, cancelVars, late>>

Collect(p) ==
  /\ pc = "batch"
  /\ p \in batch
  /\ batch' = batch \ {p}
  /\ pending' = pending \ {p}
  /\ \/ /\ fut[p] = "ok"
        /\ RecordSuccess(p)
        /\ UNCHANGED sawInterrupt
     \/ /\ fut[p] = "failed"
        /\ RecordFailure(p)
        /\ UNCHANGED sawInterrupt
     \/ /\ fut[p] = "interrupted"
        /\ sawInterrupt' = TRUE
        /\ UNCHANGED <<pc, run>>
  /\ UNCHANGED <<disk, wanted, todo, fut, settled, inflight, cancelRequested,
                 transition, report, late>>

BugDecideRefill ==
  /\ pc = "batch" /\ batch = {}
  /\ ~cancelRequested /\ ~sawInterrupt
  /\ pc' = "wait"
  /\ UNCHANGED <<run, disk, wanted, todo, poolVars, cancelVars, late>>

\* The decision point after a whole batch: refill, or stop and sweep.
DecideRefill ==
  /\ pc = "batch" /\ batch = {}
  /\ ~cancelRequested /\ ~sawInterrupt
  /\ pc' = "fill"
  /\ UNCHANGED <<run, disk, wanted, todo, poolVars, cancelVars, late>>

DecideStop ==
  /\ pc = "batch" /\ batch = {}
  /\ cancelRequested \/ sawInterrupt
  /\ cancelRequested' = TRUE
  /\ transition' = TRUE
  /\ report' = 0
  /\ batch' = pending
  /\ pc' = "sweep"
  /\ UNCHANGED <<run, disk, wanted, todo, pending, fut, settled, inflight,
                 sawInterrupt, late>>

\* future.cancel() only succeeds on a future no worker has picked up; its
\* wrapped call then never runs, so its slot is never released.
Sweep(p) ==
  /\ pc = "sweep"
  /\ p \in batch
  /\ batch' = batch \ {p}
  /\ IF fut[p] = "queued"
     THEN /\ fut' = [fut EXCEPT ![p] = "cancelled"]
          /\ pending' = pending \ {p}
          /\ report' = report + 1
     ELSE UNCHANGED <<fut, pending, report>>
  /\ UNCHANGED <<pc, run, disk, wanted, todo, settled, inflight,
                 cancelRequested, sawInterrupt, transition, late>>

BugSweepDone ==
  /\ pc = "sweep" /\ batch = {}
  /\ report' = report + Cardinality(todo)
  /\ CancelRun
  /\ UNCHANGED <<disk, wanted, todo, poolVars, cancelRequested, sawInterrupt,
                 transition, late>>

\* The payload counts what this sweep cancelled and what was never submitted.
SweepDone ==
  /\ pc = "sweep" /\ batch = {}
  /\ report' = report + Cardinality(todo)
  /\ IF pending = {}
     THEN CancelRun
     ELSE pc' = "wait" /\ UNCHANGED run
  /\ UNCHANGED <<disk, wanted, todo, poolVars, cancelRequested, sawInterrupt,
                 transition, late>>

-----------------------------------------------------------------------------
(* Worker threads (sequential: the calling thread, inside the processor).  *)

Busy == {p \in Paragraphs : \/ fut[p] \in {"running", "refusing"}
                            \/ fut[p] \in Outcomes /\ p \notin settled /\ Parallel}

\* A free thread takes the oldest queued call; the processor reads the flag.
StartProcessor(p) ==
  /\ pc # "dead"
  /\ fut[p] = "queued"
  /\ \A q \in Paragraphs : fut[q] = "queued" => p <= q
  /\ Cardinality(Busy) < MaxWorkers
  /\ fut' = [fut EXCEPT ![p] = IF cancelRequested THEN "refusing" ELSE "running"]
  /\ UNCHANGED <<pc, run, disk, wanted, todo, pending, settled, batch, inflight,
                 cancelVars, late>>

BugEndProcessor(p) ==
  /\ pc # "dead"
  /\ \/ fut[p] = "running" /\ \E o \in {"ok", "failed"} : fut' = [fut EXCEPT ![p] = o]
     \/ fut[p] = "refusing" /\ fut' = [fut EXCEPT ![p] = "interrupted"]
  /\ inflight' = IF Parallel /\ inflight > 0 /\ fut'[p] = "ok"
                 THEN inflight - 1 ELSE inflight
  /\ UNCHANGED <<pc, run, disk, wanted, todo, pending, settled, batch,
                 cancelVars, late>>

\* The processor returns or raises; wrapped() then releases its slot.
EndProcessor(p) ==
  /\ pc # "dead"
  /\ \/ fut[p] = "running" /\ \E o \in {"ok", "failed"} : fut' = [fut EXCEPT ![p] = o]
     \/ fut[p] = "refusing" /\ fut' = [fut EXCEPT ![p] = "interrupted"]
  /\ inflight' = IF Parallel /\ inflight > 0 THEN inflight - 1 ELSE inflight
  /\ UNCHANGED <<pc, run, disk, wanted, todo, pending, settled, batch,
                 cancelVars, late>>

\* The future's result is set, and only now can wait() see it.
SetResult(p) ==
  /\ pc # "dead" /\ Parallel
  /\ fut[p] \in Outcomes
  /\ p \notin settled
  /\ settled' = settled \cup {p}
  /\ UNCHANGED <<pc, run, disk, wanted, todo, pending, fut, batch, inflight,
                 cancelVars, late>>

-----------------------------------------------------------------------------
(* The specification.                                                      *)

\* Nothing more can happen to the run except cancel calls and late workers.
Terminated ==
  /\ pc \in {"done", "raised", "dead"}
  /\ UNCHANGED vars

Execute ==
  \/ StartRun
  \/ SequentialNext \/ SequentialCancel \/ SequentialEnd
  \/ \E p \in Paragraphs : SequentialCollect(p)
  \/ SubmitChecked \/ Submit \/ FillEnds \/ FirstFillCancel \/ FirstFillDone
  \/ WaitReturns \/ AllCollected
  \/ \E p \in Paragraphs : Collect(p)
  \/ DecideRefill \/ DecideStop
  \/ \E p \in Paragraphs : Sweep(p)
  \/ SweepDone
  \/ SaveRun

Worker(p) == StartProcessor(p) \/ EndProcessor(p) \/ SetResult(p)

Next ==
  \/ \E selected \in SUBSET Requestable : CreateRun(selected)
  \/ RequestCancel
  \/ Execute
  \/ \E p \in Paragraphs : Worker(p)
  \/ SaveFails
  \/ Crash
  \/ Terminated

Spec == Init /\ [][Next]_vars

\* The executing thread and the workers are scheduled, and a processor ends:
\* every search and download it waits for has a timeout. Nobody has to cancel.
FairSpec ==
  /\ Spec
  /\ WF_vars(Execute)
  /\ \A p \in Paragraphs : WF_vars(Worker(p))

-----------------------------------------------------------------------------
(* Properties.                                                             *)

FutureStates == {"unsubmitted", "queued", "running", "refusing", "cancelled"}
                  \cup Outcomes

Runs == [status : {"absent", "running"} \cup Terminal,
         stage : {"idle", "provider_search", "persist", "complete"},
         completed : SUBSET Paragraphs, failed : SUBSET Paragraphs,
         error : BOOLEAN]

PCs == {"idle", "created", "loop", "call", "fill", "submit", "filled", "wait",
        "batch", "sweep", "save", "done", "raised", "dead"}

\* Types of the state of execute, the executor and the run record.
TypeOK ==
  /\ pc \in PCs
  /\ run \in Runs /\ disk \in Runs
  /\ wanted \subseteq Paragraphs /\ todo \subseteq wanted
  /\ pending \subseteq wanted /\ batch \subseteq pending
  /\ fut \in [Paragraphs -> FutureStates]
  /\ settled \subseteq Paragraphs
  /\ inflight \in Nat /\ report \in Nat
  /\ cancelRequested \in BOOLEAN /\ sawInterrupt \in BOOLEAN
  /\ transition \in BOOLEAN
  /\ late \subseteq Paragraphs

\* When the run gets its verdict no call is queued or running and no result is
\* on its way: execute drains what cancel found in flight before _cancel_run.
TerminalIsQuiet ==
  run.status \in Terminal =>
    /\ pending = {}
    /\ \A p \in Paragraphs : /\ fut[p] \notin {"queued", "running", "refusing"}
                             /\ Parallel /\ fut[p] \in Outcomes => p \in settled

\* A paragraph whose processor finished is in completed_paragraphs or
\* failed_paragraphs of the run that ends, also when cancel came in between,
\* and nothing else is.
NoOutcomeLost ==
  run.status \in Terminal =>
    /\ run.completed = {p \in Paragraphs : fut[p] = "ok"}
    /\ run.failed = {p \in Paragraphs : fut[p] = "failed"}

\* The verdict in run.json follows from the outcomes. Only in the parallel
\* branch may a run that was asked to stop be COMPLETED or FAILED with paragraphs left.
VerdictIsSound ==
  /\ disk.completed \cap disk.failed = {}
  /\ disk.status = "completed" => disk.failed = {} /\ ~disk.error
  /\ disk.status = "failed" => disk.failed # {} /\ disk.error
  /\ disk.status \in {"completed", "failed"} =>
       \/ disk.completed \cup disk.failed = wanted
       \/ Parallel /\ cancelRequested
  /\ disk.status = "cancelled" => cancelRequested

\* What a reader of run.json takes COMPLETED to mean: every paragraph of the run
\* was processed. Broken in the parallel branch, where a cancel between the
\* decision point and submit_next leaves the loop through _finalize_run.
CompletedMeansProcessed ==
  disk.status = "completed" => disk.completed = wanted

\* submit is only called with a free slot, so the executing thread, the only one
\* that collects results, never blocks in _acquire_slot.
SubmitNeverBlocks == pc = "submit" => inflight < QueueSize

\* After cancel at most one more paragraph is handed to a worker: the one whose
\* check of the flag was already behind it.
CancelStopsSubmission == Cardinality(late) <= 1

\* run.json lags behind the run in memory by at most one paragraph, whatever the
\* moment the process dies, and never claims a paragraph the run has not seen.
CrashLosesAtMostOne ==
  /\ disk.completed \subseteq run.completed
  /\ disk.failed \subseteq run.failed
  /\ Cardinality((run.completed \cup run.failed)
                    \ (disk.completed \cup disk.failed)) <= 1

\* The record of the run that other threads read implements RunLifecycle.
Lifecycle ==
  INSTANCE RunLifecycle WITH
    MayAbandon <- Parallel,
    status <- disk.status,
    completed <- disk.completed,
    failed <- disk.failed,
    cancelAsked <- cancelRequested

ImplementsLifecycle == Lifecycle!Spec

\* A run that was created ends with a verdict on disk, cancelled or not, unless
\* a save raised or the process died: execute never waits for ever.
RunFinishes ==
  pc = "created" ~> (disk.status \in Terminal \/ pc \in {"raised", "dead"})
=============================================================================
