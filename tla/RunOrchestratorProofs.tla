------------------------ MODULE RunOrchestratorProofs ------------------------
(***************************************************************************)
(* Proofs about RunOrchestrator, for every document, every number of       *)
(* workers and slots and every set of faults.                              *)
(*                                                                         *)
(* TypeOK, TerminalIsQuiet, NoOutcomeLost and VerdictIsSound are not       *)
(* inductive. IInv ties together what they leave open: which paragraphs    *)
(* were handed over (todo), which of them the executing thread has         *)
(* collected, what their futures may look like, and what the control point *)
(* of the executing thread implies.                                        *)
(***************************************************************************)
EXTENDS RunOrchestrator, FiniteSetTheorems, WellFoundedInduction, TLAPS

\* Futures: exactly the handed-over paragraphs have one, only futures with an
\* outcome are settled, and a collected paragraph's future never changes again.
FutureInv ==
  /\ \A p \in Paragraphs : fut[p] = "unsubmitted" <=> p \notin wanted \ todo
  /\ \A p \in settled : fut[p] \in Outcomes
  /\ pending \subseteq wanted \ todo
  /\ \A p \in Collected : /\ fut[p] \in Outcomes \cup {"cancelled"}
                          /\ Parallel /\ fut[p] \in Outcomes => p \in settled
  /\ pc \notin {"sweep", "dead"} => batch \subseteq settled
  /\ ~Parallel => batch = {}

\* The record holds the outcomes of the collected paragraphs, no more, no less.
RecordInv ==
  /\ run.completed = {p \in Collected : fut[p] = "ok"}
  /\ run.failed = {p \in Collected : fut[p] = "failed"}
  /\ run.error = (run.failed # {})

\* Nothing is refused, cancelled or swept unless cancel was requested.
CancelInv ==
  /\ \A p \in Paragraphs :
       fut[p] \in {"refusing", "interrupted", "cancelled"} => cancelRequested
  /\ transition \/ sawInterrupt => cancelRequested
  /\ pc = "sweep" => transition
  /\ transition => Parallel

SequentialPCs == {"loop", "call"}
ParallelPCs == {"fill", "submit", "filled", "wait", "batch", "sweep"}

ControlInv ==
  /\ pc = "idle" => run = NoRun /\ disk = NoRun
  /\ pc \in {"idle", "created"} => todo = wanted
  /\ pc # "idle" => run.status # "absent"
  /\ pc \in SequentialPCs => ~Parallel
  /\ pc \in ParallelPCs => Parallel
  /\ run.status \in Terminal =>
       pc \in {"save", "done", "raised", "dead"} /\ pending = {}
  /\ pc \in {"loop", "save"} /\ ~Parallel => pending = {}
  /\ pc = "call" => \A p, q \in pending : p = q
  /\ ~Parallel /\ run.status = "running" =>
       \A p \in Collected : fut[p] \in {"ok", "failed"}
  /\ pc \in {"filled", "wait"} /\ pending = {} => todo = {} \/ cancelRequested

\* What VerdictIsSound says of run.json, for a record r.
Sound(r) ==
  /\ r.completed \cap r.failed = {}
  /\ r.status = "completed" => r.failed = {} /\ ~r.error
  /\ r.status = "failed" => r.failed # {} /\ r.error
  /\ r.status \in {"completed", "failed"} =>
       \/ r.completed \cup r.failed = wanted
       \/ Parallel /\ cancelRequested
  /\ r.status = "cancelled" => cancelRequested

IInv ==
  /\ TypeOK
  /\ FutureInv
  /\ RecordInv
  /\ CancelInv
  /\ ControlInv
  /\ Sound(run) /\ Sound(disk)

-----------------------------------------------------------------------------
(* What the helpers do to the run record.                                  *)

LEMMA CancelRunEffect ==
  ASSUME run \in Runs, CancelRun
  PROVE  /\ run' \in Runs /\ pc' = "save"
         /\ run'.status = "cancelled"
         /\ run'.completed = run.completed /\ run'.failed = run.failed
         /\ run'.error = run.error
BY DEF CancelRun, Runs, Terminal

LEMMA FinalizeRunEffect ==
  ASSUME run \in Runs, FinalizeRun, run.error = (run.failed # {})
  PROVE  /\ run' \in Runs /\ pc' = "save"
         /\ run'.status = IF run.failed # {} THEN "failed" ELSE "completed"
         /\ run'.completed = run.completed /\ run'.failed = run.failed
         /\ run'.error = run.error
<1>1. CASE run.failed # {}
  BY <1>1 DEF FinalizeRun, Runs, Terminal
<1>2. CASE run.failed = {}
  BY <1>2 DEF FinalizeRun, Runs, Terminal
<1>. QED BY <1>1, <1>2

LEMMA RecordFailureEffect ==
  ASSUME run \in Runs, NEW p \in Paragraphs, RecordFailure(p)
  PROVE  /\ run' \in Runs /\ pc' = "save"
         /\ run'.status = run.status
         /\ run'.completed = run.completed
         /\ run'.failed = run.failed \cup {p}
         /\ run'.error = TRUE
BY DEF RecordFailure, Runs

LEMMA RecordSuccessEffect ==
  ASSUME run \in Runs, NEW p \in Paragraphs, p \notin run.failed,
         run.error = (run.failed # {}), RecordSuccess(p)
  PROVE  /\ run' \in Runs /\ pc' = "save"
         /\ run'.status = run.status
         /\ run'.completed = run.completed \cup {p}
         /\ run'.failed = run.failed
         /\ run'.error = run.error
<1>1. run.failed \ {p} = run.failed
  OBVIOUS
<1>. QED BY <1>1 DEF RecordSuccess, Runs

LEMMA StartRunEffect ==
  ASSUME run \in Runs, StartRun, run.failed = {}, run.error = FALSE
  PROVE  /\ run' \in Runs
         /\ run'.status = "running"
         /\ run'.completed = run.completed /\ run'.failed = run.failed
         /\ run'.error = run.error
BY DEF StartRun, Runs

LEMMA FiniteSets ==
  ASSUME TypeOK
  PROVE  /\ Cardinality(todo) \in Nat
         /\ Cardinality({}) = 0
BY ParagraphsAssumption, FS_Subset, FS_CardinalityType, FS_EmptySet DEF TypeOK

-----------------------------------------------------------------------------
(* Every step preserves IInv.                                              *)

THEOREM Inductive == IInv /\ [Next]_vars => IInv'
<1>. SUFFICES ASSUME IInv, [Next]_vars PROVE IInv'
  OBVIOUS
<1>. USE DEF IInv, TypeOK, FutureInv, RecordInv, CancelInv, ControlInv, Sound,
             Collected, PCs, Outcomes, Terminal, FutureStates, SequentialPCs,
             ParallelPCs, poolVars, cancelVars
<1>1. ASSUME NEW selected \in SUBSET Requestable, CreateRun(selected) PROVE IInv'
  BY <1>1 DEF CreateRun, Remaining, Runs, NoRun
<1>2. CASE RequestCancel
  BY <1>2 DEF RequestCancel, vars
<1>3. CASE StartRun
  <2>1. /\ run' \in Runs /\ run'.status = "running"
        /\ run'.completed = run.completed /\ run'.failed = run.failed
        /\ run'.error = run.error
    BY <1>3, StartRunEffect DEF StartRun
  <2>. QED BY <1>3, <2>1 DEF StartRun
<1>4. CASE SequentialNext
  BY <1>4 DEF SequentialNext, HandOver, IsNext
<1>5. CASE SequentialCancel
  <2>1. /\ run' \in Runs /\ run'.status = "cancelled" /\ pc' = "save"
        /\ run'.completed = run.completed /\ run'.failed = run.failed
        /\ run'.error = run.error
    BY <1>5, CancelRunEffect DEF SequentialCancel
  <2>. QED BY <1>5, <2>1 DEF SequentialCancel
<1>6. CASE SequentialEnd
  <2>1. /\ run' \in Runs /\ run'.status = (IF run.failed # {} THEN "failed" ELSE "completed")
        /\ pc' = "save"
        /\ run'.completed = run.completed /\ run'.failed = run.failed
        /\ run'.error = run.error
    BY <1>6, FinalizeRunEffect DEF SequentialEnd
  <2>2. run.completed \cup run.failed = wanted
    <3>1. run.status = "running" /\ ~Parallel /\ Collected = wanted
      BY <1>6 DEF SequentialEnd, Runs
    <3>2. \A p \in Collected : fut[p] \in {"ok", "failed"}
      BY <3>1
    <3>. QED BY <3>1, <3>2
  <2>3. run'.failed # {} => run'.error = TRUE
    BY <2>1
  <2>. QED BY <1>6, <2>1, <2>2, <2>3 DEF SequentialEnd
<1>7. ASSUME NEW p \in Paragraphs, SequentialCollect(p) PROVE IInv'
  <2>1. p \in pending /\ Collected' = Collected \cup {p} /\ p \notin Collected
    BY <1>7 DEF SequentialCollect
  <2>2. CASE fut[p] = "ok" /\ RecordSuccess(p)
    <3>1. /\ run' \in Runs /\ pc' = "save" /\ run'.status = run.status
          /\ run'.completed = run.completed \cup {p}
          /\ run'.failed = run.failed /\ run'.error = run.error
      BY <2>1, <2>2, RecordSuccessEffect
    <3>. QED BY <1>7, <2>1, <2>2, <3>1 DEF SequentialCollect
  <2>3. CASE fut[p] = "failed" /\ RecordFailure(p)
    <3>1. /\ run' \in Runs /\ pc' = "save" /\ run'.status = run.status
          /\ run'.completed = run.completed
          /\ run'.failed = run.failed \cup {p} /\ run'.error = TRUE
      BY <2>3, RecordFailureEffect
    <3>2. run'.failed # {} /\ run'.error = (run'.failed # {})
      BY <3>1
    <3>3. run'.completed = {q \in Collected' : fut'[q] = "ok"}
      BY <1>7, <2>1, <2>3, <3>1 DEF SequentialCollect
    <3>4. run'.failed = {q \in Collected' : fut'[q] = "failed"}
      BY <1>7, <2>1, <2>3, <3>1 DEF SequentialCollect
    <3>5. run'.completed \cap run'.failed = {}
      BY <3>3, <3>4
    <3>6. RecordInv'
      BY <3>2, <3>3, <3>4
    <3>7. TypeOK' /\ FutureInv' /\ CancelInv' /\ ControlInv'
      BY <1>7, <2>1, <2>3, <3>1 DEF SequentialCollect
    <3>8. Sound(run)' /\ Sound(disk)'
      BY <1>7, <2>3, <3>1, <3>2, <3>5 DEF SequentialCollect
    <3>. QED BY <3>6, <3>7, <3>8
  <2>4. CASE fut[p] = "interrupted" /\ CancelRun
    <3>1. /\ run' \in Runs /\ run'.status = "cancelled" /\ pc' = "save"
          /\ run'.completed = run.completed /\ run'.failed = run.failed
          /\ run'.error = run.error
      BY <2>4, CancelRunEffect
    <3>. QED BY <1>7, <2>1, <2>4, <3>1 DEF SequentialCollect
  <2>. QED BY <1>7, <2>2, <2>3, <2>4 DEF SequentialCollect
<1>8. CASE SubmitChecked
  BY <1>8 DEF SubmitChecked
<1>9. CASE Submit
  BY <1>9 DEF Submit, HandOver, IsNext
<1>10. CASE FillEnds
  <2>1. pending = {} => ~(Cardinality(pending) >= Window)
    BY WorkersAssumption, FS_EmptySet DEF Window
  <2>2. pending = {} => todo = {} \/ cancelRequested
    BY <1>10, <2>1 DEF FillEnds
  <2>. QED BY <1>10, <2>2 DEF FillEnds
<1>11. CASE FirstFillCancel
  <2>1. /\ run' \in Runs /\ run'.status = "cancelled" /\ pc' = "save"
        /\ run'.completed = run.completed /\ run'.failed = run.failed
        /\ run'.error = run.error
    BY <1>11, CancelRunEffect DEF FirstFillCancel
  <2>. QED BY <1>11, <2>1 DEF FirstFillCancel
<1>12. CASE FirstFillDone
  BY <1>12 DEF FirstFillDone
<1>13. CASE WaitReturns
  BY <1>13 DEF WaitReturns
<1>14. CASE AllCollected
  <2>1. CASE transition
    <3>1. /\ run' \in Runs /\ run'.status = "cancelled" /\ pc' = "save"
          /\ run'.completed = run.completed /\ run'.failed = run.failed
          /\ run'.error = run.error
      BY <1>14, <2>1, CancelRunEffect DEF AllCollected
    <3>. QED BY <1>14, <2>1, <3>1 DEF AllCollected
  <2>2. CASE ~transition
    <3>1. /\ run' \in Runs /\ run'.status = (IF run.failed # {} THEN "failed" ELSE "completed")
          /\ pc' = "save"
          /\ run'.completed = run.completed /\ run'.failed = run.failed
          /\ run'.error = run.error
      BY <1>14, <2>2, FinalizeRunEffect DEF AllCollected
    <3>2. run.completed \cup run.failed = wanted \/ (Parallel /\ cancelRequested)
      <4>1. Parallel /\ (todo = {} \/ cancelRequested)
        BY <1>14 DEF AllCollected
      <4>2. CASE todo = {} /\ ~cancelRequested
        <5>1. Collected = wanted /\ \A p \in Collected : fut[p] \in {"ok", "failed"}
          BY <1>14, <4>2 DEF AllCollected
        <5>. QED BY <5>1
      <4>. QED BY <4>1, <4>2
    <3>3. TypeOK' /\ FutureInv' /\ CancelInv' /\ ControlInv'
      BY <1>14, <2>2, <3>1 DEF AllCollected
    <3>4. RecordInv'
      BY <1>14, <3>1 DEF AllCollected
    <3>5. Sound(run)' /\ Sound(disk)'
      BY <1>14, <3>1, <3>2 DEF AllCollected
    <3>. QED BY <3>3, <3>4, <3>5
  <2>. QED BY <2>1, <2>2
<1>15. ASSUME NEW p \in Paragraphs, Collect(p) PROVE IInv'
  <2>1. p \in pending /\ Collected' = Collected \cup {p} /\ p \notin Collected
    BY <1>15 DEF Collect
  <2>2. CASE fut[p] = "ok" /\ RecordSuccess(p)
    <3>1. /\ run' \in Runs /\ pc' = "save" /\ run'.status = run.status
          /\ run'.completed = run.completed \cup {p}
          /\ run'.failed = run.failed /\ run'.error = run.error
      BY <2>1, <2>2, RecordSuccessEffect
    <3>. QED BY <1>15, <2>1, <2>2, <3>1 DEF Collect
  <2>3. CASE fut[p] = "failed" /\ RecordFailure(p)
    <3>1. /\ run' \in Runs /\ pc' = "save" /\ run'.status = run.status
          /\ run'.completed = run.completed
          /\ run'.failed = run.failed \cup {p} /\ run'.error = TRUE
      BY <2>3, RecordFailureEffect
    <3>2. run'.failed # {} /\ run'.error = (run'.failed # {})
      BY <3>1
    <3>3. run'.completed = {q \in Collected' : fut'[q] = "ok"}
      BY <1>15, <2>1, <2>3, <3>1 DEF Collect
    <3>4. run'.failed = {q \in Collected' : fut'[q] = "failed"}
      BY <1>15, <2>1, <2>3, <3>1 DEF Collect
    <3>5. run'.completed \cap run'.failed = {}
      BY <3>3, <3>4
    <3>6. RecordInv'
      BY <3>2, <3>3, <3>4
    <3>7. TypeOK' /\ FutureInv' /\ CancelInv' /\ ControlInv'
      BY <1>15, <2>1, <2>3, <3>1 DEF Collect
    <3>8. Sound(run)' /\ Sound(disk)'
      BY <1>15, <2>3, <3>1, <3>2, <3>5 DEF Collect
    <3>. QED BY <3>6, <3>7, <3>8
  <2>4. CASE fut[p] = "interrupted"
    BY <1>15, <2>1, <2>4 DEF Collect
  <2>. QED BY <1>15, <2>2, <2>3, <2>4 DEF Collect
<1>16. CASE DecideRefill
  BY <1>16 DEF DecideRefill
<1>17. CASE DecideStop
  BY <1>17 DEF DecideStop
<1>18. ASSUME NEW p \in Paragraphs, Sweep(p) PROVE IInv'
  <2>1. CASE fut[p] = "queued"
    <3>1. /\ Collected' = Collected \cup {p} /\ p \notin Collected
          /\ fut' = [fut EXCEPT ![p] = "cancelled"] /\ cancelRequested
          /\ fut'[p] = "cancelled"
      BY <1>18, <2>1 DEF Sweep
    <3>2. TypeOK'
      BY <1>18, <2>1, <3>1 DEF Sweep
    <3>3. FutureInv'
      BY <1>18, <2>1, <3>1 DEF Sweep
    <3>4. RecordInv'
      BY <1>18, <2>1, <3>1 DEF Sweep
    <3>5. CancelInv' /\ ControlInv' /\ Sound(run)' /\ Sound(disk)'
      BY <1>18, <2>1, <3>1 DEF Sweep
    <3>. QED BY <3>2, <3>3, <3>4, <3>5
  <2>2. CASE fut[p] # "queued"
    BY <1>18, <2>2 DEF Sweep
  <2>. QED BY <2>1, <2>2
<1>19. CASE SweepDone
  <2>1. report' \in Nat
    BY <1>19, FiniteSets DEF SweepDone
  <2>2. CASE pending = {}
    <3>1. /\ run' \in Runs /\ run'.status = "cancelled" /\ pc' = "save"
          /\ run'.completed = run.completed /\ run'.failed = run.failed
          /\ run'.error = run.error
      BY <1>19, <2>2, CancelRunEffect DEF SweepDone
    <3>2. TypeOK' /\ FutureInv' /\ CancelInv' /\ ControlInv'
      BY <1>19, <2>1, <2>2, <3>1 DEF SweepDone
    <3>3. RecordInv'
      BY <1>19, <2>2, <3>1 DEF SweepDone
    <3>4. Sound(run)' /\ Sound(disk)'
      BY <1>19, <2>2, <3>1 DEF SweepDone
    <3>. QED BY <3>2, <3>3, <3>4
  <2>3. CASE pending # {}
    BY <1>19, <2>1, <2>3 DEF SweepDone
  <2>. QED BY <2>2, <2>3
<1>20. CASE SaveRun
  <2>1. pc' \in {"done", "batch", "loop"}
    BY <1>20 DEF SaveRun, AfterSave
  <2>2. TypeOK' /\ RecordInv' /\ CancelInv' /\ Sound(run)' /\ Sound(disk)'
    BY <1>20, <2>1 DEF SaveRun
  <2>3. FutureInv'
    BY <1>20 DEF SaveRun, AfterSave
  <2>4. ControlInv'
    BY <1>20 DEF SaveRun, AfterSave
  <2>. QED BY <2>2, <2>3, <2>4
<1>21. ASSUME NEW p \in Paragraphs, StartProcessor(p) PROVE IInv'
  BY <1>21 DEF StartProcessor
<1>22. ASSUME NEW p \in Paragraphs, EndProcessor(p) PROVE IInv'
  BY <1>22 DEF EndProcessor
<1>23. ASSUME NEW p \in Paragraphs, SetResult(p) PROVE IInv'
  BY <1>23 DEF SetResult
<1>24. CASE SaveFails
  BY <1>24 DEF SaveFails
<1>25. CASE Crash
  BY <1>25 DEF Crash
<1>26. CASE UNCHANGED vars
  BY <1>26 DEF vars
<1>. QED
  BY <1>1, <1>2, <1>3, <1>4, <1>5, <1>6, <1>7, <1>8, <1>9, <1>10, <1>11, <1>12, <1>13, <1>14, <1>15, <1>16, <1>17, <1>18, <1>19, <1>20, <1>21, <1>22, <1>23, <1>24, <1>25, <1>26
     DEF Next, Execute, Worker, Terminated

-----------------------------------------------------------------------------
(* Theorems of the specification.                                          *)

THEOREM InvariantHolds == Spec => []IInv
<1>1. Init => IInv
  <2>. SUFFICES ASSUME Init PROVE IInv
    OBVIOUS
  <2>1. NoRun \in Runs
    BY DEF NoRun, Runs
  <2>2. TypeOK
    BY <2>1 DEF Init, TypeOK, PCs, FutureStates
  <2>3. FutureInv
    BY DEF Init, FutureInv, Collected
  <2>4. RecordInv /\ Sound(run) /\ Sound(disk)
    BY DEF Init, RecordInv, Sound, Collected, NoRun
  <2>5. CancelInv /\ ControlInv
    BY DEF Init, CancelInv, ControlInv, Collected, NoRun, Terminal,
           SequentialPCs, ParallelPCs
  <2>. QED BY <2>2, <2>3, <2>4, <2>5 DEF IInv
<1>. QED BY <1>1, Inductive, PTL DEF Spec

\* The state of execute, of the executor and of the record stays well-formed.
THEOREM TypeCorrect == Spec => []TypeOK
<1>1. IInv => TypeOK
  BY DEF IInv
<1>. QED BY <1>1, InvariantHolds, PTL

\* No verdict is given while a call is queued, running or about to report.
THEOREM TerminalRunsAreQuiet == Spec => []TerminalIsQuiet
<1>1. IInv => TerminalIsQuiet
  <2>. SUFFICES ASSUME IInv, run.status \in Terminal
                PROVE  /\ pending = {}
                       /\ \A p \in Paragraphs :
                            /\ fut[p] \notin {"queued", "running", "refusing"}
                            /\ Parallel /\ fut[p] \in Outcomes => p \in settled
    BY DEF TerminalIsQuiet
  <2>1. pending = {}
    BY DEF IInv, ControlInv
  <2>2. \A p \in Paragraphs : p \in Collected \/ fut[p] = "unsubmitted"
    BY <2>1 DEF IInv, FutureInv, Collected
  <2>. QED BY <2>1, <2>2 DEF IInv, FutureInv, Outcomes
<1>. QED BY <1>1, InvariantHolds, PTL

\* Every finished paragraph is in the record of a run that ends.
THEOREM NoOutcomeIsLost == Spec => []NoOutcomeLost
<1>1. IInv => NoOutcomeLost
  <2>. SUFFICES ASSUME IInv, run.status \in Terminal
                PROVE  /\ run.completed = {p \in Paragraphs : fut[p] = "ok"}
                       /\ run.failed = {p \in Paragraphs : fut[p] = "failed"}
    BY DEF NoOutcomeLost
  <2>1. pending = {} /\ Collected \subseteq Paragraphs
    BY DEF IInv, ControlInv, TypeOK, Collected
  <2>2. \A p \in Paragraphs : p \in Collected \/ fut[p] = "unsubmitted"
    BY <2>1 DEF IInv, FutureInv, Collected
  <2>. QED BY <2>1, <2>2 DEF IInv, RecordInv
<1>. QED BY <1>1, InvariantHolds, PTL

\* The verdict on disk follows from the outcomes.
THEOREM VerdictsAreSound == Spec => []VerdictIsSound
<1>1. IInv => VerdictIsSound
  BY DEF IInv, Sound, VerdictIsSound
<1>. QED BY <1>1, InvariantHolds, PTL

\* With one worker COMPLETED always means that every paragraph was processed.
THEOREM SequentialCompletedMeansProcessed ==
  ASSUME ~Parallel PROVE Spec => []CompletedMeansProcessed
<1>1. IInv => CompletedMeansProcessed
  BY DEF IInv, Sound, CompletedMeansProcessed
<1>. QED BY <1>1, InvariantHolds, PTL

-----------------------------------------------------------------------------
(* Cancel and submission. A paragraph is handed over after cancel only by   *)
(* Submit, once the check of the flag is behind the executing thread, and   *)
(* the next check of the flag sees it.                                      *)

LateInv ==
  /\ late # {} => cancelRequested
  /\ pc = "submit" => late = {}
  /\ \A p, q \in late : p = q

LEMMA LateInductive == LateInv /\ IInv /\ [Next]_vars => LateInv'
<1>. SUFFICES ASSUME LateInv, IInv, [Next]_vars PROVE LateInv'
  OBVIOUS
<1>. USE DEF LateInv, poolVars, cancelVars
<1>1. CASE Submit
  BY <1>1 DEF Submit, HandOver
<1>2. CASE SequentialNext
  BY <1>2 DEF SequentialNext, HandOver
<1>3. CASE SubmitChecked
  BY <1>3 DEF SubmitChecked
<1>4. CASE RequestCancel \/ DecideStop
  BY <1>4 DEF RequestCancel, DecideStop
<1>5. CASE SaveRun
  BY <1>5 DEF SaveRun, AfterSave
<1>6. ASSUME NEW selected \in SUBSET Requestable, CreateRun(selected) PROVE LateInv'
  BY <1>6 DEF CreateRun
<1>7. CASE StartRun \/ SequentialCancel \/ SequentialEnd
  BY <1>7 DEF StartRun, SequentialCancel, SequentialEnd, CancelRun, FinalizeRun
<1>8. ASSUME NEW p \in Paragraphs,
             SequentialCollect(p) \/ Collect(p) \/ Sweep(p) \/ Worker(p)
      PROVE LateInv'
  BY <1>8 DEF SequentialCollect, Collect, Sweep, Worker, StartProcessor,
              EndProcessor, SetResult, RecordSuccess, RecordFailure, CancelRun
<1>9. CASE FillEnds \/ FirstFillCancel \/ FirstFillDone \/ WaitReturns
  BY <1>9 DEF FillEnds, FirstFillCancel, FirstFillDone, WaitReturns, CancelRun
<1>10. CASE AllCollected \/ DecideRefill \/ SweepDone
  BY <1>10 DEF AllCollected, DecideRefill, SweepDone, CancelRun, FinalizeRun
<1>11. CASE SaveFails \/ Crash \/ UNCHANGED vars
  BY <1>11 DEF SaveFails, Crash, vars
<1>. QED
  BY <1>1, <1>2, <1>3, <1>4, <1>5, <1>6, <1>7, <1>8, <1>9, <1>10, <1>11
     DEF Next, Execute, Terminated

\* After cancel at most one more paragraph is handed to a worker.
THEOREM CancelStopsSubmissions == Spec => []CancelStopsSubmission
<1>1. Init => LateInv
  BY DEF Init, LateInv
<1>2. LateInv => CancelStopsSubmission
  <2>. SUFFICES ASSUME LateInv PROVE Cardinality(late) <= 1
    BY DEF CancelStopsSubmission
  <2>1. CASE late = {}
    BY <2>1, FS_EmptySet
  <2>2. CASE late # {}
    <3>1. PICK p \in late : late = {p}
      BY <2>2 DEF LateInv
    <3>2. Cardinality({p}) = 1
      BY FS_Singleton
    <3>. QED BY <3>1, <3>2
  <2>. QED BY <2>1, <2>2
<1>. QED BY <1>1, <1>2, LateInductive, InvariantHolds, PTL DEF Spec

-----------------------------------------------------------------------------
(* The slots of the executor. _inflight counts calls that have not          *)
(* returned; until a transition cancels some of them every one is a future  *)
(* of the window, which is no larger than the number of slots.              *)

Unreturned == {p \in Paragraphs : fut[p] \in {"queued", "running", "refusing"}}

SlotInv ==
  /\ pc \in {"idle", "created", "fill", "submit"} => ~transition
  /\ ~Parallel => inflight = 0
  /\ ~transition => inflight <= Cardinality(Unreturned)
  /\ pc = "submit" => Cardinality(pending) < Window

LEMMA UnreturnedFinite ==
  IsFiniteSet(Unreturned) /\ Cardinality(Unreturned) \in Nat
BY ParagraphsAssumption, FS_Subset, FS_CardinalityType DEF Unreturned

LEMMA SlotInductive == SlotInv /\ IInv /\ [Next]_vars => SlotInv'
<1>. SUFFICES ASSUME SlotInv, IInv, [Next]_vars PROVE SlotInv'
  OBVIOUS
<1>. USE DEF SlotInv, poolVars, cancelVars
<1>1. CASE Submit
  <2>1. PICK p \in todo : HandOver(p)
    BY <1>1 DEF Submit
  <2>2. p \in Paragraphs /\ p \notin Unreturned
    BY <2>1 DEF IInv, FutureInv, TypeOK, Unreturned
  <2>3. Unreturned' = Unreturned \cup {p}
    BY <2>1, <2>2 DEF HandOver, Unreturned, IInv, TypeOK
  <2>4. Cardinality(Unreturned') = Cardinality(Unreturned) + 1
    BY <2>2, <2>3, UnreturnedFinite, FS_AddElement
  <2>5. inflight' = inflight + 1 /\ ~transition' /\ pc' = "fill" /\ ~transition
    BY <1>1 DEF Submit
  <2>6. inflight \in Nat /\ Parallel
    BY <1>1 DEF Submit, IInv, TypeOK, ControlInv, ParallelPCs
  <2>. QED BY <2>4, <2>5, <2>6, UnreturnedFinite
<1>2. ASSUME NEW p \in Paragraphs, EndProcessor(p) PROVE SlotInv'
  <2>1. p \in Unreturned /\ Unreturned' = Unreturned \ {p}
    BY <1>2 DEF EndProcessor, Unreturned, IInv, TypeOK
  <2>2. Cardinality(Unreturned') = Cardinality(Unreturned) - 1
    BY <2>1, UnreturnedFinite, FS_RemoveElement
  <2>3. Cardinality(Unreturned') \in Nat
    BY <2>1, UnreturnedFinite, FS_Subset, FS_CardinalityType
  <2>4. CASE Parallel
    BY <1>2, <2>2, <2>3, <2>4, UnreturnedFinite DEF EndProcessor, IInv, TypeOK
  <2>5. CASE ~Parallel
    BY <1>2, <2>3, <2>5 DEF EndProcessor
  <2>. QED BY <2>4, <2>5
<1>3. ASSUME NEW p \in Paragraphs, StartProcessor(p) PROVE SlotInv'
  <2>1. Unreturned' = Unreturned
    BY <1>3 DEF StartProcessor, Unreturned, IInv, TypeOK
  <2>. QED BY <1>3, <2>1 DEF StartProcessor
<1>4. CASE SaveFails
  <2>1. ~transition => fut' = fut
    BY <1>4 DEF SaveFails, IInv, TypeOK
  <2>2. ~transition => Unreturned' = Unreturned
    BY <2>1 DEF Unreturned
  <2>. QED BY <1>4, <2>2 DEF SaveFails
<1>5. ASSUME NEW p \in Paragraphs, Sweep(p) PROVE SlotInv'
  <2>1. transition
    BY <1>5 DEF Sweep, IInv, CancelInv
  <2>. QED BY <1>5, <2>1 DEF Sweep
<1>6. CASE DecideStop
  BY <1>6 DEF DecideStop
<1>7. ASSUME fut' = fut, inflight' = inflight, pending' = pending,
             transition' = transition,
             pc' \in {"idle", "created", "fill"} => pc \in {"idle", "created"} \/ ~transition,
             pc' = "submit" => pc = "submit" \/ (~transition /\ Cardinality(pending) < Window)
      PROVE SlotInv'
  <2>1. Unreturned' = Unreturned
    BY <1>7 DEF Unreturned
  <2>. QED BY <1>7, <2>1
<1>8. ASSUME NEW selected \in SUBSET Requestable, CreateRun(selected) PROVE SlotInv'
  BY <1>7, <1>8 DEF CreateRun
<1>9. CASE RequestCancel \/ StartRun
  BY <1>7, <1>9 DEF RequestCancel, StartRun
<1>10. CASE SequentialNext
  <2>1. ~Parallel /\ fut' \in [Paragraphs -> FutureStates] /\ pc' = "call"
    BY <1>10 DEF SequentialNext, HandOver, IInv, TypeOK, ControlInv, SequentialPCs, FutureStates
  <2>2. Cardinality(Unreturned') \in Nat
    BY ParagraphsAssumption, FS_Subset, FS_CardinalityType DEF Unreturned
  <2>. QED BY <1>10, <2>1, <2>2 DEF SequentialNext
<1>11. CASE SubmitChecked
  BY <1>7, <1>11 DEF SubmitChecked
<1>12. CASE FillEnds \/ FirstFillDone \/ WaitReturns
  BY <1>7, <1>12 DEF FillEnds, FirstFillDone, WaitReturns
<1>13. CASE FirstFillCancel
  BY <1>13 DEF FirstFillCancel, CancelRun
<1>14. CASE SequentialCancel \/ SequentialEnd \/ AllCollected \/ SweepDone
  BY <1>7, <1>14 DEF SequentialCancel, SequentialEnd, AllCollected, SweepDone,
                     CancelRun, FinalizeRun
<1>15. CASE DecideRefill
  BY <1>7, <1>15 DEF DecideRefill, IInv, CancelInv, TypeOK
<1>16. ASSUME NEW p \in Paragraphs, SequentialCollect(p) \/ Collect(p) PROVE SlotInv'
  <2>1. Unreturned' = Unreturned
    BY <1>16 DEF SequentialCollect, Collect, Unreturned
  <2>. QED BY <1>16, <2>1 DEF SequentialCollect, Collect, RecordSuccess,
                              RecordFailure, CancelRun
<1>17. ASSUME NEW p \in Paragraphs, SetResult(p) PROVE SlotInv'
  BY <1>7, <1>17 DEF SetResult
<1>18. CASE SaveRun
  BY <1>7, <1>18 DEF SaveRun, AfterSave
<1>19. CASE Crash \/ UNCHANGED vars
  BY <1>7, <1>19 DEF Crash, vars
<1>. QED
  BY <1>1, <1>2, <1>3, <1>4, <1>5, <1>6, <1>8, <1>9, <1>10, <1>11, <1>12,
     <1>13, <1>14, <1>15, <1>16, <1>17, <1>18, <1>19
     DEF Next, Execute, Worker, Terminated

\* The executing thread never waits for a slot of the executor: it is the only
\* thread that collects results, so a wait there could last for ever.
THEOREM SubmitDoesNotBlock == Spec => []SubmitNeverBlocks
<1>1. Init => SlotInv
  <2>. SUFFICES ASSUME Init PROVE SlotInv
    OBVIOUS
  <2>1. Cardinality(Unreturned) >= 0
    BY UnreturnedFinite
  <2>. QED BY <2>1 DEF Init, SlotInv
<1>2. IInv /\ SlotInv => SubmitNeverBlocks
  <2>. SUFFICES ASSUME IInv, SlotInv, pc = "submit" PROVE inflight < QueueSize
    BY DEF SubmitNeverBlocks
  <2>1. Unreturned \subseteq pending
    BY DEF Unreturned, IInv, FutureInv, Collected, Outcomes
  <2>2. IsFiniteSet(pending) /\ Cardinality(pending) \in Nat
    BY ParagraphsAssumption, FS_Subset, FS_CardinalityType DEF IInv, TypeOK
  <2>3. Cardinality(Unreturned) <= Cardinality(pending)
    BY <2>1, <2>2, FS_Subset
  <2>4. inflight <= Cardinality(Unreturned) /\ Cardinality(pending) < Window
    BY DEF SlotInv
  <2>5. Window \in Nat /\ Window <= QueueSize /\ inflight \in Nat
    BY WorkersAssumption DEF Window, IInv, TypeOK
  <2>. QED BY <2>2, <2>3, <2>4, <2>5, UnreturnedFinite, WorkersAssumption
<1>. QED BY <1>1, <1>2, SlotInductive, InvariantHolds, PTL DEF Spec

-----------------------------------------------------------------------------
(***************************************************************************)
(* RunOrchestrator implements RunLifecycle: every save of the run record   *)
(* is one step of the abstract record, or none, whatever the interleaving, *)
(* the save errors and the crashes.                                        *)
(***************************************************************************)


SameRecord ==
  /\ disk.status = run.status
  /\ disk.completed = run.completed
  /\ disk.failed = run.failed

\* The run in memory is one outcome or one verdict ahead of the one on disk.
OneAhead ==
  /\ disk.status = "running"
  /\ \/ /\ run.status = "running"
        /\ \E p \in wanted \ (disk.completed \cup disk.failed) :
             \/ /\ run.completed = disk.completed \cup {p}
                /\ run.failed = disk.failed
             \/ /\ run.completed = disk.completed
                /\ run.failed = disk.failed \cup {p}
     \/ /\ run.status \in Terminal
        /\ run.completed = disk.completed
        /\ run.failed = disk.failed

Unsaved == {"save", "raised", "dead"}

LagInv ==
  /\ pc \notin Unsaved => SameRecord
  /\ SameRecord \/ OneAhead
  /\ pc # "idle" => disk.status # "absent"

-----------------------------------------------------------------------------
(* Steps that leave both records alone keep LagInv.                        *)

LEMMA RecordsUntouched ==
  ASSUME LagInv, UNCHANGED <<run, disk, wanted>>, pc # "idle",
         pc \in Unsaved => pc' \in Unsaved
  PROVE  LagInv'
BY DEF LagInv, SameRecord, OneAhead, Unsaved

\* A verdict is reached from a record that disk agrees with.
LEMMA VerdictAhead ==
  ASSUME LagInv, SameRecord, run.status = "running", pc' = "save",
         UNCHANGED <<disk, wanted>>, run'.status \in Terminal,
         run'.completed = run.completed, run'.failed = run.failed
  PROVE  LagInv'
BY DEF LagInv, SameRecord, OneAhead, Unsaved

\* So is an outcome.
LEMMA OutcomeAhead ==
  ASSUME LagInv, SameRecord, run.status = "running", pc' = "save",
         UNCHANGED <<disk, wanted>>, run'.status = run.status,
         NEW p \in wanted, p \notin run.completed \cup run.failed,
         \/ run'.completed = run.completed \cup {p} /\ run'.failed = run.failed
         \/ run'.completed = run.completed /\ run'.failed = run.failed \cup {p}
  PROVE  LagInv'
BY DEF LagInv, SameRecord, OneAhead, Unsaved

-----------------------------------------------------------------------------
(* Every step keeps LagInv and is a step of RunLifecycle or a stutter.     *)

Simulates == LagInv' /\ [Lifecycle!Next]_(Lifecycle!vars)

\* A step that saves nothing and requests nothing is a stutter of the record.
LEMMA Invisible ==
  ASSUME UNCHANGED <<disk, wanted, cancelRequested>>, LagInv'
  PROVE  Simulates
BY DEF Simulates, Lifecycle!vars

THEOREM StepSimulates == IInv /\ LagInv /\ [Next]_vars => Simulates
<1>. SUFFICES ASSUME IInv, LagInv, [Next]_vars PROVE Simulates
  OBVIOUS
<1>. USE DEF Unsaved, poolVars, cancelVars
<1>a. pc \notin Unsaved \cup {"idle", "done"} => run.status = "running" /\ SameRecord
  BY DEF IInv, TypeOK, ControlInv, Runs, Terminal, LagInv
<1>b. \A p \in pending : p \in wanted /\ p \notin run.completed \cup run.failed
  BY DEF IInv, FutureInv, RecordInv, Collected
<1>c. pc = "idle" => \A p \in Paragraphs : fut[p] = "unsubmitted"
  BY DEF IInv, FutureInv, ControlInv
<1>1. ASSUME NEW selected \in SUBSET Requestable, CreateRun(selected)
      PROVE  Simulates
  <2>1. /\ disk.status = "absent" /\ run.completed = {} /\ run.failed = {}
        /\ disk.completed = {} /\ disk.failed = {}
    BY <1>1 DEF CreateRun, IInv, ControlInv, NoRun
  <2>2. /\ run'.status = "running" /\ run'.completed = {} /\ run'.failed = {}
        /\ disk' = run' /\ wanted' \in SUBSET Paragraphs
        /\ UNCHANGED cancelRequested
    BY <1>1, <2>1 DEF CreateRun, IInv, TypeOK, Runs, Remaining
  <2>3. LagInv'
    BY <2>2 DEF LagInv, SameRecord
  <2>. QED BY <2>1, <2>2, <2>3 DEF Simulates, Lifecycle!Next, Lifecycle!Create
<1>2. CASE RequestCancel
  <2>1. LagInv'
    BY <1>2, RecordsUntouched DEF RequestCancel
  <2>2. Lifecycle!Ask
    BY <1>2 DEF RequestCancel, Lifecycle!Ask, LagInv
  <2>. QED BY <2>1, <2>2 DEF Simulates, Lifecycle!Next
<1>3. CASE StartRun
  <2>1. run'.status = "running" /\ run'.completed = run.completed
        /\ run'.failed = run.failed
    BY <1>3 DEF StartRun, IInv, TypeOK, Runs
  <2>2. LagInv'
    BY <1>3, <1>a, <2>1 DEF StartRun, LagInv, SameRecord
  <2>. QED BY <1>3, <2>2, Invisible DEF StartRun
<1>4. CASE SequentialNext
  BY <1>4, RecordsUntouched, Invisible DEF SequentialNext
<1>5. CASE SequentialCancel
  <2>1. /\ run'.status \in Terminal /\ pc' = "save"
        /\ run'.completed = run.completed /\ run'.failed = run.failed
    BY <1>5, CancelRunEffect DEF SequentialCancel, IInv, TypeOK, Terminal
  <2>. QED BY <1>5, <1>a, <2>1, VerdictAhead, Invisible DEF SequentialCancel
<1>6. CASE SequentialEnd
  <2>1. /\ run'.status \in Terminal /\ pc' = "save"
        /\ run'.completed = run.completed /\ run'.failed = run.failed
    BY <1>6, FinalizeRunEffect DEF SequentialEnd, IInv, TypeOK, RecordInv, Terminal
  <2>. QED BY <1>6, <1>a, <2>1, VerdictAhead, Invisible DEF SequentialEnd
<1>7. ASSUME NEW p \in Paragraphs, SequentialCollect(p) PROVE Simulates
  <2>1. /\ p \in wanted /\ p \notin run.completed \cup run.failed
        /\ run.status = "running" /\ SameRecord
    BY <1>7, <1>a, <1>b DEF SequentialCollect, IInv, TypeOK
  <2>2. CASE RecordSuccess(p)
    <3>1. /\ pc' = "save" /\ run'.status = run.status
          /\ run'.completed = run.completed \cup {p} /\ run'.failed = run.failed
      BY <2>1, <2>2, RecordSuccessEffect DEF IInv, TypeOK, RecordInv
    <3>. QED BY <1>7, <2>1, <3>1, OutcomeAhead, Invisible DEF SequentialCollect
  <2>3. CASE RecordFailure(p)
    <3>1. /\ pc' = "save" /\ run'.status = run.status
          /\ run'.completed = run.completed /\ run'.failed = run.failed \cup {p}
      BY <2>3, RecordFailureEffect DEF IInv, TypeOK
    <3>. QED BY <1>7, <2>1, <3>1, OutcomeAhead, Invisible DEF SequentialCollect
  <2>4. CASE CancelRun
    <3>1. /\ run'.status \in Terminal /\ pc' = "save"
          /\ run'.completed = run.completed /\ run'.failed = run.failed
      BY <2>4, CancelRunEffect DEF IInv, TypeOK, Terminal
    <3>. QED BY <1>7, <2>1, <3>1, VerdictAhead, Invisible DEF SequentialCollect
  <2>. QED BY <1>7, <2>2, <2>3, <2>4 DEF SequentialCollect
<1>8. CASE SubmitChecked
  BY <1>8, RecordsUntouched, Invisible DEF SubmitChecked
<1>9. CASE Submit
  BY <1>9, RecordsUntouched, Invisible DEF Submit
<1>10. CASE FillEnds
  BY <1>10, RecordsUntouched, Invisible DEF FillEnds
<1>11. CASE FirstFillCancel
  <2>1. /\ run'.status \in Terminal /\ pc' = "save"
        /\ run'.completed = run.completed /\ run'.failed = run.failed
    BY <1>11, CancelRunEffect DEF FirstFillCancel, IInv, TypeOK, Terminal
  <2>. QED BY <1>11, <1>a, <2>1, VerdictAhead, Invisible DEF FirstFillCancel
<1>12. CASE FirstFillDone
  BY <1>12, RecordsUntouched, Invisible DEF FirstFillDone
<1>13. CASE WaitReturns
  BY <1>13, RecordsUntouched, Invisible DEF WaitReturns
<1>14. CASE AllCollected
  <2>1. /\ run'.status \in Terminal /\ pc' = "save"
        /\ run'.completed = run.completed /\ run'.failed = run.failed
    BY <1>14, CancelRunEffect, FinalizeRunEffect
       DEF AllCollected, IInv, TypeOK, RecordInv, Terminal
  <2>. QED BY <1>14, <1>a, <2>1, VerdictAhead, Invisible DEF AllCollected
<1>15. ASSUME NEW p \in Paragraphs, Collect(p) PROVE Simulates
  <2>1. /\ p \in wanted /\ p \notin run.completed \cup run.failed
        /\ run.status = "running" /\ SameRecord
    BY <1>15, <1>a, <1>b DEF Collect, IInv, TypeOK
  <2>2. CASE RecordSuccess(p)
    <3>1. /\ pc' = "save" /\ run'.status = run.status
          /\ run'.completed = run.completed \cup {p} /\ run'.failed = run.failed
      BY <2>1, <2>2, RecordSuccessEffect DEF IInv, TypeOK, RecordInv
    <3>. QED BY <1>15, <2>1, <3>1, OutcomeAhead, Invisible DEF Collect
  <2>3. CASE RecordFailure(p)
    <3>1. /\ pc' = "save" /\ run'.status = run.status
          /\ run'.completed = run.completed /\ run'.failed = run.failed \cup {p}
      BY <2>3, RecordFailureEffect DEF IInv, TypeOK
    <3>. QED BY <1>15, <2>1, <3>1, OutcomeAhead, Invisible DEF Collect
  <2>4. CASE UNCHANGED <<pc, run>>
    BY <1>15, <2>4, RecordsUntouched, Invisible DEF Collect
  <2>. QED BY <1>15, <2>2, <2>3, <2>4 DEF Collect
<1>16. CASE DecideRefill
  BY <1>16, RecordsUntouched, Invisible DEF DecideRefill
<1>17. CASE DecideStop
  <2>1. UNCHANGED cancelRequested
    BY <1>17 DEF DecideStop, IInv, TypeOK, CancelInv
  <2>. QED BY <1>17, <2>1, RecordsUntouched, Invisible DEF DecideStop
<1>18. ASSUME NEW p \in Paragraphs, Sweep(p) PROVE Simulates
  BY <1>18, RecordsUntouched, Invisible DEF Sweep
<1>19. CASE SweepDone
  <2>1. CASE pending = {}
    <3>1. /\ run'.status \in Terminal /\ pc' = "save"
          /\ run'.completed = run.completed /\ run'.failed = run.failed
      BY <1>19, <2>1, CancelRunEffect DEF SweepDone, IInv, TypeOK, Terminal
    <3>. QED BY <1>19, <1>a, <3>1, VerdictAhead, Invisible DEF SweepDone
  <2>2. CASE pending # {}
    BY <1>19, <2>2, RecordsUntouched, Invisible DEF SweepDone
  <2>. QED BY <2>1, <2>2
<1>20. CASE SaveRun
  <2>1. disk' = run /\ UNCHANGED <<run, wanted, cancelRequested>>
    BY <1>20 DEF SaveRun
  <2>2. run.status # "absent" /\ pc' \notin Unsaved
    BY <1>20 DEF SaveRun, AfterSave, IInv, ControlInv
  <2>3. LagInv'
    BY <2>1, <2>2 DEF LagInv, SameRecord
  <2>4. CASE SameRecord
    BY <2>1, <2>3, <2>4 DEF Simulates, Lifecycle!vars, SameRecord
  <2>5. ASSUME NEW p \in wanted \ (disk.completed \cup disk.failed),
               disk.status = "running", run.status = "running",
               \/ /\ run.completed = disk.completed \cup {p}
                  /\ run.failed = disk.failed
               \/ /\ run.completed = disk.completed
                  /\ run.failed = disk.failed \cup {p}
        PROVE  Simulates
    <3>1. Lifecycle!Settle(p) /\ p \in Paragraphs
      BY <2>1, <2>5 DEF Lifecycle!Settle, IInv, TypeOK
    <3>. QED BY <2>3, <3>1 DEF Simulates, Lifecycle!Next
  <2>6. ASSUME disk.status = "running", run.status \in Terminal,
               run.completed = disk.completed, run.failed = disk.failed
        PROVE  Simulates
    <3>1. CASE run.status = "cancelled"
      BY <2>1, <2>3, <2>6, <3>1
         DEF Simulates, Lifecycle!Next, Lifecycle!Cancel, IInv, Sound
    <3>2. CASE run.status \in {"completed", "failed"}
      <4>1. Lifecycle!Conclude
        BY <2>1, <2>6, <3>2 DEF Lifecycle!Conclude, IInv, Sound
      <4>. QED BY <2>3, <4>1 DEF Simulates, Lifecycle!Next
    <3>. QED BY <2>6, <3>1, <3>2 DEF Terminal
  <2>. QED BY <2>4, <2>5, <2>6 DEF LagInv, OneAhead
<1>21. ASSUME NEW p \in Paragraphs, StartProcessor(p) PROVE Simulates
  BY <1>21, <1>c, RecordsUntouched, Invisible DEF StartProcessor, Outcomes
<1>22. ASSUME NEW p \in Paragraphs, EndProcessor(p) PROVE Simulates
  BY <1>22, <1>c, RecordsUntouched, Invisible DEF EndProcessor, Outcomes
<1>23. ASSUME NEW p \in Paragraphs, SetResult(p) PROVE Simulates
  BY <1>23, <1>c, RecordsUntouched, Invisible DEF SetResult, Outcomes
<1>24. CASE SaveFails
  BY <1>24, RecordsUntouched, Invisible DEF SaveFails
<1>25. CASE Crash
  BY <1>25, RecordsUntouched, Invisible DEF Crash
<1>26. CASE UNCHANGED vars
  <2>1. LagInv'
    BY <1>26 DEF vars, LagInv, SameRecord, OneAhead
  <2>. QED BY <1>26, <2>1, Invisible DEF vars
<1>. QED
  BY <1>1, <1>2, <1>3, <1>4, <1>5, <1>6, <1>7, <1>8, <1>9, <1>10, <1>11, <1>12, <1>13, <1>14, <1>15, <1>16, <1>17, <1>18, <1>19, <1>20, <1>21, <1>22, <1>23, <1>24, <1>25, <1>26
     DEF Next, Execute, Worker, Terminated

\* Readers of run.json see a run that RunLifecycle allows.
THEOREM ImplementsRunLifecycle == Spec => ImplementsLifecycle
<1>1. Init => LagInv /\ Lifecycle!Init
  BY DEF Init, LagInv, SameRecord, NoRun, Lifecycle!Init
<1>2. IInv /\ LagInv /\ [Next]_vars => LagInv' /\ [Lifecycle!Next]_(Lifecycle!vars)
  BY StepSimulates DEF Simulates
<1>. QED BY <1>1, <1>2, InvariantHolds, PTL
         DEF Spec, ImplementsLifecycle, Lifecycle!Spec

\* A crash or a failed save costs the record at most one paragraph.
THEOREM CrashLosesLittle == Spec => []CrashLosesAtMostOne
<1>1. LagInv => CrashLosesAtMostOne
  <2>. SUFFICES ASSUME LagInv PROVE CrashLosesAtMostOne
    OBVIOUS
  <2>. DEFINE Lost == (run.completed \cup run.failed)
                        \ (disk.completed \cup disk.failed)
  <2>1. /\ disk.completed \subseteq run.completed
        /\ disk.failed \subseteq run.failed
        /\ Lost = {} \/ \E p : Lost = {p}
    BY DEF LagInv, SameRecord, OneAhead
  <2>2. Cardinality(Lost) <= 1
    <3>1. CASE Lost = {}
      BY <3>1, FS_EmptySet
    <3>2. ASSUME NEW p, Lost = {p}
          PROVE  Cardinality(Lost) <= 1
      <4>1. Cardinality({p}) = 1
        BY FS_Singleton
      <4>. QED BY <3>2, <4>1
    <3>. QED BY <2>1, <3>1, <3>2
  <2>. QED BY <2>1, <2>2 DEF CrashLosesAtMostOne
<1>2. Init => LagInv
  BY DEF Init, LagInv, SameRecord
<1>3. IInv /\ LagInv /\ [Next]_vars => LagInv'
  BY StepSimulates DEF Simulates
<1>. QED BY <1>1, <1>2, <1>3, InvariantHolds, PTL DEF Spec

-----------------------------------------------------------------------------
(***************************************************************************)
(* A run is never stuck. The guards of Execute and Worker are written as    *)
(* conditions of the state: one of them holds until execute has returned.   *)
(***************************************************************************)

\* The thread inside execute can take a step.
ExecuteCanGoOn ==
  \/ pc \in {"created", "loop", "fill", "filled", "sweep", "save"}
  \/ pc = "call" /\ \E p \in pending : fut[p] \in Outcomes
  \/ pc = "submit" /\ inflight < QueueSize /\ todo # {}
  \/ pc = "wait" /\ (pending = {} \/ pending \cap settled # {})
  \/ pc = "batch" /\ (batch = {} \/ \E p \in batch : fut[p] \in Outcomes)

\* The worker of a paragraph can, or the next free one can begin with it.
WorkerCanGoOn(p) ==
  /\ pc # "dead"
  /\ \/ /\ fut[p] = "queued"
        /\ \A q \in Paragraphs : fut[q] = "queued" => p <= q
        /\ Cardinality(Busy) < MaxWorkers
     \/ fut[p] \in {"running", "refusing"}
     \/ Parallel /\ fut[p] \in Outcomes /\ p \notin settled

NeverStuck ==
  pc \notin {"idle", "done", "raised", "dead"} =>
    ExecuteCanGoOn \/ \E p \in Paragraphs : WorkerCanGoOn(p)

\* What the thread waits for is still to come: cancelled futures are no longer
\* pending, except after a save that raised.
AwaitedInv ==
  /\ pc = "call" => pending # {}
  /\ pc = "submit" => todo # {}
  /\ pc \notin {"raised", "dead"} => \A p \in pending : fut[p] # "cancelled"

LEMMA AwaitedStays == IInv /\ AwaitedInv /\ [Next]_vars => AwaitedInv'
<1>. SUFFICES ASSUME IInv, AwaitedInv, [Next]_vars PROVE AwaitedInv'
  OBVIOUS
<1>. USE DEF AwaitedInv, poolVars, cancelVars
<1>1. ASSUME NEW p \in todo, HandOver(p)
      PROVE  /\ pending' # {}
             /\ \A q \in pending' : fut'[q] = "queued" \/ (q \in pending /\ fut'[q] = fut[q])
  BY <1>1 DEF HandOver, IInv, TypeOK
<1>2. CASE SequentialNext
  <2>1. PICK p \in todo : HandOver(p)
    BY <1>2 DEF SequentialNext
  <2>2. pc = "loop" /\ pc' = "call" /\ pending' = pending \cup {p}
    BY <1>2, <2>1 DEF SequentialNext, HandOver
  <2>. QED BY <1>1, <2>1, <2>2
<1>3. CASE Submit
  <2>1. PICK p \in todo : HandOver(p)
    BY <1>3 DEF Submit
  <2>2. pc = "submit" /\ pc' = "fill" /\ pending' = pending \cup {p}
    BY <1>3, <2>1 DEF Submit, HandOver
  <2>. QED BY <1>1, <2>1, <2>2
<1>4. ASSUME NEW selected \in SUBSET Requestable, CreateRun(selected) PROVE AwaitedInv'
  BY <1>4 DEF CreateRun
<1>5. CASE StartRun \/ SequentialCancel \/ SequentialEnd \/ SaveFails \/ Crash
  BY <1>5 DEF StartRun, SequentialCancel, SequentialEnd, CancelRun, FinalizeRun,
              SaveFails, Crash
<1>6. ASSUME NEW p \in Paragraphs, SequentialCollect(p) \/ Collect(p)
      PROVE AwaitedInv'
  BY <1>6 DEF SequentialCollect, Collect, RecordSuccess, RecordFailure, CancelRun
<1>7. CASE SubmitChecked \/ FillEnds \/ FirstFillCancel \/ FirstFillDone \/ WaitReturns
  BY <1>7 DEF SubmitChecked, FillEnds, FirstFillCancel, FirstFillDone, WaitReturns,
              CancelRun
<1>8. CASE AllCollected \/ DecideRefill \/ DecideStop \/ SweepDone
  BY <1>8 DEF AllCollected, DecideRefill, DecideStop, SweepDone, CancelRun, FinalizeRun
<1>9. ASSUME NEW p \in Paragraphs, Sweep(p) PROVE AwaitedInv'
  <2>1. CASE fut[p] = "queued"
    <3>1. pending' = pending \ {p} /\ \A q \in pending' : fut'[q] = fut[q]
      BY <1>9, <2>1 DEF Sweep, IInv, TypeOK
    <3>. QED BY <1>9, <3>1 DEF Sweep
  <2>2. CASE fut[p] # "queued"
    BY <1>9, <2>2 DEF Sweep
  <2>. QED BY <2>1, <2>2
<1>10. CASE SaveRun
  BY <1>10 DEF SaveRun, AfterSave
<1>11. ASSUME NEW p \in Paragraphs, Worker(p) PROVE AwaitedInv'
  <2>1. \A q \in Paragraphs : fut'[q] = "cancelled" => fut[q] = "cancelled"
    BY <1>11 DEF Worker, StartProcessor, EndProcessor, SetResult, IInv, TypeOK
  <2>. QED BY <1>11, <2>1 DEF Worker, StartProcessor, EndProcessor, SetResult, IInv, TypeOK
<1>12. CASE RequestCancel \/ UNCHANGED vars
  BY <1>12 DEF RequestCancel, vars
<1>. QED
  BY <1>2, <1>3, <1>4, <1>5, <1>6, <1>7, <1>8, <1>9, <1>10, <1>11, <1>12
  DEF Next, Execute, Terminated

Below == {ab \in Nat \X Nat : ab[1] < ab[2]}

LEMMA HasLeast ==
  ASSUME NEW T \in SUBSET Nat, T # {}
  PROVE  \E x \in T : \A y \in T : x <= y
<1>1. IsWellFoundedOn(OpToRel(<, Nat), Nat)
  BY NatLessThanWellFounded
<1>2. IsWellFoundedOn(Below, Nat)
  BY <1>1 DEF OpToRel, Below
<1>3. PICK x \in T : \A y \in T : <<y, x>> \notin Below
  BY <1>2, WFMin
<1>4. ASSUME NEW y \in T PROVE x <= y
  <2>1. x \in Nat /\ y \in Nat
    OBVIOUS
  <2>2. ~(y < x)
    BY <1>3, <2>1 DEF Below
  <2>. QED BY <2>1, <2>2
<1>. QED BY <1>4

\* While a call is queued or in work, or its result on the way, some worker can
\* go on.
LEMMA CallsGoOn ==
  ASSUME IInv, pc # "dead", NEW p \in Paragraphs,
         fut[p] = "queued" \/ p \in Busy
  PROVE  \E q \in Paragraphs : WorkerCanGoOn(q)
<1>1. CASE Busy # {}
  BY <1>1 DEF Busy, WorkerCanGoOn
<1>2. CASE Busy = {}
  <2>. DEFINE T == {q \in Paragraphs : fut[q] = "queued"}
  <2>1. T \in SUBSET Nat /\ T # {}
    BY <1>2, ParagraphsAssumption
  <2>2. PICK q \in T : \A r \in T : q <= r
    <3>. HIDE DEF T
    <3>. QED BY <2>1, HasLeast
  <2>3. Cardinality(Busy) < MaxWorkers
    BY <1>2, FS_EmptySet, WorkersAssumption
  <2>. QED BY <2>2, <2>3 DEF WorkerCanGoOn
<1>. QED BY <1>1, <1>2

\* No thread of a run waits for something that cannot come: from create_run to
\* the end of execute its thread or a worker can take a step.
THEOREM RunIsNeverStuck == Spec => []NeverStuck
<1>1. Init => AwaitedInv
  BY DEF Init, AwaitedInv
<1>2. IInv /\ AwaitedInv /\ SubmitNeverBlocks => NeverStuck
  <2>. SUFFICES ASSUME IInv, AwaitedInv, SubmitNeverBlocks, ~ExecuteCanGoOn,
                       pc \notin {"idle", "done", "raised", "dead"}
                PROVE  \E p \in Paragraphs : WorkerCanGoOn(p)
    BY DEF NeverStuck
  <2>1. ASSUME NEW p \in pending
        PROVE  p \in Paragraphs /\ fut[p] \in {"queued", "running", "refusing"} \cup Outcomes
    <3>1. p \in Paragraphs /\ p \in wanted \ todo /\ fut[p] \in FutureStates
      BY <2>1 DEF IInv, TypeOK, FutureInv
    <3>2. fut[p] # "unsubmitted" /\ fut[p] # "cancelled"
      BY <2>1, <3>1 DEF IInv, FutureInv, AwaitedInv
    <3>. QED BY <3>1, <3>2 DEF FutureStates
  <2>2. CASE pc = "call"
    <3>1. PICK p \in pending : fut[p] \notin Outcomes
      BY <2>2 DEF AwaitedInv, ExecuteCanGoOn
    <3>. QED BY <2>1, <2>2, <3>1, CallsGoOn DEF Busy
  <2>3. CASE pc = "submit"
    BY <2>3 DEF SubmitNeverBlocks, AwaitedInv, ExecuteCanGoOn
  <2>4. CASE pc = "wait"
    <3>1. PICK p \in pending : p \notin settled
      BY <2>4 DEF ExecuteCanGoOn
    <3>2. Parallel
      BY <2>4 DEF IInv, ControlInv, ParallelPCs
    <3>. QED BY <2>1, <2>4, <3>1, <3>2, CallsGoOn DEF Busy
  <2>5. CASE pc = "batch"
    <3>1. batch \subseteq settled /\ batch \subseteq pending
      BY <2>5 DEF IInv, FutureInv, TypeOK
    <3>2. \A p \in batch : fut[p] \in Outcomes
      BY <3>1 DEF IInv, FutureInv
    <3>. QED BY <2>5, <3>2 DEF ExecuteCanGoOn
  <2>. QED BY <2>2, <2>3, <2>4, <2>5 DEF IInv, TypeOK, PCs, ExecuteCanGoOn
<1>. QED
  BY <1>1, <1>2, AwaitedStays, InvariantHolds, SubmitDoesNotBlock, PTL DEF Spec

-----------------------------------------------------------------------------
(***************************************************************************)
(* A run goes forward only.                                                 *)
(***************************************************************************)

\* How far a call is, and where the thread is between two gains.
Age == [unsubmitted |-> 0, queued |-> 1, running |-> 2, refusing |-> 2, ok |-> 3,
        failed |-> 3, interrupted |-> 3, cancelled |-> 3]
PhaseOf == [idle |-> 0, created |-> 0, loop |-> 3, call |-> 4, fill |-> 3, submit |-> 4,
            filled |-> 5, sweep |-> 6, wait |-> 7, done |-> 10, raised |-> 11,
            dead |-> 12]

Phase ==
  IF pc = "save" THEN (IF run.status \in Terminal THEN 9 ELSE 1)
  ELSE IF pc = "batch" THEN (IF batch = {} THEN 2 ELSE 8)
  ELSE PhaseOf[pc]

\* Nothing is taken back: paragraphs handed over or collected, results that are
\* set, the state of a call, a cancel request.
NothingLost ==
  /\ todo' \subseteq todo /\ Collected \subseteq Collected' /\ settled \subseteq settled'
  /\ \A p \in Paragraphs : Age[fut[p]] <= Age[fut'[p]]
  /\ cancelRequested => cancelRequested'

\* And one of them is gained, or the thread comes nearer to the next gain.
SomethingGained ==
  \/ todo' # todo \/ Collected' # Collected \/ settled' # settled
  \/ \E p \in Paragraphs : Age[fut[p]] < Age[fut'[p]]
  \/ cancelRequested' # cancelRequested
  \/ Phase < Phase'
  \/ Phase = Phase' /\ batch' \subseteq batch /\ batch' # batch

Forward == NothingLost /\ SomethingGained

\* A step that leaves the calls alone.
LEMMA CallsUntouched ==
  ASSUME IInv, UNCHANGED <<wanted, todo, settled, fut>>, pending' \subseteq pending,
         cancelRequested => cancelRequested'
  PROVE  NothingLost
<1>1. \A p \in Paragraphs : Age[fut[p]] \in Nat
  BY DEF IInv, TypeOK, FutureStates, Outcomes, Age
<1>. QED BY <1>1 DEF NothingLost, Collected

\* The step of the thread that collects, or drops, the call of a paragraph.
LEMMA CollectGains ==
  ASSUME IInv, UNCHANGED <<wanted, todo>>, NEW p \in pending, pending' = pending \ {p}
  PROVE  SomethingGained
<1>1. p \in Collected' /\ p \notin Collected
  BY DEF IInv, FutureInv, Collected
<1>. QED BY <1>1 DEF SomethingGained

\* The step that hands a paragraph over.
LEMMA HandOverGains ==
  ASSUME IInv, UNCHANGED <<wanted, settled, cancelRequested>>, NEW p \in todo, HandOver(p)
  PROVE  Forward
<1>1. p \in Paragraphs /\ fut[p] = "unsubmitted"
  BY DEF IInv, TypeOK, FutureInv
<1>2. todo' = todo \ {p} /\ pending' = pending \cup {p}
  BY DEF HandOver
<1>3. Collected' = Collected
  BY <1>2 DEF Collected, IInv, FutureInv
<1>4. ASSUME NEW q \in Paragraphs PROVE Age[fut[q]] <= Age[fut'[q]]
  <2>1. fut[q] \in FutureStates /\ fut'[q] = IF q = p THEN "queued" ELSE fut[q]
    BY DEF HandOver, IInv, TypeOK
  <2>. QED BY <1>1, <2>1 DEF Age, FutureStates, Outcomes
<1>. QED BY <1>2, <1>3, <1>4 DEF Forward, NothingLost, SomethingGained

\* The step of a worker.
LEMMA WorkerGains ==
  ASSUME IInv, NEW p \in Paragraphs, Worker(p) PROVE Forward
<1>. USE DEF IInv, TypeOK
<1>1. UNCHANGED <<wanted, todo, pending, cancelRequested>>
  BY DEF Worker, StartProcessor, EndProcessor, SetResult, cancelVars
<1>2. CASE SetResult(p)
  <2>1. \A q \in Paragraphs : Age[fut[q]] \in Nat
    BY DEF FutureStates, Outcomes, Age
  <2>2. fut' = fut /\ settled' = settled \cup {p} /\ p \notin settled
    BY <1>2 DEF SetResult
  <2>. QED BY <1>1, <2>1, <2>2 DEF Forward, NothingLost, SomethingGained, Collected
<1>3. CASE StartProcessor(p) \/ EndProcessor(p)
  <2>1. settled' = settled
    BY <1>3 DEF StartProcessor, EndProcessor
  <2>2. \A q \in Paragraphs : q # p => fut'[q] = fut[q]
    BY <1>3 DEF StartProcessor, EndProcessor
  <2>3. \/ fut[p] = "queued" /\ fut'[p] \in {"running", "refusing"}
        \/ fut[p] \in {"running", "refusing"} /\ fut'[p] \in Outcomes
    BY <1>3 DEF StartProcessor, EndProcessor, Outcomes
  <2>4. Age[fut[p]] < Age[fut'[p]] /\ Age[fut[p]] <= Age[fut'[p]]
    BY <2>3 DEF Age, Outcomes
  <2>5. \A q \in Paragraphs : Age[fut[q]] \in Nat
    BY DEF FutureStates, Outcomes, Age
  <2>. QED
    BY <1>1, <2>1, <2>2, <2>4, <2>5 DEF Forward, NothingLost, SomethingGained, Collected
<1>. QED BY <1>2, <1>3 DEF Worker

\* A step of the thread that only moves on.
LEMMA PhaseGains ==
  ASSUME IInv, UNCHANGED <<wanted, todo, pending, settled, fut>>,
         cancelRequested => cancelRequested', Phase < Phase'
  PROVE  Forward
BY CallsUntouched DEF Forward, SomethingGained

\* The steps of the thread with which the run gets its verdict.
LEMMA VerdictsMoveOn ==
  ASSUME IInv, CancelRun \/ FinalizeRun,
         pc \in {"loop", "filled", "sweep", "wait"}
  PROVE  Phase < Phase'
<1>1. run'.status \in Terminal /\ pc' = "save"
  BY CancelRunEffect, FinalizeRunEffect DEF IInv, TypeOK, RecordInv, Terminal
<1>2. Phase' = 9
  BY <1>1 DEF Phase
<1>. QED BY <1>2 DEF Phase, PhaseOf

\* Every step of a run, whoever takes it, gains something or brings the thread of
\* execute nearer to a gain: no paragraph is submitted, run or collected twice, no
\* sweep is repeated for nothing. All of it is bounded by the number of
\* paragraphs, so no run can go on for ever, cancelled or not.
THEOREM RunGoesForward == Spec => [][pc # "idle" => Forward]_vars
<1>1. IInv /\ [Next]_vars => [pc # "idle" => Forward]_vars
  <2>. SUFFICES ASSUME IInv, Next, ~UNCHANGED vars, pc # "idle" PROVE Forward
    OBVIOUS
  <2>. USE DEF poolVars, cancelVars
  <2>1. CASE StartRun
    BY <2>1, PhaseGains DEF StartRun, Phase, PhaseOf
  <2>2. CASE SequentialNext
    BY <2>2, HandOverGains DEF SequentialNext
  <2>3. CASE SequentialCancel
    <3>1. Phase < Phase'
      BY <2>3, VerdictsMoveOn DEF SequentialCancel
    <3>. QED BY <2>3, <3>1, PhaseGains DEF SequentialCancel
  <2>4. CASE SequentialEnd
    <3>1. Phase < Phase'
      BY <2>4, VerdictsMoveOn DEF SequentialEnd
    <3>. QED BY <2>4, <3>1, PhaseGains DEF SequentialEnd
  <2>5. ASSUME NEW p \in Paragraphs, SequentialCollect(p) \/ Collect(p) PROVE Forward
    <3>1. /\ UNCHANGED <<wanted, todo, settled, fut, cancelRequested>>
          /\ p \in pending /\ pending' = pending \ {p}
      BY <2>5 DEF SequentialCollect, Collect, IInv, TypeOK
    <3>. QED BY <3>1, CallsUntouched, CollectGains DEF Forward
  <2>6. CASE SubmitChecked
    BY <2>6, PhaseGains DEF SubmitChecked, Phase, PhaseOf
  <2>7. CASE Submit
    BY <2>7, HandOverGains DEF Submit
  <2>8. CASE FillEnds
    BY <2>8, PhaseGains DEF FillEnds, Phase, PhaseOf
  <2>9. CASE FirstFillCancel
    <3>1. Phase < Phase'
      BY <2>9, VerdictsMoveOn DEF FirstFillCancel
    <3>. QED BY <2>9, <3>1, PhaseGains DEF FirstFillCancel
  <2>10. CASE FirstFillDone
    BY <2>10, PhaseGains DEF FirstFillDone, Phase, PhaseOf
  <2>11. CASE WaitReturns
    <3>1. Phase = 7 /\ Phase' = 8
      BY <2>11 DEF WaitReturns, Phase, PhaseOf
    <3>. QED BY <2>11, <3>1, PhaseGains DEF WaitReturns
  <2>12. CASE AllCollected
    <3>1. Phase < Phase'
      BY <2>12, VerdictsMoveOn DEF AllCollected
    <3>. QED BY <2>12, <3>1, PhaseGains DEF AllCollected
  <2>13. CASE DecideRefill
    <3>1. Phase = 2 /\ Phase' = 3
      BY <2>13 DEF DecideRefill, Phase, PhaseOf
    <3>. QED BY <2>13, <3>1, PhaseGains DEF DecideRefill
  <2>14. CASE DecideStop
    <3>1. Phase = 2 /\ Phase' = 6
      BY <2>14 DEF DecideStop, Phase, PhaseOf
    <3>2. cancelRequested => cancelRequested'
      BY <2>14, Zenon DEF DecideStop
    <3>. QED BY <2>14, <3>1, <3>2, PhaseGains DEF DecideStop
  <2>15. ASSUME NEW p \in Paragraphs, Sweep(p) PROVE Forward
    <3>1. p \in pending /\ p \in batch
      BY <2>15 DEF Sweep, IInv, TypeOK
    <3>2. CASE fut[p] = "queued"
      <4>1. /\ UNCHANGED <<wanted, todo, settled, cancelRequested>>
            /\ pending' = pending \ {p} /\ fut' = [fut EXCEPT ![p] = "cancelled"]
        BY <2>15, <3>2 DEF Sweep
      <4>2. ASSUME NEW q \in Paragraphs PROVE Age[fut[q]] <= Age[fut'[q]]
        <5>1. fut[q] \in FutureStates /\ fut'[q] = IF q = p THEN "cancelled" ELSE fut[q]
          BY <4>1 DEF IInv, TypeOK
        <5>. QED BY <3>2, <5>1 DEF Age, FutureStates, Outcomes
      <4>. QED
        BY <3>1, <4>1, <4>2, CollectGains DEF Forward, NothingLost, Collected
    <3>3. CASE fut[p] # "queued"
      <4>1. /\ UNCHANGED <<wanted, todo, settled, fut, cancelRequested, pending>>
            /\ batch' = batch \ {p} /\ pc = "sweep" /\ pc' = "sweep"
        BY <2>15, <3>3 DEF Sweep
      <4>2. Phase = 6 /\ Phase' = 6
        BY <4>1 DEF Phase, PhaseOf
      <4>. QED BY <3>1, <4>1, <4>2, CallsUntouched DEF Forward, SomethingGained
    <3>. QED BY <3>2, <3>3
  <2>16. CASE SweepDone
    <3>1. Phase < Phase'
      <4>1. CASE pending = {}
        BY <2>16, <4>1, VerdictsMoveOn DEF SweepDone
      <4>2. CASE pending # {}
        BY <2>16, <4>2 DEF SweepDone, Phase, PhaseOf
      <4>. QED BY <4>1, <4>2
    <3>. QED BY <2>16, <3>1, PhaseGains DEF SweepDone
  <2>17. CASE SaveRun
    <3>1. Phase < Phase'
      <4>1. CASE run.status \in Terminal
        <5>1. Phase = 9 /\ Phase' = 10
          BY <2>17, <4>1 DEF SaveRun, AfterSave, Phase, PhaseOf
        <5>. QED BY <5>1
      <4>2. CASE run.status \notin Terminal
        <5>1. Phase = 1 /\ Phase' \in {2, 3, 8}
          BY <2>17, <4>2 DEF SaveRun, AfterSave, Phase, PhaseOf
        <5>. QED BY <5>1
      <4>. QED BY <4>1, <4>2
    <3>. QED BY <2>17, <3>1, PhaseGains DEF SaveRun
  <2>18. CASE SaveFails
    <3>1. pc = "save" /\ pc' = "raised" /\ UNCHANGED <<wanted, todo, pending, settled, cancelRequested>>
      BY <2>18 DEF SaveFails
    <3>2. Phase < Phase'
      BY <3>1 DEF Phase, PhaseOf
    <3>3. ASSUME NEW q \in Paragraphs PROVE Age[fut[q]] <= Age[fut'[q]]
      <4>1. /\ fut[q] \in FutureStates
            /\ fut'[q] = fut[q] \/ (fut[q] = "queued" /\ fut'[q] = "cancelled")
        BY <2>18 DEF SaveFails, IInv, TypeOK
      <4>. QED BY <4>1 DEF Age, FutureStates, Outcomes
    <3>. QED BY <3>1, <3>2, <3>3 DEF Forward, NothingLost, SomethingGained, Collected
  <2>19. CASE Crash
    <3>1. pc # "dead" /\ pc' = "dead" /\ pc \in PCs
      BY <2>19 DEF Crash, IInv, TypeOK
    <3>2. Phase < Phase'
      BY <3>1 DEF Phase, PhaseOf, PCs
    <3>. QED BY <2>19, <3>2, PhaseGains DEF Crash
  <2>20. CASE RequestCancel
    <3>1. UNCHANGED <<wanted, todo, settled, fut, pending>>
      BY <2>20 DEF RequestCancel
    <3>2. (cancelRequested => cancelRequested') /\ cancelRequested' # cancelRequested
      BY <2>20, Zenon DEF RequestCancel
    <3>3. NothingLost
      BY <3>1, <3>2, CallsUntouched
    <3>4. SomethingGained
      BY <3>2, Zenon DEF SomethingGained
    <3>. QED BY <3>3, <3>4 DEF Forward
  <2>. QED
    BY <2>1, <2>2, <2>3, <2>4, <2>5, <2>6, <2>7, <2>8, <2>9, <2>10, <2>11, <2>12, <2>13,
       <2>14, <2>15, <2>16, <2>17, <2>18, <2>19, <2>20, WorkerGains
    DEF Next, Execute, Terminated, CreateRun
<1>. QED BY <1>1, InvariantHolds, PTL DEF Spec
=============================================================================
