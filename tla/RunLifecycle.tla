---------------------------- MODULE RunLifecycle ----------------------------
(***************************************************************************)
(* What the persisted record of one run (runs/<id>/run.json) promises to   *)
(* whoever reads it: a run is created RUNNING, collects the outcome of one *)
(* paragraph at a time, and reaches exactly one verdict, which is final.   *)
(* RunOrchestrator implements this module; the user interface relies on it.*)
(***************************************************************************)

CONSTANTS
  Paragraphs,   \* the paragraph numbers of the script document
  MayAbandon    \* TRUE when a cancellation that comes after the last decision
                \* point may still end as COMPLETED or FAILED (parallel mode)

VARIABLES
  status,       \* "absent" before create_run, then the run's status
  wanted,       \* the paragraphs the run has to process
  completed,    \* completed_paragraphs
  failed,       \* failed_paragraphs
  cancelAsked   \* a cancellation was requested

vars == <<status, wanted, completed, failed, cancelAsked>>

Init ==
  /\ status = "absent"
  /\ wanted = {}
  /\ completed = {}
  /\ failed = {}
  /\ cancelAsked = FALSE

Create ==
  /\ status = "absent"
  /\ status' = "running"
  /\ wanted' \in SUBSET Paragraphs
  /\ UNCHANGED <<completed, failed, cancelAsked>>

Ask ==
  /\ status # "absent"
  /\ cancelAsked' = TRUE
  /\ UNCHANGED <<status, wanted, completed, failed>>

\* One more paragraph of the run has an outcome.
Settle(p) ==
  /\ status = "running"
  /\ p \in wanted \ (completed \cup failed)
  /\ \/ completed' = completed \cup {p} /\ UNCHANGED failed
     \/ failed' = failed \cup {p} /\ UNCHANGED completed
  /\ UNCHANGED <<status, wanted, cancelAsked>>

\* The verdict of a run that was not stopped: nothing is left to process.
Conclude ==
  /\ status = "running"
  /\ wanted = completed \cup failed \/ (MayAbandon /\ cancelAsked)
  /\ status' = IF failed = {} THEN "completed" ELSE "failed"
  /\ UNCHANGED <<wanted, completed, failed, cancelAsked>>

Cancel ==
  /\ status = "running"
  /\ cancelAsked
  /\ status' = "cancelled"
  /\ UNCHANGED <<wanted, completed, failed, cancelAsked>>

Next ==
  \/ Create
  \/ Ask
  \/ \E p \in Paragraphs : Settle(p)
  \/ Conclude
  \/ Cancel

Spec == Init /\ [][Next]_vars
=============================================================================
