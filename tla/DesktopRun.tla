----------------------------- MODULE DesktopRun -----------------------------
(***************************************************************************)
(* DesktopGuiController (ui/controller) and the window that polls it       *)
(* (ui/qt_app, ui/polling), against the thread of the background run.      *)
(*                                                                         *)
(* The user interface is one thread: a click or a tick of the poll timer   *)
(* runs to its end before the next one starts. The thread of a run moves   *)
(* in between, so a handler is cut into steps wherever it reads or writes  *)
(* what that thread can touch: the orchestrator's limits, the settings all *)
(* runs share, run.json, the latest event and the background task.         *)
(*                                                                         *)
(* What happens between the start of a run and its verdict is the business *)
(* of RunOrchestrator, and what a search asks for is ProviderSearch's: a   *)
(* paragraph is followed here only to the sources it may turn to. A        *)
(* project is open in the window throughout, and no preset is loaded.      *)
(*                                                                         *)
(* An operator named Bug... is no part of the specification: it is the     *)
(* next definition with a plausible mistake, kept to see that the          *)
(* properties notice it.                                                   *)
(***************************************************************************)
EXTENDS Naturals

CONSTANTS
  MaxRuns,     \* bound: how often create_run is called
  FreeWorkers, \* paragraph workers of a launch profile without Storyblocks
  Forms,       \* the sources the modes of the form ask for
  Faults       \* "create": create_run may raise once run.json is written;
               \* "execute": execute may raise while it works;
               \* "close": the reload, flush or browser close after it may

ASSUME RunsAssumption == MaxRuns \in Nat
ASSUME WorkersAssumption == FreeWorkers \in Nat /\ FreeWorkers > 1

Sources == {"storyblocks", "free"}

ASSUME FormsAssumption == Forms \subseteq SUBSET Sources \ {{}}

VARIABLES
  ui,       \* where the user interface thread is
  last,     \* the run created last
  kind,     \* the sources the form of each run asked for
  limit,    \* RunOrchestrator._max_workers
  providers,\* the sources of the shared ProviderSettings
  disk,     \* status in run.json
  status,   \* status of the Run object in memory
  event,    \* EventRecorder's latest event of the run
  asked,    \* cancel_requested of the run
  thread,   \* where the thread of the run is
  workers,  \* the workers execute went on with
  searching,\* the sources its latest paragraph in work turned to
  raised,   \* history: runs whose execute raised
  task,     \* controller._background_run (0: None)
  error,    \* its error
  told,     \* what the user was told about the end of the run
  active,   \* project.active_run_id
  shown,    \* active_run_id of the window
  seen,     \* run and status the poll in hand has read
  signature,\* _terminal_refresh_signature
  buttons   \* whether the session buttons are enabled

vars == <<ui, last, kind, limit, providers, disk, status, event, asked, thread,
          workers, searching, raised, task, error, told, active, shown, seen,
          signature, buttons>>

startVars  == <<last, kind, limit, providers>>
runVars    == <<disk, status, event, asked, thread, workers, searching, raised>>
windowVars == <<active, shown, seen, signature, buttons>>

Runs == 1..MaxRuns
Terminal == {"completed", "failed", "cancelled"}
Nothing == <<0, "none">>

BugLimit(k) == IF "storyblocks" \in k THEN 0 ELSE FreeWorkers

\* Paragraph workers of the launch profile for the form's concurrency mode.
Limit(k) == IF "storyblocks" \in k THEN 1 ELSE FreeWorkers

\* What run r may search: its own configuration, and the shared settings.
Enabled(r) == kind[r] \cap providers

Alive(r) == thread[r] \notin {"none", "ended"}
Busy == task # 0 /\ Alive(task)

Init ==
  /\ ui = "idle"
  /\ last = 0
  /\ kind = [r \in Runs |-> {}]
  /\ limit = 1
  /\ providers \in Forms
  /\ disk = [r \in Runs |-> "absent"]
  /\ status = disk
  /\ event = [r \in Runs |-> "none"]
  /\ asked = [r \in Runs |-> FALSE]
  /\ thread = event
  /\ workers = [r \in Runs |-> 0]
  /\ searching = kind
  /\ raised = {}
  /\ task = 0
  /\ error = FALSE
  /\ told = event
  /\ active = 0
  /\ shown = 0
  /\ seen = Nothing
  /\ signature = Nothing
  /\ buttons = TRUE

-----------------------------------------------------------------------------
(* start_run_async and rerun_full_run_async.                               *)

BugConfigure(k) ==
  /\ ui = "idle"
  /\ last < MaxRuns
  /\ ui' = "configured"
  /\ last' = last + 1
  /\ kind' = [kind EXCEPT ![last'] = k]
  /\ UNCHANGED <<limit, providers, runVars, task, error, told, windowVars>>

\* The form passes the guard on its own launch profile, whose limits are then
\* given to the orchestrator all runs share ...
Configure(k) ==
  /\ ui = "idle"
  /\ last < MaxRuns
  /\ ui' = "configured"
  /\ last' = last + 1
  /\ kind' = [kind EXCEPT ![last'] = k]
  /\ limit' = Limit(k)
  /\ UNCHANGED <<providers, runVars, task, error, told, windowVars>>

\* ... and then its providers overwrite the settings that all runs read.
ApplySettings ==
  /\ ui = "configured"
  /\ ui' = "applied"
  /\ providers' = kind[last]
  /\ UNCHANGED <<last, kind, limit, runVars, task, error, told, windowVars>>

\* The run is saved RUNNING, and only then may the rest of create_run raise.
CreateRun ==
  /\ ui = "applied"
  /\ disk' = [disk EXCEPT ![last] = "running"]
  /\ status' = [status EXCEPT ![last] = "running"]
  /\ \/ ui' = "created" /\ active' = last
     \/ "create" \in Faults /\ ui' = "idle" /\ UNCHANGED active
  /\ UNCHANGED <<startVars, event, asked, thread, workers, searching, raised,
                 task, error, told, shown, seen, signature, buttons>>

BugLaunch ==
  /\ ui = "created"
  /\ task' = last
  /\ error' = FALSE
  /\ thread' = [thread EXCEPT ![last] = "started"]
  /\ shown' = last
  /\ ui' = "refresh"
  /\ UNCHANGED <<startVars, disk, status, event, asked, workers, searching,
                 raised, told, active, seen, signature, buttons>>

\* A finished task that no poll has collected yet is simply replaced.
Launch ==
  /\ ui = "created"
  /\ ~Busy
  /\ task' = last
  /\ error' = FALSE
  /\ thread' = [thread EXCEPT ![last] = "started"]
  /\ shown' = last
  /\ ui' = "refresh"
  /\ UNCHANGED <<startVars, disk, status, event, asked, workers, searching,
                 raised, told, active, seen, signature, buttons>>

\* run_busy: by now the run is on disk and is the active one of its project.
Refuse ==
  /\ ui = "created"
  /\ Busy
  /\ ui' = "idle"
  /\ UNCHANGED <<startVars, runVars, task, error, told, windowVars>>

-----------------------------------------------------------------------------
(* Cancel, the history list, and the two kinds of refresh.                 *)

CancelClicked ==
  /\ ui = "idle"
  /\ shown # 0
  /\ asked' = [asked EXCEPT ![shown] = TRUE]
  /\ ui' = "asking"
  /\ UNCHANGED <<startVars, disk, status, event, thread, workers, searching,
                 raised, task, error, told, windowVars>>

CancelAnnounced ==
  /\ ui = "asking"
  /\ event' = [event EXCEPT ![shown] = "asked"]
  /\ ui' = "refresh"
  /\ UNCHANGED <<startVars, disk, status, asked, thread, workers, searching,
                 raised, task, error, told, windowVars>>

SelectHistory(r) ==
  /\ ui = "idle"
  /\ disk[r] # "absent"
  /\ shown' = r
  /\ ui' = "refresh"
  /\ UNCHANGED <<startVars, runVars, task, error, told, active, seen, signature,
                 buttons>>

BugFinalize ==
  IF task # 0 /\ event[task] \in Terminal
  THEN /\ told' = [told EXCEPT ![task] = IF error THEN "error" ELSE "verdict"]
       /\ task' = 0
       /\ error' = FALSE
  ELSE UNCHANGED <<task, error, told>>

\* _finalize_background_run_if_needed, at the head of every state it builds.
Finalize ==
  IF task # 0 /\ ~Busy
  THEN /\ told' = [told EXCEPT ![task] = IF error THEN "error" ELSE "verdict"]
       /\ task' = 0
       /\ error' = FALSE
  ELSE UNCHANGED <<task, error, told>>

Resolved == IF shown # 0 THEN shown ELSE active

\* An event that decides the status hides what run.json says, until another
\* event follows it.
EffectiveStatus(r) ==
  IF r = 0 THEN "none"
  ELSE IF event[r] = "started" THEN "running"
  ELSE IF event[r] \in Terminal THEN event[r]
  ELSE disk[r]

Refresh ==
  /\ ui = "refresh"
  /\ Finalize
  /\ shown' = Resolved
  /\ ui' = "paint"
  /\ UNCHANGED <<startVars, runVars, active, seen, signature, buttons>>

BugPaint ==
  /\ ui = "paint"
  /\ buttons' = (EffectiveStatus(shown) # "running")
  /\ ui' = "idle"
  /\ UNCHANGED <<startVars, runVars, task, error, told, active, shown, seen,
                 signature>>

Paint ==
  /\ ui = "paint"
  /\ buttons' = ~Busy
  /\ ui' = "idle"
  /\ UNCHANGED <<startVars, runVars, task, error, told, active, shown, seen,
                 signature>>

BugPoll ==
  /\ ui = "idle"
  /\ seen' = <<Resolved, EffectiveStatus(Resolved)>>
  /\ ui' = "polled"
  /\ UNCHANGED <<startVars, runVars, task, error, told, active, shown,
                 signature, buttons>>

\* _poll_refresh reads a live snapshot ...
Poll ==
  /\ ui = "idle"
  /\ Finalize
  /\ seen' = <<Resolved, EffectiveStatus(Resolved)>>
  /\ ui' = "polled"
  /\ UNCHANGED <<startVars, runVars, active, shown, signature, buttons>>

\* ... and applies it while the run goes on,
ApplySnapshot ==
  /\ ui = "polled"
  /\ seen[2] \notin Terminal \cup {"none"}
  /\ shown' = seen[1]
  /\ buttons' = ~Busy
  /\ signature' = Nothing
  /\ seen' = Nothing
  /\ ui' = "idle"
  /\ UNCHANGED <<startVars, runVars, task, error, told, active>>

\* or refreshes everything the first time it sees this end of this run.
PlanRefresh ==
  /\ ui = "polled"
  /\ seen[2] \in Terminal \cup {"none"}
  /\ ui' = IF seen # signature THEN "refresh" ELSE "idle"
  /\ signature' = seen
  /\ seen' = Nothing
  /\ UNCHANGED <<startVars, runVars, task, error, told, active, shown, buttons>>

-----------------------------------------------------------------------------
(* The thread of the run: MediaRunService.execute, then the task's error.  *)

\* _validate_storyblocks_concurrency: what the shared settings say now is
\* taken for the run, which must be serial if it is to search Storyblocks.
Guarded(r) ==
  /\ thread[r] = "started"
  /\ "storyblocks" \in Enabled(r) => limit <= 1
  /\ thread' = [thread EXCEPT ![r] = "guarded"]
  /\ UNCHANGED <<ui, startVars, disk, status, event, asked, workers, searching,
                 raised, task, error, told, windowVars>>

GuardRaises(r) ==
  /\ thread[r] = "started"
  /\ "storyblocks" \in Enabled(r) /\ limit > 1
  /\ thread' = [thread EXCEPT ![r] = "raised"]
  /\ raised' = raised \cup {r}
  /\ UNCHANGED <<ui, startVars, disk, status, event, asked, workers, searching,
                 task, error, told, windowVars>>

\* The orchestrator takes the limits of this moment.
Begin(r) ==
  /\ thread[r] = "guarded"
  /\ thread' = [thread EXCEPT ![r] = "working"]
  /\ event' = [event EXCEPT ![r] = "started"]
  /\ workers' = [workers EXCEPT ![r] = limit]
  /\ UNCHANGED <<ui, startVars, disk, status, asked, searching, raised, task,
                 error, told, windowVars>>

Progress(r) ==
  /\ thread[r] = "working"
  /\ event' = [event EXCEPT ![r] = "progress"]
  /\ UNCHANGED <<ui, startVars, disk, status, asked, thread, workers, searching,
                 raised, task, error, told, windowVars>>

\* A paragraph resolves its backends from the shared settings of this moment.
Search(r) ==
  /\ thread[r] = "working"
  /\ searching' = [searching EXCEPT ![r] = Enabled(r)]
  /\ UNCHANGED <<ui, startVars, disk, status, event, asked, thread, workers,
                 raised, task, error, told, windowVars>>

\* _finalize_run or _cancel_run announces the verdict before it is saved.
Verdict(r) ==
  /\ thread[r] = "working"
  /\ \E v \in Terminal :
       /\ v = "cancelled" => asked[r]
       /\ status' = [status EXCEPT ![r] = v]
       /\ event' = [event EXCEPT ![r] = v]
       /\ thread' = [thread EXCEPT ![r] =
                       IF v = "cancelled" THEN "saving" ELSE "measuring"]
  /\ searching' = [searching EXCEPT ![r] = {}]
  /\ UNCHANGED <<ui, startVars, disk, asked, workers, raised, task, error, told,
                 windowVars>>

\* run.perf follows the verdict of a run that was not cancelled.
Measure(r) ==
  /\ thread[r] = "measuring"
  /\ thread' = [thread EXCEPT ![r] = "saving"]
  /\ event' = [event EXCEPT ![r] = "perf"]
  /\ UNCHANGED <<ui, startVars, disk, status, asked, workers, searching, raised,
                 task, error, told, windowVars>>

Save(r) ==
  /\ thread[r] = "saving"
  /\ thread' = [thread EXCEPT ![r] = "closing"]
  /\ disk' = [disk EXCEPT ![r] = status[r]]
  /\ UNCHANGED <<ui, startVars, status, event, asked, workers, searching,
                 raised, task, error, told, windowVars>>

\* Reload, flush, release, and the browsers of the thread are closed.
Close(r) ==
  /\ thread[r] = "closing"
  /\ thread' = [thread EXCEPT ![r] = "returned"]
  /\ UNCHANGED <<ui, startVars, disk, status, event, asked, workers, searching,
                 raised, task, error, told, windowVars>>

Raise(r) ==
  /\ \/ "execute" \in Faults /\ thread[r] \in {"working", "saving"}
     \/ "close" \in Faults /\ thread[r] = "closing"
  /\ thread' = [thread EXCEPT ![r] = "raised"]
  /\ raised' = raised \cup {r}
  /\ searching' = [searching EXCEPT ![r] = {}]
  /\ UNCHANGED <<ui, startVars, disk, status, event, asked, workers, task,
                 error, told, windowVars>>

\* _run_background_task stores the outcome in whatever the task is by now.
StoreError(r) ==
  /\ thread[r] \in {"returned", "raised"}
  /\ thread' = [thread EXCEPT ![r] = "ending"]
  /\ error' = IF task # 0 THEN thread[r] = "raised" ELSE error
  /\ UNCHANGED <<ui, startVars, disk, status, event, asked, workers, searching,
                 raised, task, told, windowVars>>

End(r) ==
  /\ thread[r] = "ending"
  /\ thread' = [thread EXCEPT ![r] = "ended"]
  /\ UNCHANGED <<ui, startVars, disk, status, event, asked, workers, searching,
                 raised, task, error, told, windowVars>>

-----------------------------------------------------------------------------
(* The specification.                                                      *)

Window ==
  \/ ApplySettings \/ CreateRun \/ Launch \/ Refuse
  \/ CancelAnnounced
  \/ Refresh \/ Paint
  \/ Poll \/ ApplySnapshot \/ PlanRefresh

Click ==
  \/ \E k \in Forms : Configure(k)
  \/ CancelClicked
  \/ \E r \in Runs : SelectHistory(r)

Thread(r) ==
  \/ Guarded(r) \/ GuardRaises(r) \/ Begin(r)
  \/ Verdict(r) \/ Measure(r) \/ Save(r) \/ Close(r)
  \/ StoreError(r) \/ End(r)

Next ==
  \/ Window
  \/ Click
  \/ \E r \in Runs : Thread(r) \/ Progress(r) \/ Search(r) \/ Raise(r)

Spec == Init /\ [][Next]_vars

\* The event loop finishes its handlers and the poll timer keeps firing; the
\* thread is scheduled, and execute reaches a verdict (RunOrchestrator,
\* RunFinishes). Nobody has to click.
FairSpec ==
  /\ Spec
  /\ WF_vars(Window)
  /\ \A r \in Runs : WF_vars(Thread(r))

-----------------------------------------------------------------------------
(* Properties.                                                             *)

Threads == {"none", "started", "guarded", "working", "measuring", "saving",
            "closing", "returned", "raised", "ending", "ended"}
Statuses == {"absent", "running"} \cup Terminal
Events == {"none", "started", "progress", "perf", "asked"} \cup Terminal
Sightings == (0..MaxRuns) \X (Statuses \cup {"none"})

\* Types of the state of the controller, its window and the runs.
TypeOK ==
  /\ ui \in {"idle", "configured", "applied", "created", "asking", "refresh",
             "paint", "polled"}
  /\ last \in 0..MaxRuns /\ limit \in {1, FreeWorkers}
  /\ kind \in [Runs -> SUBSET Sources] /\ providers \in Forms
  /\ disk \in [Runs -> Statuses] /\ status \in [Runs -> Statuses]
  /\ event \in [Runs -> Events] /\ asked \in [Runs -> BOOLEAN]
  /\ thread \in [Runs -> Threads] /\ raised \subseteq Runs
  /\ workers \in [Runs -> {0, 1, FreeWorkers}]
  /\ searching \in [Runs -> SUBSET Sources]
  /\ task \in 0..last /\ error \in BOOLEAN
  /\ told \in [Runs -> {"none", "error", "verdict"}]
  /\ active \in 0..last /\ shown \in 0..last
  /\ seen \in Sightings /\ signature \in Sightings
  /\ buttons \in BOOLEAN

\* The only run that a thread works on is the one the controller knows, so two
\* runs never share the browser, and an error is stored with its own run.
OnlyTheTaskIsAlive ==
  \A r \in Runs : Alive(r) => task = r

\* Whenever the user can click, the session buttons are disabled while the
\* thread of a run lives, also after its verdict, while it closes its browsers.
ButtonsLockedWhileRunning ==
  ui = "idle" /\ buttons => \A r \in Runs : ~Alive(r)

\* The user is told that a run finished only when run.json has its verdict, and
\* that it broke only when its own execute raised.
NotificationsAreTrue ==
  \A r \in Runs :
    /\ told[r] = "verdict" => disk[r] \in Terminal /\ r \notin raised
    /\ told[r] = "error" => r \in raised

\* A run that no later start interfered with works with the limits of its own
\* form and searches the sources of its form, all of them, whatever was
\* configured and refused before it.
LimitsAreTheForms ==
  last # 0 =>
    /\ workers[last] # 0 => workers[last] = Limit(kind[last])
    /\ searching[last] # {} => searching[last] = kind[last]

\* Every launched run is announced some time after it ends, unless a new run
\* took the place of its task before a poll came.
EndedRunIsAnnounced ==
  \A r \in Runs : task = r ~> (told[r] # "none" \/ task \notin {0, r})

\* Paragraphs that search Storyblocks are processed one at a time. Broken: the
\* limits and the providers are shared, and a second start, to be refused, sets
\* its own limits before its own providers.
StoryblocksRunsSerially ==
  \A r \in Runs : "storyblocks" \in searching[r] => workers[r] <= 1

\* The error of a background run is surfaced through polling. Broken: a start
\* between the end of the thread and the next poll replaces the task.
ErrorsAreSurfaced ==
  \A r \in raised : thread[r] = "ended" /\ task # r => told[r] = "error"
=============================================================================
