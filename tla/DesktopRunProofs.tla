-------------------------- MODULE DesktopRunProofs --------------------------
(***************************************************************************)
(* Proofs about DesktopRun, for any number of starts, any launch profile   *)
(* and any set of faults.                                                  *)
(*                                                                         *)
(* What the user sees depends on where the thread of the run is, which the *)
(* properties do not mention. IInv says what each place of the thread      *)
(* implies for the records it has written, what the controller may have    *)
(* forgotten by then, and which run the shared limits belong to.           *)
(***************************************************************************)
EXTENDS DesktopRun, TLAPS

\* A run whose start is in hand, or that was never asked for, has no thread.
StartInv ==
  /\ ui \in {"configured", "applied", "created"} =>
       last \in Runs /\ thread[last] = "none"
  /\ ui = "configured" => kind[last] \in Forms
  /\ \A r \in Runs : r > last => thread[r] = "none" /\ disk[r] = "absent"
  /\ task # 0 => thread[task] # "none"
  /\ seen[1] <= last

\* The buttons are enabled only while no thread lives, except between a launch
\* and the repaint that the same handler ends with.
ButtonInv ==
  buttons /\ ui \notin {"refresh", "paint"} => \A r \in Runs : ~Alive(r)

\* What the thread of a run has left behind on its way.
ThreadInv ==
  \A r \in Runs :
    /\ thread[r] \in {"measuring", "saving"} => status[r] \in Terminal
    /\ thread[r] \in {"closing", "returned"} => disk[r] \in Terminal
    /\ thread[r] \in {"ending", "ended"} /\ r \notin raised =>
         disk[r] \in Terminal
    /\ r \in raised => thread[r] \in {"raised", "ending", "ended"}
    /\ thread[r] = "raised" => r \in raised
    /\ thread[r] \in {"none", "started", "guarded"} => workers[r] = 0
    /\ thread[r] # "working" => searching[r] = {}

\* The error kept with a task that is over is the error of its own run, and the
\* user was told only of runs that are over, and the truth.
TellInv ==
  /\ task # 0 /\ thread[task] \in {"ending", "ended"} =>
       (error <=> task \in raised)
  /\ \A r \in Runs : told[r] # "none" =>
       thread[r] = "ended" /\ (told[r] = "error" <=> r \in raised)

\* The shared limits are those of the run created last, and so are the shared
\* providers once its start has come to them.
LimitInv ==
  last # 0 =>
    /\ limit = Limit(kind[last])
    /\ workers[last] \in {0, limit}
    /\ ui # "configured" => providers = kind[last]
    /\ searching[last] \in {{}, kind[last]}

IInv ==
  /\ TypeOK
  /\ OnlyTheTaskIsAlive
  /\ StartInv
  /\ ButtonInv
  /\ ThreadInv
  /\ TellInv
  /\ LimitInv

-----------------------------------------------------------------------------

\* The status a poll computes is one of the statuses of run.json, or none.
LEMMA EffectiveStatusType ==
  ASSUME TypeOK, NEW r \in 0..MaxRuns
  PROVE  EffectiveStatus(r) \in Statuses \cup {"none"}
  BY RunsAssumption DEF TypeOK, EffectiveStatus, Statuses, Runs, Terminal

\* Finishing a task forgets it and tells the user about a run that is over.
LEMMA FinalizeType ==
  ASSUME TypeOK, Finalize
  PROVE  /\ task' \in 0..last /\ error' \in BOOLEAN
         /\ told' \in [Runs -> {"none", "error", "verdict"}]
<1>1. last \in Nat /\ (task # 0 => task \in Runs)
  BY RunsAssumption DEF TypeOK, Runs
<1>2. CASE task # 0 /\ ~Busy
  <2> DEFINE end == IF error THEN "error" ELSE "verdict"
  <2>1. end \in {"none", "error", "verdict"}
    OBVIOUS
  <2>2. task' = 0 /\ error' = FALSE /\ told' = [told EXCEPT ![task] = end]
    BY <1>2 DEF Finalize
  <2> HIDE DEF end
  <2>3. told' \in [Runs -> {"none", "error", "verdict"}]
    BY <2>1, <2>2 DEF TypeOK
  <2>4. task' \in 0..last
    BY <1>1, <2>2
  <2> QED
    BY <2>2, <2>3, <2>4
<1>3. CASE ~(task # 0 /\ ~Busy)
  BY <1>3 DEF TypeOK, Finalize
<1> QED
  BY <1>2, <1>3

\* What the window shows is a run that was created.
LEMMA ResolvedType ==
  ASSUME TypeOK
  PROVE  Resolved \in 0..last /\ last \in 0..MaxRuns
  BY DEF TypeOK, Resolved

\* Having seen nothing is something a poll can have seen.
LEMMA NothingSeen == Nothing \in Sightings /\ Nothing[1] = 0
  BY RunsAssumption DEF Nothing, Sightings

LEMMA InitIInv == Init => IInv
<1> SUFFICES ASSUME Init PROVE IInv
  OBVIOUS
<1> USE RunsAssumption, WorkersAssumption, FormsAssumption DEF Init, Runs
<1>1. TypeOK
  <2>1. /\ disk \in [Runs -> Statuses] /\ status \in [Runs -> Statuses]
        /\ event \in [Runs -> Events] /\ asked \in [Runs -> BOOLEAN]
        /\ thread \in [Runs -> Threads]
        /\ workers \in [Runs -> {0, 1, FreeWorkers}]
    BY DEF Statuses, Events, Threads
  <2>2. /\ kind \in [Runs -> SUBSET Sources] /\ providers \in Forms
        /\ searching \in [Runs -> SUBSET Sources]
        /\ told \in [Runs -> {"none", "error", "verdict"}]
    OBVIOUS
  <2>3. 0 \in 0..MaxRuns /\ 0 \in 0..0
    OBVIOUS
  <2>4. /\ last = 0 /\ task = 0 /\ active = 0 /\ shown = 0 /\ limit = 1
        /\ raised = {} /\ ui = "idle" /\ seen = Nothing /\ signature = Nothing
        /\ error \in BOOLEAN /\ buttons \in BOOLEAN
    OBVIOUS
  <2> QED
    BY <2>1, <2>2, <2>3, <2>4, NothingSeen, Zenon DEF TypeOK
<1>2. OnlyTheTaskIsAlive /\ ButtonInv
  BY DEF OnlyTheTaskIsAlive, ButtonInv, Alive
<1>3. StartInv /\ ThreadInv /\ TellInv /\ LimitInv
  BY NothingSeen DEF StartInv, ThreadInv, TellInv, LimitInv
<1> QED
  BY <1>1, <1>2, <1>3 DEF IInv

-----------------------------------------------------------------------------
(* The steps of the window.                                                *)

LEMMA ConfigureIInv ==
  ASSUME IInv, NEW k \in Forms, Configure(k)
  PROVE  IInv'
<1> USE RunsAssumption, WorkersAssumption, FormsAssumption
    DEF Configure, Runs, runVars, windowVars
<1>1. TypeOK'
  BY DEF IInv, TypeOK, Limit, Sightings
<1>2. OnlyTheTaskIsAlive' /\ ButtonInv'
  BY DEF IInv, OnlyTheTaskIsAlive, ButtonInv, Alive
<1>3. StartInv'
  BY DEF IInv, StartInv, TypeOK, Sightings
<1>4. ThreadInv' /\ TellInv'
  BY DEF IInv, ThreadInv, TellInv
<1>5. LimitInv'
  <2>1. last' \in Runs /\ kind'[last'] = k
    BY DEF IInv, TypeOK
  <2>2. workers[last'] = 0 /\ searching[last'] = {}
    BY <2>1 DEF IInv, TypeOK, StartInv, ThreadInv
  <2> QED
    BY <2>1, <2>2 DEF LimitInv, Limit
<1> QED
  BY <1>1, <1>2, <1>3, <1>4, <1>5 DEF IInv

LEMMA ApplySettingsIInv ==
  ASSUME IInv, ApplySettings
  PROVE  IInv'
<1> USE RunsAssumption DEF ApplySettings, Runs, runVars, windowVars
<1>0. last \in Runs /\ thread[last] = "none" /\ kind[last] \in Forms
  BY DEF IInv, StartInv
<1>1. TypeOK'
  BY <1>0 DEF IInv, TypeOK, Sightings
<1>2. OnlyTheTaskIsAlive' /\ ButtonInv'
  BY DEF IInv, OnlyTheTaskIsAlive, ButtonInv, Alive
<1>3. StartInv'
  BY <1>0 DEF IInv, StartInv
<1>4. ThreadInv' /\ TellInv'
  BY DEF IInv, ThreadInv, TellInv
<1>5. LimitInv'
  BY DEF IInv, LimitInv, Limit
<1> QED
  BY <1>1, <1>2, <1>3, <1>4, <1>5 DEF IInv

LEMMA CreateRunIInv ==
  ASSUME IInv, CreateRun
  PROVE  IInv'
<1> USE RunsAssumption DEF CreateRun, Runs, startVars
<1>0. last \in Runs /\ thread[last] = "none"
  BY DEF IInv, StartInv
<1>1. TypeOK'
  BY <1>0 DEF IInv, TypeOK, Statuses, Sightings
<1>2. OnlyTheTaskIsAlive' /\ ButtonInv'
  BY DEF IInv, OnlyTheTaskIsAlive, ButtonInv, Alive
<1>3. StartInv'
  BY <1>0 DEF IInv, StartInv, TypeOK
<1>4. ThreadInv'
  BY <1>0 DEF IInv, ThreadInv, TypeOK
<1>5. TellInv' /\ LimitInv'
  BY DEF IInv, TellInv, LimitInv, Limit
<1> QED
  BY <1>1, <1>2, <1>3, <1>4, <1>5 DEF IInv

LEMMA LaunchIInv ==
  ASSUME IInv, Launch
  PROVE  IInv'
<1> USE RunsAssumption DEF Launch, Runs, startVars
<1>0. last \in Runs /\ thread[last] = "none"
  BY DEF IInv, StartInv
<1>1. \A r \in Runs : ~Alive(r)
  BY DEF IInv, OnlyTheTaskIsAlive, Busy
<1>2. TypeOK'
  <2>1. "started" \in Threads /\ last \in 0..last
    BY <1>0 DEF Threads
  <2> QED
    BY <2>1 DEF IInv, TypeOK
<1>3. OnlyTheTaskIsAlive' /\ ButtonInv'
  BY <1>0, <1>1 DEF IInv, TypeOK, OnlyTheTaskIsAlive, ButtonInv, Alive
<1>4. StartInv'
  BY <1>0 DEF IInv, StartInv, TypeOK
<1>5. ThreadInv'
  BY <1>0 DEF IInv, ThreadInv, TypeOK
<1>6. TellInv'
  BY <1>0 DEF IInv, TellInv, TypeOK
<1>7. LimitInv'
  BY DEF IInv, LimitInv, Limit
<1> QED
  BY <1>2, <1>3, <1>4, <1>5, <1>6, <1>7 DEF IInv

\* Steps that touch nothing but the window: what it shows, where it is, and
\* what the user asked for.
LEMMA LookIInv ==
  ASSUME IInv,
         \/ Refuse \/ CancelClicked \/ CancelAnnounced
         \/ (\E r \in Runs : SelectHistory(r))
         \/ PlanRefresh
  PROVE  IInv'
<1> USE RunsAssumption
    DEF Refuse, CancelClicked, CancelAnnounced, SelectHistory, PlanRefresh,
        startVars, runVars, windowVars
<1>1. TypeOK'
  <2>1. ASSUME NEW r \in Runs, SelectHistory(r)
        PROVE  r \in 0..last
    BY <2>1 DEF IInv, StartInv, TypeOK, Runs
  <2> QED
    BY <2>1, NothingSeen DEF IInv, TypeOK, Runs, Events
<1>2. OnlyTheTaskIsAlive' /\ ButtonInv'
  BY DEF IInv, OnlyTheTaskIsAlive, ButtonInv, Alive
<1>3. StartInv'
  BY NothingSeen DEF IInv, StartInv, TypeOK
<1>4. ThreadInv' /\ TellInv' /\ LimitInv'
  BY DEF IInv, ThreadInv, TellInv, LimitInv, Limit
<1> QED
  BY <1>1, <1>2, <1>3, <1>4 DEF IInv

\* Collecting the task of a run that is over keeps what the user is told true.
LEMMA FinalizeIInv ==
  ASSUME IInv, Finalize, UNCHANGED <<startVars, runVars>>
  PROVE  OnlyTheTaskIsAlive' /\ TellInv' /\ (task' # 0 => task' = task)
<1> USE RunsAssumption DEF startVars, runVars
<1>1. CASE task # 0 /\ ~Busy
  <2>1. task \in Runs /\ thread[task] = "ended"
    BY <1>1 DEF IInv, TypeOK, StartInv, Busy, Alive, Runs
  <2>2. /\ task' = 0
        /\ told' = [told EXCEPT ![task] = IF error THEN "error" ELSE "verdict"]
    BY <1>1 DEF Finalize
  <2>3. \A r \in Runs : ~Alive(r)
    BY <1>1 DEF IInv, OnlyTheTaskIsAlive, Busy
  <2> QED
    BY <1>1, <2>1, <2>2, <2>3
    DEF IInv, TypeOK, TellInv, OnlyTheTaskIsAlive, Alive
<1>2. CASE ~(task # 0 /\ ~Busy)
  BY <1>2 DEF IInv, TellInv, OnlyTheTaskIsAlive, Alive, Finalize
<1> QED
  BY <1>1, <1>2

LEMMA RefreshIInv ==
  ASSUME IInv, Refresh
  PROVE  IInv'
<1>1. OnlyTheTaskIsAlive' /\ TellInv' /\ (task' # 0 => task' = task)
  BY FinalizeIInv DEF Refresh
<1> USE DEF startVars, runVars, Refresh
<1>2. TypeOK'
  BY FinalizeType, ResolvedType DEF IInv, TypeOK
<1>3. ButtonInv' /\ StartInv'
  BY <1>1 DEF IInv, ButtonInv, StartInv
<1>4. ThreadInv' /\ LimitInv'
  BY DEF IInv, ThreadInv, LimitInv, Limit
<1> QED
  BY <1>1, <1>2, <1>3, <1>4 DEF IInv

LEMMA PollIInv ==
  ASSUME IInv, Poll
  PROVE  IInv'
<1>1. OnlyTheTaskIsAlive' /\ TellInv' /\ (task' # 0 => task' = task)
  BY FinalizeIInv DEF Poll
<1> USE DEF startVars, runVars, Poll
<1>2. Resolved \in 0..last /\ Resolved \in 0..MaxRuns
  BY ResolvedType, RunsAssumption DEF IInv
<1>3. EffectiveStatus(Resolved) \in Statuses \cup {"none"}
  BY <1>2, EffectiveStatusType DEF IInv
<1>4. TypeOK'
  BY <1>2, <1>3, FinalizeType DEF IInv, TypeOK, Sightings
<1>5. ButtonInv' /\ StartInv'
  BY <1>1, <1>2 DEF IInv, ButtonInv, StartInv, Alive
<1>6. ThreadInv' /\ LimitInv'
  BY DEF IInv, ThreadInv, LimitInv, Limit
<1> QED
  BY <1>1, <1>4, <1>5, <1>6 DEF IInv

\* Painting enables the buttons only when the task, hence every thread, is over.
LEMMA PaintIInv ==
  ASSUME IInv, Paint \/ ApplySnapshot
  PROVE  IInv'
<1> USE RunsAssumption DEF Paint, ApplySnapshot, startVars, runVars
<1>1. TypeOK'
  <2>1. seen[1] \in 0..last
    BY DEF IInv, TypeOK, StartInv, Sightings
  <2> QED
    BY <2>1, NothingSeen DEF IInv, TypeOK
<1>2. buttons' => \A r \in Runs : ~Alive(r)
  <2>1. ~Busy => \A r \in Runs : ~Alive(r)
    BY DEF IInv, OnlyTheTaskIsAlive, Busy, Runs
  <2> QED
    BY <2>1
<1>3. OnlyTheTaskIsAlive' /\ ButtonInv'
  BY <1>2 DEF IInv, OnlyTheTaskIsAlive, ButtonInv, Alive
<1>4. StartInv'
  BY NothingSeen DEF IInv, StartInv, TypeOK
<1>5. ThreadInv' /\ TellInv' /\ LimitInv'
  BY DEF IInv, ThreadInv, TellInv, LimitInv, Limit
<1> QED
  BY <1>1, <1>3, <1>4, <1>5 DEF IInv

-----------------------------------------------------------------------------
(* The steps of a run's thread: it lived before, and is the task.          *)

LEMMA ThreadIInv ==
  ASSUME IInv, NEW r \in Runs,
         Thread(r) \/ Progress(r) \/ Search(r) \/ Raise(r)
  PROVE  IInv'
<1> USE RunsAssumption, WorkersAssumption
    DEF Thread, Guarded, GuardRaises, Begin, Progress, Search, Verdict, Measure,
        Save, Close, Raise, StoreError, End, startVars, windowVars
<1>1. task = r /\ Alive(r)
  BY DEF IInv, OnlyTheTaskIsAlive, Alive
<1>2. /\ \A q \in Runs \ {r} : thread'[q] = thread[q]
      /\ thread'[r] # "none"
  BY <1>1 DEF IInv, TypeOK, Alive
<1>3. TypeOK'
  <2>1. thread' \in [Runs -> Threads] /\ event' \in [Runs -> Events]
    BY DEF IInv, TypeOK, Threads, Events, Terminal
  <2>2. disk' \in [Runs -> Statuses] /\ status' \in [Runs -> Statuses]
    BY DEF IInv, TypeOK, Statuses, Terminal
  <2>3. /\ workers' \in [Runs -> {0, 1, FreeWorkers}] /\ raised' \subseteq Runs
        /\ error' \in BOOLEAN
    BY DEF IInv, TypeOK
  <2>4. searching' \in [Runs -> SUBSET Sources]
    BY DEF IInv, TypeOK, Enabled
  <2>5. UNCHANGED <<ui, last, kind, limit, providers, asked, task, told, active,
                    shown, seen, signature, buttons>>
    OBVIOUS
  <2> QED
    BY <2>1, <2>2, <2>3, <2>4, <2>5 DEF IInv, TypeOK
<1>4. OnlyTheTaskIsAlive' /\ ButtonInv'
  BY <1>1, <1>2 DEF IInv, OnlyTheTaskIsAlive, ButtonInv, Alive
<1>5. StartInv'
  <2>1. r <= last
    BY <1>1 DEF IInv, TypeOK, Runs
  <2>2. ui \in {"configured", "applied", "created"} => last # r
    BY <1>1 DEF IInv, StartInv, Alive
  <2>3. \A q \in Runs : q > last => disk'[q] = disk[q]
    BY <2>1 DEF IInv, TypeOK, Runs
  <2> QED
    BY <1>1, <1>2, <2>1, <2>2, <2>3 DEF IInv, StartInv, TypeOK, Runs
<1>6. ThreadInv'
  BY <1>1 DEF IInv, ThreadInv, TypeOK, Alive, Terminal
<1>7. TellInv'
  <2>1. task' = r /\ told' = told /\ told[r] = "none"
    BY <1>1 DEF IInv, TellInv, TypeOK, Alive
  <2>2. raised \subseteq raised' /\ raised' \subseteq raised \cup {r}
    OBVIOUS
  <2>3. thread'[r] \in {"ending", "ended"} => (error' <=> r \in raised')
    <3>1. CASE StoreError(r)
      <4>0. task # 0
        BY <1>1 DEF Runs
      <4>1. (error' <=> thread[r] = "raised") /\ raised' = raised
        BY <3>1, <4>0, Zenon
      <4>2. thread[r] = "raised" <=> r \in raised
        BY <3>1 DEF IInv, ThreadInv
      <4> QED
        BY <4>1, <4>2
    <3>2. CASE End(r)
      <4>1. error' = error /\ raised' = raised /\ thread[r] = "ending"
        BY <3>2
      <4>2. error <=> r \in raised
        BY <4>1, <1>1 DEF IInv, TellInv, Runs
      <4> QED
        BY <4>1, <4>2
    <3>3. CASE ~StoreError(r) /\ ~End(r)
      BY <3>3, <1>1 DEF IInv, TypeOK
    <3> QED
      BY <3>1, <3>2, <3>3
  <2> QED
    BY <1>1, <1>2, <2>1, <2>2, <2>3 DEF IInv, TellInv, TypeOK
<1>8. LimitInv'
  <2>1. ui = "configured" => last # r
    BY <1>1 DEF IInv, StartInv, Alive
  <2>2. last # 0 => last \in Runs
    BY DEF IInv, TypeOK, Runs
  <2>3. last # 0 => workers'[last] \in {0, limit}
    BY <2>2 DEF IInv, LimitInv, TypeOK
  <2>4. last # 0 => searching'[last] \in {{}, kind[last]}
    <3>1. CASE Search(r)
      <4>1. last = r => providers = kind[r]
        BY <2>1 DEF IInv, LimitInv, Runs
      <4>2. last = r => searching'[last] = kind[last] \cap providers
        BY <3>1 DEF IInv, TypeOK, Enabled
      <4>3. last # r => searching'[last] = searching[last]
        BY <3>1 DEF IInv, TypeOK
      <4> QED
        BY <4>1, <4>2, <4>3 DEF IInv, LimitInv
    <3>2. CASE ~Search(r)
      <4>1. last # 0 => searching'[last] \in {searching[last], {}}
        BY <2>2, <3>2 DEF IInv, TypeOK
      <4> QED
        BY <4>1 DEF IInv, LimitInv
    <3> QED
      BY <3>1, <3>2
  <2> QED
    BY <2>3, <2>4 DEF IInv, LimitInv, Limit
<1> QED
  BY <1>3, <1>4, <1>5, <1>6, <1>7, <1>8 DEF IInv

-----------------------------------------------------------------------------

LEMMA StutterIInv ==
  ASSUME IInv, UNCHANGED vars
  PROVE  IInv'
<1> USE DEF vars
<1>1. TypeOK' /\ OnlyTheTaskIsAlive' /\ ButtonInv'
  BY DEF IInv, TypeOK, OnlyTheTaskIsAlive, ButtonInv, Alive
<1>2. StartInv' /\ ThreadInv' /\ TellInv' /\ LimitInv'
  BY DEF IInv, StartInv, ThreadInv, TellInv, LimitInv, Limit
<1> QED
  BY <1>1, <1>2 DEF IInv

LEMMA NextIInv == IInv /\ [Next]_vars => IInv'
<1> SUFFICES ASSUME IInv, [Next]_vars PROVE IInv'
  OBVIOUS
<1>1. CASE Window
  BY <1>1, ApplySettingsIInv, CreateRunIInv, LaunchIInv, LookIInv,
     RefreshIInv, PaintIInv, PollIInv
  DEF Window
<1>2. CASE Click
  BY <1>2, ConfigureIInv, LookIInv DEF Click
<1>3. CASE \E r \in Runs :
             Thread(r) \/ Progress(r) \/ Search(r) \/ Raise(r)
  BY <1>3, ThreadIInv
<1>4. CASE UNCHANGED vars
  BY <1>4, StutterIInv
<1> QED
  BY <1>1, <1>2, <1>3, <1>4 DEF Next

LEMMA Invariance == Spec => []IInv
  BY InitIInv, NextIInv, PTL DEF Spec

\* The state of the controller, the window and the run's thread keeps its types:
\* no poll computes a status of a run that does not exist.
THEOREM DesktopTypes == Spec => []TypeOK
  BY Invariance, PTL DEF IInv

\* Whatever the user clicks and whatever raises, no two runs have live threads,
\* and the live one is the task the controller refuses others for.
THEOREM OneThreadAtATime == Spec => []OnlyTheTaskIsAlive
  BY Invariance, PTL DEF IInv

\* The session buttons cannot be clicked while the thread of any run lives.
THEOREM ButtonsAreLocked == Spec => []ButtonsLockedWhileRunning
<1>1. IInv => ButtonsLockedWhileRunning
  BY DEF IInv, ButtonInv, ButtonsLockedWhileRunning
<1> QED
  BY <1>1, Invariance, PTL

\* A finish notification is backed by run.json, an error notification by the
\* exception of the same run.
THEOREM NotificationsAreBacked == Spec => []NotificationsAreTrue
<1>1. IInv => NotificationsAreTrue
  BY DEF IInv, TellInv, ThreadInv, NotificationsAreTrue
<1> QED
  BY <1>1, Invariance, PTL

\* The newest run works with the limits and searches the sources of its own
\* form, whatever is refused or configured before it.
THEOREM NewestRunHasItsLimits == Spec => []LimitsAreTheForms
<1>1. IInv => LimitsAreTheForms
  BY DEF IInv, TypeOK, LimitInv, LimitsAreTheForms
<1> QED
  BY <1>1, Invariance, PTL
=============================================================================
