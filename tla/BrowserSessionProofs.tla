------------------------ MODULE BrowserSessionProofs ------------------------
(***************************************************************************)
(* Proofs about BrowserSession, for any number of starts of the program.   *)
(*                                                                         *)
(* Whether a browser may be launched on the profile is read some steps     *)
(* before it is: IInv says which sessions can exist while the window or    *)
(* the run is in the middle of something, so that nothing can come between.*)
(* It also has to follow sessions that the manager forgot.                 *)
(***************************************************************************)
EXTENDS BrowserSession, TLAPS

\* A session of the window lives only while a check of its is in hand, during
\* which no run has a thread; nothing lives when the program does not run.
ThreadInv ==
  /\ \A s \in live \cup {active} :
       /\ s.owner = "ui" => ui = "checking"
       /\ s = active \/ s.owner = "run"
  /\ ui = "checking" => run = "none" /\ active.owner = "ui"
  /\ ui = "down" => run = "none" /\ live = {} /\ ~native /\ starts < MaxStarts

\* What the manager knows of lives, and a run that opens a browser knows what for
\* and has not lost it before it is published.
KnownInv ==
  /\ active # NoSession => active \in live
  /\ active.owner = "run" => run # "none"
  /\ run = "publish" => held \in live /\ held.owner = "run"
  /\ run \in {"check", "open", "attach", "launch", "publish"} => goal \in Goals

ProfileInv == OneBrowserPerProfile /\ ContextsHoldTheLock

\* A ready health, in memory or on disk, has the last word behind it.
VouchInv ==
  /\ health = "ready" => evidence = "ready"
  /\ stored = "ready" => evidence = "ready"
  /\ CandidatesAreVouchedFor

IInv ==
  /\ TypeOK
  /\ ThreadInv
  /\ KnownInv
  /\ ProfileInv
  /\ VouchInv

-----------------------------------------------------------------------------

\* The five values a session variable may have, told apart.
LEMMA SessionTypes ==
  /\ \A s \in Sessions : /\ s # NoSession
                         /\ s.kind \in {"context", "attach"}
                         /\ s.owner \in {"ui", "run"}
  /\ \A s, t \in Sessions : s.kind = t.kind /\ s.owner = t.owner => s = t
  /\ NoSession.kind = "none" /\ NoSession.owner = "none"
  BY DEF Sessions, NoSession

LEMMA InitIInv == Init => IInv
<1> SUFFICES ASSUME Init PROVE IInv
  OBVIOUS
<1>1. TypeOK
  <2>1. 1 \in 1..MaxStarts
    BY StartsAssumption
  <2> QED
    BY <2>1 DEF Init, TypeOK, Healths
<1>2. ThreadInv /\ KnownInv
  BY SessionTypes DEF Init, ThreadInv, KnownInv
<1>3. ProfileInv /\ VouchInv
  BY DEF Init, ProfileInv, VouchInv, OneBrowserPerProfile, ContextsHoldTheLock,
         CandidatesAreVouchedFor
<1> QED
  BY <1>1, <1>2, <1>3 DEF IInv

\* The health and the evidence for it: all that a step does to them keeps what
\* is ready vouched for.
LEMMA HealthSteps ==
  ASSUME TypeOK, VouchInv,
         \/ UNCHANGED healthVars
         \/ \E h \in Healths : Says(h) /\ override' \in BOOLEAN
         \/ \E v \in Verdicts : Judge(v) \/ Reject(v)
         \/ /\ health' = "login" /\ stored' \in {stored, "login"}
            /\ override' \in BOOLEAN /\ evidence' = evidence
         \/ /\ health' = stored /\ override' = FALSE
            /\ UNCHANGED <<stored, evidence>>
  PROVE  /\ health' \in Healths /\ stored' \in Healths /\ evidence' \in Healths
         /\ override' \in BOOLEAN
         /\ health' = "ready" => evidence' = "ready"
         /\ stored' = "ready" => evidence' = "ready"
  BY DEF TypeOK, VouchInv, healthVars, Says, Judge, Judged, Reject, Healths,
         Verdicts

-----------------------------------------------------------------------------
(* The buttons.                                                            *)

LEMMA ButtonsIInv ==
  ASSUME IInv, Buttons
  PROVE  IInv'
<1> USE SessionTypes DEF IInv
<1>1. CASE PrepareLogin
  <2> USE <1>1 DEF PrepareLogin, Button
  <2>1. active = NoSession \/ active.owner = "ui"
    BY DEF CloseOwn, TypeOK
  <2>2. active = NoSession
    BY <2>1 DEF ThreadInv, TypeOK
  <2>3. active' = NoSession /\ live' = live /\ (lock' <=> lock) /\ lock' \in BOOLEAN
    BY <2>2 DEF CloseOwn, TypeOK
  <2>4. window' => window \/ \A s \in live : s.kind # "context"
    BY <2>3 DEF Taken
  <2>5. /\ health' \in Healths /\ stored' \in Healths /\ evidence' \in Healths
        /\ override' \in BOOLEAN
        /\ health' = "ready" => evidence' = "ready"
        /\ stored' = "ready" => evidence' = "ready"
    <3>1. UNCHANGED healthVars \/ (Says("login") /\ UNCHANGED override)
      OBVIOUS
    <3> QED
      BY <3>1, HealthSteps DEF TypeOK, Healths
  <2>6. native' \in BOOLEAN /\ window' \in BOOLEAN
    BY DEF TypeOK
  <2> QED
    BY <2>2, <2>3, <2>4, <2>5, <2>6
    DEF TypeOK, ThreadInv, KnownInv, ProfileInv, OneBrowserPerProfile,
        ContextsHoldTheLock, VouchInv, CandidatesAreVouchedFor
<1>2. CASE MarkReady \/ ClearOverride
  <2> USE <1>2 DEF MarkReady, ClearOverride, Button
  <2>1. /\ health' \in Healths /\ stored' \in Healths /\ evidence' \in Healths
        /\ override' \in BOOLEAN
        /\ health' = "ready" => evidence' = "ready"
        /\ stored' = "ready" => evidence' = "ready"
    BY DEF TypeOK, VouchInv, Healths, Says
  <2>2. TypeOK' /\ VouchInv'
    BY <2>1 DEF TypeOK, VouchInv, CandidatesAreVouchedFor, Running
  <2>3. ThreadInv' /\ KnownInv' /\ ProfileInv'
    BY DEF ThreadInv, KnownInv, ProfileInv, OneBrowserPerProfile,
           ContextsHoldTheLock
  <2> QED
    BY <2>2, <2>3
<1>3. CASE Logout \/ ResetSession
  <2> USE <1>3 DEF Logout, ResetSession, Button
  <2>1. active = NoSession
    BY DEF CloseOwn, TypeOK, ThreadInv
  <2>2. active' = NoSession /\ live' = live /\ (lock' <=> lock) /\ lock' \in BOOLEAN
    BY <2>1 DEF CloseOwn, TypeOK
  <2>3. native' = FALSE /\ window' \in BOOLEAN /\ (window' => window)
    BY DEF CloseLogin, TypeOK
  <2>4. /\ health' \in Healths /\ stored' \in Healths /\ evidence' \in Healths
        /\ override' \in BOOLEAN
        /\ health' = "ready" => evidence' = "ready"
        /\ stored' = "ready" => evidence' = "ready"
    BY DEF TypeOK, Healths, Says
  <2> QED
    BY <2>1, <2>2, <2>3, <2>4
    DEF TypeOK, ThreadInv, KnownInv, ProfileInv, OneBrowserPerProfile,
        ContextsHoldTheLock, VouchInv, CandidatesAreVouchedFor
<1>4. CASE CheckOpens
  <2> USE <1>4 DEF CheckOpens, Button
  <2>1. \A s \in live : s.owner = "run"
    BY DEF ThreadInv, TypeOK
  <2>2. /\ active' \in Sessions /\ active'.owner = "ui" /\ active' \in live'
        /\ live' = live \cup {active'}
    BY DEF Context, Attached, Sessions
  <2>3. active'.kind = "context" =>
          lock' /\ ~window' /\ \A s \in live : s.kind # "context"
    BY DEF InUse, Taken, Running, Attached, TypeOK
  <2>4. lock' \in BOOLEAN /\ native' \in BOOLEAN /\ (lock => lock')
    BY DEF TypeOK
  <2> QED
    BY <2>1, <2>2, <2>3, <2>4
    DEF TypeOK, ThreadInv, KnownInv, ProfileInv, OneBrowserPerProfile,
        ContextsHoldTheLock, VouchInv, CandidatesAreVouchedFor, healthVars
<1>5. CASE CheckFailsToOpen
  BY <1>5
  DEF CheckFailsToOpen, Button, TypeOK, ThreadInv, KnownInv, ProfileInv,
      OneBrowserPerProfile, ContextsHoldTheLock, VouchInv,
      CandidatesAreVouchedFor, Healths
<1>6. CASE CheckEnds
  <2> USE <1>6 DEF CheckEnds
  <2>1. /\ active \in live /\ active.owner = "ui" /\ run = "none"
        /\ \A s \in live : s = active \/ s.owner = "run"
    BY DEF ThreadInv, KnownInv, TypeOK
  <2>2. /\ active' = NoSession /\ live' = live \ {active}
        /\ lock' \in BOOLEAN /\ (lock' <=> lock /\ active.kind # "context")
    BY DEF CloseOwn, TypeOK
  <2>3. (\E s \in live' : s.kind = "context") => lock'
    BY <2>1, <2>2
    DEF TypeOK, ProfileInv, OneBrowserPerProfile, ContextsHoldTheLock
  <2>4. /\ health' \in Healths /\ stored' \in Healths /\ evidence' \in Healths
        /\ override' \in BOOLEAN
        /\ health' = "ready" => evidence' = "ready"
        /\ stored' = "ready" => evidence' = "ready"
    BY HealthSteps
  <2>5. native' \in BOOLEAN
    BY DEF TypeOK, Running
  <2> QED
    BY <2>1, <2>2, <2>3, <2>4, <2>5
    DEF TypeOK, ThreadInv, KnownInv, ProfileInv, OneBrowserPerProfile,
        ContextsHoldTheLock, VouchInv, CandidatesAreVouchedFor
<1>7. CASE StartRun
  BY <1>7
  DEF StartRun, Button, TypeOK, ThreadInv, KnownInv, ProfileInv,
      OneBrowserPerProfile, ContextsHoldTheLock, VouchInv,
      CandidatesAreVouchedFor, Running, healthVars
<1> QED
  BY <1>1, <1>2, <1>3, <1>4, <1>5, <1>6, <1>7 DEF Buttons

-----------------------------------------------------------------------------
(* The window's look at the session, and the world.                        *)

LEMMA LookIInv ==
  ASSUME IInv, UiLooks \/ UiDrops
  PROVE  IInv'
<1> USE SessionTypes DEF IInv, UiLooks, UiDrops, healthVars
<1>1. TypeOK'
  BY DEF TypeOK
<1>2. ThreadInv' /\ KnownInv'
  BY DEF TypeOK, ThreadInv, KnownInv
<1>3. UNCHANGED <<run, live, lock, window, health, stored, evidence, found>>
  OBVIOUS
<1> HIDE DEF UiLooks, UiDrops
<1>4. ProfileInv'
  BY <1>3 DEF ProfileInv, OneBrowserPerProfile, ContextsHoldTheLock
<1>5. VouchInv'
  BY <1>3 DEF VouchInv, CandidatesAreVouchedFor
<1> QED
  BY <1>1, <1>2, <1>4, <1>5

LEMMA WorldIInv ==
  ASSUME IInv, World
  PROVE  IInv'
<1> USE SessionTypes DEF IInv
<1>1. CASE WindowCloses
  <2> USE <1>1 DEF WindowCloses, healthVars
  <2>1. TypeOK' /\ VouchInv'
    BY DEF TypeOK, VouchInv, CandidatesAreVouchedFor
  <2>2. ThreadInv' /\ KnownInv'
    BY DEF ThreadInv, KnownInv
  <2>3. ProfileInv'
    BY DEF ProfileInv, OneBrowserPerProfile, ContextsHoldTheLock
  <2> QED
    BY <2>1, <2>2, <2>3
<1>2. CASE Quit
  <2> USE <1>2 DEF Quit, CloseLogin, healthVars
  <2>1. /\ active' \in {active, NoSession} /\ UNCHANGED <<live, lock>>
        /\ native' = FALSE /\ window' \in BOOLEAN /\ (window' => window)
    BY DEF TypeOK
  <2>2. TypeOK' /\ VouchInv'
    BY <2>1 DEF TypeOK, VouchInv, CandidatesAreVouchedFor
  <2>3. active = NoSession \/ (active \in Sessions /\ active.owner = "run")
    BY DEF TypeOK, ThreadInv
  <2>4. ThreadInv' /\ KnownInv'
    BY <2>1, <2>3 DEF ThreadInv, KnownInv, TypeOK
  <2>5. ProfileInv'
    BY <2>1 DEF ProfileInv, OneBrowserPerProfile, ContextsHoldTheLock
  <2> QED
    BY <2>2, <2>4, <2>5
<1>3. CASE Exit
  BY <1>3
  DEF Exit, TypeOK, ThreadInv, KnownInv, ProfileInv, OneBrowserPerProfile,
      ContextsHoldTheLock, VouchInv, CandidatesAreVouchedFor, healthVars
<1>4. CASE Start
  <2> USE <1>4 DEF Start, browserVars
  <2>1. starts' \in 1..MaxStarts
    BY StartsAssumption DEF TypeOK, ThreadInv
  <2>2. TypeOK'
    BY <2>1 DEF TypeOK
  <2>3. VouchInv'
    BY DEF VouchInv, CandidatesAreVouchedFor
  <2>4. ThreadInv'
    BY DEF ThreadInv
  <2>5. KnownInv'
    BY DEF KnownInv
  <2>6. ProfileInv'
    BY DEF ProfileInv, OneBrowserPerProfile, ContextsHoldTheLock
  <2> QED
    BY <2>2, <2>3, <2>4, <2>5, <2>6
<1> QED
  BY <1>1, <1>2, <1>3, <1>4 DEF World

-----------------------------------------------------------------------------
(* The thread of the run.                                                  *)

\* No check of the window is in hand while a run has a thread.
LEMMA RunAlone ==
  ASSUME IInv, run # "none"
  PROVE  /\ ui \notin {"checking", "down"}
         /\ active = NoSession \/ (active \in Sessions /\ active.owner = "run")
         /\ \A s \in live : s.owner = "run"
  BY SessionTypes DEF IInv, TypeOK, ThreadInv

\* Forgetting an attached session of the run takes no context away.
LEMMA ForgetKeeps ==
  ASSUME IInv, run # "none", Forget \/ UNCHANGED <<active, live, native>>
  PROVE  /\ active' \in {active, NoSession} /\ live' \subseteq live
         /\ native' \in BOOLEAN
         /\ active' # NoSession => active' \in live'
  BY SessionTypes, RunAlone DEF IInv, Forget, TypeOK, KnownInv

LEMMA RunThreadIInv ==
  ASSUME IInv, RunThread
  PROVE  IInv'
<1> USE SessionTypes DEF IInv
<1>0. /\ run # "none" /\ ui \notin {"checking", "down"}
      /\ active = NoSession \/ (active \in Sessions /\ active.owner = "run")
      /\ \A s \in live : s.owner = "run"
  BY RunAlone
  DEF RunThread, Search, Download, Check, Reuse, OpenBrowser, Attach,
      AttachFails, Launch, Publish, Probe, ReadResults, DownloadEnds, CallFails,
      TimeoutResets, RunEnds, Goals
<1> USE <1>0
<1>1. CASE Download \/ DownloadEnds \/ CallFails
  <2>1. /\ run' \in {"open", "check", "idle", "reset"}
        /\ goal' \in {goal, "download"}
        /\ run' \in {"open", "check"} => goal' \in Goals
        /\ UNCHANGED <<starts, left, ui, held, browserVars, healthVars, found>>
    BY <1>1 DEF Download, DownloadEnds, CallFails, Goals
  <2>2. TypeOK' /\ VouchInv'
    BY <2>1
    DEF TypeOK, VouchInv, CandidatesAreVouchedFor, browserVars, healthVars, Goals
  <2>3. ThreadInv'
    BY <2>1 DEF ThreadInv, browserVars
  <2>4. KnownInv'
    BY <2>1 DEF KnownInv, browserVars
  <2>5. ProfileInv'
    BY <2>1 DEF ProfileInv, OneBrowserPerProfile, ContextsHoldTheLock, browserVars
  <2> QED
    BY <2>2, <2>3, <2>4, <2>5
<1>2. CASE Search \/ Check \/ Reuse \/ OpenBrowser
  <2> USE <1>2 DEF Search, Check, Reuse, OpenBrowser
  <2>1. /\ active' \in {active, NoSession} /\ live' \subseteq live
        /\ native' \in BOOLEAN
        /\ active' # NoSession => active' \in live'
    BY ForgetKeeps
  <2>2. run' = "launch" => ~window /\ \A s \in live : s.kind # "context"
    <3>1. CASE OpenBrowser
      BY <3>1 DEF OpenBrowser, InUse, Taken
    <3>2. CASE Search \/ Check \/ Reuse
      <4>1. run' \in {"attach", "open", "check"} \cup Goals
        BY <3>2 DEF KnownInv
      <4> QED
        BY <4>1 DEF Goals
    <3> QED
      BY <3>1, <3>2, <1>2
  <2>3. /\ held' \in Sessions \cup {NoSession}
        /\ run' \in Goals \cup {"attach", "open", "check", "launch", "idle"}
        /\ goal' \in Goals
    BY DEF TypeOK, KnownInv, Goals
  <2>4. UNCHANGED <<starts, left, ui, lock, window, healthVars, found>>
    OBVIOUS
  <2> HIDE DEF Search, Check, Reuse, OpenBrowser
  <2>5. TypeOK' /\ VouchInv'
    BY <2>1, <2>3, <2>4
    DEF TypeOK, VouchInv, CandidatesAreVouchedFor, healthVars
  <2>6. ProfileInv'
    BY <2>1, <2>2, <2>4 DEF ProfileInv, OneBrowserPerProfile, ContextsHoldTheLock
  <2>7. ThreadInv' /\ KnownInv'
    BY <2>1, <2>3, <2>4 DEF ThreadInv, KnownInv, Goals
  <2> QED
    BY <2>5, <2>6, <2>7
<1>3. CASE Attach
  <2> USE <1>3 DEF Attach
  <2>1. /\ held' \in Sessions /\ held'.owner = "run" /\ held'.kind = "attach"
        /\ live' = live \cup {held'}
    BY DEF Attached, Sessions
  <2>2. run' \in Goals \cup {"publish"} /\ goal \in Goals
    BY DEF KnownInv
  <2>3. TypeOK' /\ VouchInv'
    BY <2>1, <2>2 DEF TypeOK, VouchInv, CandidatesAreVouchedFor, healthVars
  <2>4. ThreadInv' /\ ProfileInv'
    BY <2>1, <2>2 DEF ThreadInv, ProfileInv, OneBrowserPerProfile,
                      ContextsHoldTheLock, Goals
  <2>5. KnownInv'
    BY <2>1, <2>2 DEF KnownInv, Goals
  <2> QED
    BY <2>3, <2>4, <2>5
<1>4. CASE AttachFails
  <2> USE <1>4 DEF AttachFails
  <2>1. /\ active' \in {active, NoSession} /\ live' \subseteq live
        /\ native' \in BOOLEAN
        /\ active' # NoSession => active' \in live'
    BY ForgetKeeps
  <2>2. /\ health' \in Healths /\ stored' \in Healths /\ override' \in BOOLEAN
        /\ health' = "ready" => evidence = "ready"
        /\ stored' = "ready" => evidence = "ready"
    BY DEF TypeOK, VouchInv, Healths
  <2> QED
    BY <2>1, <2>2
    DEF TypeOK, ThreadInv, KnownInv, ProfileInv, OneBrowserPerProfile,
        ContextsHoldTheLock, VouchInv, CandidatesAreVouchedFor
<1>5. CASE Launch
  <2> USE <1>5 DEF Launch
  <2>1. /\ held' \in Sessions /\ held'.owner = "run"
        /\ live' = live \cup {held'}
    BY DEF Context, Sessions
  <2> QED
    BY <2>1
    DEF TypeOK, ThreadInv, KnownInv, ProfileInv, OneBrowserPerProfile,
        ContextsHoldTheLock, VouchInv, CandidatesAreVouchedFor, healthVars
<1>6. CASE Publish
  <2> USE <1>6 DEF Publish
  <2>1. run' \in Goals /\ goal \in Goals /\ held \in live /\ held.owner = "run"
    BY DEF KnownInv
  <2>2. TypeOK' /\ VouchInv'
    BY <2>1 DEF TypeOK, VouchInv, CandidatesAreVouchedFor, healthVars
  <2>3. ThreadInv' /\ KnownInv' /\ ProfileInv'
    BY <2>1 DEF ThreadInv, KnownInv, ProfileInv, OneBrowserPerProfile,
                ContextsHoldTheLock, Goals
  <2> QED
    BY <2>2, <2>3
<1>7. CASE Probe \/ ReadResults
  <2>1. PICK v \in Verdicts :
          \/ Judged(v) = "ready" /\ Judge(v)
             /\ (found' = found \/ found' = found \cup {evidence'})
          \/ Judged(v) # "ready" /\ Reject(v) /\ found' = found
    BY <1>7 DEF Probe, ReadResults
  <2>2. /\ health' \in Healths /\ stored' \in Healths /\ evidence' \in Healths
        /\ override' \in BOOLEAN
        /\ health' = "ready" => evidence' = "ready"
        /\ stored' = "ready" => evidence' = "ready"
    BY <2>1, HealthSteps
  <2>3. Judged(v) = "ready" /\ Judge(v) => health' = "ready"
    BY DEF Judged, Judge, healthVars
  <2>4. found' \subseteq {"ready"}
    BY <2>1, <2>2, <2>3 DEF VouchInv, CandidatesAreVouchedFor
  <2>5. /\ run' \in {"idle", "open"} /\ goal' \in {goal, "search"}
        /\ run' = "open" => goal' \in Goals
        /\ UNCHANGED <<starts, left, ui, held, browserVars>>
    BY <1>7 DEF Probe, ReadResults, Goals
  <2>6. TypeOK' /\ VouchInv'
    BY <2>2, <2>4, <2>5
    DEF TypeOK, VouchInv, CandidatesAreVouchedFor, browserVars, Goals, Healths
  <2>7. ThreadInv'
    BY <2>5 DEF ThreadInv, browserVars
  <2>8. KnownInv'
    BY <2>5 DEF KnownInv, browserVars
  <2>9. ProfileInv'
    BY <2>5 DEF ProfileInv, OneBrowserPerProfile, ContextsHoldTheLock, browserVars
  <2> QED
    BY <2>6, <2>7, <2>8, <2>9
<1>8. CASE TimeoutResets \/ RunEnds
  <2>1. /\ active' = NoSession
        /\ \/ live' = live /\ lock' = lock
           \/ /\ active \in live /\ live' = live \ {active}
              /\ lock' \in BOOLEAN /\ (lock' <=> lock /\ active.kind # "context")
    BY <1>8 DEF TimeoutResets, RunEnds, CloseOwn, TypeOK, KnownInv
  <2>2. lock' \in BOOLEAN /\ live' \subseteq live
    BY <2>1 DEF TypeOK
  <2>3. (\E s \in live' : s.kind = "context") => lock'
    BY <2>1
    DEF TypeOK, ProfileInv, OneBrowserPerProfile, ContextsHoldTheLock
  <2>4. /\ native' \in BOOLEAN /\ window' \in BOOLEAN /\ (window' => window)
    <3>1. CASE TimeoutResets
      BY <3>1 DEF TimeoutResets, CloseLogin, TypeOK
    <3>2. CASE RunEnds
      BY <3>2 DEF RunEnds, TypeOK, Running
    <3> QED
      BY <1>8, <3>1, <3>2
  <2>5. /\ health' \in Healths /\ stored' \in Healths /\ evidence' \in Healths
        /\ override' \in BOOLEAN
        /\ health' = "ready" => evidence' = "ready"
        /\ stored' = "ready" => evidence' = "ready"
    BY <1>8
    DEF TimeoutResets, RunEnds, Says, TypeOK, VouchInv, Healths, healthVars
  <2>6. /\ run' \in {"idle", "none"} /\ goal' \in {goal, "none"}
        /\ held' \in {held, NoSession} /\ UNCHANGED <<starts, left, ui, found>>
    BY <1>8 DEF TimeoutResets, RunEnds
  <2> QED
    BY <2>1, <2>2, <2>3, <2>4, <2>5, <2>6
    DEF TypeOK, ThreadInv, KnownInv, ProfileInv, OneBrowserPerProfile,
        ContextsHoldTheLock, VouchInv, CandidatesAreVouchedFor
<1> QED
  BY <1>1, <1>2, <1>3, <1>4, <1>5, <1>6, <1>7, <1>8 DEF RunThread

-----------------------------------------------------------------------------

LEMMA NextIInv == IInv /\ [Next]_vars => IInv'
<1> SUFFICES ASSUME IInv, [Next]_vars PROVE IInv'
  OBVIOUS
<1>1. CASE Next
  BY <1>1, ButtonsIInv, LookIInv, RunThreadIInv, WorldIInv DEF Next
<1>2. CASE UNCHANGED vars
  BY <1>2
  DEF vars, IInv, TypeOK, ThreadInv, KnownInv, ProfileInv, OneBrowserPerProfile,
      ContextsHoldTheLock, VouchInv, CandidatesAreVouchedFor
<1> QED
  BY <1>1, <1>2

\* A step that ends or loses a context takes its lock file along, and a step that
\* forgets the login browser ends it or has found it gone.
LEMMA NextLeft ==
  ASSUME IInv, NothingIsLeftBehind, [Next]_vars
  PROVE  NothingIsLeftBehind'
<1> DEFINE C == \E s \in live : s.kind = "context"
           Known == native /\ ui # "leaving"
           Keeps == /\ UNCHANGED left /\ ui # "down"
                    /\ lock' => C' \/ (lock /\ ~C)
                    /\ window' => Known' \/ (window /\ ~Known)
<1> USE DEF IInv
<1>1. Keeps => NothingIsLeftBehind'
  BY DEF NothingIsLeftBehind
<1>2. CASE Start
  BY <1>2 DEF Start, browserVars, NothingIsLeftBehind
<1>3. CASE Exit
  BY <1>3 DEF Exit, NothingIsLeftBehind
<1>4. CASE UNCHANGED vars
  BY <1>4 DEF vars, NothingIsLeftBehind
<1>5. CASE Launch \/ CheckOpens
  <2>1. C' \/ (UNCHANGED lock /\ (C => C'))
    BY <1>5 DEF Launch, CheckOpens, Context
  <2>2. window' => Known' \/ (window /\ ~Known)
    BY <1>5, SessionTypes DEF Launch, CheckOpens, Button, Running, ThreadInv
  <2> QED
    BY <1>1, <1>5, <2>1, <2>2, RunAlone DEF Launch, CheckOpens, Button
<1>6. CASE PrepareLogin \/ Logout \/ ResetSession \/ CheckEnds \/ TimeoutResets
           \/ RunEnds
  <2>1. lock' => C' \/ (lock /\ ~C)
    BY <1>6
    DEF PrepareLogin, Logout, ResetSession, CheckEnds, TimeoutResets, RunEnds,
        CloseOwn
  <2>2. window' => Known' \/ (window /\ ~Known)
    BY <1>6
    DEF PrepareLogin, Logout, ResetSession, CheckEnds, TimeoutResets, RunEnds,
        Button, CloseLogin, Running
  <2> QED
    BY <1>1, <1>6, <2>1, <2>2, RunAlone
    DEF PrepareLogin, Logout, ResetSession, CheckEnds, TimeoutResets, RunEnds,
        Button
<1>7. CASE Search \/ Check \/ Reuse \/ OpenBrowser \/ Attach \/ AttachFails
  <2>1. UNCHANGED <<left, ui, window, lock>> /\ ui # "down"
    BY <1>7, RunAlone
    DEF Search, Check, Reuse, OpenBrowser, Attach, AttachFails
  <2>2. C => C'
    BY <1>7
    DEF Search, Check, Reuse, OpenBrowser, Attach, AttachFails, Forget
  <2>3. window => native' = native
    BY <1>7
    DEF Search, Check, Reuse, OpenBrowser, Attach, AttachFails, Exited
  <2> QED
    BY <1>1, <2>1, <2>2, <2>3
<1>8. CASE MarkReady \/ ClearOverride \/ CheckFailsToOpen \/ StartRun \/ UiLooks
           \/ UiDrops
  <2>1. UNCHANGED <<left, live, window, lock>> /\ ui \notin {"down", "leaving"}
        /\ ui' # "leaving"
    BY <1>8
    DEF MarkReady, ClearOverride, CheckFailsToOpen, StartRun, UiLooks, UiDrops,
        Button
  <2>2. window => (native' <=> native)
    BY <1>8
    DEF MarkReady, ClearOverride, CheckFailsToOpen, StartRun, UiLooks, UiDrops,
        Running, Exited
  <2> QED
    BY <1>1, <2>1, <2>2
<1>9. CASE Download \/ Publish \/ Probe \/ ReadResults \/ DownloadEnds \/ CallFails
  <2>1. UNCHANGED <<left, ui, live, window, native, lock>> /\ ui # "down"
    BY <1>9, RunAlone
    DEF Download, Publish, Probe, ReadResults, DownloadEnds, CallFails,
        browserVars
  <2> QED
    BY <1>1, <2>1
<1>10. CASE Quit
  BY <1>10, <1>1 DEF Quit, CloseLogin
<1>11. CASE WindowCloses
  BY <1>11 DEF WindowCloses, NothingIsLeftBehind
<1> QED
  BY <1>2, <1>3, <1>4, <1>5, <1>6, <1>7, <1>8, <1>9, <1>10, <1>11
  DEF Next, Buttons, RunThread, World

LEMMA Invariance == Spec => []IInv
  BY InitIInv, NextIInv, PTL DEF Spec

\* The session manager's state keeps its types: every session in it has a thread
\* and is one of the two kinds.
THEOREM SessionsAreTyped == Spec => []TypeOK
  BY Invariance, PTL DEF IInv

\* No thread ever finds a session it may neither use nor close, so the error
\* browser_session_thread_mismatch is never raised by a button or a run.
THEOREM NoThreadMismatch == Spec => []SessionsEndWithTheirThread
<1>1. IInv => SessionsEndWithTheirThread
  BY DEF IInv, ThreadInv, KnownInv, SessionsEndWithTheirThread
<1> QED
  BY <1>1, Invariance, PTL

\* Two browsers never run on the managed profile, across exits and restarts.
THEOREM ProfileIsExclusive == Spec => []OneBrowserPerProfile
  BY Invariance, PTL DEF IInv, ProfileInv

\* A living context is always behind the lock file.
THEOREM LockIsKept == Spec => []ContextsHoldTheLock
  BY Invariance, PTL DEF IInv, ProfileInv

\* What is on the profile without a use was there when the program started: a
\* quit of a program that found a clean profile leaves no login browser.
THEOREM ProfileIsLeftClean == Spec => []NothingIsLeftBehind
<1>1. Init => NothingIsLeftBehind
  BY DEF Init, NothingIsLeftBehind
<1>2. IInv /\ NothingIsLeftBehind /\ [Next]_vars => NothingIsLeftBehind'
  BY NextLeft
<1> QED
  BY <1>1, <1>2, Invariance, PTL DEF Spec

\* A search returns candidates only when the last word on the login was READY.
THEOREM CandidatesNeedALogin == Spec => []CandidatesAreVouchedFor
  BY Invariance, PTL DEF IInv, VouchInv
=============================================================================
