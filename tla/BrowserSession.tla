--------------------------- MODULE BrowserSession ---------------------------
(***************************************************************************)
(* The browser session of Storyblocks (browser/session), its backend       *)
(* (browser/storyblocks_backend) and the two threads that use them: the    *)
(* user interface, with its session buttons, and the thread of a run.      *)
(*                                                                         *)
(* One managed profile directory serves three things: the persistent       *)
(* context a thread launches, the login browser of the operator, which     *)
(* threads attach to, and the lock file that outlives the process.         *)
(*                                                                         *)
(* The session buttons work only while no run has a thread (DesktopRun,    *)
(* ButtonsLockedWhileRunning), so a button is one step, or two where it    *)
(* waits for a browser. What the window shows reads the session at any     *)
(* time, and that reading also tidies up, in two lock sections. A session  *)
(* of another thread is refused by an error (browser_session_thread_       *)
(* mismatch); SessionsEndWithTheirThread says why no step here raises it.  *)
(*                                                                         *)
(* Pages and accounts are abstracted to the verdict of the session probe:  *)
(* LOGIN_REQUIRED, EXPIRED and CHALLENGE are "login", and UNKNOWN, unless  *)
(* the page is in transition, is "blocked", which asks for no login.       *)
(*                                                                         *)
(* An operator named Bug... is no part of the specification: it is the     *)
(* next definition with a plausible mistake, kept to see that the          *)
(* properties notice it.                                                   *)
(***************************************************************************)
EXTENDS Naturals

CONSTANT MaxStarts   \* bound: how often the application is started

ASSUME StartsAssumption == MaxStarts \in Nat \ {0}

VARIABLES
  starts,   \* how often the application was started
  left,     \* history: what this start found on the profile
  ui,       \* what the thread of the user interface is in the middle of
  run,      \* where the thread of the run is ("none": there is no run)
  goal,     \* what the run opens the browser for
  held,     \* the session the run's call holds in a local variable
  active,   \* _active_session
  live,     \* sessions whose handle is open, known to the manager or not
  lock,     \* the lock file of the managed profile
  native,   \* _native_browser_session is set
  window,   \* a login browser runs on the profile
  health,   \* health in the manager's state
  stored,   \* health in the profile on disk
  override, \* manual_ready_override
  evidence, \* history: the last word of a page or of the operator on the login
  found     \* history: evidence behind the candidates searches returned

vars == <<starts, left, ui, run, goal, held, active, live, lock, native, window,
          health, stored, override, evidence, found>>

browserVars == <<active, live, lock, native, window>>
healthVars  == <<health, stored, override, evidence>>

NoSession == [kind |-> "none", owner |-> "none"]
Context(t) == [kind |-> "context", owner |-> t]
BugAttached(t) == [kind |-> "attach", owner |-> "none"]

Attached(t) == [kind |-> "attach", owner |-> t]

Healths == {"ready", "login", "blocked"}
Verdicts == Healths \cup {"transient"}

Running == native /\ window   \* the login browser the manager knows runs
Exited == native /\ ~window

\* is_profile_in_use: the lock file, or the lock a browser keeps in its profile.
Taken(l, L) == l \/ window \/ \E s \in L : s.kind = "context"
InUse == Taken(lock, live)

Init ==
  /\ starts = 1 /\ left = {}
  /\ ui = "idle" /\ run = "none" /\ goal = "none"
  /\ held = NoSession /\ active = NoSession /\ live = {}
  /\ lock = FALSE /\ native = FALSE /\ window = FALSE
  /\ health = "blocked" /\ stored = "blocked" /\ evidence = "blocked"
  /\ override = FALSE
  /\ found = {}

-----------------------------------------------------------------------------
(* What the operations have in common.                                     *)

\* close_browser, called by the owner of the active session or without one.
CloseOwn(t) ==
  /\ active.owner \in {t, "none"}
  /\ active' = NoSession
  /\ live' = live \ {active}
  /\ lock' = (lock /\ active.kind # "context")

\* close_native_browser of a thread that holds no session any more.
CloseLogin ==
  /\ native' = FALSE
  /\ window' = (window /\ ~native)

\* The end of check_authorization: a page in transition changes nothing, any
\* other verdict is the health and ends a manual override.
Judge(v) ==
  IF v = "transient" THEN UNCHANGED healthVars
  ELSE health' = v /\ stored' = v /\ evidence' = v /\ override' = FALSE

\* What the health is once the page was judged.
Judged(v) == IF v = "transient" THEN health ELSE v

\* _raise_for_session_state: a missing login is recorded as manual intervention.
Reject(v) ==
  IF Judged(v) = "login"
  THEN /\ health' = "login" /\ stored' = "login" /\ override' = FALSE
       /\ evidence' = IF v = "transient" THEN evidence ELSE v
  ELSE Judge(v)

\* The operator's word, for (mark ready) or against the login.
Says(h) ==
  /\ health' = h
  /\ stored' = h
  /\ evidence' = h

-----------------------------------------------------------------------------
(* The session buttons. None works while a run has a thread. All of them   *)
(* read the state, which forgets a login browser that is gone.             *)

Button == ui = "idle" /\ run = "none"

\* prepare_storyblocks_login: close_browser, then reuse the login browser that
\* runs, or give up on a profile in use, or launch one.
PrepareLogin ==
  /\ Button
  /\ CloseOwn("ui")
  /\ \/ Running /\ UNCHANGED <<native, window, healthVars>>
     \/ /\ ~Running /\ Taken(lock', live')
        /\ native' = FALSE
        /\ UNCHANGED <<window, healthVars>>
     \/ /\ ~Running /\ ~Taken(lock', live')
        /\ native' = TRUE /\ window' = TRUE
        /\ Says("login")
        /\ UNCHANGED override
  /\ UNCHANGED <<starts, left, ui, run, goal, held, found>>

MarkReady ==
  /\ Button
  /\ Says("ready")
  /\ override' = TRUE
  /\ native' = Running
  /\ UNCHANGED <<starts, left, ui, run, goal, held, active, live, lock, window,
                 found>>

\* The health the operator vouched for stays.
ClearOverride ==
  /\ Button
  /\ override' = FALSE
  /\ native' = Running
  /\ UNCHANGED <<starts, left, ui, run, goal, held, active, live, lock, window,
                 health, stored, evidence, found>>

\* logout_storyblocks: set_health leaves a manual override standing.
Logout ==
  /\ Button
  /\ CloseOwn("ui") /\ CloseLogin
  /\ Says("login")
  /\ UNCHANGED <<starts, left, ui, run, goal, held, override, found>>

ResetSession ==
  /\ Button
  /\ CloseOwn("ui") /\ CloseLogin
  /\ Says("login")
  /\ override' = FALSE
  /\ UNCHANGED <<starts, left, ui, run, goal, held, found>>

\* check_storyblocks_session: check_authorization(persist_handle=False) attaches
\* to the login browser, or opens a context of its own ...
CheckOpens ==
  /\ Button
  /\ active = NoSession
  /\ \/ Running /\ active' = Attached("ui") /\ UNCHANGED <<lock, native>>
     \/ /\ ~Running /\ ~InUse
        /\ active' = Context("ui") /\ lock' = TRUE /\ native' = FALSE
  /\ live' = live \cup {active'}
  /\ ui' = "checking"
  /\ UNCHANGED <<starts, left, run, goal, held, window, healthVars, found>>

\* ... fails to: a login browser that does not answer is remembered as a login
\* to be done, a profile in use and a failing launch are only reported ...
CheckFailsToOpen ==
  /\ Button
  /\ active = NoSession
  /\ \/ Running /\ health' = "login" /\ UNCHANGED native
     \/ ~Running /\ native' = FALSE /\ UNCHANGED health
  /\ UNCHANGED <<starts, left, ui, run, goal, held, active, live, lock, window,
                 stored, override, evidence, found>>

\* ... and closes what it opened before it judges the page, or fails to read it.
CheckEnds ==
  /\ ui = "checking"
  /\ CloseOwn("ui")
  /\ (\E v \in Verdicts : Judge(v)) \/ UNCHANGED healthVars
  /\ native' = Running
  /\ ui' = "idle"
  /\ UNCHANGED <<starts, left, run, goal, held, window, found>>

\* The start of a run asks for a ready session or the operator's word.
StartRun ==
  /\ Button
  /\ health = "ready" \/ override
  /\ run' = "idle"
  /\ native' = Running
  /\ UNCHANGED <<starts, left, ui, goal, held, active, live, lock, window,
                 healthVars, found>>

-----------------------------------------------------------------------------
(* What the window shows: current_state, at any time.                      *)

\* _refresh_native_browser_session finds the login browser gone and forgets it
UiLooks ==
  /\ ui = "idle"
  /\ Exited
  /\ native' = FALSE
  /\ ui' = IF active.kind = "attach" THEN "dropping" ELSE "idle"
  /\ UNCHANGED <<starts, left, run, goal, held, active, live, lock, window,
                 healthVars, found>>

\* and then the attached session of the run's thread, whatever is active now.
UiDrops ==
  /\ ui = "dropping"
  /\ active' = NoSession
  /\ ui' = "idle"
  /\ UNCHANGED <<starts, left, run, goal, held, live, lock, native, window,
                 healthVars, found>>

-----------------------------------------------------------------------------
(* The thread of the run: searches and downloads of the backend.           *)

\* The run's own _refresh_native_browser_session: the login browser is gone.
Forget ==
  /\ native' = FALSE
  /\ IF active.kind = "attach"
     THEN active' = NoSession /\ live' = live \ {active}
     ELSE UNCHANGED <<active, live>>

\* search relies on the operator's word, or else checks the session first.
Search ==
  /\ run = "idle"
  /\ run' = IF override THEN "open" ELSE "check"
  /\ goal' = IF override THEN "search" ELSE "probe"
  /\ IF Exited THEN Forget ELSE UNCHANGED <<active, live, native>>
  /\ UNCHANGED <<starts, left, ui, held, lock, window, healthVars, found>>

\* download_asset checks nothing.
Download ==
  /\ run = "idle"
  /\ run' = "open"
  /\ goal' = "download"
  /\ UNCHANGED <<starts, left, ui, held, browserVars, healthVars, found>>

\* check_authorization attaches to a login browser before it looks at sessions.
Check ==
  /\ run = "check"
  /\ run' = IF Running THEN "attach" ELSE "open"
  /\ IF Exited THEN Forget ELSE UNCHANGED <<active, live, native>>
  /\ UNCHANGED <<starts, left, ui, goal, held, lock, window, healthVars,
                 found>>

\* open_browser returns the session of this thread, also when the login browser
\* behind it is found to be gone on the way,
Reuse ==
  /\ run = "open"
  /\ active.owner = "run"
  /\ held' = active
  /\ IF Exited THEN Forget ELSE UNCHANGED <<active, live, native>>
  /\ run' = goal
  /\ UNCHANGED <<starts, left, ui, goal, lock, window, healthVars, found>>

BugOpenBrowser ==
  /\ run = "open"
  /\ active = NoSession
  /\ run' = IF Running THEN "attach" ELSE "launch"
  /\ IF Exited THEN Forget ELSE UNCHANGED <<active, live, native>>
  /\ UNCHANGED <<starts, left, ui, goal, held, lock, window, healthVars,
                 found>>

\* attaches to the login browser, gives up on a profile in use, or launches.
OpenBrowser ==
  /\ run = "open"
  /\ active = NoSession
  /\ run' = IF Running THEN "attach" ELSE IF InUse THEN "idle" ELSE "launch"
  /\ IF Exited THEN Forget ELSE UNCHANGED <<active, live, native>>
  /\ UNCHANGED <<starts, left, ui, goal, held, lock, window, healthVars,
                 found>>

Attach ==
  /\ run = "attach"
  /\ Running
  /\ held' = Attached("run")
  /\ live' = live \cup {held'}
  /\ run' = IF active = held' THEN goal ELSE "publish"
  /\ UNCHANGED <<starts, left, ui, goal, active, lock, native, window,
                 healthVars, found>>

\* Inside the check of a search, a login browser that does not answer or is gone
\* makes it ask for a login; elsewhere the error only ends the call.
AttachFails ==
  /\ run = "attach"
  /\ IF Exited THEN Forget ELSE UNCHANGED <<active, live, native>>
  /\ IF goal = "probe"
     THEN health' = "login" /\ stored' = "login" /\ override' = FALSE
     ELSE UNCHANGED <<health, stored, override>>
  /\ run' = "idle"
  /\ UNCHANGED <<starts, left, ui, goal, held, lock, window, evidence, found>>

BugLaunch ==
  /\ run = "launch"
  /\ held' = Context("run")
  /\ live' = live \cup {held'}
  /\ run' = "publish"
  /\ UNCHANGED <<starts, left, ui, goal, active, lock, native, window,
                 healthVars, found>>

\* The browser is launched, its lock file written, and only then is it active.
Launch ==
  /\ run = "launch"
  /\ held' = Context("run")
  /\ live' = live \cup {held'}
  /\ lock' = TRUE
  /\ run' = "publish"
  /\ UNCHANGED <<starts, left, ui, goal, active, native, window, healthVars,
                 found>>

Publish ==
  /\ run = "publish"
  /\ active' = held
  /\ run' = goal
  /\ UNCHANGED <<starts, left, ui, goal, held, live, lock, native, window,
                 healthVars, found>>

\* The page of a session answers while its handle is open and its browser runs.
PageAnswers == held \in live /\ (held.kind = "attach" => window)

\* The check before a search, without a manual override.
Probe ==
  /\ run = "probe"
  /\ PageAnswers
  /\ \E v \in Verdicts :
       \/ Judged(v) = "ready" /\ Judge(v) /\ run' = "open" /\ goal' = "search"
       \/ Judged(v) # "ready" /\ Reject(v) /\ run' = "idle" /\ UNCHANGED goal
  /\ UNCHANGED <<starts, left, ui, held, browserVars, found>>

BugReadResults ==
  /\ run = "search"
  /\ PageAnswers
  /\ \E v \in Verdicts : Judge(v)
  /\ run' = "idle"
  /\ found' = found \cup {evidence'}
  /\ UNCHANGED <<starts, left, ui, goal, held, browserVars>>

\* The results page is judged too, whatever the operator said, before its
\* candidates are returned.
ReadResults ==
  /\ run = "search"
  /\ PageAnswers
  /\ \E v \in Verdicts :
       \/ Judged(v) = "ready" /\ Judge(v) /\ found' = found \cup {evidence'}
       \/ Judged(v) # "ready" /\ Reject(v) /\ UNCHANGED found
  /\ run' = "idle"
  /\ UNCHANGED <<starts, left, ui, goal, held, browserVars>>

DownloadEnds ==
  /\ run = "download"
  /\ PageAnswers
  /\ run' = "idle"
  /\ UNCHANGED <<starts, left, ui, goal, held, browserVars, healthVars, found>>

\* A launch or a page that fails ends the call; a results page that is too slow
\* makes the pipeline reset the session before it tries again. The time-outs of a
\* download end as an error in its record and reset nothing.
CallFails ==
  /\ \/ run \in {"launch", "probe", "download"} /\ run' = "idle"
     \/ run = "search" /\ run' \in {"idle", "reset"}
  /\ UNCHANGED <<starts, left, ui, goal, held, browserVars, healthVars, found>>

\* reset_session_state by the thread of the run: also ends the login browser.
TimeoutResets ==
  /\ run = "reset"
  /\ CloseOwn("run") /\ CloseLogin
  /\ Says("login")
  /\ override' = FALSE
  /\ run' = "idle"
  /\ UNCHANGED <<starts, left, ui, goal, held, found>>

BugRunEnds ==
  /\ run = "idle"
  /\ run' = "none" /\ goal' = "none" /\ held' = NoSession
  /\ UNCHANGED <<starts, left, ui, browserVars, healthVars, found>>

\* execute leaves through close_browsers_owned_by_current_thread.
RunEnds ==
  /\ run = "idle"
  /\ \/ active.owner = "run" /\ CloseOwn("run") /\ native' = Running
     \/ active.owner # "run" /\ UNCHANGED <<active, live, lock, native>>
  /\ run' = "none" /\ goal' = "none" /\ held' = NoSession
  /\ UNCHANGED <<starts, left, ui, window, healthVars, found>>

-----------------------------------------------------------------------------
(* The world around it.                                                    *)

\* The operator closes the login browser.
WindowCloses ==
  /\ window
  /\ window' = FALSE
  /\ UNCHANGED <<starts, left, ui, run, goal, held, active, live, lock, native,
                 healthVars, found>>

BugQuit ==
  /\ starts < MaxStarts
  /\ ui = "idle"
  /\ ui' = "leaving"
  /\ UNCHANGED <<starts, left, run, goal, held, browserVars, healthVars, found>>

\* The window of the program is closed: main ends and runs what was registered
\* with atexit. The session of a run is not the window's to close, and is only
\* forgotten when it is attached to the login browser, which ends. The thread of
\* the run goes on until the process ends.
Quit ==
  /\ starts < MaxStarts
  /\ ui = "idle"
  /\ ui' = "leaving"
  /\ active' = IF active.kind = "attach" THEN NoSession ELSE active
  /\ CloseLogin
  /\ UNCHANGED <<starts, left, run, goal, held, live, lock, healthVars, found>>

\* The process ends, after that or by a crash; the thread of a run is a daemon.
\* Contexts end with the process that drives them, a login browser does not.
Exit ==
  /\ starts < MaxStarts
  /\ ui # "down"
  /\ ui' = "down" /\ run' = "none" /\ goal' = "none"
  /\ held' = NoSession /\ active' = NoSession /\ live' = {}
  /\ native' = FALSE
  /\ UNCHANGED <<starts, left, lock, window, healthVars, found>>

\* The next start knows what the profile on disk says, and nothing else.
Start ==
  /\ ui = "down"
  /\ ui' = "idle"
  /\ starts' = starts + 1
  /\ left' = (IF lock THEN {"lock"} ELSE {})
             \cup (IF window THEN {"window"} ELSE {})
  /\ health' = stored
  /\ override' = FALSE
  /\ UNCHANGED <<run, goal, held, browserVars, stored, evidence, found>>

Buttons ==
  \/ PrepareLogin \/ MarkReady \/ ClearOverride \/ Logout \/ ResetSession
  \/ CheckOpens \/ CheckFailsToOpen \/ CheckEnds
  \/ StartRun

RunThread ==
  \/ Search \/ Download \/ Check
  \/ Reuse \/ OpenBrowser
  \/ Attach \/ AttachFails \/ Launch \/ Publish
  \/ Probe \/ ReadResults \/ DownloadEnds
  \/ CallFails \/ TimeoutResets \/ RunEnds

World == WindowCloses \/ Quit \/ Exit \/ Start

Next == Buttons \/ UiLooks \/ UiDrops \/ RunThread \/ World

Spec == Init /\ [][Next]_vars

-----------------------------------------------------------------------------
(* Properties.                                                             *)

Sessions == [kind : {"context", "attach"}, owner : {"ui", "run"}]
Goals == {"probe", "search", "download"}

\* Types of the state of the manager, its threads and the profile directory.
TypeOK ==
  /\ starts \in 1..MaxStarts /\ left \subseteq {"lock", "window"}
  /\ ui \in {"idle", "checking", "dropping", "leaving", "down"}
  /\ run \in Goals \cup {"none", "idle", "check", "open", "attach", "launch",
                         "publish", "reset"}
  /\ goal \in Goals \cup {"none"}
  /\ held \in Sessions \cup {NoSession}
  /\ active \in Sessions \cup {NoSession}
  /\ live \subseteq Sessions
  /\ lock \in BOOLEAN /\ native \in BOOLEAN /\ window \in BOOLEAN
  /\ health \in Healths /\ stored \in Healths /\ evidence \in Healths
  /\ override \in BOOLEAN
  /\ found \subseteq Healths

\* A session ends with the thread that opened it: the user interface never finds
\* one it may neither use nor close, and a run never finds one of the window.
SessionsEndWithTheirThread ==
  /\ active.owner = "run" => run # "none"
  /\ active.owner = "ui" => ui = "checking"

\* The managed profile is never opened by two browsers at a time: no context is
\* launched beside a login browser or beside another context.
OneBrowserPerProfile ==
  /\ \A s, t \in live : s.kind = "context" /\ t.kind = "context" => s = t
  /\ (\E s \in live : s.kind = "context") => ~window
  /\ run = "launch" => ~window /\ \A s \in live : s.kind # "context"

\* A context keeps the profile locked as long as it lives, also when the manager
\* has lost sight of it.
ContextsHoldTheLock ==
  (\E s \in live : s.kind = "context") => lock

\* Candidates come from a page behind a login that a page, or the operator, was
\* the last to vouch for: no logout, reset or failed check lies in between.
CandidatesAreVouchedFor ==
  found \subseteq {"ready"}

\* A lock file without a context, or a login browser the program does not know,
\* or one that survives a quit, was there when the program started: only a
\* process that is cut off leaves something on the profile.
NothingIsLeftBehind ==
  ui # "down" =>
    /\ lock => "lock" \in left \/ \E s \in live : s.kind = "context"
    /\ window => "window" \in left \/ (native /\ ui # "leaving")
=============================================================================
