# stock-importer: a TLA+ model of its runs

`stock-importer` is a desktop program that reads a numbered script, looks for
stock videos and images for each paragraph (Storyblocks through an automated
browser, free image services over HTTP), downloads what it selects and keeps a
manifest of the result. Two older command lines fetch images and videos for a
list of keywords, and a third extracts the keywords. This directory models the
parts in which threads, failures and time meet: how a script gets its intents,
how a run is started, executed, cancelled, recorded and shown, what a paragraph's
searches and downloads do, and how the command lines share pools, caches and
files.

## The system

| part | state it keeps | operations | interacts with |
|---|---|---|---|
| `pipeline/orchestrator.py` | the `Run` in memory, one `RunControls` per run, limits shared by all runs | `configure`, `create_run`, `cancel`, `execute` | `BoundedExecutor`, run repository, event bus |
| `pipeline/backpressure.py` | slots in use, queue of calls | `submit`, `try_submit`, `shutdown` | worker threads |
| `pipeline/media.py` | live manifest, entry index, deduper and lock of each run | `process_paragraph`, `record_paragraph_failure`, flush, load, release | searches, downloads, manifest repository |
| `ui/controller.py`, `ui/qt_app.py`, `ui/polling.py` | the background task, notifications, what the window shows | start, rerun, cancel, history, poll | everything above, from the thread of the user interface |
| `browser/*` | the one browser session and the thread that owns it, the lock file of the profile, login health | open, attach, check, close, reset | the thread of the run and the user interface |
| provider search (`pipeline/media.py`) | a pool per list of queries, the deduper of the paragraph | ordered collection, retry, time-out, budget, early stop | browser, HTTP clients, deduper |
| ranking and downloads (`pipeline/media.py`, `browser/downloads.py`) | the files of a project, a pool per list of images | rank, try videos in order, download images, retry | browser, HTTP clients, disk |
| ingestion and intents (`pipeline/ingestion.py`, `pipeline/intents.py`, `keyword_extractor.py`) | the document, `project.json`, the output of the command line | import, bootstrap, enrich, edit, extract | the language model, disk |
| legacy command lines (`image_fetcher.py`, `video_fetcher.py`, `legacy_core/*`) | jobs, three pools, two caches, a directory of temporary files | search, download, judge, save, report | image and video services, ffmpeg, the model |
| `storage/*`, `config/*` | JSON files, replaced atomically | load, save | all |
| `services/events.py` | latest event per run | publish | status shown by the window |
| release and benchmark tools | files | measure, package | none of the above |

What is hard: cancel may come at any moment of a parallel run; the outcome of a
paragraph travels from a worker through a future, the executing thread and a
save; workers share one deduper, one manifest and its index with readers; the
user interface starts, cancels and polls while the thread of a run moves; answers
of pools arrive in any order, late or not at all; jobs share caches and temporary
files; files are written in place; saves raise; the process dies. `PROJECT.json` lists these hazards at their lines.

## Modules

| module | models | checked by | proofs |
|---|---|---|---|
| `RunLifecycle` | what `run.json` promises a reader: RUNNING, one outcome at a time, one final verdict | refined by `RunOrchestrator` | |
| `RunOrchestrator` | `create_run`, `cancel`, both branches of `execute`, the executor and its workers | `orchestrator_*` | `RunOrchestratorProofs` |
| `ParagraphManifest` | the lock sections of a paragraph's processing, manifest, deduper and index | `manifest` | `ParagraphManifestProofs` |
| `DesktopRun` | the controller, the window and the thread of the background run | `desktop*` | `DesktopRunProofs` |
| `BrowserSession` | the session manager, its lock file and login browser, the Storyblocks backend | `session` | `BrowserSessionProofs` |
| `OrderedSearch` | what the search of a paragraph promises: one query after the other | refined by `ProviderSearch` | |
| `ProviderSearch` | the three lists of queries of a paragraph, in sequence or through a pool | `search` | `ProviderSearchProofs` |
| `MediaDownload` | ranking, the choice of the video, the downloads of images, the files they leave | `download` | `MediaDownloadProofs` |
| `LegacyFetch` | a run of the image or the video command line | `fetch` | `LegacyFetchProofs` |
| `ScriptIntents` | import, intents and edits in the window, extraction on the command line | `intents` | `ScriptIntentsProofs` |

Each module is cut where the next begins. `RunOrchestrator` calls the processor
as a black box that returns, raises or refuses. `ParagraphManifest` is the inside
of that processor and lets any paragraph start while a worker is free, which is
more than the orchestrator does. `DesktopRun` takes from the orchestrator only
that a run which works reaches a verdict, which `RunFinishes` says.
`BrowserSession` takes from `DesktopRun` that no session button works while a
run has a thread (`ButtonsLockedWhileRunning`), and from the run only that its
thread searches and downloads, one call at a time, as Storyblocks runs do.
`ProviderSearch` and `MediaDownload` are the searches and downloads inside one
paragraph, whose result `ParagraphManifest` takes as any selection its deduper
lets through; `MediaDownload` assumes of its candidates what `FirstFinderKeeps`
shows: none occurs twice. `ScriptIntents` ends where a run begins, with
`project.json`. `LegacyFetch` shares code with all this, but no state.

### RunOrchestrator

`pc` is where the thread inside `execute` is; every place where it reads the
cancel flag, waits, saves or sweeps is a step of its own. `run` is the `Run`
object and `disk` what `run.json` holds, so a crash or a raising save is a step
between them. `fut` is the state of each paragraph's future, `settled` the futures
whose result `wait` can see: the wrapped call gives its slot back *before* the
result is set, and both are steps. Cancelling a queued future never gives its
slot back, exactly as in the code. `Parallel` is the branch at line 121.

The processor reads the cancel flag once, at its start, because the service's
closure binds the value to `should_cancel`; a later cancel does not interrupt it.

### ParagraphManifest

`mem` and `disk` are the entries of the active manifest and of `manifest.json`.
`step` is how far `process_paragraph` has come, cut at its lock sections: begin
the entry, search (no lock), reserve, persist and flush. An asset is a set of
signatures, the values it puts into the deduper's four buckets; two assets are
duplicates when they share one. `claimed` is what the run's deduper has
registered. A search may return any selection its child deduper would have let
through at that moment; what other paragraphs reserve afterwards shows only in
the second filter under the lock. `indexed` is the manifest object the entry
index points into, which a reader's `load_manifest` changes at any time.

### DesktopRun

A handler of the window runs to its end before the next, but the thread of the
run moves in between, so a handler is cut wherever it touches what that thread
touches. `limit` is the orchestrator's `_max_workers`; `workers` what a run went
on with. `task` and `error` are `_background_run`, `told` the notification pushed
at its end. `providers` is what of the shared `ProviderSettings` a run reads anew,
in its guard and for every paragraph (`Search`), against what its own form asked
for (`kind`): a start that is then refused has overwritten both `limit` and
`providers`, first the one (`Configure`), then the other (`ApplySettings`). A source
is "storyblocks" or "free", and `Forms` are the sets of them a mode can ask for. What
a paragraph does with them is left to the modules of the searches. The forms also go
to the shared settings when a preset is loaded, which is not modelled.
`event` is the recorder's latest event, which hides the status in
`run.json` when it decides one. `notification_sent` is left out: it is set in the
same lock section that forgets the task. Between the two reads of the limits in
`execute` (lines 121 and 143) no step is taken, which only hides other pool sizes.

### BrowserSession

`active` is `_active_session`, `live` the sessions whose handle is open, whether
the manager knows them or not. `run` is how far the thread of a run has come in
a search or a download: `check_authorization`, `open_browser` and
`_attach_to_native_browser` are cut where they look at the session, the login
browser or the profile, because the window's `current_state` and the operator go
on in between. That reading is not harmless: it forgets a login browser that is
gone, and in a second lock section the session attached to it (`UiLooks`,
`UiDrops`). The buttons run to their end in one step, `check_storyblocks_session`
in two, since it waits for a browser.

`Quit` is `container.close`, which `bootstrap_application` registers with
`atexit`; the daemon thread of a run goes on beside it until `Exit`, which is
also the crash. What a process leaves on the profile (`lock`, `window`, `stored`)
meets the next one.

A session of another thread is refused in three places by
`browser_session_thread_mismatch`. No step raises it: `SessionsEndWithTheirThread`
is the proof that none can.

Pages are the verdict of the probe. LOGIN_REQUIRED, EXPIRED and CHALLENGE are one
verdict, BLOCKED and UNKNOWN another, because the code asks the operator for a
login in the first case only. `evidence` and `found` are history: the last word
on the login, by a page or by the operator, and what stood behind the candidates
that searches returned.

Assumed of the world: a browser that Playwright launched ends with the process
that drives it and the login browser does not; a running browser marks its
profile as taken; a page of a browser that is gone does not answer.

### ProviderSearch and OrderedSearch

`list` is the list of queries in hand: videos, primary images, fallback images.
`fut` is the future of each query, `processed` and `submitted` are the code's
`next_process` and `next_submit`. Of the two collectors, one without a pool and
one with, `Parallel` decides; the second submits up to a window ahead and takes
results strictly in the order of the queries. When a list is satisfied or out of
time its pool is shut down with `cancel_futures`: what is queued is dropped, what
runs goes on beside the next list. An error closes the pool without cancelling,
which waits for everything it holds.

A pool is only used when no Storyblocks provider is selected. An answer is a set
of assets, one asset for each signature of the deduper. `should_cancel` is a value
bound when `execute` began, so a test of it within the search cannot stop
anything and is no step. `OrderedSearch` knows nothing of futures: its step answers
the next query, ends a list or fails.

### MediaDownload

`rank` holds the tasks of the ranking pool: `try_submit` drops one when the pool
is full, a task may break, and after `ranking_timeout_seconds` those that remain
count for nothing. The score and the raw rank that stands in for it are one
number in the code (`AssetRank`), and the model keeps them apart. `ranked` are the
candidates in the order they are tried, `job` the download of each asset, `got`
the images in hand at their indices, `disk` the file behind every name: which
asset's bytes, and whether whole.

The video of a paragraph is downloaded before its images are searched, and the
paragraph may end there: without a video and without image providers it fails.
The image searches that lie in between belong to `ProviderSearch`. A file is
written under its final name. `Adopt` is `download_one` taking a file that is
there and not empty: it may be what a failed write left, or the video of a
candidate of the same name. `NewRun` is another run of the project over the same
directory, after the end of one or after a crash. The two lists of images are
selected before either is downloaded; that selection changes nothing here.

### LegacyFetch

One module for both command lines, which have one shape: `plan.video` chooses.
`job` is where a keyword is, `item` where a candidate is. The search cache opens
its connection on first use without a lock (`OpenCache`, `Connect` are two
steps). A video's bytes go through a temporary file named by their hash:
`Fetch` looks whether it is there, `OpenTemp` empties it, `CloseTemp` makes it
whole unless another download opened it since. Two candidates with the same
content therefore share a file: one may read what the other is still writing, or
find it removed; `SavedFilesAreSound` and `FailsForACause` say exactly how far
this reaches. `Save` and `SaveFails` write in place, under the final name: when the
disk fails, nothing of the file is there, a part, or all of it, and the job raises. `seen` is `seen_hashes`, read and written under its lock.

`main` is the thread of the command line. It collects jobs, then leaves the pools
in the reverse order of their creation, each when its workers are idle, and then
closes the caches and removes the directory. `faults` is history.

Scores, licences, verdicts and what `ffprobe` notices are outcomes; a verdict in
the relevance cache is a function of keyword and content. The cut of a batch at
`DEFAULT_TOP_K_TO_RELEVANCE` (24) is left out, as it exceeds the default batches.

### ScriptIntents

A script is a sequence of lines: headings are none of its paragraphs, and the
others are numbered by the script, by Word or by their place. `Read` is the loop of the
import, a function defined line by line (`WithLine`), and `Ingested` what it has
after the last line. Paragraph numbers
may occur twice: the import records the issue and keeps both, a run and the
command line refuse such a script, and an enrichment puts its results together by
number, so that one paragraph takes the place of its namesake. The properties
speak of the paragraphs with a number of their own (`Alone`), and of all of them
where issues are refused.

`task` is where `process_one` is for each paragraph. The window asks with one
worker on its own thread, so nothing comes between `Enrich` and the save; the
command line asks with `--workers`. A bad answer is asked for again
(`format_retries`), a transient error of the model is tried again
(`stop_after_attempt`), any other error ends the paragraph. `process_one` returns
its error instead of raising it, so that even with `--fail-fast`, "Stop on first
paragraph error" (`keyword_extractor.py:198`), every paragraph is asked for before
the error is raised: the branch that cancels the rest is never taken, and the
model has no action for it. `project.json` is
replaced in one piece, the output of the command line written in place.

## Runs

| run | bounds | shows |
|---|---|---|
| `orchestrator_parallel` | 3 paragraphs, a selection that may name an unknown one, 3 workers, 2 slots, saves raise, crash | no outcome lost or invented, a complete drain, sound verdicts, no self-blocking submit, refinement of `RunLifecycle`, and that every run ends |
| `orchestrator_sequential` | 3 paragraphs, 1 worker, the same faults | COMPLETED means processed |
| `orchestrator_late_cancel` (violation) | 3 paragraphs, 2 workers, 2 slots | a late cancel ends as COMPLETED with the third paragraph left |
| `manifest` | 3 paragraphs (symmetric), 2 workers, 3 assets of which 2 are duplicates, selections of at most 2, failing flushes and saves | no asset twice, none refused for nothing, reported outcomes on disk |
| `desktop` | 2 starts, for both sources or free images only, exceptions in create, execute and close | one thread at a time, locked session buttons, true notifications, the form's limits and sources, every ended run announced |
| `desktop_unsafe` (violation) | 2 starts, any form | a paragraph that searches Storyblocks in a run with two workers |
| `desktop_errors` (violation) | 2 starts, any form | an error nobody is told of |
| `session` | 3 starts, every button, verdict, failure and moment for the login browser to close | no session outlives its thread, one browser per profile, no context without its lock, no candidates without a login, nothing left on the profile but by a process cut off |
| `search` | 5 plans with up to 3 queries in a list, 2 assets, 2 workers over 3 slots, 1 retry | the first finder in order keeps an asset, nothing asked after a list was left or beyond its window, refinement of `OrderedSearch`, every search ends |
| `download` | 3 videos of which 2 share a name, 3 images, 2 workers over 2 slots in both pools, 1 retry, 2 runs in one directory | the best video that loads, images in order, what a completed file may hold |
| `fetch` | 2 jobs of one keyword with 3 candidates and 2 contents, videos in one batch and one by one, images under `--fail-fast`, 1 retry, all faults | nothing saved twice, torn files and failures only for their causes, a torn file only behind a job that raised where it is the disk's fault, nothing used after it was closed, every run ends |
| `intents` | scripts of up to 3 paragraphs, well and badly numbered, 1 and 2 workers, 2 attempts of 2 calls | every paragraph keeps its place, text and intent; `--fail-fast` is all or nothing; failures lose no intent |

Why these bounds are enough. Three workers over two slots give a window of two
with a worker to spare: a running, a queued and a finished future meet a cancel,
and a third paragraph is left to submit. Two workers and a paragraph that waits
meet every order of two reservations and a third after a failed flush. Two starts
are what it takes for a start to meet a running, an ended and a collected task;
the third would repeat the second. (A third adds one thing to `desktop_unsafe` only,
see below.) A form for both sources and one for free images are one that has to be
serial and one that need not, and differ in what they let a run search. Three starts
of the program are one to leave
something on the profile, one to meet it, and one to meet what that left. Three
queries over a window of two leave one running, one queued and one to submit when
a list is abandoned, and two assets let a list be satisfied before, by or after
the answer that has both. Two files of one name and a third of another meet every
order of a torn, a foreign and an own file; two runs make the first one's files
old. Two jobs with a content in common are what it takes to race for a connection,
a verdict, a place in `seen_hashes` or a temporary file, and the second candidate
of the first job gives it a second batch. Three paragraphs over two workers come
back in any order, and the third is begun when an answer is in.

A run ends in a state where nothing is left to do: `Terminated` says so in
`RunOrchestrator`, `ProviderSearch`, `MediaDownload`, `LegacyFetch` and
`ScriptIntents`; readers keep `ParagraphManifest`, polls keep `DesktopRun` and buttons keep
`BrowserSession` going, so deadlock is checked everywhere. There it says that no
call of a run is ever stuck with a session it cannot use.

### Fairness

`RunOrchestrator!FairSpec`: the executing thread and the worker threads are
scheduled by the operating system, and a processor ends because its searches and
downloads have time-outs. Cancel, failing saves and crashes are never forced.
`DesktopRun!FairSpec`: the Qt event loop ends its handlers and fires the poll
timer, which is never stopped; the thread of the run is scheduled and reaches a
verdict. No click is forced.
`ProviderSearch!FairSpec`: threads are scheduled and every attempt ends, because
requests and pages have time-outs; the budget need never run out.
`LegacyFetch!FairSpec`: the main thread, the jobs and the workers of both shared
pools are scheduled, and downloads, `ffmpeg` and the model have time-outs; a cache
need never expire or break. Fairness is weak throughout.

### What the violations mean

- *Late cancel.* Between the decision point and `submit_next`, with no future
  pending, a cancel leaves the loop through `_finalize_run`. `RunLifecycle`'s
  `MayAbandon` states precisely what is then still true; that one worker needs no
  such licence is proved (`SequentialCompletedMeansProcessed`).
- *Unsafe start.* `apply_forms_to_settings` gives the orchestrator its limits, and
  then the shared settings their providers, before a start is refused. A run between
  its guard and the executor takes the limits, and a paragraph that begins before the
  providers follow searches Storyblocks beside others. With two starts this gap is
  the only place for it: afterwards the run no longer searches Storyblocks, which is
  wrong, too, but safe. (Only a third start, for Storyblocks and refused as well,
  puts the providers back while the run keeps its workers.)
- *Lost error.* A start replaces an ended task that no poll has collected.

Two more disagreements are in the models without a run of their own: the event
`run.cancelled` counts only the futures of the last drained batch (`report` in
`RunOrchestrator`), and `--fail-fast` stops nothing (see `ScriptIntents`).

## Proofs

All theorems hold for every instance of the constants: any paragraphs, workers,
slots, assets, signatures, queries, ranks, file names, jobs, contents, retries,
starts, runs and faults, from the named assumptions of the modules only
(`ParagraphsAssumption`, `WorkersAssumption`, `FaultsAssumption`; `AssetsAssumption`,
`ActiveAssumption`, `PickedAssumption`; `RunsAssumption`, `FormsAssumption` and its
`WorkersAssumption`; `StartsAssumption`;
`AssetsFinite`, `GoodAssumption`, `BoundsAssumption`, `PoolAssumption`;
`NamesAssumption`, `LimitsAssumption`, `RanksAssumption`, `SelectionsAssumption`;
`CountsAssumption`, `PlansAssumption`).

`RunOrchestratorProofs` proves an inductive invariant. The properties are not
inductive by themselves: that a verdict is only given when everything is drained
needs that a future is pending from the moment it is queued until its outcome
was recorded, that only futures of the current batch are settled and collected,
and that the batch is part of pending. From it follow `TypeOK`,
`TerminalIsQuiet`, `NoOutcomeLost`, `VerdictIsSound`, and
`CompletedMeansProcessed` under `MaxWorkers = 1`. `SubmitNeverBlocks` is a count:
until something is cancelled, every call that holds a slot is a future of the
window, and the window is no larger than the number of slots (`SlotInv`).
`CancelStopsSubmission` follows from where the thread can be once the flag is
set. The second part of the module uses the invariant to show that every step of
`disk` is a step of `RunLifecycle` or stutters, and that the disk lags by at most
one paragraph.

`ParagraphManifestProofs`: the invariant ties `claimed` to the signatures of
what is kept, keeps the reservations of different paragraphs disjoint, and says
that an entry in memory or on disk holds either nothing or exactly what its
paragraph keeps; a paragraph left empty-handed then owes it to the others. The
number of paragraphs in work is counted without assuming the document finite.

`DesktopRunProofs`: what the user is told depends on where the thread of a run
is. The invariant says what each place of that thread implies for what it has
written, that a start in hand has no thread yet, that buttons may only be
enabled beside a live thread between a launch and the repaint of the same
handler, that the shared limits are those of the run created last, and so are the
shared providers but for the gap in the middle of its start.

`BrowserSessionProofs`: whether a browser may be launched is read some steps
before it is. The invariant says which sessions can exist while the window or the
run is in the middle of something: those of the window only during a check, when
no run has a thread, all others of the run, also the ones the manager forgot.
Then nothing can come between the look at the profile and the launch. That a lock
file has its context, or is older than the process, is proved on top of it.

`ProviderSearchProofs`: the invariant says which futures each place of the
collecting thread allows, list by list: what is before `processed` is answered,
what is beyond `submitted` is new, what a finished list left behind is not queued.
It carries `FirstFinderKeeps` along, since what was accepted before is subtracted
from an answer. The refinement maps a step of the collector to a step
of `OrderedSearch` and the steps of workers to stuttering.

`MediaDownloadProofs`: until the images begin, everything tried before `next`
failed and everything behind it is new; `ranked` is an initial part of an order of
all candidates in which none stands before a better one. That no candidate among
the first `RankedLimit` is missed is a pigeonhole argument on that order. For
files: a Storyblocks asset is loaded alone (`Alone`), what is being written is
behind its name, and in the first run a file that is there was left by an asset
of its name that is being written, complete or failed.

`LegacyFetchProofs`: `PoolInv` says what is idle at each stage of the end of a
run; `BatchInv` that candidates ahead of a batch are untouched and accepted ones
differ in content; `TempInv` when the temporary file of a content that only one
candidate has is torn or missing, from which the causes of a failure follow
(`CauseInv`), and which files of the run directory are torn: for those of a broken
disk it needs that a job which raised takes no step again; `CountInv` and `ConnInv` count files of a keyword and connections.

`ScriptIntentsProofs` begins with the numbering. A line's number depends on the
paragraphs before it, so its facts are by induction over the lines, in the form the
provers take: a set of line numbers that has 0 and the successor of each of its
members has them all (`Climb`, from the well-ordering of the naturals). In this
way the loop is shown to be defined (`ReadIsTheLoop`), to keep the lines that are
no headings, in their order and each with its number (`ScriptIsRead`), and an
import to be free of issues exactly when its paragraphs are numbered 1, 2, 3 and
so on and none that has a number is empty (`IssuesAreOfNumbers`). The invariant
then compares the document in hand with what was loaded: a
result in it stands for a paragraph of the same number, and a paragraph alone
with its number meets no other's result. That an enrichment puts the *last* result
for a number in place needs that there is a last one (`HasGreatest`).

Type invariants of `ParagraphManifest`, `ProviderSearch` and `LegacyFetch` are
theorems and not part of their runs.

Liveness (`RunFinishes`, `EndedRunIsAnnounced`, `SearchEnds`, `RunEnds`) is only
model-checked: fairness and ENABLED are out of reach of the proof system. For an
execution of a run, a search and a fetch the rest of the argument is proved, so
that TLC is relied on for the temporal rule that joins its two halves:

- Nobody waits for what cannot come (`RunIsNeverStuck`, `SearchIsNeverStuck`,
  `FetchIsNeverStuck`): in every state before the end some step that fairness
  forces is possible. `...CanGoOn` writes the guards of these steps out as
  conditions on the state; they are transcribed from the actions, and that they are
  all of the guard is for the reader to compare. The search needs for it that a
  window is filled before its oldest result is awaited (`WindowIsFull`) and that the
  queries a list drops are those at its end (`DroppedAreBehind`), the execution
  that it awaits only futures that get an outcome (`AwaitedInv`) and never a slot
  (`SubmitDoesNotBlock`, for the search `SubmitNeverWaits`), the fetch that a
  batch in loading holds only what the pool has or is through with (`WaitInv`).
  Pools take the oldest first, so each proof uses that a queue has one (`HasLeast`).
- No step is taken for ever (`RunGoesForward`, `SearchGoesForward`,
  `FetchGoesForward`): each step takes nothing back and gains something of which
  there is only so much, or leads one thread on between two gains (`Forward`). An
  attempt at a download or a query counts as a gain because its retries are
  counted. Only two kinds of step are outside of it: a new run of an idle
  orchestrator, and the expiry of a cached search.

Every safety invariant and action property of a passing run is a theorem.

## Not modelled

- The resolution of the concurrency mode from the selected providers, the merge of
  legacy run statuses and the summaries of a manifest: pure functions of a handful
  of flags.
- `restore_session` after an import of a profile, the copy of that profile, and the
  methods the program never calls (`wait_for_user`, `open_rescue_url`,
  `rescue_storyblocks_query`, `confirm_manual_intervention`, `map_unordered`).
- Within an image service: its HTTP adapters, paging and licences; it is asked as
  one provider. Within Storyblocks: URLs and the parsing of its pages.
- What recovers a run that was RUNNING when its process died: nothing does, and the
  list of hazards says so.
- Presets, among them that loading one applies its form to the settings of a run
  under way; settings other than limits and providers; the report and the keyword JSON of the legacy
  command lines; retries on `PermissionError` inside a replacement of a file.
- The parsing of scripts and model answers, query rewriting, scores and image
  quality, the layout of the window, logs and performance counters, packaging and
  benchmark tools: sequential conversions of data, or not part of the running
  program.

What could follow: the pure functions as operators against a reference
definition, and the composition of `ProviderSearch` with `ParagraphManifest`.
