# XLIDE in TLA+

XLIDE is a VS Code extension that edits the VBA of Office files: it opens the
modules inside a workbook, document, presentation or Access database as text
documents, analyses them as they are typed, and writes them back into the file,
while Excel, an AI agent, an MCP server in another process, git or a second
window may be changing the same file. This directory holds TLA+ models of the
parts of it whose correctness depends on order: who may write when, which
version of what an answer is about, what is saved, retried, reported or thrown
away. Paths below are relative to the repository (`src/x.ts` is the extension's
source, `docs/`, `tests/` its documents and tests).

## 1. The system

The extension host is one JavaScript thread. Every `await`, timer, VS Code event
and worker message is a point where something else may run, and that is where
the system is hard: code reads a piece of state, awaits, and acts on it. Around
it are a worker thread, the processes of Office and PowerShell, an MCP server
process, and whatever else writes the project file.

| Part | State it keeps | Operations | Talks to | What must hold |
|---|---|---|---|---|
| Analysis worker client and worker (`analysisWorkerClient.ts`, `analysisWorkerLogic.ts`, `analysisWorker.ts`) | queue, the dispatched request and its watchdog, generation last seeded per project, seed providers; in the worker the seeded projects | `ensureSeeded`, `analyze`, `forget`, response, watchdog, crash, `dispose` | callers: live diagnostics, Analyze Project | every request settles once; a queue is always served; an answer is about texts at least as new as its caller's |
| Project index service (`vbaProjectIndexService.ts`, `vbaSymbolIndex.ts`) | a cache of module texts and a record per project, reads and loads in flight, the generation clock | context, batch read, `updateModuleSource`, `invalidate`, editor closed | engine, diagnostics, file changes | a load is shared; one that an invalidation crossed is not kept; what is shared is about the modules as they are; generations tell texts apart |
| Live diagnostics (`vbaLiveDiagnostics.ts`) | generations and timers per document, passes under way, the early and the full result, cached settings | schedule, early and full pass, retry, publish, close | worker, index, settings | problems end up about the text, project and settings there are, and never go back |
| File changes (`projectFileChanges.ts`) | last accounted stamp per file, settle timers, watchers | check, reported change, write bracket, watch | file system, coordinator, mirror | a change made outside is reported once; an own write is not |
| Virtual file system (`xlideFileSystem.ts`) | per document: mtime, size and token it was given; reconcile queue | stat, read, save, form save, notify, reconcile, forget | VS Code's document models, file changes, engine | a save never passes over a change its author has not seen |
| Office write coordinator (`officeWriteCoordinator.ts`) | files XLIDE opened, suppressed reopens, read-only refreshes in flight | write with close, retry and reopen; refresh; mark, forget | Office over COM, file changes | a write is retried at most once; what was closed for it is reopened; unsaved work is never closed away |
| Project engine (`projectEngine.ts`, `src/vba/projectService.ts`) | cached containers, passwords | every read and write of a module, shape, form, reference | everything | an edit is applied to the file as it is now |
| Keyed locks (`util/keyedAsyncLock.ts`) | tail of each key's chain | run an action under a key | settings, test artifacts, mirror | one action per key, in call order, never stuck |
| Dirty module backups (`xlideDirtyModuleBackups.ts`) | debounce timers, write generations, a chain per document | change, save, close, flush, restore, prune | disk, documents | unsaved text survives a crash; a backup never comes back over newer text |
| Agent review (`xlideAgentDiff.ts`, `agentReviewDecorations.ts`) and edit mirror (`mcpEditMirror.ts`) | per module the text before the agent's first write and after its last; the burst's timer, reports in flight | present, track, keep, revert, rename, delete, burst | agent tools, MCP server's log, file system | Revert restores what was there before the agent's first undecided write and discards nothing newer |
| Module operations (`projectModuleOperations.ts`, `vbaRenameHistory.ts`) | recent renames, the one undo slot | rename, delete, add, outside rename | engine, documents | an undo restores only what the rename changed |
| Tree and follow (`projectExplorer.ts`, `explorerFollow.ts`) | listed projects, selection, follow passes | refresh, reveal, open | engine, editors | the tree settles on the active editor |
| Test host session (`vbaTestHostSession.ts`, `vbaTestRunner.ts`) | the promise, three watchdogs, the test in flight, the events read, the application's process | events, watchdogs, exit, abort | a PowerShell script and through it Office | a run ends once, with a result for every test it started; no application is left behind |
| API server (`xlideApiServer.ts`) and agent tools (`agentTools.ts`) | sessions, tokens, requests | call, authorise | agents, MCP clients | a stale write is refused |
| Canonical case, typing automation (`vbaCanonicalCaseController.ts`, `vbaTypingAutomation.ts`) | pending edits per document | on change | documents | an edit lands on the text it was computed from |
| Module sync (`moduleSyncPlan.ts`) | a plan | compare folder and project | disk | both sides keep what only they have |
| Analyzer (`src/analyzer/`), codecs (`src/vba/`) | none between calls | pure functions of text or bytes | | not about order |
| Views (`*Webview.ts`, `shapeEditor*.ts`, `globalSettings*.ts`, form designers) | what they show | messages from their pages | | not modelled |

The hard behaviour, part by part, is the list of hazards in `PROJECT.json`, each
at its line.

## 2. The modules

| Module | Models | Proofs |
|---|---|---|
| `ProjectRecord` | a project record of `vbaProjectIndexService.ts`: the texts it holds and the counters behind `crossModuleGeneration` | |
| `AnalysisWorker` (extends `ProjectRecord`) | `analysisWorkerClient.ts`, the worker thread of `analysisWorkerLogic.ts`, and its two callers | `AnalysisWorkerProofs` |
| `AnalysisService` | abstract: what the client promises its callers; implemented by `AnalysisWorker` | |
| `ProjectFileChanges` | `projectFileChanges.ts`, the writes that bracket themselves with it, the watcher, the server's report | `XlideFileSystemProofs`, last part |
| `XlideFileSystem` | `xlideFileSystem.ts` over one file, `writeProjectModule`, and the VS Code documents it serves (external) | `XlideFileSystemProofs` |
| `HostCoordination` | `officeWriteCoordinator.ts`, F5 and the open commands as far as they touch the copy, the user and the application | `HostCoordinationProofs` |
| `DirtyModuleBackups` | `xlideDirtyModuleBackups.ts` | `DirtyModuleBackupsProofs` |
| `KeyedAsyncLock` | `util/keyedAsyncLock.ts` | `AgentReviewProofs`, last part |
| `AgentReview` | `xlideAgentDiff.ts` with `agentReviewDecorations.ts`'s burst, and those who write: agent tools, the MCP server's reports, saves, renames, deletes | `AgentReviewProofs` |
| `ProjectIndexLoads` | the cache of `vbaSymbolIndex.ts` and the record and loads of `vbaProjectIndexService.ts`, with the changes they are told of | `ProjectIndexLoadsProofs` |
| `LiveDiagnostics` | the scheduler, the passes and what is published of `vbaLiveDiagnostics.ts`, for one module | `LiveDiagnosticsProofs` |
| `TestHostSession` | one run of `vbaTestHostSession.ts`; the script `assets/testhost/run-vba-tests.ps1` and the application as its environment | `TestHostSessionProofs` |

`MC<module>` gives a module its symmetry or its definitions for TLC;
`ProjectFileChanges`, `DirtyModuleBackups`, `LiveDiagnostics` and `TestHostSession`
need none and are run as they are. An action is what the event loop runs
between two points where something else may run; a handler that awaits only
things that do not let the loop go is one action. Integers are unbounded in the
code's use of them (counters of a session), and so are they here.

### AnalysisWorker

`queue`, `pending`, `retried`, `cancelled`, `failed`, `worker`, `seeded`,
`provider` are the client's fields `_queue`, `_pending`, `PendingRequest.retried`,
its cancellation flag, `_failed`, `_worker` (as an incarnation number),
`_seededGenerations`, `_seedProviders`. `inbox` and `outbox` are the two message
channels of the thread, `wseed` its `_workbooks`. `requests` is every request
`analyze()` took, in order, with what its caller knew; `outcome` how its promise
was settled; `basis` the texts it was analysed against. The project is the list
of records built (`recs`), of which the last is served, and texts are versions.

`AnalyzeLive` and `AnalyzeCommand` are `ensureSeeded` and `analyze` as the two
callers call them; `DispatchNext` is an iteration of `_dispatchNext` with
`_submit`; the four `On...` actions are the branches of `_onResponse`;
`Watchdog` and `WorkerDies` the timeout and the worker's end; `Forget` the
editor's close; `HandleSeed` and `HandleAnalyze` the thread. `ReadContext` and
`AnalyzeLive` are two steps because a live pass awaits its settings between
them; project texts and records change meanwhile (`ChangeModule`,
`RebuildRecord`). A live pass whose own document moved on ends there, as
`isCurrentRun` says.

### ProjectFileChanges

`fileStamp` is what `fs.stat` would say, `accountedStamp` the map's entry (`accounted`), `writing` and
`before` the `recordProjectWrite` calls that wait for the engine and the stamps
they took, `settling` the settle timer, `noticed` and `reporting` a watcher's
event and the server's report on their way. `read`, `unseen` and `together` are
ghosts: whether the extension holds something of the file, whether somebody else
has changed it since without an event saying so, and whether writes were in the
bracket together since a look with none in it. A listed file has been read before anything
else happens (`Init`, where `Lists` allows it). A save by rename is two steps
(`Vanish`, `Reappear`), and a check may come between them.

### XlideFileSystem

`entry` is the provider's `ModuleStat` per module, `accounted` the file's stamp,
`changed` the change events on their way to VS Code, `announcing` the writes of
agents whose `notifyFileChanged` is still to come. `doc` is VS Code's document
with the mtime and the size it was last told, `save` how far its save is.
`SaveStats`, `WriteFile`, `FinishSave` are a save: the stat with the conflict
check, `writeFile` up to the end of the write, and `recordSave` with the stat
after it. `touched` is a ghost: the modules somebody else wrote since their
document was loaded or saved. `Look` is `checkProjectFile` with the reconcile it causes, part of
every step in which VS Code asks. VS Code is external: that it stops a save only
where mtime and size both differ, and reloads a clean document at a change
event, is what the provider's comments say of it. What may take long enough for
others to act is a constant (`Slow`); the runs say which.

### HostCoordination

`copy` is the copy the application has open (read-only or not, with unsaved work
or not, and which text it shows), `held` a lock of some other program. `at`,
`scope`, `outcome` follow each `runWriteWithHostCoordination`: first attempt,
close script, lock test (and, under closeForce, the end of the application),
retry, reopen, mark. `opened`, `suppressed`, `refresh`, `pending` are
`xlideOpenedFiles`, `reopenSuppressedPaths`, `readOnlyRefreshInFlight` and
`readOnlyRefreshPending`. `run` is F5 from its save to its macro. `owed` and
`gone` are ghosts. Several writes are under way at once, since Save All and
agents write side by side and nothing serialises them.

### DirtyModuleBackups

`pending`, `gen`, `ops` are `_pendingWrites`, `_writeGenerations` and the chain
in `_fileOperations`; `file` is the backup on disk, torn while it is written.
`busy` says that the first operation of the chain has begun: a write and a delete are
awaited, so each begins (`OpStep`) and is done (`OpDone`) in two steps, and `dispose` or
a crash may come between. `Dispose` writes on the spot what is debounced and leaves the
chain running, as the code does; the process goes at `Exit`, some operations later, or
at any time without a word (`Crash`). Then all in memory is lost, and a save under way
was made or was not.

### KeyedAsyncLock

`queues` is the map of tails; `previous[c]` the promise the call `c` waits for.
`ticket` is a ghost that numbers a key's calls.

### AgentReview

`text` is what the file holds, `pending` the map `pendingReviews` with a review's
`before` and `after` (`NoText` for a module that did not exist), `timer`,
`presented` and `held` are `presenterTimer`, `presentedReview` and `heldReview`.
`call` is `writeModuleForAgent` between its read, its write and its review,
`reports` the MCP server's edits not yet taken by `mcpEditMirror.ts`, `save` a save
whose write is done and whose `trackWrite` is not, `revert` a Revert between its
comparison, its write and its end. A read of the module before or after a tool's write
may fail (`Fails`); before it, the code takes that for a module to be created. Ghosts:
`open`, the agents' writes nobody has decided on, each with the text it wrote over
(`before`), whether the tool had failed to read that (`unread`) and whether the review
has yet to hear of it, has heard of it in turn, or after a later one (`at`: "coming",
"shown", "late"); `author`, who wrote a module last, with who wrote in the middle of a
save told apart; and `latest`, whose review was presented last. A write takes effect
before the review hears of it, because the coordination with Office may come between.
Saves, calls and reports cross freely in that gap; `AtOnce` names the three gaps a run
leaves out: between a call's read and its write, in a Revert, and a rename while a
review has yet to hear of a write.

### ProjectIndexLoads

`cached`, `listed`, `list`, `bumped`, `theRead`, `reads` are `VbaSymbolIndex`: the
cached sources, the module list with its five seconds, the modules with a
generation, `_allModuleReads` and each read under way. `record`, `aged`, `theLoad`,
`loads` are `VbaProjectIndexService`: the record with the document versions folded
into it, its TTL, `_loads` and each load under way. A load or read that was
invalidated goes on without being `theLoad` or `theRead`, and so there may be
several. `ReadFile` and `ReadRest` are two steps because a batch read caches its
modules in chunks and lets the loop go between. `doc` and `saving` are the editors,
`lastSeen`, `noticed`, `announcing` the look at a change from outside
(`refreshProjectStateOnOutsideChange`) and the end of an own write. `unsaid` is a
ghost: modules changed of which the index has not been told. A look that finds
something new tells it of all; one that finds what the last found tells it of
nothing, and nothing is then left to say, unless the refresh of an own write is
still to come (`announcing`).

### LiveDiagnostics

`generation`, `completed`, `localTimer`, `fullTimer` are the `DiagnosticScheduler`;
`passes` every pass under way and the await it is at, `earlyRun` what the full pass
waits for, `full` and `early` the two results of which the problems are combined
(`Lead`, `Shown`). `retrying` and `retries` are the repeated full pass of a module
the project does not know, `cache` and `watched` the cached settings and the watch
of the sidecar. Text, project and settings are version numbers, and a report says
which it was made of. What the worker does with a request is `AnalysisWorker`; here
it answers, times out, supersedes or dies (`up`). `known` is whether the module's
meta data are there for the early pass that has no worker.

### TestHostSession

The session: `settled`, `results`, `failed` its promise, `timers` the watchdogs
armed, `current` the test in flight, `started` and `ended` what the list of events
says of the tests, `pid`, `killed`, `sawQuit` of the application it owns,
`timedOut`, `killing` (the script was told to die), `exitSeen`. The script: `stage`,
`test`, `code`, `dialog`; `pipe` is what it wrote and the session has not read;
`office` is the application and `job` whether it dies with the script. The script
may stop or hang at every stage, fail where it can fail, and die with `MayCrash`;
what it wrote is read all the same.

## 3. The runs

| Run | Checks | Distinct states (about) |
|---|---|---|
| `worker_queue` | `QueueServed`, `NoReseedNeeded`, the refinement `ServiceSpec`, `EveryRequestSettles` | 305,000 |
| `worker_seeds` | `CommandExact`, `FreshTexts` with one module analysed live | 818,000 |
| `files` | `NothingHidden`, `OwnWritesSilent`, `EveryChangeReported` | 17,900 |
| `xfs` | `TypeOK`, `SavesKnowTheText`, `ConflictsAreReal`, `CleanDocumentsFollow` | 82,300 |
| `host_run` | `RunsTheSavedText`, `UnsavedSurvives`, `NeverOpensUninvited` | 2,396,000 (under symmetry) |
| `host_refresh` | `LastSaveShown`, `ViewComesBack` | 216,000 |
| `backups` | `MirroredWhenQuiet`, `CleanHasNone`, `BackupsOutlive` | 99,000 |
| `lock` | `InCallOrder`, `EntryWhileActive`, `EveryCallEnds` | 33,400 |
| `session` | `TypeOK`, `StartedTestsHaveResults`, `VerdictsStand`, `Settles`, `TiedOfficeEnds` | 181,900 |
| `review` | `TypeOK`, `OriginalKept`, `ReviewFollows`, `BurstEndsOnLatest` | 659,300 (under symmetry) |
| `index` | `TypeOK`, `IndexIsFresh`, `WaitedForRuns` | 790,800 (under symmetry) |
| `live` | `TypeOK`, `QuietShowsWhatIs`, `ProblemsGoForward`, `ProblemsCatchUp` | 189,600 |

The type invariants of `AnalysisWorker`, `ProjectFileChanges`, `HostCoordination`,
`DirtyModuleBackups` and `KeyedAsyncLock` are theorems (`TypeCorrect`,
`ChangesTypeCorrect`, `LockTypeCorrect`) and no longer run; those of `XlideFileSystem`, `AgentReview`,
`ProjectIndexLoads`, `LiveDiagnostics` and `TestHostSession` are run and proved.

What the newer runs show, and what a change of the code would have to keep:

- `session`. `StartedTestsHaveResults`: when the promise is settled, by whichever of
  watchdog, dialog, exit and the last event comes first, each test seen to start
  has a result, and what is missing was never started. `VerdictsStand`: no later
  watchdog or exit turns a verdict that was read into an error. Both hold because
  the test in flight is cleared with its result, and a terminal event is written
  only for the test in flight. `Settles` holds because a watchdog is armed in every
  phase until the session settles, which `TypeOK` has as a conjunct.
- `review`. `OriginalKept`: the before of a review is that of the oldest agent's write
  nobody decided on, where the review heard of the writes in the order they were made
  (a condition on the module's own writes, so that it says something of every other
  module and time in a run where reports and calls cross); where that write's tool could
  not read the module it may be nothing. `ReviewFollows`: after all that crossed, the
  review's after is what the module holds, and no agent's write goes without a review.
  The latter rules out the easy way of keeping the former.
- `backups`. `BackupsOutlive` holds with operations that begin and end apart and a
  `dispose` that leaves them running. It excuses one thing: what `dispose` flushed, once
  the process is ending, may be deleted by what was queued before (section 5).
- `index`. `IndexIsFresh` says of cache, load and record together that whatever one
  asks of them is what the file or the editor holds, of each module no change of
  which is on its way, however loads, chunked reads, saves, closes and refreshes
  crossed. `WaitedForRuns` is what keeps a failure from being waited for forever.
- `live`. A pass that is dropped is always dropped for one to come:
  `QuietShowsWhatIs` and `ProblemsCatchUp` are violated if the chain of drops can
  end with none. `ProblemsGoForward` is about the order in which answers of two
  workers and passes made in the host arrive.

**Bounds.** `worker_queue` makes three requests, so that one is at the worker,
one is queued and one comes late; with one module, so that live requests
supersede each other; seeds and posts may fail at each of them, the worker may
die or be replaced at any step. `worker_seeds` needs two modules, two texts each
and two records, which is the least in which "somebody else's change" and "the
record was rebuilt" differ. `files` allows five stamps: a first look, two
overlapping writes, and two changes from outside around them, one a rename.
`xfs` has two modules (the one a change reached and one it did not), two texts
of equal length and one the engine stores as another; three stamps.
`host_*` have two or three writes, four or two acts of the user, one F5.
`host_refresh` needs the third write for a save to arrive while a repeated pass
runs. `backups` has three edits, two ends of the host and six other acts: edit,
save, close, open with restore, and again. `lock` has four calls of one key, so
that a chain has a middle, and two of another, so that keys are seen apart.
`session` has two tests, so that one has ended, one is in flight and a late event
is of either. `review` has two writes of agents, each of whose reads may fail, so that
one is merged with another, in either order, four acts of the user and others, so that
a save or a Revert may be decided on, crossed and followed, two modules,
so that a burst has a review presented and one held, and two texts, so that "back
where it was" differs from "changed again" (with three writes and two acts it passes as
well, in 4,400,000 states). `index` has a module in the first
chunk of a read and one in the rest, two reads and two loads, so that one was
invalidated and one took its place, and two writes of the file. `live` opens a
module twice, so that what is left of its first document meets the second, with
two events (edits, changes, switches, closes) and one fault on top of the opens.

**Deadlock** is not checked where the bounds let a behaviour end, which is
everywhere: every model stops when its counters are used up. What deadlock would
mean here is covered by the liveness properties (`EveryRequestSettles`,
`EveryCallEnds`, `EveryChangeReported`, `CleanDocumentsFollow`, `LastSaveShown`,
`ViewComesBack`, `Settles`, `ProblemsCatchUp`).

**Conditions of a run.** A property that fails only for a reason named in
section 5 is checked without that reason, and the reason is a constant:
`Interrupts`, `Lists`, `SizeAsRead`, `Slow`, `Types`, `Analysed`, `AtOnce`, `Races`,
`MayCrash`. What a passing run leaves out that way section 5 names, with the
configuration that puts it back. Two reasons are too narrow for a constant and
are excuses in the property: writes that waited for one password together
(`OwnWritesSilent`) and an agent's write whose announcement is still to come
(`SavesKnowTheText`). `host_run` and `host_refresh` are split by policy in the same
way.

## 4. Fairness

- `AnalysisWorker`: the dispatch loop goes on and the watchdog's timer fires.
  Nothing is assumed of the worker thread, so that "settles" holds for a worker
  that hangs in its first request.
- `KeyedAsyncLock`: the continuation of a settled promise runs, and actions end.
- `ProjectFileChanges`: events are delivered, timers fire, whoever moved a file
  away finishes its rename, the server's log is read, and a write that waits for
  a password is answered or given up.
- `XlideFileSystem`: change events reach VS Code, watchers' timers run, and a
  handler that was begun ends. Nothing is assumed of the author or of agents.
- `HostCoordination`: scripts end (each is run with a time limit), and the save
  F5 asked for is made. Nothing is assumed of the user or of other programs.
- `TestHostSession`: timers fire, what was written to the pipe is read, a process
  that was killed dies. The script owes nothing: it may hang at any stage.
- `LiveDiagnostics`: timers fire, the sidecar's event arrives, and what a pass
  awaits settles, since the engine ends and a worker's request is answered or
  timed out (`AnalysisWorker`'s `EveryRequestSettles`). Nothing is assumed of the
  author.
- `AgentReview` and `ProjectIndexLoads` have safety only.

All of it is weak fairness of the code's own steps. The safety runs assume none.

## 5. Where the code does otherwise

Twenty-two disagreements between the code and what its comments and documents say
of it are `findings` in `PROJECT.json`, with the lines on both sides. The
configurations below are kept beside the runs; in each TLC finds its one property
violated. `tlc -config <name>.cfg MC<module>` prints the counterexample
(`<module>` itself where there is no `MC` module). Where no name is given, it is
the configuration of a run with one constant changed, as the text says.

Of the analysis worker:

- `worker_generations` (`FreshTexts`). A seed is skipped when the generation last
  sent for the project equals the request's, and the generation leaves the
  analysed module's own changes out, so that with two modules analysed live the
  same number stands for different texts. `vbaProjectIndexService.ts:96` offers it
  to "reseed an analysis worker".

Of file changes:

- `files_listed` (`EveryChangeReported`). The first look at a file only records
  its stamp, "since nothing was read from it before"
  (`src/projectFileChanges.ts:53`), but the tree reads a file to list it without
  a look. The first change made outside a listed project is then that first look,
  and is not reported. `projectFileChanges.ts:12` calls this "the case that has to
  work with nothing open". `docs/architecture.md:216` grants the gap and covers
  it by the server's report, which a save of the VBE's does not have.
- `files_prompt` (`NothingHidden`). `recordProjectWrite` takes its first stamp
  before the write, and the write may wait for the user's password before it reads
  the file (`projectEngine.ts:289`). A change made outside meanwhile is accounted
  for, against `projectFileChanges.ts:110`: "taking the stamp then would hide that
  change from every module the write did not touch".
- Two writes that wait for one password take the same stamp before. The second
  one's is not accounted for, and the next check reports it as made outside,
  against `projectFileChanges.ts:8`: "the stamp an XLIDE write leaves is XLIDE's
  own". `OwnWritesSilent` excuses it by `together`; without the excuse `files`
  is violated.

Of the file system, all three `SavesKnowTheText`:

- `xfs_sizes`. `sizeAfterChange` keeps the size it makes up from being that of the
  last read. VS Code compares the one the stat before that read answered, if that
  is the one it keeps (`SizeAsRead = FALSE`); then two changes of equal length make
  up the same size and a save passes over the second. `xlideFileSystem.ts:196`:
  "this never equals the size the document was given".
- `writeProjectModule` announces its change only after the write's coordination
  has returned, which awaits the application reopening the file. Meanwhile neither
  stamp nor entry shows the change. `docs/architecture.md:233`: "an editor with
  unsaved edits cannot save over an agent's write unasked". The property excuses
  the modules in `announcing`; without the excuse `xfs` is violated.
- `xfs_reopen`. `recordSave` reads the module back after the same wait, and takes
  a change others made meanwhile for what the save left.

Of host coordination:

- `host_uninvited` (`NeverOpensUninvited`). Under closeForce a kill counts as a lost
  view whether or not the application had the file open; the file is then opened,
  against `officeWriteCoordinator.ts:668`: "never open a file the user did not
  have open".
- `host_tracked` (`ClosesOnlyTracked`). `xlideOpenedFiles` keeps a path for the
  session. A copy opened by hand later is closed under closeTracked.
  `officeWriteCoordinator.ts:95`: "closeTracked only ever closes files the user
  opened through XLIDE".
- `host_forgets` (`TrackedWhileOpen`). Of two saves that meet the lock the first
  closes, writes, reopens and marks; the second, whose script ran between, fails at
  its retry and removes the mark.
- Of two saves that meet the lock, the second's retry writes after the first one's
  read-only reopen and asks for no refresh. `officeWriteCoordinator.ts:559`: "so
  the copy always ends up showing the last save". `host_refresh` with
  `Mode = "closeForce"` and two writers. `host_suppressed` (`LastSaveShown`): the
  same of a save made while F5's macro runs, when the file has been reopened
  already.
- `host_races` (`RunReopensAlone`). A refresh under way when F5 begins reopens the
  file between F5's close and its own reopen, against
  `commands/officeAppCommands.ts:244`.
- A copy is closed for a write whose retry fails, and is not opened again;
  `package.json:98` says "so your view is restored". `host_refresh` with
  `OthersLock = TRUE` and a mode that closes.

Of the backups:

- `backups_save` (`MirroredWhenQuiet`). The end of a save deletes the backup of what
  was typed while it ran. `docs/architecture.md:254` says that of "a successful
  save", of the text it saved.
- `backups_restore` (`MirroredWhenQuiet`). `restoreIfAvailable` looks whether the
  document is dirty before it reads the backup and not after: it may read the
  backup just written for edits made meanwhile, find it equal to the document, and
  delete it.
- `backups_older` (`NeverRestoresOlder`). The read of a restore does not wait for the
  queue: a module saved, closed and opened again while it is busy is given the
  older text.
- `backups_shutdown` (`ShutdownKeepsEdits`, `FlushStays`). `dispose` writes what is
  still debounced, not what is queued: a write that has not ended with the process is
  lost. And it leaves the queue running: a delete left over from the last save, queued
  or under way, then removes what `dispose` has just written of the edits made since.
  `xlideDirtyModuleBackups.ts:80`: "so the most recent unsaved edits remain recoverable
  after an abrupt shutdown". `BackupsOutlive` excuses the delete, and nothing else.

Of the agent's reviews:

- `review_agents` (`FirstWriteKept`). Writes are merged in the order they are presented.
  A tool call of the window and a report of the server about one module may be
  presented the other way round, and the review then starts from the first agent's
  text. `xlideAgentDiff.ts:163`: "the state before the agent's FIRST unreviewed
  write".
- Any failure of the read before a tool's write, a locked file or a dismissed password
  prompt, is "A create: the module does not exist yet." (`agentTools.ts:607`). If the
  write then succeeds, its review goes back to nothing: Revert deletes the module.
  `review_agents` with `Fails = {"before"}` (`FirstWriteKept`). `review` has these reads;
  `OriginalKept` excuses what is restored of such a write, and of no other.
- `review_gone` (`NoReviewOfNothing`). A review presented after its module was
  deleted is of nothing. `xlideAgentDiff.ts:358`: "A deleted module has nothing
  left to review".
- `review_revert` (`RevertDiscardsNothingNewer`). Revert compares, then waits, then
  writes; a save in between is lost, which line 339 refuses because "reverting
  would discard the newer edit too". With `"revert"` in `AtOnce` the property would
  say no more than that comparison, and so no run checks it.
- The other members of `AtOnce` are gaps of the same kind: without `"call"` what
  somebody wrote between a tool's read and its write is not what the review restores,
  without `"rename"` a review presented late is under the name the module had. `docs/`
  and comments are silent on them.

Of the index, all `IndexIsFresh`, by `index` with a member of `Races`:

- `"during save"`. The end of a save puts the document's text into the cache over
  what an agent or another program wrote meanwhile, and a batch read keeps it
  (`vbaSymbolIndex.ts:352`).
- `"typing"` (`MaxVersion = 3`). It puts the text of that moment there, with what
  was typed since the save; a close without saving reverts the record to it.
  `vbaProjectIndexService.ts:456`: "A closed editor reverts to the indexed module
  content".
- `"back"` (`MaxWrites = 3`). The modules change, a load reads them before the look
  is taken, they change back, and the look finds what the last one found. With
  `MaxWrites = 4` a save does it too: a module is taken out of the file and put
  back, the list is read in between, and the editor's save leaves the module as
  the last look found it. The proof of `IndexIsFresh` asked for this one.

Of live diagnostics, all `QuietShowsWhatIs`, by `live` with a member of `Races`:

- `"late retry"`. The retry timer of a closed document clears the timers of the one
  opened since, and its own passes end as not current.
- `"unwatched"`. Settings written between the last close and the next open are not
  seen while the cached ones are younger than two seconds.
- `"early down"`. Without the error worker the early pass runs without the project
  and counts as complete; the full pass is skipped. A result made without a
  project has no version of one (`Unread`), so `ProblemsGoForward` fails as well. `vbaLiveDiagnostics.ts:472`:
  "The early worker already analyzed all rules with the current project/settings
  context".

Of test sessions:

- `session_late` (`NoWatchdogAfterSettling`). An event read after the session settled
  arms a watchdog again. It finds the session settled and does nothing more.
- `session_orphan` (`NoOrphan`). Between `New-Object` and the job nothing ties the
  application to the script. `run-vba-tests.ps1:19`: "can never orphan a hidden
  EXCEL.EXE".
- `session_skipped` (`UnreachedTestsAreSkipped`). The status of a test not reached
  because an earlier one timed out is `host-error`; "Not run because test host timed
  out" (`vbaTestExecution.ts:139`) is never said.

## 6. The proofs

Each module of proofs extends its component and holds for every value of the
constants, from the component's `ASSUME`s alone; where a theorem needs more it
says so in its own `ASSUME`, which is then a condition on how the code is used.

**AnalysisWorkerProofs.** `TypeCorrect` is inductive as it is, because `TypeOK`
bounds every request number in a queue or message by the number of requests
made. `QueueAlwaysServed` rests on `QueueInv`: open requests are exactly those
owed, none is both queued and dispatched, work is there only with a worker, and
an idle host with a queue has a request out. `QueueServed` alone is not
inductive: it would let a request be at a worker that is not there.
`SeedsAreKnown` (`NoReseedNeeded`) rests on two more: `ChannelInv`, that the
dispatched request is the last message of the inbox or its answer is on its way,
once, and `SeedInv`, that what the client notes as sent is what the worker will
have once it has read its inbox. That has to be said of every prefix of the
inbox, as the request is behind seeds still unread.

`CommandsAreExact` and `LiveTextsAreFresh` are about the texts an answer was made
of, while seeds are compared by their generation alone. What the client noted as
sent may therefore be an older seed of the same generation, and the invariant has
to speak of every text that may stand behind a generation: `GoodSeed(k, g, v)` says
that texts `v` seeded under `g` are right for every request there is with that
generation and for every request still to come. It holds of what the worker has,
of each seed on its way and of what would be sent for each request there is. For
commands that is unconditional, since each takes a new generation. For live
passes the records' generations must be apart (`RecordsInv`: a record begins
after all its predecessors gave), and the theorem assumes what `worker_seeds`
does: one module analysed live, and seeds that arrive (`Unseeded = FALSE`).
`worker_generations` is the counterexample without the first.

`ClientIsAService` is the refinement: every behaviour of the client is one of
`AnalysisService` under the mapping of `AnalysisWorker` (its requests, their outcomes
and whether the client has failed for good). The step that needs an invariant is
the one in which a live request is dropped, which the service allows only for
one that is not its document's newest: `ServiceInv` says that requests go out in
the order they came, that what is queued is the newest of its document, that what
is out is, too, unless it is cancelled, and that only live requests are.

**ProjectFileChanges** (the last part of `XlideFileSystemProofs`, whose provider looks at
the file the same way). `ChangesTypeCorrect` from `Shape` (a rename under way has
a stamp left to end with). `ChangesAreNotHidden` holds while the file is never
read without a look at its stamp and is not touched while a write waits, and
`HiddenInv` adds that no writer in the bracket took the stamp that is accounted
for while a change is unseen: otherwise its end would cover the change.
`OwnWritesAreSilent` assumes only the second: that nobody else touches the file
while a write waits. Writes may overlap; the invariant says that a stamp nobody
accounted for is somebody else's or that of a write which was in the bracket with
another. Section 5 has a counterexample for each condition.

**KeyedAsyncLock** (the last part of `AgentReviewProofs`, whose reports the lock takes
in turn). `RunsInCallOrder` and `EntriesAreActive` rest on
`LockInv`: calls of a key have places of their own, `previous` is the call one
place before (or, at the head of a chain, everything before is over), those
before a call that has begun are over, and the map's entry is the last call made
and still under way. The chain is needed because mutual exclusion says nothing
of which promise a waiting call waits for.

**HostCoordinationProofs.** `TypeCorrect` from `Shape`, one conjunct per part
(file, writes, refresh, run, the rest), so that a step need be looked at only
for the parts it disturbs; it adds to `TypeOK` who F5's save is and which text it
needs. `UnsavedWorkSurvives` needs no invariant besides: every close of a copy
tests for unsaved work in the same step. It assumes a policy other than
`closeForce`, whose kill tests nothing.
`RunsInTheSavedText` holds in every policy, from `SavedInv`: the text F5 needs is
on the disk, and a copy that is open while F5 opens or runs shows it or a later
one. The second part is needed because a write or a refresh, not F5 alone, may
be what opens the copy the macro runs in. `NeverOpensAFileUninvited` counts:
`OwedInv` says that, before F5 has run, `owed` is at least the number of writes
that closed a copy and may still put it back, plus one for a refresh that is
about to. That `owed` is positive while one of them may open the file would not
be inductive: the first reopen would pay for all. It assumes finitely many writers
and, again, no `closeForce` (section 5 has the run that kills).

**DirtyModuleBackupsProofs.** `TypeCorrect` from `Shape`, which keeps what is
torn apart from what is a text: only writes have begun when `busy`, and what is
restored was never torn. `EditsAreMirrored` and `CleanHasNoBackup` assume that
nobody types during a save or a restore (`Types = {}`); section 5 has a
counterexample for each. They share `BackupInv`: a dirty document's text is
debounced with the latest generation, or is the last operation queued with that
generation, or is the backup (`MirrorInv`); what is queued for a clean one ends
with a delete (`CleanInv`); a restore goes into a clean document and a save
writes what it shows (`EditInv`). That the last write has the latest generation
is what keeps `OpStep` from passing it over; that only the last operation matters
is what makes the argument hold for a queue of any length.
`BackupsAreKept` (`BackupsOutlive`) assumes the same and rests on `OutliveInv`. A delete
that is queued may wait behind any number of writes, so it is not enough that the
backup's text is settled when the delete is queued. Every queued write before a
delete has an old generation and will be passed over (`OpAt`), the write that has
begun and the backup hold settled texts (`FileInv`), and no text is later than the
last typed (`TextsInv`), which is what settles it when the document is saved or
closed. A `dispose` breaks this for the text it flushes past the queue, which is the one
thing the property excuses (`Flushed`); the invariant says so only while the process is
ending, and the next host begins with an empty queue.

**TestHostSessionProofs.** `StartedTestsGetResults` and `ReadVerdictsStand` hold for any
number of tests. What the session knows of a test is what it has read, so
`SessionInv` speaks of the output that is not read yet: the tests are in it in
their order (`PipeInv`), each start before its end; the script is in no test when
it ends well, and the session, once all is read, in none either (`ScriptInv`); the
test in flight has started and has no verdict, and every other test that was
seen to start has one (`TestInv`). `TypeOK` says that an unsettled session has a
watchdog, which is not inductive without `WatchInv`, that is, which watchdog is
armed in which phase.

**XlideFileSystemProofs.** `SavesPassOverNothing` and `ConflictsAreSomebodys` are about
two stamps, the provider's entry and what VS Code was told, of which VS Code sees
a difference only where both mtime and size differ. `FileInv` says that the entry
of an open document is never behind what VS Code was told, and that where it is
ahead the size is another, too (`ToldInv`); that it is ahead, or a look or an
announcement will move it, where the module is not what the document was given,
and only where somebody else wrote the module (`ChangeInv`); and what a save has
found so far (`DocumentInv`). The theorems assume `SizeAsRead` and that the write of
a save and its record are one step (`"save" \notin Slow`). Without the first
`xfs_sizes`, without the second `xfs_reopen` is a counterexample.

**ProjectIndexLoadsProofs.** `TypeCorrect` and `WaitersAreServed` (`WaitedForRuns`) hold
unconditionally. `SharedIndexIsFresh` assumes `Races = {}`. `IndexIsFresh` alone is not
inductive: it speaks of what is answered now, and that is made of what a read took
a while ago. `FreshInv` adds, per module no change of which is on its way, that a
read which still keeps its cache has what the file has or somebody has told the
cache of the module since (`AttachedAt`), that a read or a load that can be joined
has it in any case (`JoinedAt`, `LoadAt`), that the list has the module exactly if
the file has (`ListAt`), and that the record fits once the documents newer than the
version it folded in are folded (`RecordAt`). `SeenInv` ties the look to the ghost: if
the file is as the last look found it, nothing is left to say; `"back"` breaks it.
`SavingInv` says that the document of a save under way shows what was written;
`"typing"` and `"during save"` break it.

**AgentReviewProofs.** `TypeCorrect` holds whatever comes between whose steps. The other
theorems name what must not: `BurstsEndOnTheLatest` that a rename waits until the review
has heard of all (`BurstInv`: the latest write's review is shown, or it is the one held,
and none is held when no timer runs); `ReviewsFollow` that, and nothing between the
steps of a Revert, and that the module can be read after a write; `OriginalsAreKept`
the first two, and nothing between a call's read and its write, with reads that may
fail. Saves, calls, reports, Keep, deletes and silent writes cross as they like.

`ReviewFollows` speaks of modules the review has heard all of; the invariant speaks of
the others, too. `FollowInv`: the review's after is the module's text, and while a save
is to be heard of the save's text is (`AfterAt`, `SaveAt`), but where an agent or a Revert
wrote in the middle of that save. `UndecidedInv`: a write that is coming is with the call
under way or in a report (`ComingAt`), one that was heard of has a review (`HeardAt`),
writes have ids of their own (`IdsAt`), and a Revert decides on what was heard of when it
checked, and on no other (`KnownInv`).

`OriginalKept` is kept by each step given where a review's before comes from. `SourceInv`
says it: the call's read is what the module holds, or failed (`ReadInv`), whoever brings
a write brings what it wrote over (`CarriedInv`), and each write is brought by one of
them alone (`ApartInv`). Hearing of a write in order then adds one that is not the
oldest, a first one begins the review, and a decision takes away all that were heard of.
A write heard of late makes `InOrder` false until the next decision; without that
condition `review_agents` is a counterexample.

**LiveDiagnosticsProofs.** `TypeCorrect` holds whatever races happen. `TypeOK` says that
a generation has one pass of each kind; for that `PassInv` must know that there is
none of the latest generation while its timer is still to fire, and, for what follows,
that those there are have read the text their document has and were not superseded.

`ProblemsGoOnlyForward` needs the error worker (`"early down" \notin Races`), since an
early pass without it has no project to be of. The problems are a choice between two
results (`Lead`), and both change. `ReportInv` says that both are of what there is or
was and no newer than what is cached; `ForwardInv`, that a pass that counts has read
the project there is and settings no older than those of either result. So whichever
result it replaces, and whichever was shown, what it publishes is not older. What
makes that hold is an order between the two passes (`RunInv`): the full pass of a
generation waits while the early one runs, so the two never have read at once, and
publishing one cannot leave the other behind with older settings.

`QuietProblemsAreTrue` assumes `Races = {}`. What it says of the end says nothing of the
way, so `DueInv` gives what the problems lack somebody who will make it good: the
full timer, a full pass of the latest generation, the retry of the open document, the
sidecar's event, or nothing is lacking (`Done`). Every step that takes one of these
away must show that it leaves another. A full pass that is skipped leaves an early
result that is complete and of the latest generation, which `EarlyInv` keeps true and
last; one that ends without the project sets a retry, because its faults are fewer
than its tries (`RetriesAssumption`); one that ends as not current is not of the latest
generation, since what is of it is also of the open document (`LifeInv`, which `"late
retry"` breaks). `FreshInv` is what `"unwatched"` breaks: unless the event is on its way,
what is cached and what a pass has read are the settings there are. `OffInv` is
`DueInv` with diagnostics off, when what is due is that the problems go. `RetriesAssumption`
(`MaxFaults <= MaxRetries`) is a condition of the runs as well: what is left when forty
retries have run out is not looked at.

**Model-checked only.** Everything under fairness (`EveryRequestSettles`,
`EveryChangeReported`, `CleanDocumentsFollow`, `LastSaveShown`, `ViewComesBack`,
`EveryCallEnds`, `Settles`, `TiedOfficeEnds`, `ProblemsCatchUp`), which the prover has
no rule for. No run checks a safety property that is not also a theorem, under the
conditions named above; the refinement of `AnalysisService` is one, too.

## 7. What the models leave out

- *One instance.* One project file, one document per module, one module for the
  backups. State is kept per file or document in maps that share nothing else,
  apart from the analysis worker's queue, which `AnalysisWorker` has in whole.
- *Data.* Texts are versions or members of three values; `XlideFileSystem` keeps
  what matters of them, their length and what the engine drops. Passwords,
  encodings, shapes, references are not there.
- *VS Code's round trips* of stat and read within one load or save are a step,
  except where the code awaits an application.
- *Scripts.* A script's look at a copy and its close are one step. The wait it
  makes for a lock is a step of its own. Access, LibreOffice, macOS and the place
  of a view (slide, sheet) are left out.
- *File watching* outside the workspace (`watchProjectFile` by interval) leads to
  the same check as the workspace watcher and is not told apart.
- *Backups*: a write or delete that fails is only logged by the code, and is left out;
  so is a restart of the extension host under documents that stay open.
- *A form's two faces* (`writeForm`) are left out: they record as a save does.
- *Reviews*: Keep All and Revert All (a Keep or Revert of each), the server's report
  of a rename, the diff tabs; tool writes that present nothing are tracked like
  saves.
- *Index*: single-module reads, the list asked for by others without a load, modules
  that cannot be decoded, form faces, VB6 projects, and the symbols computed from
  a text. A look (`Look`) that cannot read the file has no step of its own: its effect is
  the refresh that `OwnWriteEnds` makes.
- *Live diagnostics*: a pass in the host that throws (it ends with what `Answered`
  gives it); several modules at once (all state is per document but the
  settings' cache), loose files, the line being typed (its problems are held back
  when shown), cursor moves, sidecars that cannot be read.
- *Test sessions*: discovery and staging, which dialogs the script answers, the
  validation of a trace after the run.
- *Rename history* (`vbaRenameHistory.ts`): a rename expects one write of each module it
  edited, and a write by somebody else of one it expects is taken for its own. It
  is a hazard without a property; so is what a close script found and others changed
  before the retry.
- *Canonical case, typing automation, the tree's following of the editor, module
  sync* are not modelled yet (section 8).
- *Pruning of old backups* by age is left out: it looks at the clock only.
- *The analyzer and file formats* are functions of their input; a model of them
  would be a second implementation of VBA's grammar and of [MS-OVBA].
- *Views* keep nothing that another part reads.

Most lines of this repository are in the last two: object-model data, diagnostic
rules, grammars, codecs and pages. The share of all lines the models stand for is
therefore small, though they cover most of the code that keeps state across an
`await`.

## 8. Plan

The order follows how much of a user's work is at stake: first what may lose
text (done), then what may show or offer something wrong.

1. Core: worker, file changes, file system, coordination, backups, lock. Done,
   with proofs for all six.
2. `AgentReview`, `ProjectIndexLoads`, `LiveDiagnostics`, `TestHostSession`. Done, with
   proofs for all four.
3. `RenameHistory` and the following of outside renames; `ExplorerFollow`.
4. Canonical case and module sync as pure algorithms against a reference.

Abstract specifications worth stating: besides `AnalysisService`, a save protocol
(author's view, file, conflict) that `XlideFileSystem` implements where its
handlers are quick, and `XlideFileSystem`'s look at the file as an instance of
`ProjectFileChanges`.

Theorems next: the refinement of the save protocol, once it is stated, and weaker
conditions where a theorem asks for more than its counterexamples need.
