-------------------------- MODULE LiveDiagnostics ---------------------------
(***************************************************************************)
(* Live diagnostics of one module of a project (vbaLiveDiagnostics.ts):    *)
(* the DiagnosticScheduler's timers and generations, the early and the     *)
(* full pass over their awaits, and the two results the editor's problems  *)
(* are made of.                                                            *)
(*                                                                         *)
(* A pass reads the document, asks for the project, asks for the settings  *)
(* and sends both to a worker: the early ("local") pass to the error       *)
(* worker, the full pass to the other.  Anything may happen between those  *)
(* awaits: an edit, a change of the project or the settings, a close.      *)
(* What the passes read is a version number here; a report says which      *)
(* versions it was made of.                                                *)
(***************************************************************************)
EXTENDS Naturals, FiniteSets

CONSTANTS
    Races,       \* what the code does not stand (README, section 5): subset
                 \* of {"late retry", "unwatched", "early down"}
    MaxLives,    \* bound: times the module is opened
    MaxEvents,   \* bound: edits, changes, editor switches and closes
    MaxFaults,   \* bound: rules that fail, workers that are silent or die, and
                 \* times the project does not know the module
    MaxRetries   \* FULL_PASS_METADATA_RETRY_MAX

ASSUME RacesAssumption == Races \subseteq {"late retry", "unwatched", "early down"}
ASSUME BoundsAssumption == /\ MaxLives \in Nat \ {0} /\ MaxEvents \in Nat
                           /\ MaxFaults \in Nat /\ MaxRetries \in Nat \ {0}
ASSUME RetriesAssumption == MaxFaults <= MaxRetries

VARIABLES
    open, life,  \* is the module open, and in which of its documents
    versions,    \* per document: document.version
    project,     \* what the index serves
    settings,    \* the sidecar on disk
    enabled,     \* xlide.diagnostics.enabled
    watched,     \* ProjectSettingsWatcherRegistry watches the sidecar
    unsaid,      \* its event is on its way
    cache,       \* analysisSettingsCache
    generation, completed,   \* _generations, _completedFullGenerations
    localTimer, fullTimer,   \* _localTimers, _fullTimers
    retrying,    \* per document: timers of fullPassMetadataRetries
    retries,     \* fullPassMetadataRetries
    known,       \* moduleMetaByDoc has the module
    passes,      \* the passes that run
    earlyRun,    \* earlyRuns
    full, early, \* lastDiagnostics, lastEarlyDiagnostics
    up,          \* AnalysisWorker.available
    events, faults     \* counters of the bounds

docVars == <<open, life, versions>>
inputVars == <<project, settings, enabled, unsaid>>
schedulerVars == <<generation, completed, localTimer, fullTimer>>
metaVars == <<retrying, retries, known>>
settingsVars == <<watched, cache>>
shownVars == <<full, early>>
vars == <<docVars, inputVars, schedulerVars, metaVars, settingsVars, passes,
          earlyRun, shownVars, up, events, faults>>

Lives == 1..MaxLives
None == [is |-> "none"]
Unread == MaxEvents + 1        \* no version: nothing cached, no project read

\* What a pass published. gen: completeGeneration; 0: a rule failed, or none
Report(version, p, s, gen, error) ==
    [is |-> "report", version |-> version, project |-> p, settings |-> s,
     gen |-> gen, error |-> error]

Init ==
    /\ open = FALSE /\ life = 0 /\ versions = [l \in Lives |-> 0]
    /\ project = 0 /\ settings = 0 /\ enabled = TRUE
    /\ watched = FALSE /\ unsaid = FALSE /\ cache = Unread
    /\ generation = 0 /\ completed = 0 /\ localTimer = None /\ fullTimer = None
    /\ retrying = [l \in Lives |-> 0] /\ retries = 0 /\ known = FALSE
    /\ passes = {} /\ earlyRun = None /\ full = None /\ early = None
    /\ up = [w \in {"local", "full"} |-> TRUE] /\ events = 0 /\ faults = 0

-----------------------------------------------------------------------------
(* DiagnosticScheduler                                                     *)

Timer(l) == [is |-> "timer", gen |-> generation + 1, life |-> l]

\* schedule(document, delays): which passes the delays name
Schedule(l, kinds) ==
    /\ generation' = generation + 1 /\ completed' = 0
    /\ localTimer' = IF "local" \in kinds THEN Timer(l) ELSE None
    /\ fullTimer' = IF "full" \in kinds THEN Timer(l) ELSE None

\* rerunProjectDocuments and the handlers that schedule what is open
Rerun(kinds) == IF open THEN Schedule(life, kinds) ELSE UNCHANGED schedulerVars

\* Mutant: a pass counts for as long as the text is what it read.
CurrentByText(p) == open /\ life = p.life /\ versions[p.life] = p.version

\* isCurrentRun
Current(p) ==
    /\ generation = p.gen
    /\ open /\ life = p.life /\ versions[p.life] = p.version

-----------------------------------------------------------------------------
(* What the editor shows.                                                  *)

\* combinedDiagnostics: the result the problems are of
Lead == IF early = None \/ (full # None /\ early.version < full.version) THEN full ELSE early

\* Beside an early result that lacks a rule the message of a full pass that
\* failed is kept, however old.
Shown == IF Lead = None THEN {}
         ELSE {Lead} \cup {r \in {full} : r # None /\ r.error /\ Lead.gen = 0}

PublishFull(r) ==
    /\ full' = r
    /\ early' = IF early = None \/ early.version <= r.version THEN None ELSE early

ShowNothing == full' = None /\ early' = None

-----------------------------------------------------------------------------
(* runPass and runPassAsync.                                               *)

\* The pass p ends, and with it what waits for it in earlyRuns.
End(p) ==
    /\ passes' = passes \ {p}
    /\ earlyRun' = IF p.kind = "local" /\ earlyRun # None /\ earlyRun.gen = p.gen
                   THEN None ELSE earlyRun

Go(p, q) == passes' = (passes \ {p}) \cup {q} /\ UNCHANGED earlyRun

\* The worker answers the last request of a document only: analyze with
\* latestOnly, and forget.
Superseded(kinds) ==
    {IF q.at = "worker" /\ q.kind \in kinds THEN [q EXCEPT !.at = "superseded"] ELSE q
        : q \in passes}

\* analysisSettingsForDiagnostics: what is cached, unless it is older than
\* DIAGNOSTIC_ANALYSIS_SETTINGS_CACHE_TTL_MS
Readable == ({cache} \ {Unread}) \cup {settings}

\* The result of p is published, if it still counts (publishDiagnosticsIfCurrent).
Publish(p, complete, error) ==
    /\ End(p)
    /\ IF ~Current(p) THEN UNCHANGED <<completed, shownVars>>
       ELSE IF p.kind = "local"
       THEN /\ early' = IF error THEN early
                        ELSE Report(p.version, p.project, p.settings,
                                    IF complete THEN p.gen ELSE 0, FALSE)
            /\ UNCHANGED <<completed, full>>
       ELSE /\ completed' = p.gen
            /\ PublishFull(Report(p.version, p.project, p.settings, 0, error))
    /\ UNCHANGED <<generation, localTimer, fullTimer>>

-----------------------------------------------------------------------------
(* A pass begins.                                                          *)

NewPass(kind, t) ==
    [kind |-> kind, gen |-> t.gen, life |-> t.life, version |-> versions[t.life],
     at |-> "begun", awaits |-> 0, project |-> Unread, settings |-> Unread]

AsksSettings(p, s) == [p EXCEPT !.at = "settings", !.settings = s]

\* The error worker is not there: the early pass uses what it knows of the
\* module and no project.
Begun(p, s) ==
    IF ~enabled THEN {}
    ELSE IF p.kind = "full" \/ up["local"]
    THEN {[p EXCEPT !.at = "project", !.project = project]}
    ELSE IF known THEN {AsksSettings(p, s)} ELSE {}

\* runPassAsync; publishNothingForDocument when diagnostics are off
Begin(p, others) ==
    /\ \E s \in Readable :
          /\ passes' = others \cup Begun(p, s)
          /\ cache' = IF \E q \in Begun(p, s) : q.at = "settings" THEN s ELSE cache
    /\ IF ~enabled /\ Current(p) THEN ShowNothing ELSE UNCHANGED shownVars
    /\ watched' = (watched \/ enabled)
    /\ UNCHANGED <<generation, completed>>

\* Mutant: an early pass of the same text is as good.
EarlyDidThisText(p) == early # None /\ early.gen > 0 /\ early.version = p.version /\ Current(p)

\* The early pass of this generation has shown everything already.
EarlyDidAll(p) ==
    /\ early # None /\ early.gen = p.gen /\ early.version = p.version
    /\ Current(p)

BeginFull(p, others) ==
    IF EarlyDidAll(p)
    THEN /\ completed' = p.gen /\ passes' = others
         /\ UNCHANGED <<generation, settingsVars, shownVars>>
    ELSE Begin(p, others)

FireLocal ==
    /\ localTimer # None
    /\ localTimer' = None
    /\ LET p == NewPass("local", localTimer) IN
         /\ Begin(p, passes)
         /\ earlyRun' = IF passes' = passes THEN None
                        ELSE [is |-> "run", gen |-> p.gen, version |-> p.version]
    /\ UNCHANGED <<docVars, inputVars, fullTimer, metaVars, up, events, faults>>

\* The local timer is always the shorter one.
FireFull ==
    /\ fullTimer # None /\ localTimer = None
    /\ fullTimer' = None
    /\ LET p == NewPass("full", fullTimer) IN
         IF earlyRun # None /\ earlyRun.version = p.version
         THEN /\ passes' = passes \cup {[p EXCEPT !.at = "waiting", !.awaits = earlyRun.gen]}
              /\ UNCHANGED <<generation, completed, settingsVars, shownVars>>
         ELSE BeginFull(p, passes)
    /\ UNCHANGED <<docVars, inputVars, localTimer, metaVars, earlyRun, up, events, faults>>

\* await early.settled
EarlySettled(p) ==
    /\ p.at = "waiting"
    /\ ~\E q \in passes : q.kind = "local" /\ q.gen = p.awaits
    /\ IF Current(p) THEN BeginFull(p, passes \ {p})
       ELSE passes' = passes \ {p} /\ UNCHANGED <<generation, completed, settingsVars, shownVars>>
    /\ UNCHANGED <<docVars, inputVars, localTimer, fullTimer, metaVars, earlyRun, up, events, faults>>

Fault == faults < MaxFaults /\ faults' = faults + 1

-----------------------------------------------------------------------------
(* A pass goes on after an await.                                          *)

\* contextForProject: the record may be of any moment since it was asked for.
ProjectRead(p) ==
    /\ p.at = "project"
    /\ \E v \in p.project..project, s \in Readable :
          Go(p, AsksSettings([p EXCEPT !.project = v], s)) /\ cache' = s
    /\ known' = TRUE /\ retries' = 0
    /\ UNCHANGED <<docVars, inputVars, schedulerVars, retrying, watched,
                   shownVars, up, events, faults>>

\* The project does not know the module yet: a full pass tries again later.
ProjectUnknown(p) ==
    /\ p.at = "project" /\ Fault
    /\ End(p)
    /\ IF p.kind = "full" /\ Current(p) /\ retries < MaxRetries
       THEN retries' = retries + 1 /\ retrying' = [retrying EXCEPT ![p.life] = @ + 1]
       ELSE UNCHANGED <<retries, retrying>>
    /\ UNCHANGED <<docVars, inputVars, schedulerVars, known, settingsVars,
                   shownVars, up, events>>

\* setTimeout(() => run(document)): of its own document, open or not
FireRetry(l) ==
    /\ retrying[l] > 0
    /\ retrying' = [retrying EXCEPT ![l] = @ - 1]
    /\ Schedule(l, {"local", "full"})
    /\ UNCHANGED <<docVars, inputVars, retries, known, settingsVars,
                   passes, earlyRun, shownVars, up, events, faults>>

\* The pass has the settings, and nothing happens between its check and its
\* request.
Dispatch(p) ==
    /\ passes' = (Superseded({p.kind}) \ {p}) \cup {[p EXCEPT !.at = "worker"]}
    /\ UNCHANGED <<earlyRun, schedulerVars, shownVars>>

\* Mutant: the pass does not look whether it is still the current one.
SettingsReadUnchecked(p) ==
    /\ p.at = "settings"
    /\ IF up[p.kind] /\ p.project # Unread THEN Dispatch(p) ELSE Publish(p, TRUE, FALSE)
    /\ UNCHANGED <<docVars, inputVars, metaVars, settingsVars, up, events, faults>>

SettingsRead(p) ==
    /\ p.at = "settings"
    /\ IF ~Current(p) THEN End(p) /\ UNCHANGED <<schedulerVars, shownVars>>
       ELSE IF up[p.kind] /\ p.project # Unread THEN Dispatch(p)
       ELSE Publish(p, TRUE, FALSE)
    /\ UNCHANGED <<docVars, inputVars, metaVars, settingsVars, up, events, faults>>

\* The worker's answer, and the watchdog's.
Answered(p) ==
    /\ p.at = "worker"
    /\ \/ Publish(p, TRUE, FALSE) /\ UNCHANGED faults
       \/ Fault /\ \E failed \in BOOLEAN : Publish(p, FALSE, failed)
    /\ UNCHANGED <<docVars, inputVars, metaVars, settingsVars, up, events>>

\* AnalysisSnapshotSuperseded
SupersededEnds(p) ==
    /\ p.at = "superseded"
    /\ End(p)
    /\ UNCHANGED <<docVars, inputVars, schedulerVars, metaVars, settingsVars,
                   shownVars, up, events, faults>>

\* The request was rejected: the pass is made in the host, with the project.
InHost(p) ==
    /\ p.at = "host"
    /\ Publish(p, TRUE, FALSE)
    /\ UNCHANGED <<docVars, inputVars, metaVars, settingsVars, up, events, faults>>

\* The worker is gone for good (AnalysisWorkerClient._fail).
WorkerDies(w) ==
    /\ up[w] /\ (w = "full" \/ "early down" \in Races)
    /\ Fault
    /\ up' = [up EXCEPT ![w] = FALSE]
    /\ passes' = {IF p.kind = w /\ p.at \in {"worker", "superseded"}
                  THEN [p EXCEPT !.at = "host"] ELSE p : p \in passes}
    /\ UNCHANGED <<docVars, inputVars, schedulerVars, metaVars, settingsVars,
                   earlyRun, shownVars, events>>

-----------------------------------------------------------------------------
(* What happens to the module.                                             *)

Event == events < MaxEvents /\ events' = events + 1 /\ UNCHANGED faults

\* The module is opened again when what was due to its last document is over:
\* its retry, FULL_PASS_METADATA_RETRY_MS after a pass, and the age of what is
\* cached of settings written since, DIAGNOSTIC_ANALYSIS_SETTINGS_CACHE_TTL_MS.
Open ==
    /\ ~open /\ life < MaxLives
    /\ "late retry" \in Races \/ \A l \in Lives : retrying[l] = 0
    /\ IF "unwatched" \in Races \/ cache = settings THEN UNCHANGED cache
       ELSE cache' = Unread
    /\ open' = TRUE /\ life' = life + 1
    /\ versions' = [versions EXCEPT ![life + 1] = 1]
    /\ Schedule(life + 1, {"local", "full"})
    /\ UNCHANGED <<inputVars, metaVars, watched, passes, earlyRun, shownVars, up, events, faults>>

\* An edit: a module of many lines without a worker has no early pass.
Edit ==
    /\ open /\ Event
    /\ versions' = [versions EXCEPT ![life] = @ + 1]
    /\ \E kinds \in {{"local", "full"}, {"full"}} :
          /\ kinds = {"full"} => ~up["local"] /\ ~up["full"]
          /\ Schedule(life, kinds)
    /\ UNCHANGED <<open, life, inputVars, metaVars, settingsVars, passes, earlyRun,
                   shownVars, up>>

\* onDidChangeActiveTextEditor
Activate ==
    /\ open /\ Event
    /\ Schedule(life, {"local", "full"})
    /\ UNCHANGED <<docVars, inputVars, metaVars, settingsVars, passes, earlyRun,
                   shownVars, up>>

\* Mutant: the timers are left to fire.
CloseKeepsTimers ==
    /\ open /\ Event
    /\ open' = FALSE
    /\ generation' = generation + 1 /\ completed' = 0
    /\ UNCHANGED <<localTimer, fullTimer>>
    /\ ShowNothing
    /\ known' = FALSE /\ retries' = 0
    /\ passes' = Superseded({"local", "full"})
    /\ watched' = FALSE /\ unsaid' = FALSE
    /\ UNCHANGED <<life, versions, project, settings, enabled, cache, retrying,
                   earlyRun, up>>

Close ==
    /\ open /\ Event
    /\ open' = FALSE
    /\ generation' = generation + 1 /\ completed' = 0
    /\ localTimer' = None /\ fullTimer' = None
    /\ ShowNothing
    /\ known' = FALSE /\ retries' = 0
    /\ passes' = Superseded({"local", "full"})
    /\ watched' = FALSE /\ unsaid' = FALSE
    /\ UNCHANGED <<life, versions, project, settings, enabled, cache, retrying,
                   earlyRun, up>>

\* onDidChangeProject, of another module: the text is what it was.
ProjectChanges ==
    /\ Event
    /\ project' = project + 1
    /\ Rerun({"full"})
    /\ UNCHANGED <<docVars, settings, enabled, unsaid, metaVars, settingsVars,
                   passes, earlyRun, shownVars, up>>

\* The sidecar is written: nobody is told of it before a pass watches it.
SettingsChange ==
    /\ Event
    /\ "unwatched" \in Races \/ watched \/ ~open \/ cache = Unread
    /\ settings' = settings + 1
    /\ unsaid' = watched
    /\ UNCHANGED <<docVars, project, enabled, schedulerVars, metaVars, settingsVars,
                   passes, earlyRun, shownVars, up>>

\* The watcher's event: invalidateAnalysisSettingsForProject.
SettingsSaid ==
    /\ unsaid
    /\ unsaid' = FALSE /\ cache' = Unread
    /\ Rerun({"local", "full"})
    /\ UNCHANGED <<docVars, project, settings, enabled, metaVars, watched, passes,
                   earlyRun, shownVars, up, events, faults>>

\* onDidChangeConfiguration
ConfigurationChanges ==
    /\ Event
    /\ enabled' = ~enabled
    /\ cache' = Unread
    /\ Rerun({"local", "full"})
    /\ UNCHANGED <<docVars, project, settings, unsaid, metaVars, watched, passes,
                   earlyRun, shownVars, up>>

PassGoesOn ==
    \E p \in passes :
        \/ EarlySettled(p) \/ ProjectRead(p) \/ ProjectUnknown(p) \/ SettingsRead(p)
        \/ Answered(p) \/ SupersededEnds(p) \/ InHost(p)

Next ==
    \/ Open \/ Edit \/ Activate \/ Close
    \/ ProjectChanges \/ SettingsChange \/ ConfigurationChanges
    \/ SettingsSaid
    \/ FireLocal \/ FireFull \/ \E l \in Lives : FireRetry(l)
    \/ \E w \in {"local", "full"} : WorkerDies(w)
    \/ PassGoesOn

\* Timers fire, events arrive, and what a pass awaits settles: the engine and
\* the workers answer or are timed out.
Spec ==
    /\ Init /\ [][Next]_vars
    /\ WF_vars(FireLocal) /\ WF_vars(FireFull) /\ WF_vars(SettingsSaid)
    /\ WF_vars(\E l \in Lives : FireRetry(l)) /\ WF_vars(PassGoesOn)

-----------------------------------------------------------------------------
(* Properties                                                              *)

Versions == 0..(MaxEvents + 1)

Reports == [is : {"report"}, version : Versions, project : Versions,
            settings : Versions, gen : Nat, error : BOOLEAN]

Timers == [is : {"timer"}, gen : Nat \ {0}, life : Lives] \cup {None}

\* Every variable has a value of its kind; a document has a version from the
\* moment it is opened, and what runs was started by a generation there was.
TypeOK ==
    /\ open \in BOOLEAN /\ life \in 0..MaxLives /\ versions \in [Lives -> Versions]
    /\ \A l \in Lives : versions[l] > 0 <=> l <= life
    /\ project \in Versions /\ settings \in Versions /\ enabled \in BOOLEAN
    /\ watched \in BOOLEAN /\ unsaid \in BOOLEAN /\ cache \in Versions
    /\ generation \in Nat /\ completed \in {0, generation}
    /\ localTimer \in Timers /\ fullTimer \in Timers
    /\ \A t \in {localTimer, fullTimer} \ {None} : t.gen = generation
    /\ retrying \in [Lives -> 0..MaxRetries] /\ retries \in 0..MaxRetries
    /\ known \in BOOLEAN
    /\ \A p \in passes : p.gen \in 1..generation /\ p.life \in 1..life
                         /\ p.version \in 1..versions[p.life]
    /\ \A p, q \in passes : p.kind = q.kind /\ p.gen = q.gen => p = q
    /\ earlyRun = None \/ (earlyRun.gen \in 1..generation /\ earlyRun.version \in Versions)
    /\ full \in Reports \cup {None} /\ early \in Reports \cup {None}
    /\ up \in [{"local", "full"} -> BOOLEAN]
    /\ events \in 0..MaxEvents /\ faults \in 0..MaxFaults

\* A report of the text, the project and the settings there are.
UpToDate(r) ==
    /\ r.version = versions[life]
    /\ r.project = project /\ r.settings = settings

\* What the module's problems should be.
ShowsWhatIs ==
    IF open /\ enabled THEN Shown # {} /\ \A r \in Shown : UpToDate(r)
    ELSE Shown = {}

Quiet ==
    /\ localTimer = None /\ fullTimer = None /\ passes = {} /\ ~unsaid
    /\ \A l \in Lives : retrying[l] = 0

\* Once nothing is due and nothing runs the problems shown are of the text,
\* the project and the settings there are: no pass was dropped for another
\* that is dropped as well.  A module that is not open has none at any time:
\* what still runs for it shows nothing.
QuietShowsWhatIs ==
    /\ Quiet => ShowsWhatIs
    /\ ~open => Shown = {}

\* While a module is open its problems are never replaced by those of an
\* older text, an older project or older settings.
ProblemsGoForward ==
    [][life' = life /\ Lead # None /\ Lead' # None =>
          /\ Lead'.version >= Lead.version
          /\ Lead'.project >= Lead.project
          /\ Lead'.settings >= Lead.settings]_vars

\* The problems of an open module are those of what there is, at last and
\* for good, whatever was changed on the way.
ProblemsCatchUp == <>[]ShowsWhatIs
=============================================================================
