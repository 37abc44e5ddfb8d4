-------------------------- MODULE HostCoordination --------------------------
(***************************************************************************)
(* Writes to a file an Office application may have open                    *)
(* (officeWriteCoordinator.ts, and the F5 command and the launcher's       *)
(* scripts as far as they open, close and reopen the file).  One file, its *)
(* one open copy, several writes under way at once (VS Code saves all      *)
(* dirty documents side by side, and agents write too), the background     *)
(* refresh of a read-only copy, an F5 run, the user in the application,    *)
(* and another program that may hold the file a while.                     *)
(*                                                                         *)
(* A script's look at a copy and its close are one step (milliseconds of   *)
(* one COM client); its waits, its reopen and what the extension does      *)
(* after it are steps of their own.  A text is the number of writes before *)
(* it.                                                                     *)
(***************************************************************************)
EXTENDS Integers

CONSTANTS
    Writers,           \* the writes, each made at most once
    Mode,              \* coordinationMode
    TrackOpenedFiles, ReopenAfterClose, RefreshAfterSave,  \* settings
    ReopenMode,        \* "lastState", "readOnly" or "readWrite"
    Apps,              \* whose file it may be: subset of {"excel", "word"}
    OpensFail,         \* may the application fail to open the file?
    OthersLock,        \* may another program hold the file?
    MaxUser, MaxRuns   \* bounds: acts of the user, F5 runs

ASSUME ModeAssumption == Mode \in {"block", "closeTracked", "closeForce"}
ASSUME ReopenModeAssumption == ReopenMode \in {"lastState", "readOnly", "readWrite"}
ASSUME AppsAssumption == Apps \subseteq {"excel", "word"}
ASSUME BoundsAssumption == MaxUser \in Nat /\ MaxRuns \in Nat

VARIABLES
    app,        \* the application of the file
    disk,       \* the text of the file
    copy,       \* the application's copy: NoCopy, or [readOnly, unsaved, shows, mine]
    held,       \* does another program hold the file?
    opened,     \* is the file in xlideOpenedFiles?
    suppressed, \* the file's count in reopenSuppressedPaths
    refresh,    \* the read-only refresh: "none", "looking", "reopening"
    pending,    \* is the file in readOnlyRefreshPending?
    at,         \* per write: how far runWriteWithHostCoordination is
    scope,      \* per write: what it may close
    outcome,    \* per write: what its close reported
    run,        \* the F5 run: [at, saver, needs]
    owed,       \* ghost: the copies XLIDE has closed and not put back
    gone,       \* ghost: who closed the copy that was last open
    users, runs \* counters of the bounds

coord == <<at, scope, outcome>>
ghosts == <<owed, gone>>
vars == <<app, disk, copy, held, opened, suppressed, refresh, pending, at, scope,
          outcome, run, owed, gone, users, runs>>

NoCopy == [open |-> FALSE]
Copy(ro, mine) ==
    [open |-> TRUE, readOnly |-> ro, unsaved |-> FALSE, shows |-> disk, mine |-> mine]
NoRun == [at |-> "none", saver |-> "nobody", needs |-> 0]
NoOutcome == [closed |-> FALSE, forced |-> FALSE, freed |-> FALSE, wasReadOnly |-> "unknown"]

Init ==
    /\ app \in Apps
    /\ disk = 0 /\ held = FALSE
    /\ copy \in {NoCopy} \cup {Copy(ro, FALSE) : ro \in BOOLEAN}
    /\ opened = FALSE /\ suppressed = 0
    /\ refresh = "none" /\ pending = FALSE
    /\ at = [w \in Writers |-> "idle"]
    /\ scope = [w \in Writers |-> "none"]
    /\ outcome = [w \in Writers |-> NoOutcome]
    /\ run = NoRun /\ owed = 0 /\ gone = "user"
    /\ users = 0 /\ runs = 0

-----------------------------------------------------------------------------
\* A read-only copy locks its file in Word, and not in Excel.
ReadOnlyLocks == app = "word"

\* What refuses the rename over the file.
CopyLocks(c) == c.open /\ (~c.readOnly \/ ReadOnlyLocks)
Locked == held \/ CopyLocks(copy)

\* A copy comes up, whoever opens it; a copy that is up stays.
Opens(ro, mine) ==
    /\ copy' = IF copy.open THEN copy ELSE Copy(ro, mine)
    /\ owed' = IF copy.open \/ owed = 0 THEN owed ELSE owed - 1
    /\ UNCHANGED gone

Closes ==
    /\ copy' = NoCopy
    /\ IF copy.open THEN owed' = owed + 1 /\ gone' = "xlide" ELSE UNCHANGED ghosts

ShouldAttemptClose ==
    \/ Mode = "closeForce"
    \/ Mode = "closeTracked" /\ (TrackOpenedFiles => opened)

CloseScopeForWrite ==
    IF ShouldAttemptClose THEN "any" ELSE IF ReadOnlyLocks THEN "readOnlyCopy" ELSE "none"

\* Mutant: what was read-only has nothing to lose.
MayCloseReadOnly(onlyReadOnly) ==
    /\ copy.open /\ (onlyReadOnly => copy.readOnly)
    /\ Mode = "closeForce" \/ copy.readOnly \/ ~copy.unsaved

\* The close script's test of the copy it found.
MayClose(onlyReadOnly) ==
    /\ copy.open /\ (onlyReadOnly => copy.readOnly)
    /\ Mode = "closeForce" \/ ~copy.unsaved

ResolveReopenReadOnly(was) ==
    \/ ReopenMode = "readOnly"
    \/ ReopenMode = "lastState" /\ was \in {"unknown", "readOnly"}

\* Mutant: a save mid-refresh is dropped.
AskRefreshOnce ==
    /\ refresh' = IF refresh = "none" THEN "looking" ELSE refresh
    /\ pending' = FALSE

\* refreshReadOnlyViewAfterSave up to its script: one arriving mid-refresh has
\* the refresh run once more.
AskRefresh ==
    /\ refresh' = IF refresh = "none" THEN "looking" ELSE refresh
    /\ pending' = (refresh # "none")

-----------------------------------------------------------------------------
\* The first attempt.
Write(w) ==
    /\ at[w] = "idle"
    /\ \/ /\ ~Locked
          /\ disk' = disk + 1
          /\ at' = [at EXCEPT ![w] = "written"]
          /\ IF suppressed = 0 /\ RefreshAfterSave THEN AskRefresh ELSE UNCHANGED <<refresh, pending>>
          /\ UNCHANGED scope
       \/ /\ Locked
          /\ scope' = [scope EXCEPT ![w] = CloseScopeForWrite]
          /\ at' = [at EXCEPT ![w] = IF CloseScopeForWrite = "none" THEN "failed" ELSE "closing"]
          /\ UNCHANGED <<disk, refresh, pending>>
    /\ UNCHANGED <<app, copy, held, opened, suppressed, outcome, run, ghosts, users, runs>>

\* The close script finds the copy and closes it.
CloseCopy(w) ==
    LET closes == MayClose(scope[w] = "readOnlyCopy")
    IN  /\ at[w] = "closing"
        /\ at' = [at EXCEPT ![w] = "testing"]
        /\ IF closes THEN Closes ELSE UNCHANGED <<copy, ghosts>>
        /\ outcome' = [outcome EXCEPT ![w] =
               [NoOutcome EXCEPT !.closed = closes,
                                 !.wasReadOnly = IF ~copy.open THEN "unknown"
                                                 ELSE IF copy.readOnly THEN "readOnly" ELSE "editable"]]
        /\ UNCHANGED <<disk, held, opened, suppressed, refresh, pending, scope, run, users, runs>>

\* Its test of the lock, and under closeForce the end of the application.
TestLock(w) ==
    LET kills == Locked /\ Mode = "closeForce" /\ scope[w] = "any"
    IN  /\ at[w] = "testing"
        /\ at' = [at EXCEPT ![w] = "retrying"]
        /\ IF kills THEN Closes ELSE UNCHANGED <<copy, ghosts>>
        /\ outcome' = [outcome EXCEPT ![w].forced = kills,
                                      ![w].freed = IF kills THEN ~held ELSE ~Locked]
        /\ UNCHANGED <<disk, held, opened, suppressed, refresh, pending, scope, run, users, runs>>

\* "Something the user was looking at went away."
ViewLost(w) == outcome[w].closed \/ outcome[w].forced

\* Mutant: only an application that was ended is made up for.
AfterRetryForced(w) ==
    IF outcome[w].forced /\ suppressed = 0 /\ ReopenAfterClose THEN "reopening" ELSE "written"

\* Mutant: a copy is put back whether or not one was closed.
AfterRetryAlways(w) == IF suppressed = 0 /\ ReopenAfterClose THEN "reopening" ELSE "written"

\* What follows a retry that wrote.
AfterRetry(w) ==
    IF ViewLost(w) /\ suppressed = 0 /\ ReopenAfterClose THEN "reopening" ELSE "written"

\* Does the retry leave the file closed for good?
Forgotten(w, wrote) ==
    IF wrote THEN ViewLost(w) /\ suppressed = 0 /\ ~ReopenAfterClose ELSE outcome[w].freed

Retry(w) ==
    LET wrote == ~Locked
    IN  /\ at[w] = "retrying"
        /\ disk' = IF wrote THEN disk + 1 ELSE disk
        /\ at' = [at EXCEPT ![w] = IF wrote THEN AfterRetry(w) ELSE "failed"]
        /\ opened' = (opened /\ ~Forgotten(w, wrote))
        /\ UNCHANGED <<copy, held, suppressed, refresh, pending, scope, outcome, run, ghosts, users, runs>>

\* The open script of reopenFileAfterClose: an editing copy in the way of a
\* read-only open is closed first, unless it holds unsaved work.  A script that
\* could not be started rejects; one that failed does not.
Reopen(w) ==
    LET ro == ResolveReopenReadOnly(outcome[w].wasReadOnly)
    IN  /\ at[w] = "reopening"
        /\ \/ /\ at' = [at EXCEPT ![w] = "marking"]
              /\ IF ro /\ copy.open /\ ~copy.readOnly /\ ~copy.unsaved
                 THEN copy' = Copy(TRUE, TRUE) /\ UNCHANGED ghosts
                 ELSE Opens(ro, TRUE)
           \/ /\ OpensFail /\ ~copy.open
              /\ \E next \in {"marking", "written"} : at' = [at EXCEPT ![w] = next]
              /\ UNCHANGED <<copy, ghosts>>
        /\ UNCHANGED <<disk, held, opened, suppressed, refresh, pending, scope, outcome, run, users, runs>>

Mark(w) ==
    /\ at[w] = "marking"
    /\ at' = [at EXCEPT ![w] = "written"]
    /\ opened' = TRUE
    /\ UNCHANGED <<disk, copy, held, suppressed, refresh, pending, scope, outcome, run, ghosts, users, runs>>

-----------------------------------------------------------------------------
\* The refresh ends a pass: once more for a save that came meanwhile.
RefreshEnds ==
    /\ refresh' = IF pending THEN "looking" ELSE "none"
    /\ pending' = FALSE

\* The script closes a read-only copy nobody typed into; else it does nothing.
RefreshLook ==
    /\ refresh = "looking"
    /\ IF copy.open /\ copy.readOnly /\ ~copy.unsaved
       THEN Closes /\ refresh' = "reopening" /\ UNCHANGED pending
       ELSE RefreshEnds /\ UNCHANGED <<copy, ghosts>>
    /\ UNCHANGED <<disk, held, opened, suppressed, coord, run, users, runs>>

\* It opens the file read-only again, and a refresh that did is marked.
RefreshReopen ==
    /\ refresh = "reopening"
    /\ \/ Opens(TRUE, TRUE) /\ opened' = TRUE
       \/ OpensFail /\ ~copy.open /\ UNCHANGED <<copy, ghosts, opened>>
    /\ RefreshEnds
    /\ UNCHANGED <<disk, held, suppressed, coord, run, users, runs>>

-----------------------------------------------------------------------------
\* F5: reopens are suppressed from here to the run's end.  A dirty module is
\* saved first (one of the writes), and a save that failed ends it.
RunBegin ==
    /\ run = NoRun /\ runs < MaxRuns
    /\ runs' = runs + 1
    /\ suppressed' = suppressed + 1
    /\ \/ run' = [NoRun EXCEPT !.at = "looking"]
       \/ \E w \in Writers : at[w] = "idle" /\ run' = [NoRun EXCEPT !.at = "saving", !.saver = w]
    /\ UNCHANGED <<app, disk, copy, held, opened, refresh, pending, coord, ghosts, users>>

RunEnds == run' = NoRun /\ suppressed' = suppressed - 1

RunSaved ==
    /\ run.at = "saving"
    /\ \/ /\ at[run.saver] = "written"
          /\ run' = [run EXCEPT !.at = "looking", !.needs = disk]
          /\ UNCHANGED suppressed
       \/ at[run.saver] = "failed" /\ RunEnds
    /\ UNCHANGED <<disk, copy, held, opened, refresh, pending, coord, ghosts, users, runs>>

\* Mutant: a copy that is open read-only is run in as it is.
RunLookReuses ==
    /\ run.at \in {"looking", "again"}
    /\ IF ~copy.open \/ (copy.readOnly /\ ~copy.unsaved)
       THEN /\ run' = [run EXCEPT !.at = "opening"]
            /\ UNCHANGED <<copy, ghosts, suppressed>>
       ELSE /\ IF run.at = "looking" /\ Mode # "block" /\ ShouldAttemptClose
               THEN run' = [run EXCEPT !.at = "closing"] /\ UNCHANGED suppressed
               ELSE RunEnds
            /\ UNCHANGED <<copy, ghosts>>
    /\ UNCHANGED <<disk, held, opened, refresh, pending, coord, users, runs>>

\* The macro script: it closes a read-only copy, and is blocked by one open for
\* editing or with unsaved work; then the policy may close that and try again.
RunLook ==
    /\ run.at \in {"looking", "again"}
    /\ IF ~copy.open \/ (copy.readOnly /\ ~copy.unsaved)
       THEN /\ run' = [run EXCEPT !.at = "opening"]
            /\ Closes
            /\ UNCHANGED suppressed
       ELSE /\ IF run.at = "looking" /\ Mode # "block" /\ ShouldAttemptClose
               THEN run' = [run EXCEPT !.at = "closing"] /\ UNCHANGED suppressed
               ELSE RunEnds
            /\ UNCHANGED <<copy, ghosts>>
    /\ UNCHANGED <<disk, held, opened, refresh, pending, coord, users, runs>>

\* closeFileInHost, and the mark set ahead of the second try.
RunClose ==
    /\ run.at = "closing"
    /\ run' = [run EXCEPT !.at = "again"]
    /\ opened' = TRUE
    /\ IF MayClose(FALSE) \/ (Locked /\ Mode = "closeForce") THEN Closes ELSE UNCHANGED <<copy, ghosts>>
    /\ UNCHANGED <<disk, held, suppressed, refresh, pending, coord, users, runs>>

RunOpen ==
    /\ run.at = "opening"
    /\ \/ /\ run' = [run EXCEPT !.at = "running"]
          /\ Opens(TRUE, TRUE)
          /\ UNCHANGED suppressed
       \/ /\ OpensFail /\ ~copy.open
          /\ RunEnds
          /\ UNCHANGED <<copy, ghosts>>
    /\ UNCHANGED <<disk, held, opened, refresh, pending, coord, users, runs>>

\* The macro ran or failed; either way the file was reopened.
RunDone ==
    /\ run.at = "running"
    /\ opened' = TRUE
    /\ RunEnds
    /\ UNCHANGED <<disk, copy, held, refresh, pending, coord, ghosts, users, runs>>

-----------------------------------------------------------------------------
\* The user: opens the file in the application or through XLIDE's command,
\* closes it, types into it, saves it there.
UserOpens(ro, mine) ==
    /\ ~copy.open
    /\ copy' = Copy(ro, mine)
    /\ opened' = (opened \/ mine)
    /\ UNCHANGED <<disk, ghosts>>

UserCloses ==
    /\ copy.open
    /\ copy' = NoCopy /\ gone' = "user"
    /\ UNCHANGED <<disk, opened, owed>>

UserTypes ==
    /\ copy.open /\ ~copy.unsaved
    /\ copy' = [copy EXCEPT !.unsaved = TRUE]
    /\ UNCHANGED <<disk, opened, ghosts>>

UserSaves ==
    /\ copy.open /\ copy.unsaved /\ ~copy.readOnly
    /\ disk' = disk + 1
    /\ copy' = [copy EXCEPT !.unsaved = FALSE, !.shows = disk + 1]
    /\ UNCHANGED <<opened, ghosts>>

User ==
    /\ users < MaxUser
    /\ users' = users + 1
    /\ \/ \E ro, mine \in BOOLEAN : UserOpens(ro, mine)
       \/ UserCloses \/ UserTypes \/ UserSaves
    /\ UNCHANGED <<app, held, suppressed, refresh, pending, coord, run, runs>>

\* Another program takes the file, a sync client or a scanner, and lets it go.
Others ==
    /\ OthersLock
    /\ \/ ~held /\ users < MaxUser /\ users' = users + 1 /\ held' = TRUE
       \/ held /\ held' = FALSE /\ UNCHANGED users
    /\ UNCHANGED <<app, disk, copy, opened, suppressed, refresh, pending, coord, run, ghosts, runs>>

-----------------------------------------------------------------------------
Coordinate(w) ==
    /\ CloseCopy(w) \/ TestLock(w) \/ Retry(w) \/ Reopen(w) \/ Mark(w)
    /\ UNCHANGED app
Refresh == (RefreshLook \/ RefreshReopen) /\ UNCHANGED app
Run == (RunSaved \/ RunLook \/ RunClose \/ RunOpen \/ RunDone) /\ UNCHANGED app

Next ==
    \/ \E w \in Writers : Write(w) \/ Coordinate(w)
    \/ Refresh \/ RunBegin \/ Run \/ User \/ Others

Spec == Init /\ [][Next]_vars

\* Scripts end (they have a time limit), and so do the awaits on them; F5's
\* save, once asked for, is made.
FairSpec ==
    /\ Spec
    /\ WF_vars(Refresh) /\ WF_vars(Run)
    /\ \A w \in Writers : /\ WF_vars(Coordinate(w))
                          /\ WF_vars(run.saver = w /\ Write(w))

-----------------------------------------------------------------------------
Copies ==
    {NoCopy} \cup [open : {TRUE}, readOnly : BOOLEAN, unsaved : BOOLEAN, shows : Nat, mine : BOOLEAN]

\* The types; the count of suppressions is that of the runs under way.
TypeOK ==
    /\ app \in Apps /\ disk \in Nat /\ copy \in Copies /\ held \in BOOLEAN
    /\ opened \in BOOLEAN /\ owed \in Nat /\ gone \in {"user", "xlide"} /\ pending \in BOOLEAN
    /\ refresh \in {"none", "looking", "reopening"}
    /\ pending => refresh # "none"
    /\ at \in [Writers -> {"idle", "closing", "testing", "retrying", "reopening",
                           "marking", "written", "failed"}]
    /\ scope \in [Writers -> {"none", "readOnlyCopy", "any"}]
    /\ outcome \in [Writers -> [closed : BOOLEAN, forced : BOOLEAN, freed : BOOLEAN,
                                wasReadOnly : {"unknown", "readOnly", "editable"}]]
    /\ run.at \in {"none", "saving", "looking", "closing", "again", "opening", "running"}
    /\ suppressed = IF run.at = "none" THEN 0 ELSE 1
    /\ users \in 0..MaxUser /\ runs \in 0..MaxRuns

\* Nothing is ever closed with unsaved work in it, outside closeForce: not by a
\* write, its retry or its reopen, the refresh, or F5, in any order they come.
UnsavedSurvives ==
    [][copy.open /\ copy.unsaved /\ users' = users => copy' = copy]_vars

\* The macro runs in a text no older than the save F5 made for it.
RunsTheSavedText == run.at = "running" /\ copy.open => copy.shows >= run.needs

\* Once saves cease, a copy open read-only that nobody typed into shows the last.
LastSaveShown ==
    <>[](copy.open /\ copy.readOnly /\ ~copy.unsaved => copy.shows = disk)

\* Where no copy is open in the end, it was not XLIDE that closed it.
ViewComesBack == <>[](~copy.open => gone = "user")

\* Outside F5, whose macro needs it, the file is opened only where a copy of it
\* was closed: by a write or a refresh, for one that it or another had closed.
NeverOpensUninvited ==
    [][~copy.open /\ copy'.open /\ users' = users /\ runs = 0 => owed > 0]_vars

\* A copy open for editing that a write closes is one opened through XLIDE.
ClosesOnlyTracked ==
    [][\A w \in Writers : at[w] = "closing" /\ at'[w] = "testing" /\ outcome'[w].closed
                          => copy.mine \/ copy.readOnly]_vars

\* Once all is at rest, a copy opened through XLIDE is known as one.
TrackedWhileOpen ==
    /\ \A w \in Writers : at[w] \in {"idle", "written", "failed"}
    /\ refresh = "none" /\ run = NoRun
    => (copy.open /\ copy.mine => opened)

\* While F5 reopens the file nothing else of XLIDE's does.
RunReopensAlone ==
    [][run.at = "opening" /\ run'.at = "opening" /\ users' = users => copy' = copy]_vars

=============================================================================
