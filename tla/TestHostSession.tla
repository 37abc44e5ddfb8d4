-------------------------- MODULE TestHostSession --------------------------
(***************************************************************************)
(* One run of VBA unit tests in an Office application of its own           *)
(* (vbaTestHostSession.ts): the session reads the events a PowerShell      *)
(* script writes to its output, guards every phase with a watchdog, and    *)
(* settles once with a result per test.  The script                        *)
(* (assets/testhost/run-vba-tests.ps1) and the application are the         *)
(* environment: either may hang, fail or die at any step, and what the     *)
(* script wrote before it died is still read.                              *)
(*                                                                         *)
(* Of the list of events the model keeps which tests it says have started  *)
(* and the last result it holds of each; the phases, the opening of the    *)
(* file and the dialogs that were dismissed change nothing here.           *)
(***************************************************************************)
EXTENDS Naturals, Sequences

CONSTANTS
    NTests,       \* the tests, run in the order 1..NTests
    MayCrash      \* may the script or the application die unasked?

ASSUME NTestsAssumption == NTests \in Nat
ASSUME MayCrashAssumption == MayCrash \in BOOLEAN

VARIABLES
    \* the session
    settled, results, failed,    \* the promise, and what it was resolved with
    timers,                      \* the watchdogs that are armed
    current,                     \* currentMacro, 0 when there is none
    started, ended,              \* the events: tests started, last result of each
    pid, killed,                 \* ownedHostPid (is it known?), ownedHostKilled
    sawQuit, timedOut,           \* sawHostQuit, timedOutAfter (is it set?)
    killing,                     \* has the script been told to die?
    exitSeen,                    \* has handleHostExit run?
    \* the script and the application
    stage, test, code,           \* where the script is, its test, its exit code
    dialog,                      \* has the watcher reported a dialog of this test?
    pipe,                        \* what the script wrote and the session has not read
    office, job                  \* the application; does it die with the script?

promise == <<settled, results, failed>>
trace == <<started, ended>>
owned == <<pid, killed, sawQuit>>
session == <<promise, timers, current, trace, owned, timedOut, killing, exitSeen>>
world == <<stage, test, code, dialog, office, job>>
vars == <<session, world, pipe>>

Tests == 1 .. NTests
Watchdogs == {"startup", "macro", "cleanup"}
Verdicts == {"passed", "failed", "runner-error"}
Outcomes == Verdicts \cup {"timeout", "modal-blocked"}
NoResults == [t \in Tests |-> "none"]

Event(kind, t, what) == [kind |-> kind, test |-> t, what |-> what]

Init ==
    /\ settled = FALSE /\ results = NoResults /\ failed = FALSE
    /\ timers = {"startup"} /\ current = 0
    /\ started = {} /\ ended = NoResults
    /\ pid = FALSE /\ killed = FALSE /\ sawQuit = FALSE
    /\ timedOut = FALSE /\ killing = FALSE /\ exitSeen = FALSE
    /\ stage = "creating" /\ test = 0 /\ code = "none" /\ dialog = FALSE
    /\ pipe = <<>> /\ office = "none" /\ job = FALSE

-----------------------------------------------------------------------------
(* Terminal transitions.                                                   *)

\* The session settles, once, with the results its events hold; the list of
\* events goes out by reference.
Finish(error, events, armed) ==
    IF settled
    THEN timers' = armed /\ UNCHANGED promise
    ELSE /\ settled' = TRUE /\ results' = events /\ failed' = error
         /\ timers' = {}

KillOwnedHost == killed' = (killed \/ pid)

\* Mutant: the script is left to end by itself.
AbortLeavesScript(t, outcome, kills, armed) ==
    /\ ended' = IF t \in Tests THEN [ended EXCEPT ![t] = outcome] ELSE ended
    /\ KillOwnedHost
    /\ UNCHANGED killing
    /\ Finish(TRUE, ended', armed)

\* The single failure path: a terminal event for the test in flight (t = 0:
\* none), the application killed, the script too where it still runs.
Abort(t, outcome, kills, armed) ==
    /\ ended' = IF t \in Tests THEN [ended EXCEPT ![t] = outcome] ELSE ended
    /\ KillOwnedHost
    /\ killing' = (killing \/ kills)
    /\ Finish(TRUE, ended', armed)

-----------------------------------------------------------------------------
(* The event stream.                                                       *)

HostCreated(e) ==
    /\ pid' = e.what
    /\ UNCHANGED <<promise, timers, current, trace, killed, sawQuit, killing>>

\* Mutant: the watchdog of the last test's cleanup keeps running.
MacroStartedKeepsCleanup(e) ==
    /\ started' = started \cup {e.test}
    /\ current' = e.test
    /\ timers' = (timers \ {"startup"}) \cup {"macro"}
    /\ UNCHANGED <<promise, ended, owned, killing>>

\* armMacroWatchdog: from here the macro's watchdog alone is armed.
MacroStarted(e) ==
    /\ started' = started \cup {e.test}
    /\ current' = e.test
    /\ timers' = {"macro"}
    /\ UNCHANGED <<promise, ended, owned, killing>>

\* Only a dialog of the test in flight ends the run.
ModalBlocked(e) ==
    /\ IF current # 0 /\ current = e.test
       THEN Abort(current, "modal-blocked", TRUE, timers)
       ELSE UNCHANGED <<promise, timers, ended, killed, killing>>
    /\ UNCHANGED <<current, started, pid, sawQuit>>

\* Mutant: nothing is armed between the last test and the close of the file.
MacroFinishedUnguarded(e) ==
    /\ ended' = [ended EXCEPT ![e.test] = e.what]
    /\ current' = 0
    /\ timers' = timers \ {"macro"}
    /\ UNCHANGED <<promise, started, owned, killing>>

\* Mutant: the test that ended is still the test in flight.
MacroFinishedStaysCurrent(e) ==
    /\ ended' = [ended EXCEPT ![e.test] = e.what]
    /\ timers' = (timers \ {"macro"}) \cup {"cleanup"}
    /\ UNCHANGED <<promise, current, started, owned, killing>>

\* The window up to the next test, or to the close of the file, is guarded too.
MacroFinished(e) ==
    /\ ended' = [ended EXCEPT ![e.test] = e.what]
    /\ current' = 0
    /\ timers' = (timers \ {"macro"}) \cup {"cleanup"}
    /\ UNCHANGED <<promise, started, owned, killing>>

FileClosedOrQuit(e) ==
    /\ sawQuit' = (sawQuit \/ e.kind = "host-quit")
    /\ timers' = timers \cup {"cleanup"}
    /\ UNCHANGED <<promise, current, trace, pid, killed, killing>>

\* handleEvent has no test of settled: what is read late is handled like the rest.
HandleEvent ==
    /\ pipe # <<>>
    /\ pipe' = Tail(pipe)
    /\ LET e == Head(pipe) IN
       \/ e.kind = "host-created" /\ HostCreated(e)
       \/ e.kind = "macro-started" /\ MacroStarted(e)
       \/ e.kind = "modal-blocked" /\ ModalBlocked(e)
       \/ e.kind = "macro-finished" /\ MacroFinished(e)
       \/ e.kind \in {"file-closed", "host-quit"} /\ FileClosedOrQuit(e)
    /\ UNCHANGED <<timedOut, exitSeen, world>>

\* The process is gone and its output is read to the end.
HandleHostExit ==
    /\ stage = "exited" /\ pipe = <<>> /\ ~exitSeen
    /\ exitSeen' = TRUE
    /\ \/ /\ code # "spawn-error" /\ settled
          /\ UNCHANGED <<promise, timers, ended, killed, killing>>
       \/ /\ code = "0" /\ ~settled
          /\ Finish(FALSE, ended, timers)
          /\ UNCHANGED <<ended, killed, killing>>
       \/ /\ code = "spawn-error" \/ (code \notin {"0", "spawn-error"} /\ ~settled)
          /\ Abort(current, "runner-error", FALSE, timers)
    /\ UNCHANGED <<current, started, pid, sawQuit, timedOut, world, pipe>>

-----------------------------------------------------------------------------
(* The watchdogs.                                                          *)

StartupWatchdog ==
    /\ "startup" \in timers
    /\ IF settled \/ current # 0
       THEN /\ timers' = timers \ {"startup"}
            /\ UNCHANGED <<promise, ended, killed, timedOut, killing>>
       ELSE /\ timedOut' = TRUE
            /\ Abort(0, "timeout", TRUE, timers \ {"startup"})
    /\ UNCHANGED <<current, started, pid, sawQuit, exitSeen, world, pipe>>

MacroWatchdog ==
    /\ "macro" \in timers
    /\ IF current = 0 \/ timedOut
       THEN /\ timers' = timers \ {"macro"}
            /\ UNCHANGED <<promise, ended, killed, timedOut, killing>>
       ELSE /\ timedOut' = TRUE
            /\ Abort(current, "timeout", TRUE, timers \ {"macro"})
    /\ UNCHANGED <<current, started, pid, sawQuit, exitSeen, world, pipe>>

\* The results stand: the run ends without an error of its own.
CleanupWatchdog ==
    /\ "cleanup" \in timers
    /\ IF settled
       THEN /\ timers' = timers \ {"cleanup"}
            /\ UNCHANGED <<promise, killed, killing>>
       ELSE /\ IF sawQuit THEN UNCHANGED killed ELSE KillOwnedHost
            /\ killing' = TRUE
            /\ Finish(FALSE, ended, timers \ {"cleanup"})
    /\ UNCHANGED <<current, trace, pid, sawQuit, timedOut, exitSeen, world, pipe>>

-----------------------------------------------------------------------------
(* The script, as far as it gets.                                          *)

Emit(e) == pipe' = Append(pipe, e)
Alive == stage # "exited"

SpawnFails ==
    /\ stage = "creating" /\ office = "none"
    /\ stage' = "exited" /\ code' = "spawn-error"
    /\ UNCHANGED <<session, pipe, test, dialog, office, job>>

\* New-Object starts the application, or hands back the user's own, which is
\* refused, or fails.
CreateOffice ==
    /\ stage = "creating"
    /\ \/ stage' = "claiming" /\ office' = "alive" /\ UNCHANGED code
       \/ stage' = "releasing" /\ code' = "1" /\ UNCHANGED office
    /\ UNCHANGED <<session, pipe, test, dialog, job>>

\* The process is found, or not, and tied to the script's, or not.
ClaimOffice ==
    /\ stage = "claiming"
    /\ \E known \in BOOLEAN, tied \in BOOLEAN :
        /\ tied => known
        /\ job' = tied
        /\ Emit(Event("host-created", 0, known))
    /\ stage' = "opening"
    /\ UNCHANGED <<session, test, code, dialog, office>>

OpenFile ==
    /\ stage = "opening"
    /\ \/ stage' = "between" /\ office = "alive" /\ UNCHANGED code
       \/ stage' = "quitting" /\ code' = "1"
    /\ UNCHANGED <<session, pipe, test, dialog, office, job>>

StartTest ==
    /\ stage = "between" /\ test < NTests
    /\ test' = test + 1 /\ stage' = "running" /\ dialog' = FALSE
    /\ Emit(Event("macro-started", test + 1, "none"))
    /\ UNCHANGED <<session, code, office, job>>

\* The watcher's thread reports a dialog it may not answer, under the name of
\* the test it was started for.
ReportDialog ==
    /\ stage \in {"running", "between"} /\ test > 0 /\ ~dialog
    /\ dialog' = TRUE
    /\ Emit(Event("modal-blocked", test, "none"))
    /\ UNCHANGED <<session, stage, test, code, office, job>>

\* A dead application ends the test with an error of the call.
FinishTest ==
    /\ stage = "running"
    /\ \E v \in Verdicts :
        /\ office # "alive" => v = "runner-error"
        /\ Emit(Event("macro-finished", test, v))
    /\ stage' = "between"
    /\ UNCHANGED <<session, test, code, dialog, office, job>>

\* After the last test, or before it when the run fails fast.
CloseFile ==
    /\ stage = "between" /\ (test > 0 \/ NTests = 0)
    /\ stage' = "quitting"
    /\ \/ UNCHANGED pipe
       \/ office = "alive" /\ Emit(Event("file-closed", 0, "none"))
    /\ UNCHANGED <<session, test, code, dialog, office, job>>

QuitOffice ==
    /\ stage = "quitting"
    /\ stage' = "releasing"
    /\ \/ UNCHANGED <<pipe, office>>
       \/ /\ office = "alive"
          /\ office' = "gone"
          /\ Emit(Event("host-quit", 0, "none"))
    /\ UNCHANGED <<session, test, code, dialog, job>>

\* The kernel closes the job with the process that made it.
ProcessEnds(with) ==
    /\ stage' = "exited" /\ code' = with
    /\ office' = IF job THEN "gone" ELSE office
    /\ UNCHANGED <<session, pipe, test, dialog, job>>

ScriptExits == stage = "releasing" /\ ProcessEnds(IF code = "1" THEN "1" ELSE "0")
ScriptKilled == Alive /\ killing /\ ProcessEnds("killed")
ScriptCrashes == MayCrash /\ Alive /\ ProcessEnds("killed")

OfficeKilled ==
    /\ killed /\ office = "alive" /\ office' = "gone"
    /\ UNCHANGED <<session, pipe, stage, test, code, dialog, job>>
OfficeCrashes ==
    /\ MayCrash /\ office = "alive" /\ stage # "claiming" /\ office' = "gone"
    /\ UNCHANGED <<session, pipe, stage, test, code, dialog, job>>

-----------------------------------------------------------------------------
Script ==
    \/ SpawnFails \/ CreateOffice \/ ClaimOffice \/ OpenFile \/ StartTest
    \/ ReportDialog \/ FinishTest \/ CloseFile \/ QuitOffice \/ ScriptExits
    \/ ScriptCrashes \/ OfficeCrashes
Session ==
    \/ HandleEvent \/ HandleHostExit
    \/ StartupWatchdog \/ MacroWatchdog \/ CleanupWatchdog
Next == Script \/ Session \/ ScriptKilled \/ OfficeKilled

\* Timers fire, what was written is read, what was told to die does.  The
\* script owes nothing: it may stop anywhere.
Fairness ==
    /\ WF_vars(HandleEvent) /\ WF_vars(HandleHostExit)
    /\ WF_vars(StartupWatchdog) /\ WF_vars(MacroWatchdog) /\ WF_vars(CleanupWatchdog)
    /\ WF_vars(ScriptKilled) /\ WF_vars(OfficeKilled)

Spec == Init /\ [][Next]_vars /\ Fairness

-----------------------------------------------------------------------------
Events ==
    [kind : {"host-created"}, test : {0}, what : BOOLEAN]
    \cup [kind : {"macro-started", "modal-blocked"}, test : Tests, what : {"none"}]
    \cup [kind : {"macro-finished"}, test : Tests, what : Verdicts]
    \cup [kind : {"file-closed", "host-quit"}, test : {0}, what : {"none"}]

\* Types, and that the session has a watchdog armed whenever it has not
\* settled: no phase is without a bound.
TypeOK ==
    /\ {settled, failed, pid, killed, sawQuit, timedOut, killing, exitSeen, dialog, job}
           \subseteq BOOLEAN
    /\ timers \subseteq Watchdogs
    /\ current \in Tests \cup {0} /\ test \in Tests \cup {0}
    /\ started \subseteq Tests
    /\ ended \in [Tests -> Outcomes \cup {"none"}]
    /\ results \in [Tests -> Outcomes \cup {"none"}]
    /\ stage \in {"creating", "claiming", "opening", "between", "running", "quitting",
                  "releasing", "exited"}
    /\ code \in {"none", "0", "1", "killed", "spawn-error"}
    /\ pipe \in Seq(Events)
    /\ office \in {"none", "alive", "gone"}
    /\ ~settled => timers # {}

\* When the session settles, every test it saw start has a result, whatever
\* ended the run: none is left to "did not emit a result".
StartedTestsHaveResults ==
    [][~settled /\ settled' => \A t \in started' : results'[t] # "none"]_vars

\* What a test was read to have ended with stays its result: a failure of the
\* cleanup, or of the script, does not turn a pass into an error.
VerdictsStand ==
    [][\A t \in Tests : ended[t] \in {"passed", "failed"} => ended'[t] = ended[t]]_vars

\* However the script hangs, the session ends.
Settles == <>settled

\* A settled session leaves no application behind that was tied to the script.
TiedOfficeEnds == settled /\ job ~> office # "alive"

-----------------------------------------------------------------------------
(* What the code does not have.                                            *)

\* "a crashed or force-killed host can never orphan a hidden EXCEL.EXE"
\* (run-vba-tests.ps1): not one created but not yet tied.
NoOrphan == settled /\ stage = "exited" ~> office # "alive"

\* "Single watchdog teardown used when the session settles": an event read
\* later arms one again.
NoWatchdogAfterSettling == settled => timers = {}

\* How the report of a run speaks of a test (runProjectVbaTests).
Status(t) ==
    IF results[t] # "none" THEN results[t]
    ELSE IF failed THEN "host-error"
    ELSE IF timedOut THEN "skipped"
    ELSE "host-error"

\* "Not run because test host timed out after ...": never said of a test.
UnreachedTestsAreSkipped ==
    settled /\ timedOut /\ ~MayCrash =>
        \A t \in Tests : t \notin started => Status(t) = "skipped"
=============================================================================
