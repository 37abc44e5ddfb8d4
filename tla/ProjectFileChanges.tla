------------------------- MODULE ProjectFileChanges -------------------------
(***************************************************************************)
(* How the extension tells a change made to a project file by somebody     *)
(* else (the VBE, git, the MCP server's process) from a write of its own   *)
(* (projectFileChanges.ts), for one file of the workspace.                 *)
(*                                                                         *)
(* A stamp stands for "mtime:size" and grows with every write; 0 stands    *)
(* for undefined.  A write of the extension is bracketed: it takes the     *)
(* stamp before, waits (the engine may be asking the user for the          *)
(* project's password), and then reads, rewrites and stats the file        *)
(* without letting the event loop go.                                      *)
(***************************************************************************)
EXTENDS Integers, FiniteSets

CONSTANTS
    Writers,     \* the extension's callers of recordProjectWrite
    Interrupts,  \* what may happen to the file while a write waits:
                 \* subset of {"outside", "write"}
    Lists,       \* whether the file may have been read without its stamp being
                 \* looked at, as the tree does to list its modules
    MaxWrites    \* bound: writes to the file

ASSUME InterruptsAssumption == Interrupts \subseteq {"outside", "write"}
ASSUME ListsAssumption == Lists \in BOOLEAN
ASSUME MaxWritesAssumption == MaxWrites \in Nat \ {0}

VARIABLES
    fileStamp,  \* the file's stamp, were it there
    gone,       \* a save by rename has moved the file away
    read,       \* the extension holds something it read from the file
    unseen,     \* somebody else has changed the file since it was read or
                \* looked at, and no event has said so
    accountedStamp,  \* accounted: the last stamp accounted for
    writing,    \* the writers that are inside the bracket
    before,     \* per writer: the stamp it took at the bracket's start
    together,   \* writers were in the bracket together since the file was
                \* looked at with none in it
    noticed,    \* a watcher's event is on its way
    settling,   \* a check waits for the file to stop changing
    reporting   \* the MCP server says it changed the file

changesVars == <<fileStamp, gone, read, unseen, accountedStamp, writing, before,
                 together, noticed, settling, reporting>>

-----------------------------------------------------------------------------
ChangesInit ==
    /\ fileStamp = 1 /\ gone = FALSE
    /\ read \in BOOLEAN /\ (read => Lists) /\ unseen = FALSE
    /\ accountedStamp = 0
    /\ writing = {} /\ before = [w \in Writers |-> 0] /\ together = FALSE
    /\ noticed = FALSE /\ settling = FALSE /\ reporting = FALSE

StampOf == IF gone THEN 0 ELSE fileStamp

\* The next look at the file fires the event.
WouldFire == accountedStamp \notin {0, fileStamp}

\* checkProjectFile.  Whoever hears the event reads the file again.
CheckProjectFile ==
    IF StampOf = 0
    THEN UNCHANGED <<accountedStamp, unseen, together>>
    ELSE /\ accountedStamp' = StampOf
         /\ unseen' = (unseen /\ ~WouldFire)
         /\ together' = (together /\ writing # {})

-----------------------------------------------------------------------------
(* Somebody else *)

\* The outside may touch the file: no write waits, or it may while one does.
Undisturbed == writing = {} \/ "outside" \in Interrupts

\* The extension has something of the file that may become stale.
Known == read \/ accountedStamp # 0

\* Mutant: the watcher that only hears of files arriving.
HearsCreate(event) == event = "create"

\* The events of the workspace watcher that lead to a check.
Hears(event) == event \in {"change", "create"}

\* The file is written in place; the MCP server reports that it did so.
OutsideChange(byServer) ==
    /\ Undisturbed /\ ~gone /\ fileStamp < MaxWrites
    /\ fileStamp' = fileStamp + 1
    /\ unseen' = Known
    /\ noticed' = (noticed \/ Hears("change"))
    /\ reporting' = (reporting \/ byServer)
    /\ UNCHANGED <<gone, read, accountedStamp, writing, before, together, settling>>

\* A save by rename: the file is missing for a moment ...
Vanish ==
    /\ Undisturbed /\ ~gone /\ fileStamp < MaxWrites
    /\ gone' = TRUE
    /\ UNCHANGED <<fileStamp, read, unseen, accountedStamp, writing, before, together,
                   noticed, settling, reporting>>

\* ... and comes back as another.  Either event may be raised for it.
Reappear(event) ==
    /\ Undisturbed /\ gone
    /\ gone' = FALSE
    /\ fileStamp' = fileStamp + 1
    /\ unseen' = Known
    /\ noticed' = (noticed \/ Hears(event))
    /\ UNCHANGED <<read, accountedStamp, writing, before, together, settling, reporting>>

-----------------------------------------------------------------------------
(* The extension *)

\* VS Code asks the file system provider about a module, then reads it.
Stat ==
    /\ CheckProjectFile
    /\ read' = (read \/ ~gone)
    /\ UNCHANGED <<fileStamp, gone, writing, before, noticed, settling, reporting>>

\* A watcher's event arrives: the settle timer is started again.
ScheduleProjectFileCheck ==
    /\ noticed
    /\ noticed' = FALSE
    /\ settling' = TRUE
    /\ UNCHANGED <<fileStamp, gone, read, unseen, accountedStamp, writing, before,
                   together, reporting>>

\* The settle timer runs out.
Settled ==
    /\ settling
    /\ settling' = FALSE
    /\ CheckProjectFile
    /\ UNCHANGED <<fileStamp, gone, read, writing, before, noticed, reporting>>

\* takeReportedProjectFileChange.
TakeReportedProjectFileChange ==
    /\ reporting
    /\ reporting' = FALSE
    /\ IF StampOf = 0 THEN UNCHANGED <<accountedStamp, unseen, together>>
       ELSE /\ accountedStamp' = StampOf /\ unseen' = FALSE
            /\ together' = (together /\ writing # {})
    /\ UNCHANGED <<fileStamp, gone, read, writing, before, noticed, settling>>

\* recordProjectWrite up to its await.  A write of a missing file fails before
\* it has anything to wait for.
BeginWrite(w) ==
    /\ w \notin writing /\ ~gone
    /\ writing = {} \/ "write" \in Interrupts
    /\ writing' = writing \cup {w}
    /\ before' = [before EXCEPT ![w] = StampOf]
    /\ together' = (together \/ writing # {})
    /\ UNCHANGED <<fileStamp, gone, read, unseen, accountedStamp, noticed, settling, reporting>>

\* Mutant: the stamp is always taken as XLIDE's own.
AccountsAlways(w) == TRUE

\* Mutant: only the first stamp of a file is taken from a write.
AccountsFirst(w) == accountedStamp = 0

\* Whether recordProjectWrite takes the stamp its write left as XLIDE's own.
Accounts(w) == accountedStamp \in {0, before[w]}

\* ... and after it: the file was rewritten.
EndWrite(w) ==
    /\ w \in writing
    /\ ~gone /\ fileStamp < MaxWrites
    /\ fileStamp' = fileStamp + 1
    /\ accountedStamp' = IF Accounts(w) THEN fileStamp' ELSE accountedStamp
    /\ writing' = writing \ {w}
    /\ noticed' = (noticed \/ Hears("change"))
    /\ UNCHANGED <<gone, read, unseen, before, together, settling, reporting>>

\* The write failed: the file is locked or missing, or no password was given.
FailWrite(w) ==
    /\ w \in writing
    /\ writing' = writing \ {w}
    /\ UNCHANGED <<fileStamp, gone, read, unseen, accountedStamp, before, together,
                   noticed, settling, reporting>>

-----------------------------------------------------------------------------
Outside == \/ \E byServer \in BOOLEAN : OutsideChange(byServer)
           \/ Vanish
           \/ \E event \in {"change", "create"} : Reappear(event)

ChangesNext ==
    \/ Outside
    \/ Stat
    \/ ScheduleProjectFileCheck \/ Settled
    \/ TakeReportedProjectFileChange
    \/ \E w \in Writers : BeginWrite(w) \/ EndWrite(w) \/ FailWrite(w)

ChangesSpec == ChangesInit /\ [][ChangesNext]_changesVars

\* The operating system delivers its events and the event loop runs its timers;
\* a rename is finished by whoever began it; the MCP server's log is read; a
\* prompt is answered sometime.
FairChangesSpec ==
    /\ ChangesSpec
    /\ WF_changesVars(\E event \in {"change", "create"} : Reappear(event))
    /\ WF_changesVars(ScheduleProjectFileCheck)
    /\ WF_changesVars(Settled)
    /\ WF_changesVars(TakeReportedProjectFileChange)
    /\ \A w \in Writers : WF_changesVars(FailWrite(w))

-----------------------------------------------------------------------------
(* Properties *)

\* The shape of the state: no stamp is newer than the file's.
ChangesTypeOK ==
    /\ fileStamp \in 1..MaxWrites
    /\ gone \in BOOLEAN /\ read \in BOOLEAN /\ unseen \in BOOLEAN
    /\ together \in BOOLEAN /\ noticed \in BOOLEAN /\ settling \in BOOLEAN /\ reporting \in BOOLEAN
    /\ accountedStamp \in 0..fileStamp
    /\ writing \subseteq Writers
    /\ before \in [Writers -> 0..fileStamp]

\* A change nobody has been told of is never taken for accounted: whatever
\* writes, looks and reports came between, the next look will fire.
\* ("taking the stamp then would hide that change from every module the write
\* did not touch", projectFileChanges.ts.)
NothingHidden == unseen => WouldFire

\* A look that fires has a change made outside to report: the stamp a write of
\* the extension's leaves is never taken for somebody else's, but where two of
\* them waited together.
OwnWritesSilent == WouldFire => unseen \/ together

\* A change made outside is reported, with nothing open and nobody asking,
\* however the save moved the file about while the checks settled.
EveryChangeReported == unseen ~> ~unseen

=============================================================================
