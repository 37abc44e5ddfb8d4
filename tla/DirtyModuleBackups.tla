------------------------- MODULE DirtyModuleBackups -------------------------
(***************************************************************************)
(* XlideDirtyModuleBackups (xlideDirtyModuleBackups.ts): the copy XLIDE    *)
(* keeps in its global storage of a module with unsaved edits, and brings  *)
(* back when the module opens after a crash.  One module; its document and *)
(* its saves are VS Code's.  A text is the number of the edit that made    *)
(* it, so a later text is a larger number.                                 *)
(*                                                                         *)
(* A file operation is awaited: it begins and is done in two steps, a      *)
(* write truncating the file first and filling it then.  Operations wait   *)
(* for each other in a queue, which dispose leaves running until the       *)
(* process has ended; reads wait for nothing.                              *)
(* settled is a ghost: the last text the author saved or threw away.       *)
(***************************************************************************)
EXTENDS Integers, Sequences

CONSTANTS
    Types,      \* when the author types besides: during a "save", a "restore"
    MaxTyped, MaxCrashes, MaxSteps  \* bounds: edits, ends of the host, other acts

ASSUME TypesAssumption == Types \subseteq {"save", "restore"}
ASSUME BoundsAssumption == MaxTyped \in Nat /\ MaxCrashes \in Nat /\ MaxSteps \in Nat

VARIABLES
    host,    \* the extension host: "up", "ending" (disposed of) or "down"
    doc,     \* the document: [open, text, dirty]
    project, \* the module's text in the project
    saving,  \* the text a save under way writes, or NoText
    pending, \* the generation of the debounced write, or 0 (_pendingWrites)
    gen,     \* the module's write generation (_writeGenerations)
    ops,     \* the queue of file operations (_fileOperations)
    busy,    \* has the first of them begun?
    file,    \* the backup: a text, NoText, or Torn
    restore, \* restoreIfAvailable: [at, text]
    typed, crashes, steps, \* counters of the bounds
    settled  \* ghost

bounds == <<typed, crashes, steps>>
vars == <<host, doc, project, saving, pending, gen, ops, busy, file, restore,
          typed, crashes, steps, settled>>

NoText == -1
Torn == -2
NoRestore == [at |-> "none", text |-> NoText]
Closed == [open |-> FALSE, text |-> NoText, dirty |-> FALSE]
WriteOp(text, g) == [kind |-> "write", text |-> text, gen |-> g]
DeleteOp == [kind |-> "delete", text |-> NoText, gen |-> 0]

Init ==
    /\ host = "up" /\ doc = Closed /\ project = 0 /\ saving = NoText
    /\ pending = 0 /\ gen = 0 /\ ops = <<>> /\ busy = FALSE
    /\ file = NoText /\ restore = NoRestore
    /\ typed = 0 /\ crashes = 0 /\ steps = 0 /\ settled = 0

\* Events of the editor come while the host is up.
Up == host = "up"

Counted == steps < MaxSteps /\ steps' = steps + 1 /\ UNCHANGED <<typed, crashes>>

-----------------------------------------------------------------------------
\* Mutant: a timer that runs is left with its generation.
ScheduleWriteOnce ==
    /\ gen' = gen + 1 /\ pending' = (IF pending # 0 THEN pending ELSE gen + 1)
    /\ UNCHANGED ops

\* scheduleWriteBackup: a new generation, debounced.
ScheduleWrite == gen' = gen + 1 /\ pending' = gen + 1 /\ UNCHANGED ops

\* Mutant: a delete that finds the queue in use leaves it at that.
DropBackupIfIdle ==
    /\ pending' = 0 /\ gen' = gen + 2
    /\ ops' = IF ops = <<>> THEN <<DeleteOp>> ELSE ops

\* clearPendingWrite, then deleteBackup; each bumps the generation.
DropBackup == pending' = 0 /\ gen' = gen + 2 /\ ops' = Append(ops, DeleteOp)

\* An edit of the document (onDocumentChanged).
Type ==
    /\ Up /\ doc.open /\ typed < MaxTyped
    /\ saving # NoText => "save" \in Types
    /\ restore.at # "none" => "restore" \in Types
    /\ typed' = typed + 1
    /\ doc' = [doc EXCEPT !.text = typed + 1, !.dirty = TRUE]
    /\ ScheduleWrite
    /\ UNCHANGED <<host, project, saving, busy, file, restore, crashes, steps, settled>>

\* The debounce ends: the text of now is queued to be written.
Debounced ==
    /\ pending # 0
    /\ pending' = 0
    /\ ops' = Append(ops, WriteOp(doc.text, pending))
    /\ UNCHANGED <<host, doc, project, saving, gen, busy, file, restore, bounds, settled>>

SaveStart ==
    /\ Up /\ doc.open /\ doc.dirty /\ saving = NoText
    /\ Counted
    /\ saving' = doc.text
    /\ UNCHANGED <<host, doc, project, pending, gen, ops, busy, file, restore, settled>>

\* The save ends; onDidSaveTextDocument.  (A document that has become clean
\* raises a change event too, whose handler does the same once more.)
SaveEnd ==
    /\ Up /\ saving # NoText
    /\ saving' = NoText
    /\ \/ /\ project' = saving /\ settled' = saving
          /\ doc' = [doc EXCEPT !.dirty = (doc.text # saving)]
          /\ DropBackup
       \/ UNCHANGED <<project, settled, doc, pending, gen, ops>> \* it failed
    /\ UNCHANGED <<host, busy, file, restore, bounds>>

\* The author throws the edits away: the document is clean again.
Revert ==
    /\ Up /\ doc.open /\ doc.dirty /\ saving = NoText /\ restore.at = "none"
    /\ Counted
    /\ doc' = [doc EXCEPT !.text = project, !.dirty = FALSE]
    /\ settled' = typed
    /\ DropBackup
    /\ UNCHANGED <<host, project, saving, busy, file, restore>>

\* A clean document closes (flushPendingWrite) ...
Close ==
    /\ Up /\ doc.open /\ ~doc.dirty /\ saving = NoText /\ restore.at = "none"
    /\ Counted
    /\ doc' = Closed
    /\ pending' = 0
    /\ ops' = IF pending # 0 THEN Append(ops, WriteOp(doc.text, pending)) ELSE ops
    /\ UNCHANGED <<host, project, saving, gen, busy, file, restore, settled>>

\* ... and opens: its backup is looked for.
Open ==
    /\ Up /\ ~doc.open
    /\ Counted
    /\ doc' = [open |-> TRUE, text |-> project, dirty |-> FALSE]
    /\ restore' = [NoRestore EXCEPT !.at = "reading"]
    /\ UNCHANGED <<host, project, saving, pending, gen, ops, busy, file, settled>>

-----------------------------------------------------------------------------
\* Mutant: a backup that was read is done with.
RestoreReadDrops ==
    /\ restore.at = "reading"
    /\ IF file \in {NoText, Torn}
       THEN restore' = NoRestore /\ UNCHANGED <<gen, ops>>
       ELSE /\ restore' = IF file = doc.text THEN NoRestore ELSE [at |-> "applying", text |-> file]
            /\ gen' = gen + 1 /\ ops' = Append(ops, DeleteOp)
    /\ UNCHANGED <<host, doc, project, saving, pending, busy, file, bounds, settled>>

\* readBackup answered: one that is not there or cannot be parsed is none, one
\* that holds the document's text is deleted.
RestoreRead ==
    /\ restore.at = "reading"
    /\ IF file \in {NoText, Torn}
       THEN restore' = NoRestore /\ UNCHANGED <<gen, ops>>
       ELSE IF file = doc.text
            THEN restore' = NoRestore /\ gen' = gen + 1 /\ ops' = Append(ops, DeleteOp)
            ELSE restore' = [at |-> "applying", text |-> file] /\ UNCHANGED <<gen, ops>>
    /\ UNCHANGED <<host, doc, project, saving, pending, busy, file, bounds, settled>>

\* The edit is applied over whatever the document holds, and backed up as any.
RestoreApply ==
    /\ Up /\ restore.at = "applying"
    /\ restore' = NoRestore
    /\ doc' = [doc EXCEPT !.text = restore.text, !.dirty = TRUE]
    /\ ScheduleWrite
    /\ UNCHANGED <<host, project, saving, busy, file, bounds, settled>>

-----------------------------------------------------------------------------
\* Is the queued write still the module's latest?
StillWanted(op) == op.gen = gen

\* The first operation begins; a write that is not wanted is passed over.
OpStep ==
    /\ ops # <<>> /\ ~busy
    /\ LET op == Head(ops)
       IN  IF op.kind = "write" /\ ~StillWanted(op)
           THEN ops' = Tail(ops) /\ UNCHANGED <<busy, file>>
           ELSE /\ busy' = TRUE /\ UNCHANGED ops
                /\ file' = IF op.kind = "write" THEN Torn ELSE file
    /\ UNCHANGED <<host, doc, project, saving, pending, gen, restore, bounds, settled>>

\* It is done.  What was flushed in the middle of a write is written over, in
\* whole or in part.
OpDone ==
    /\ busy
    /\ busy' = FALSE /\ ops' = Tail(ops)
    /\ LET op == Head(ops)
       IN  IF op.kind = "delete"
           THEN file' = NoText
           ELSE file' \in {op.text} \cup (IF file = Torn THEN {} ELSE {Torn})
    /\ UNCHANGED <<host, doc, project, saving, pending, gen, restore, bounds, settled>>

-----------------------------------------------------------------------------
\* dispose: what is debounced is written on the spot.  No event is heard from
\* now on; the queue runs on, with the generations as they are.
Dispose ==
    /\ Up /\ crashes < MaxCrashes
    /\ crashes' = crashes + 1
    /\ host' = "ending"
    /\ file' = IF pending # 0 THEN doc.text ELSE file
    /\ pending' = 0
    /\ UNCHANGED <<doc, project, saving, gen, ops, busy, restore, typed, steps, settled>>

\* The process is gone, and what it held; a save under way was made or not.
ProcessEnds ==
    /\ host' = "down"
    /\ doc' = Closed /\ saving' = NoText /\ pending' = 0 /\ gen' = 0
    /\ ops' = <<>> /\ busy' = FALSE /\ restore' = NoRestore
    /\ \/ UNCHANGED <<project, settled>>
       \/ saving # NoText /\ project' = saving /\ settled' = saving
    /\ UNCHANGED <<file, typed, steps>>

Crash == Up /\ crashes < MaxCrashes /\ crashes' = crashes + 1 /\ ProcessEnds

Exit == host = "ending" /\ ProcessEnds /\ UNCHANGED crashes

Restart ==
    /\ host = "down"
    /\ host' = "up"
    /\ UNCHANGED <<doc, project, saving, pending, gen, ops, busy, file, restore, bounds, settled>>

Next ==
    \/ Type \/ Debounced \/ SaveStart \/ SaveEnd \/ Revert \/ Close \/ Open
    \/ RestoreRead \/ RestoreApply \/ OpStep \/ OpDone
    \/ Crash \/ Dispose \/ Exit \/ Restart

Spec == Init /\ [][Next]_vars

-----------------------------------------------------------------------------
Texts == 0..MaxTyped
AnyText == Texts \cup {NoText, Torn}
Ops == [kind : {"write", "delete"}, text : AnyText, gen : Nat]

\* The types; only a write under way leaves the file torn while the host is up,
\* unless an earlier host's end did.
TypeOK ==
    /\ host \in {"up", "ending", "down"} /\ busy \in BOOLEAN
    /\ doc \in [open : BOOLEAN, text : AnyText, dirty : BOOLEAN]
    /\ project \in Texts /\ saving \in AnyText /\ file \in AnyText
    /\ pending \in Nat /\ gen \in Nat /\ pending <= gen
    /\ ops \in Seq(Ops) /\ (busy => ops # <<>>)
    /\ busy /\ Head(ops).kind = "write" => file = Torn \/ host = "ending"
    /\ file = Torn => busy \/ crashes > 0
    /\ restore \in [at : {"none", "reading", "applying"}, text : AnyText]
    /\ typed \in Texts /\ settled \in Texts

Quiet == Up /\ doc.open /\ pending = 0 /\ ops = <<>> /\ restore.at = "none"

\* A document with unsaved edits is mirrored as soon as its timer and the queue
\* have run, after any sequence of edits, saves, reverts, restores and crashes.
MirroredWhenQuiet == Quiet /\ doc.dirty => file = doc.text

\* A clean document has no backup then: what was saved or thrown away does not
\* come back.  (One torn by a crash is as good as none.)
CleanHasNone == Quiet /\ ~doc.dirty => file \in {NoText, Torn}

\* The process is ending and the backup is the document's text, as it is once
\* dispose has flushed it.
Flushed == host = "ending" /\ file = doc.text

\* A backup is deleted only when its text was saved or thrown away, by whatever
\* was queued before, while or after that; but a delete that a shutdown leaves in
\* the queue takes what dispose has flushed (see FlushStays).
BackupsOutlive ==
    [][(file \in Texts /\ file' = NoText) => file <= settled \/ Flushed]_vars

\* What is brought back is never older than what was saved.
NeverRestoresOlder == restore.at = "applying" => restore.text > project

\* "so the most recent unsaved edits remain recoverable": they are in the backup
\* when the process is gone.
ShutdownKeepsEdits == [][Exit /\ doc.dirty => file = doc.text]_vars

\* What dispose flushed is not deleted by what it left in the queue.
FlushStays == [][doc.dirty /\ Flushed => file' # NoText]_vars

=============================================================================
