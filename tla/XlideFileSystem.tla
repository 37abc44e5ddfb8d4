-------------------------- MODULE XlideFileSystem --------------------------
(***************************************************************************)
(* The virtual file system of module documents (xlideFileSystem.ts) over   *)
(* one project file, with the look at the file's stamp of                  *)
(* projectFileChanges.ts, and the VS Code documents it serves (external:   *)
(* when VS Code stats, reads, writes and reports a conflict is taken from  *)
(* what the provider's comments and docs/architecture.md say of it).       *)
(*                                                                         *)
(* VS Code keeps of each document the mtime and the size it was last told, *)
(* and stops a save when a stat says both are others.  The provider makes  *)
(* up both, so that this happens exactly when somebody else changed the    *)
(* module.                                                                 *)
(*                                                                         *)
(* A handler that awaits nothing but the engine runs in one step, as do    *)
(* the round trips of VS Code's own file service.  The long waits, those   *)
(* on an application closing or opening the file, are steps, during which  *)
(* the rest runs if the constant Slow says so.                             *)
(***************************************************************************)
EXTENDS Integers, FiniteSets

CONSTANTS
    Modules,    \* the modules of the project
    Texts,      \* what a module may hold
    Size,       \* the length of each text
    Stored,     \* what the engine makes of a text written (it drops the blank
                \* lines above the code)
    NoText,     \* "the provider has no record of a text"
    SizeAsRead, \* whether VS Code keeps the size of what it read, as the provider
                \* takes it to, or the size the stat before the read said
    Slow,       \* what may take long: subset of {"save", "agent", "reload"}
    MaxStamp    \* bound: writes to the file

ASSUME TextAssumption == /\ Size \in [Texts -> Nat] /\ Stored \in [Texts -> Texts]
                         /\ NoText \notin Texts
ASSUME StoredAssumption == \A t \in Texts : Stored[Stored[t]] = Stored[t]
ASSUME SizeAsReadAssumption == SizeAsRead \in BOOLEAN
ASSUME SlowAssumption == Slow \subseteq {"save", "agent", "reload"}
ASSUME BoundAssumption == MaxStamp \in Nat

VARIABLES
    \* the project file
    text,       \* per module: the text in the file
    stamp,      \* its modification time, which every write moves
    \* the extension
    accounted,  \* the last stamp accounted for; 0 = none
    entry,      \* per module: ModuleStat
    changed,    \* modules with a change event on its way to VS Code
    announcing, \* modules an agent's write has changed and not yet announced
    \* VS Code
    doc,        \* per module: its document
    save,       \* per module: how far a save of its document is
    \* for the properties
    touched     \* modules somebody else wrote, or announced a write of, since
                \* their document was last loaded or saved

fileVars == <<text, stamp>>
providerVars == <<accounted, entry, changed, announcing>>
codeVars == <<doc, save>>
vars == <<fileVars, providerVars, codeVars, touched>>

NoEntry == [mtime |-> 0, size |-> 0, given |-> NoText]

\* A document: whether it is open, whether it has unsaved edits, the text in
\* the file its author last saw, and the mtime and size VS Code was told.
Closed == [open |-> FALSE, dirty |-> FALSE, seen |-> NoText, mtime |-> 0, size |-> 0]

Init ==
    /\ text \in [Modules -> {t \in Texts : Stored[t] = t}]
    /\ \A m, n \in Modules : text[m] = text[n]
    /\ stamp = 1
    /\ accounted = 0
    /\ entry = [m \in Modules |-> NoEntry]
    /\ changed = {} /\ announcing = {}
    /\ doc = [m \in Modules |-> Closed]
    /\ save = [m \in Modules |-> "none"]
    /\ touched = {}

\* Nothing that is not slow is under way.
Quiet ==
    /\ announcing = {} \/ "agent" \in Slow
    /\ changed = {} \/ "reload" \in Slow
    /\ \A m \in Modules : save[m] = "recording" => "save" \in Slow

-----------------------------------------------------------------------------
(* The provider's record of a module *)

Later(mtime) == IF stamp > mtime THEN stamp ELSE mtime + 1

\* ensureStat: an entry, made now if there is none.
EnsureStat(e) == IF e.mtime = 0 THEN [e EXCEPT !.mtime = stamp] ELSE e

GivenSize(e) == IF e.given = NoText THEN e.size ELSE Size[e.given]

\* Mutant: the new text's own size, whatever the document was given.
SizeAfterChangeReal(e, size) == size

\* sizeAfterChange: never the size the document was given.
SizeAfterChange(e, size) ==
    IF size # GivenSize(e) THEN size ELSE GivenSize(e) + 1

\* recordContent: what a document was given, by a read or by its own save.
RecordContent(e, t) == [e EXCEPT !.size = Size[t], !.given = t]

\* recordSave, its read-back having found t.
RecordSave(e, t) == RecordContent([EnsureStat(e) EXCEPT !.mtime = Later(@)], t)

\* notifyFileChanged, which does not read the module.
Notified(e) ==
    LET made == EnsureStat(e)
    IN  [made EXCEPT !.mtime = Later(@), !.size = SizeAfterChange(made, GivenSize(made))]

-----------------------------------------------------------------------------
(* The look at the file and what follows it *)

Fires == accounted \notin {0, stamp}

\* Mutant: a change of the file reaches every open document.
ReachedAny(ents, m) == doc[m].open

\* reconcileDocuments: the open documents whose module is not what they were
\* given; one without a record is known by its text unless it has edits.
Reached(ents, m) ==
    /\ doc[m].open
    /\ LET e == ents[m]
           given == IF e.given # NoText \/ doc[m].dirty THEN e.given ELSE doc[m].seen
       IN  text[m] # given

\* The entries after a look: what a change reached moves on.
Reconciled(ents) ==
    [m \in Modules |->
        IF Fires /\ Reached(ents, m)
        THEN LET e == EnsureStat(ents[m])
             IN  [e EXCEPT !.mtime = Later(@), !.size = SizeAfterChange(e, Size[text[m]])]
        ELSE ents[m]]

\* checkProjectFile, and the reconcile it starts and a stat waits for.
Look(ents) ==
    /\ accounted' = stamp
    /\ entry' = Reconciled(ents)

Moved(ents) == {m \in Modules : Fires /\ Reached(ents, m)}

\* A watcher's settled event.
WatcherLook ==
    /\ Quiet /\ accounted # stamp
    /\ Look(entry)
    /\ changed' = changed \cup Moved(entry)
    /\ UNCHANGED <<fileVars, announcing, codeVars, touched>>

-----------------------------------------------------------------------------
(* Documents *)

\* The document is as the module is; the announcement of an agent's write of
\* it may still come.
Untouched(m) == (touched \ {m}) \cup (announcing \cap {m})

\* VS Code stats a module and then reads it.  It keeps the answer to the stat,
\* which is from before the read was recorded.
Load(m) ==
    LET told == EnsureStat(Reconciled(entry)[m])
    IN  /\ accounted' = stamp
        /\ entry' = [Reconciled(entry) EXCEPT ![m] = RecordContent(told, text[m])]
        /\ doc' = [doc EXCEPT ![m] = [open |-> TRUE, dirty |-> FALSE, seen |-> text[m],
                                      mtime |-> told.mtime,
                                      size |-> IF SizeAsRead THEN Size[text[m]] ELSE told.size]]
        /\ touched' = Untouched(m)

OpenDocument(m) ==
    /\ Quiet /\ ~doc[m].open
    /\ Load(m)
    /\ changed' = changed \cup Moved(entry)
    /\ UNCHANGED <<fileVars, announcing, save>>

CloseDocument(m) ==
    /\ Quiet /\ doc[m].open /\ save[m] = "none"
    /\ doc' = [doc EXCEPT ![m] = Closed]
    /\ touched' = touched \ {m}
    /\ UNCHANGED <<fileVars, providerVars, save>>

\* Mutant: every entry is old enough to go.
ForgetAll(m) ==
    /\ Quiet /\ entry[m] # NoEntry
    /\ entry' = [entry EXCEPT ![m] = NoEntry]
    /\ UNCHANGED <<fileVars, accounted, changed, announcing, codeVars, touched>>

\* The sweep a second after a close.
ForgetClosed(m) ==
    /\ Quiet /\ ~doc[m].open /\ entry[m] # NoEntry
    /\ entry' = [entry EXCEPT ![m] = NoEntry]
    /\ UNCHANGED <<fileVars, accounted, changed, announcing, codeVars, touched>>

Edit(m) ==
    /\ Quiet /\ doc[m].open
    /\ doc' = [doc EXCEPT ![m].dirty = TRUE]
    /\ UNCHANGED <<fileVars, providerVars, save, touched>>

\* VS Code hears that a module changed.  It reloads a document with no unsaved
\* edits and no save under way, unless a stat says what it was told already.
HearChange(m) ==
    /\ m \in changed
    /\ IF doc[m].open /\ ~doc[m].dirty /\ save[m] = "none"
       THEN /\ changed' = (changed \ {m}) \cup (Moved(entry) \ {m})
            /\ LET told == EnsureStat(Reconciled(entry)[m])
               IN  IF told.mtime = doc[m].mtime /\ told.size = doc[m].size
                   THEN Look(entry) /\ UNCHANGED <<doc, touched>>
                   ELSE Load(m)
       ELSE /\ changed' = changed \ {m}
            /\ UNCHANGED <<accounted, entry, doc, touched>>
    /\ UNCHANGED <<fileVars, announcing, save>>

\* A save begins with a stat, and stops at a conflict when VS Code was told
\* another mtime and another size.
Conflicts(m) ==
    LET told == EnsureStat(Reconciled(entry)[m])
    IN  doc[m].mtime < told.mtime /\ doc[m].size # told.size

SaveStats(m) ==
    /\ Quiet /\ doc[m].open /\ doc[m].dirty /\ save[m] = "none"
    /\ Look([entry EXCEPT ![m] = EnsureStat(@)])
    /\ changed' = changed \cup Moved(entry)
    /\ save' = [save EXCEPT ![m] = IF Conflicts(m) THEN "conflict" ELSE "writing"]
    /\ UNCHANGED <<fileVars, announcing, doc, touched>>

\* Told of the conflict, the author compares and overwrites ...
Overwrite(m) ==
    /\ Quiet /\ save[m] = "conflict"
    /\ save' = [save EXCEPT ![m] = "writing"]
    /\ doc' = [doc EXCEPT ![m].seen = text[m]]
    /\ UNCHANGED <<fileVars, providerVars, touched>>

\* ... or takes the text in the file.
Revert(m) ==
    /\ Quiet /\ save[m] = "conflict"
    /\ save' = [save EXCEPT ![m] = "none"]
    /\ Load(m)
    /\ changed' = changed \cup Moved(entry)
    /\ UNCHANGED <<fileVars, announcing>>

-----------------------------------------------------------------------------
(* Writes *)

\* recordProjectWrite, of a write nothing disturbs.
AccountForWrite ==
    accounted' = IF accounted \in {0, stamp} THEN stamp + 1 ELSE accounted

\* writeFile up to the end of its write, of the text t.
WriteFile(m, t) ==
    /\ save[m] = "writing" /\ stamp < MaxStamp
    /\ announcing = {} \/ "agent" \in Slow
    /\ text' = [text EXCEPT ![m] = Stored[t]]
    /\ stamp' = stamp + 1
    /\ AccountForWrite
    /\ save' = [save EXCEPT ![m] = "recording"]
    /\ doc' = [doc EXCEPT ![m].seen = Stored[t], ![m].dirty = FALSE]
    /\ touched' = Untouched(m)
    /\ UNCHANGED <<entry, changed, announcing>>

\* The rest of writeFile, and the stat VS Code ends a save with.
FinishSave(m) ==
    LET recorded == [entry EXCEPT ![m] = RecordSave(@, text[m])]
    IN  /\ save[m] = "recording"
        /\ Look(recorded)
        /\ changed' = changed \cup {m} \cup Moved(recorded)
        /\ doc' = [doc EXCEPT ![m].mtime = Reconciled(recorded)[m].mtime,
                              ![m].size = Reconciled(recorded)[m].size]
        /\ save' = [save EXCEPT ![m] = "none"]
        /\ UNCHANGED <<fileVars, announcing, touched>>

\* A save that failed, or was given up at the conflict.
FailSave(m) ==
    /\ save[m] \in {"writing", "conflict"}
    /\ save' = [save EXCEPT ![m] = "none"]
    /\ UNCHANGED <<fileVars, providerVars, doc, touched>>

\* writeProjectModule, for an agent or a command, up to the end of its write.
AgentWrite(m, t) ==
    /\ Quiet /\ stamp < MaxStamp /\ m \notin announcing
    /\ text[m] # Stored[t]
    /\ text' = [text EXCEPT ![m] = Stored[t]]
    /\ stamp' = stamp + 1
    /\ AccountForWrite
    /\ announcing' = announcing \cup {m}
    /\ touched' = IF doc[m].open THEN touched \cup {m} ELSE touched
    /\ UNCHANGED <<entry, changed, codeVars>>

\* Mutant: an agent's write is left to be noticed.
AnnounceNothing(m) ==
    /\ m \in announcing
    /\ announcing' = announcing \ {m}
    /\ UNCHANGED <<fileVars, accounted, entry, changed, codeVars, touched>>

\* notifyFileChanged at its end.
Announce(m) ==
    /\ m \in announcing
    /\ announcing' = announcing \ {m}
    /\ entry' = [entry EXCEPT ![m] = Notified(@)]
    /\ changed' = changed \cup {m}
    /\ UNCHANGED <<fileVars, accounted, codeVars, touched>>

\* The VBE, git or another process writes a module (or none: t is its text).
OutsideWrite(m, t) ==
    /\ Quiet /\ stamp < MaxStamp
    /\ text' = [text EXCEPT ![m] = Stored[t]]
    /\ stamp' = stamp + 1
    /\ touched' = IF doc[m].open THEN touched \cup {m} ELSE touched
    /\ UNCHANGED <<providerVars, codeVars>>

-----------------------------------------------------------------------------
Provider(m) == Announce(m) \/ FinishSave(m) \/ HearChange(m)

Next ==
    \/ WatcherLook
    \/ \E m \in Modules :
        \/ Provider(m)
        \/ OpenDocument(m) \/ CloseDocument(m) \/ ForgetClosed(m) \/ Edit(m)
        \/ SaveStats(m) \/ Overwrite(m) \/ Revert(m) \/ FailSave(m)
        \/ \E t \in Texts : WriteFile(m, t) \/ AgentWrite(m, t) \/ OutsideWrite(m, t)

Spec == Init /\ [][Next]_vars

\* Events arrive, timers run out and the provider's handlers end.
FairSpec == /\ Spec
            /\ WF_vars(WatcherLook)
            /\ \A m \in Modules : /\ WF_vars(Announce(m))
                                  /\ WF_vars(FinishSave(m))
                                  /\ WF_vars(HearChange(m))

-----------------------------------------------------------------------------
(* Properties *)

TypeOK ==
    /\ text \in [Modules -> Texts]
    /\ stamp \in Nat /\ accounted \in 0..stamp
    /\ entry \in [Modules -> [mtime : Nat, size : Nat, given : Texts \cup {NoText}]]
    /\ changed \subseteq Modules /\ announcing \subseteq Modules /\ touched \subseteq Modules
    /\ doc \in [Modules -> [open : BOOLEAN, dirty : BOOLEAN, seen : Texts \cup {NoText},
                            mtime : Nat, size : Nat]]
    /\ save \in [Modules -> {"none", "conflict", "writing", "recording"}]
    /\ \A m \in Modules : doc[m].open => doc[m].mtime <= entry[m].mtime

\* No save passes over a change: when a save goes on to write, its module
\* holds what the document's author last saw of it, however it was changed, by
\* whom, and whether anything had noticed, but for a write of an agent's that
\* is still to be announced.  (architecture.md: "VS Code's save-conflict check
\* stops a save over them".)
SavesKnowTheText ==
    [][\A m \in Modules : save[m] # "writing" /\ save'[m] = "writing" =>
            text[m] = doc'[m].seen \/ m \in announcing]_vars

\* A conflict is somebody's doing: a save stops only where its own module was
\* written by somebody else since the document was loaded or saved, or VS Code
\* is still to hear of a change of it.  ("A module the change did not reach
\* keeps its stat, and its unsaved edits save without a conflict.")
ConflictsAreReal ==
    [][\A m \in Modules : save[m] # "conflict" /\ save'[m] = "conflict" =>
            m \in touched]_vars

\* A document with no unsaved edits comes to show what its module holds.
CleanDocumentsFollow ==
    \A m \in Modules :
        (doc[m].open /\ ~doc[m].dirty /\ text[m] # doc[m].seen)
            ~> (text[m] = doc[m].seen \/ doc[m].dirty \/ ~doc[m].open)

=============================================================================
