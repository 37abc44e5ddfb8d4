------------------------- MODULE ProjectIndexLoads -------------------------
(***************************************************************************)
(* What XLIDE holds of one project's modules, and how it is loaded and     *)
(* kept: the cache of VbaSymbolIndex with its batch reads                  *)
(* (vbaSymbolIndex.ts), the record of VbaProjectIndexService with its      *)
(* shared loads (vbaProjectIndexService.ts), and what tells them of a      *)
(* change: a save, a closed editor, a write of XLIDE's own, a look at the  *)
(* file after somebody else's (projectModuleOperations.ts).                *)
(*                                                                         *)
(* The engine reads the file in one go, when it has the password; a batch  *)
(* read puts what it read into the cache a few modules at a time and lets  *)
(* the event loop go between.  A load is started by whoever asks first,    *)
(* shared by those who ask while it runs, and dropped, not stopped, by an  *)
(* invalidation.                                                           *)
(***************************************************************************)
EXTENDS Naturals, FiniteSets

CONSTANTS
    Modules,
    FirstChunk,  \* the modules a batch read caches before it yields
    Edited,      \* the modules the author opens
    Texts, Absent,   \* Absent: the project has no such module
    Unknown,     \* not cached
    Reads, Loads, NoRead, NoLoad,   \* names for what runs at a time
    Races,       \* what the code does not stand (README, section 5):
                 \* subset of {"during save", "typing", "back"}
    MaxWrites,   \* bound: writes of the file
    MaxVersion   \* bound: versions of a document

ASSUME TextsAssumption == /\ FirstChunk \subseteq Modules /\ Edited \subseteq Modules
                          /\ Absent \notin Texts /\ Unknown \notin Texts \cup {Absent}
ASSUME NamesAssumption == NoRead \notin Reads /\ NoLoad \notin Loads
ASSUME RacesAssumption == Races \subseteq {"during save", "typing", "back"}
ASSUME BoundsAssumption == MaxWrites \in Nat /\ MaxVersion \in Nat \ {0}

VARIABLES
    file,        \* per module: what the project file holds
    doc,         \* per module: its editor's document
    saving,      \* modules whose save has written the file and not ended
    announcing,  \* writes of XLIDE's own whose refresh is still to come
    noticed,     \* somebody else's change waits to be looked at
    lastSeen,    \* refreshProjectStateOnOutsideChange: what the last look found
    cached,      \* VbaSymbolIndex: per module, the cached text
    listed, list,    \* is there a fresh list of the modules? which?
    bumped,      \* modules with a generation above 0
    theRead, reads,  \* _allModuleReads, and every read that runs
    record,      \* VbaProjectIndexService: the record of the project
    aged,        \* the record is older than its TTL
    theLoad, loads,  \* _loads, and every load that runs
    unsaid,      \* ghost: modules changed since the index was last told
    writes       \* counter of the bound

fileVars == <<file, saving, announcing, noticed, unsaid, writes>>
cacheVars == <<cached, listed, list, bumped, theRead, reads>>
recordVars == <<record, aged, theLoad, loads>>
vars == <<fileVars, doc, lastSeen, cacheVars, recordVars>>

NoRecord == [at |-> "none"]
Kept == record.at = "kept"
Free == [at |-> "free"]
Closed == [open |-> FALSE, text |-> Absent, version |-> 0, dirty |-> FALSE]
Nothing == [m \in Modules |-> Unknown]

Init ==
    /\ file \in [Modules -> Texts \cup {Absent}]
    /\ doc = [m \in Modules |-> Closed] /\ saving = {}
    /\ announcing = 0 /\ noticed = FALSE /\ lastSeen = Nothing
    /\ cached = Nothing /\ listed = FALSE /\ list = {} /\ bumped = {}
    /\ theRead = NoRead /\ reads = [r \in Reads |-> Free]
    /\ record = NoRecord /\ aged = FALSE
    /\ theLoad = NoLoad /\ loads = [l \in Loads |-> Free]
    /\ unsaid = {} /\ writes = 0

-----------------------------------------------------------------------------
(* The record.                                                             *)

\* An editor's text is not in the record, and the record has its module.
Foldable(rec, m) ==
    doc[m].open /\ rec.texts[m] # Absent /\ rec.applied[m] # doc[m].version

\* _applyOpenDocumentSources
Folded(rec) ==
    [at |-> "kept",
     texts |-> [m \in Modules |-> IF Foldable(rec, m) THEN doc[m].text ELSE rec.texts[m]],
     applied |-> [m \in Modules |-> IF Foldable(rec, m) THEN doc[m].version
                                    ELSE rec.applied[m]]]

NewRecord(texts) ==
    [at |-> "kept", texts |-> texts, applied |-> [m \in Modules |-> 0]]

\* invalidate(projectPath): the load is forgotten, and those who wait for it
\* get what it loads.
Invalidate == record' = NoRecord /\ theLoad' = NoLoad /\ UNCHANGED <<aged, loads>>

\* _applyIndexModule can fold the module in.
CanApply(text) == theLoad = NoLoad /\ (Kept => text # Unknown)

WithText(rec, m, text) == [rec EXCEPT !.texts = [@ EXCEPT ![m] = text]]

\* onDidChange of a module.
ModuleChanged(m, text) ==
    IF ~CanApply(text) THEN Invalidate
    ELSE /\ IF ~Kept THEN UNCHANGED <<record, aged>>
            ELSE record' = WithText(record, m, text) /\ aged' = FALSE
         /\ UNCHANGED <<theLoad, loads>>

-----------------------------------------------------------------------------
(* The cache.                                                              *)

\* invalidate(projectPath): the cache goes, and a read that runs, if it has
\* begun to cache, goes on with the one that is gone.
ForgetCache ==
    /\ cached' = Nothing /\ listed' = FALSE /\ list' = {} /\ theRead' = NoRead
    /\ reads' = [r \in Reads |-> IF reads[r].at = "rest" THEN [reads[r] EXCEPT !.attached = FALSE]
                                 ELSE reads[r]]
    /\ UNCHANGED bumped

\* refreshProjectState, and what hears of it.
Refresh(seen) ==
    /\ ForgetCache
    /\ Invalidate
    /\ lastSeen' = seen
    /\ unsaid' = {}

\* Mutant: the list is enough to answer from the cache.
CompleteByList == listed

\* cachedAllModules: the list is fresh and every module of it is cached.
Complete == listed /\ \A m \in list : cached[m] # Unknown

Listed == [m \in Modules |-> IF m \in list THEN cached[m] ELSE Absent]

\* A module somebody has told the cache of is kept.
Keeps(m) == m \in bumped /\ cached[m] # Unknown

Taken(m, text) == IF text # Absent /\ Keeps(m) THEN cached[m] ELSE text

\* One step of a batch read: what it makes of the modules ms.
Caches(ms, out) ==
    cached' = [m \in Modules |-> IF m \in ms /\ out[m] # Absent THEN Taken(m, out[m]) ELSE cached[m]]

-----------------------------------------------------------------------------
(* Loads and reads.                                                        *)

\* The loads that wait for the read r go on with what it read.
Deliver(r, out) ==
    loads' = [l \in Loads |->
                 IF loads[l].at = "reading" /\ loads[l].read = r
                 THEN [at |-> "building", texts |-> out] ELSE loads[l]]

BeginRead(r) ==
    /\ reads[r].at = "free"
    /\ theRead' = r
    /\ reads' = [reads EXCEPT ![r] = [at |-> "asked"]]

\* getAllModules for the load l: it joins the read that runs, answers from the
\* cache, or reads the file.
StartLoad(l) ==
    /\ theLoad' = l
    /\ \/ /\ theRead # NoRead
          /\ loads' = [loads EXCEPT ![l] = [at |-> "reading", read |-> theRead]]
          /\ UNCHANGED <<theRead, reads>>
       \/ /\ theRead = NoRead /\ Complete
          /\ loads' = [loads EXCEPT ![l] = [at |-> "building", texts |-> Listed]]
          /\ UNCHANGED <<theRead, reads>>
       \/ /\ theRead = NoRead /\ ~Complete
          /\ \E r \in Reads :
                /\ BeginRead(r)
                /\ loads' = [loads EXCEPT ![l] = [at |-> "reading", read |-> r]]

\* contextForProject.
Ask ==
    /\ \/ /\ Kept /\ ~aged
          /\ record' = Folded(record)
          /\ UNCHANGED <<theLoad, loads, theRead, reads>>
       \/ /\ ~Kept \/ aged
          /\ theLoad = NoLoad
          /\ \E l \in Loads : loads[l].at = "free" /\ StartLoad(l)
          /\ UNCHANGED record
    /\ UNCHANGED <<fileVars, doc, lastSeen, cached, listed, list, bumped, aged>>

\* The engine has the password, reads the file, and the first modules are cached.
ReadFile(r) ==
    /\ reads[r].at = "asked"
    /\ listed' = TRUE /\ list' = {m \in Modules : file[m] # Absent}
    /\ Caches(FirstChunk, file)
    /\ reads' = [reads EXCEPT ![r] =
           [at |-> "rest", attached |-> TRUE,
            out |-> [m \in Modules |-> IF m \in FirstChunk THEN Taken(m, file[m]) ELSE file[m]]]]
    /\ UNCHANGED <<fileVars, doc, lastSeen, bumped, theRead, recordVars>>

EndRead(r) ==
    /\ reads' = [reads EXCEPT ![r] = Free]
    /\ theRead' = IF theRead = r THEN NoRead ELSE theRead

\* The rest of them.  A read whose cache is gone keeps nothing of it.
ReadRest(r) ==
    /\ reads[r].at = "rest"
    /\ LET rest == Modules \ FirstChunk
           out == IF ~reads[r].attached THEN reads[r].out
                  ELSE [m \in Modules |-> IF m \in rest THEN Taken(m, reads[r].out[m])
                                          ELSE reads[r].out[m]]
       IN  /\ IF reads[r].attached THEN Caches(rest, reads[r].out) ELSE UNCHANGED cached
           /\ Deliver(r, out)
    /\ EndRead(r)
    /\ UNCHANGED <<fileVars, doc, lastSeen, listed, list, bumped, record, aged, theLoad>>

\* Mutant: a load that fails stays the one to wait for.
FailedLoadStays(waited) == UNCHANGED theLoad

\* finally: the load that is waited for is none.
FailedLoadGoes(waited) == theLoad' = IF theLoad \in waited THEN NoLoad ELSE theLoad

\* The file is locked or gone, or no password was given.
FailRead(r) ==
    /\ reads[r].at = "asked"
    /\ EndRead(r)
    /\ LET waited == {l \in Loads : loads[l].at = "reading" /\ loads[l].read = r} IN
       /\ loads' = [l \in Loads |-> IF l \in waited THEN Free ELSE loads[l]]
       /\ FailedLoadGoes(waited)
    /\ UNCHANGED <<fileVars, doc, lastSeen, cached, listed, list, bumped, record, aged>>

\* Mutant: whoever ends last is kept.
InstallsAny(l) == TRUE

\* Only the load that is still waited for is kept.
Installs(l) == theLoad = l

\* _buildRecord ends; whoever waited folds in what is open.
EndLoad(l) ==
    /\ loads[l].at = "building"
    /\ loads' = [loads EXCEPT ![l] = Free]
    /\ theLoad' = IF theLoad = l THEN NoLoad ELSE theLoad
    /\ IF Installs(l) THEN record' = Folded(NewRecord(loads[l].texts)) /\ aged' = FALSE
       ELSE UNCHANGED <<record, aged>>
    /\ UNCHANGED <<fileVars, doc, lastSeen, cacheVars>>

\* The module list is five seconds old; the record ten minutes.
ListExpires ==
    /\ listed /\ listed' = FALSE /\ list' = {}
    /\ UNCHANGED <<fileVars, doc, lastSeen, cached, bumped, theRead, reads, recordVars>>

RecordAges ==
    /\ Kept /\ ~aged /\ aged' = TRUE
    /\ UNCHANGED <<fileVars, doc, lastSeen, cacheVars, record, theLoad, loads>>

-----------------------------------------------------------------------------
(* Editors.                                                                *)

\* The modules do not become again what the last look found.
NotBack(written) == lastSeen = written => "back" \in Races

Open(m) ==
    /\ m \in Edited /\ ~doc[m].open /\ file[m] # Absent
    /\ doc' = [doc EXCEPT ![m] = [open |-> TRUE, text |-> file[m], version |-> 1, dirty |-> FALSE]]
    /\ UNCHANGED <<fileVars, lastSeen, cacheVars, recordVars>>

NewText(m, t, dirty) ==
    /\ doc[m].open /\ t # doc[m].text /\ doc[m].version < MaxVersion
    /\ doc' = [doc EXCEPT ![m] = [open |-> TRUE, text |-> t, version |-> @.version + 1,
                                 dirty |-> dirty]]

Edit(m, t) ==
    /\ NewText(m, t, TRUE)
    /\ m \in saving => "typing" \in Races
    /\ UNCHANGED <<fileVars, lastSeen, cacheVars, recordVars>>

\* VS Code reads a document without unsaved edits again.
Reload(m) ==
    /\ file[m] # Absent /\ m \notin saving
    /\ doc[m].open /\ ~doc[m].dirty /\ NewText(m, file[m], FALSE)
    /\ UNCHANGED <<fileVars, lastSeen, cacheVars, recordVars>>

SaveWrites(m) ==
    /\ doc[m].open /\ doc[m].dirty /\ m \notin saving /\ file[m] # Absent
    /\ writes < MaxWrites /\ writes' = writes + 1
    /\ NotBack([file EXCEPT ![m] = doc[m].text])
    /\ file' = [file EXCEPT ![m] = doc[m].text]
    /\ saving' = saving \cup {m}
    /\ doc' = [doc EXCEPT ![m].dirty = FALSE]
    /\ UNCHANGED <<announcing, noticed, unsaid, lastSeen, cacheVars, recordVars>>

\* onDidSaveTextDocument: updateModuleSource, with what the document holds now.
SaveEnds(m) ==
    /\ m \in saving
    /\ saving' = saving \ {m}
    /\ cached' = [cached EXCEPT ![m] = doc[m].text]
    /\ bumped' = bumped \cup {m}
    /\ theRead' = NoRead
    /\ ModuleChanged(m, doc[m].text)
    /\ lastSeen' = Nothing
    /\ UNCHANGED <<file, announcing, noticed, unsaid, writes, doc, listed, list, reads>>

Unapply(rec, m) == [rec EXCEPT !.applied = [@ EXCEPT ![m] = 0]]

\* _revertClosedDocument: the record goes back to the index's text.
Close(m) ==
    /\ doc[m].open /\ m \notin saving
    /\ doc' = [doc EXCEPT ![m] = Closed]
    /\ IF ~Kept \/ record.texts[m] = Absent THEN UNCHANGED recordVars
       ELSE IF theLoad = NoLoad /\ cached[m] = record.texts[m]
       THEN record' = Unapply(record, m) /\ UNCHANGED <<aged, theLoad, loads>>
       ELSE IF ~CanApply(cached[m]) THEN Invalidate
       ELSE /\ record' = Unapply(WithText(record, m, cached[m]), m)
            /\ aged' = FALSE
            /\ UNCHANGED <<theLoad, loads>>
    /\ UNCHANGED <<fileVars, lastSeen, cacheVars>>

-----------------------------------------------------------------------------
(* Who else writes.                                                        *)

Writes(m, t) ==
    /\ t # file[m] /\ writes < MaxWrites /\ writes' = writes + 1
    /\ m \in saving => "during save" \in Races
    /\ file' = [file EXCEPT ![m] = t]
    /\ unsaid' = unsaid \cup {m}

\* writeProjectModule or deleteProjectModule, for an agent or a command, ...
OwnWrite(m, t) ==
    /\ Writes(m, t)
    /\ announcing' = announcing + 1
    /\ UNCHANGED <<saving, noticed, doc, lastSeen, cacheVars, recordVars>>

\* ... and its end.
OwnWriteEnds ==
    /\ announcing > 0 /\ announcing' = announcing - 1
    /\ Refresh(Nothing)
    /\ UNCHANGED <<file, saving, noticed, writes, doc>>

\* The VBE, git, the MCP server's process.
OutsideWrite(m, t) ==
    /\ Writes(m, t)
    /\ NotBack([file EXCEPT ![m] = t])
    /\ noticed' = TRUE
    /\ UNCHANGED <<saving, announcing, doc, lastSeen, cacheVars, recordVars>>

\* The last look found the same modules.
Seen == lastSeen = file

\* look: the project is refreshed if its modules are not those of the last look.
\* (unsaid: the refresh that ends a write of XLIDE's own is still to come.)
Look ==
    /\ noticed /\ noticed' = FALSE
    /\ IF Seen
       THEN /\ unsaid' = IF announcing > 0 THEN unsaid ELSE {}
            /\ UNCHANGED <<lastSeen, cacheVars, recordVars>>
       ELSE Refresh(file)
    /\ UNCHANGED <<file, saving, announcing, writes, doc>>

-----------------------------------------------------------------------------
Next ==
    \/ Ask \/ ListExpires \/ RecordAges \/ OwnWriteEnds \/ Look
    \/ \E r \in Reads : ReadFile(r) \/ ReadRest(r) \/ FailRead(r)
    \/ \E l \in Loads : EndLoad(l)
    \/ \E m \in Modules :
        \/ Open(m) \/ Reload(m) \/ SaveWrites(m) \/ SaveEnds(m) \/ Close(m)
        \/ \E t \in Texts : Edit(m, t)
        \/ \E t \in Texts \cup {Absent} : OwnWrite(m, t) \/ OutsideWrite(m, t)

Spec == Init /\ [][Next]_vars

-----------------------------------------------------------------------------
Held == Texts \cup {Absent}

TypeOK ==
    /\ file \in [Modules -> Held] /\ cached \in [Modules -> Texts \cup {Unknown}]
    /\ doc \in [Modules -> [open : BOOLEAN, text : Held, version : 0 .. MaxVersion,
                            dirty : BOOLEAN]]
    /\ \A m \in Modules : doc[m].open => doc[m].text # Absent /\ doc[m].version > 0
    /\ saving \subseteq {m \in Modules : doc[m].open}
    /\ announcing \in Nat /\ noticed \in BOOLEAN /\ listed \in BOOLEAN /\ aged \in BOOLEAN
    /\ list \subseteq Modules /\ bumped \subseteq Modules /\ unsaid \subseteq Modules
    /\ lastSeen = Nothing \/ lastSeen \in [Modules -> Held]
    /\ theRead \in Reads \cup {NoRead} /\ theLoad \in Loads \cup {NoLoad}
    /\ Kept => /\ record.texts \in [Modules -> Held]
               /\ record.applied \in [Modules -> 0 .. MaxVersion]
    /\ \A r \in Reads : reads[r].at = "rest" => reads[r].out \in [Modules -> Held]
    /\ \A l \in Loads : loads[l].at = "building" => loads[l].texts \in [Modules -> Held]
    /\ writes \in 0 .. MaxWrites

\* Nothing about the module is on its way to the index.
Said(m) == m \notin unsaid \cup saving

CacheIsFresh ==
    \A m \in Modules : Said(m) /\ cached[m] # Unknown => cached[m] = file[m]

\* A load that is waited for will give what the file holds.
LoadIsFresh ==
    theLoad # NoLoad /\ loads[theLoad].at = "building" =>
        \A m \in Modules : Said(m) => loads[theLoad].texts[m] = file[m]

\* The record has the modules of the project, and of each what its editor
\* shows, or will have it at the next access, and without one what the file
\* holds.
RecordIsFresh ==
    Kept =>
        \A m \in Modules : Said(m) =>
            /\ record.texts[m] = Absent <=> file[m] = Absent
            /\ file[m] # Absent /\ ~Foldable(record, m) =>
                   record.texts[m] = IF doc[m].open THEN doc[m].text ELSE file[m]

\* Whatever is shared among those who ask is about the modules as they are, of
\* every module no change of which is still on its way: whatever loads, reads,
\* saves, closed editors and refreshes crossed.
IndexIsFresh == CacheIsFresh /\ LoadIsFresh /\ RecordIsFresh

\* Nobody waits for what has ended: neither a failed load nor a failed read
\* stays the one to join.
WaitedForRuns ==
    /\ theLoad # NoLoad => loads[theLoad].at # "free"
    /\ theRead # NoRead => reads[theRead].at # "free"
    /\ \A l \in Loads : loads[l].at = "reading" => reads[loads[l].read].at # "free"

=============================================================================
