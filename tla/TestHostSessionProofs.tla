----------------------- MODULE TestHostSessionProofs -----------------------
(***************************************************************************)
(* The safety of TestHostSession for any number of tests.  What the        *)
(* session knows of a test depends on what it has read, so the invariant   *)
(* is about the unread output as well: the tests are in it in their order, *)
(* each start before its end, none is under way when the script leaves its *)
(* tests alive, and none is mentioned after the file was closed.           *)
(***************************************************************************)
EXTENDS TestHostSession, SequenceTheorems, TLAPS

Starts(i) == pipe[i].kind = "macro-started"
Ends(i) == pipe[i].kind = "macro-finished"
Closes(i) == pipe[i].kind \in {"file-closed", "host-quit"}

\* Written and not yet read.
StartWritten(t) == \E i \in 1..Len(pipe) : Starts(i) /\ pipe[i].test = t
EndWritten(t) == \E i \in 1..Len(pipe) : Ends(i) /\ pipe[i].test = t
CloseWritten == \E i \in 1..Len(pipe) : Closes(i)

\* The script has said, read or not, that t has started; and that it is over.
Began(t) == t \in started \/ StartWritten(t)
Over(t) == (t \in started /\ t # current) \/ EndWritten(t)

\* The script is in no test, and did not die in one.
OutOfTests == stage \notin {"running", "exited"} \/ code = "0" \/ CloseWritten

\* Which watchdog may be armed when.
WatchInv ==
    /\ "startup" \in timers => current = 0
    /\ "macro" \in timers => current # 0
    /\ "cleanup" \in timers /\ ~settled => current = 0
    /\ timedOut => settled

\* What the session knows of the tests.
TestInv ==
    /\ current # 0 => current \in started /\ ended[current] \notin {"passed", "failed"}
    /\ \A t \in started : t <= test /\ (t # current => ended[t] # "none")
    /\ \A t \in Tests : ended[t] # "none" => t \in started

\* The unread mention of a test: the script has come to it, and of those the
\* session knows only the one in flight may still be mentioned, by its end.
Later(i) ==
    Starts(i) \/ Ends(i) =>
        /\ pipe[i].test <= test
        /\ \A t \in started : \/ t < pipe[i].test
                              \/ t = pipe[i].test /\ t = current /\ Ends(i)

InOrder(i, j) ==
    i < j /\ (Starts(i) \/ Ends(i)) /\ (Starts(j) \/ Ends(j)) =>
        \/ pipe[i].test < pipe[j].test
        \/ pipe[i].test = pipe[j].test /\ Starts(i) /\ Ends(j)

Follows(i) ==
    Ends(i) => \/ pipe[i].test \in started
               \/ \E j \in 1..Len(pipe) : j < i /\ Starts(j) /\ pipe[j].test = pipe[i].test

PipeInv ==
    /\ \A i \in 1..Len(pipe) : Later(i) /\ Follows(i)
    /\ \A i, j \in 1..Len(pipe) : InOrder(i, j)
    /\ \A i, j \in 1..Len(pipe) : i < j /\ Closes(i) => ~Starts(j) /\ ~Ends(j)

ScriptInv ==
    /\ \A t \in Tests : Began(t) /\ (t < test \/ OutOfTests) => Over(t)
    /\ stage = "running" => test \in Tests /\ Began(test) /\ ~Over(test)
    /\ code = "0" => stage = "exited"
    /\ CloseWritten => stage \in {"quitting", "releasing", "exited"}

SessionInv == TypeOK /\ WatchInv /\ TestInv /\ PipeInv /\ ScriptInv

-----------------------------------------------------------------------------
(* Events, and the sequence of them.                                       *)

LEMMA EventFields ==
    ASSUME NEW e \in Events
    PROVE  /\ e.kind \in {"host-created", "macro-started", "modal-blocked", "macro-finished",
                          "file-closed", "host-quit"}
           /\ e.kind = "host-created" => e.what \in BOOLEAN
           /\ e.kind \in {"macro-started", "modal-blocked", "macro-finished"} => e.test \in Tests
           /\ e.kind = "macro-finished" => e.what \in Verdicts
BY DEF Events

\* Tests are numbers, of which 0 is none.
LEMMA TestNumbers == Tests \subseteq Nat \ {0} /\ 0 \notin Tests
BY NTestsAssumption DEF Tests

\* The script has written e.
LEMMA Written ==
    ASSUME TypeOK, NEW e \in Events, Emit(e)
    PROVE  /\ pipe' \in Seq(Events)
           /\ Len(pipe) \in Nat /\ Len(pipe') = Len(pipe) + 1
           /\ pipe'[Len(pipe) + 1] = e
           /\ \A i \in 1..Len(pipe) : pipe'[i] = pipe[i]
<1>1. pipe \in Seq(Events)
  BY DEF TypeOK
<1>2. pipe' = Append(pipe, e)
  BY DEF Emit
<1>3. QED
  BY <1>1, <1>2, AppendProperties, LenProperties

\* The session has read the first event.
LEMMA Read ==
    ASSUME TypeOK, pipe # <<>>, pipe' = Tail(pipe)
    PROVE  /\ pipe' \in Seq(Events)
           /\ Len(pipe) \in Nat \ {0} /\ Len(pipe') = Len(pipe) - 1
           /\ \A i \in 1..Len(pipe') : pipe'[i] = pipe[i + 1]
           /\ Head(pipe) = pipe[1] /\ pipe[1] \in Events
<1>1. pipe \in Seq(Events)
  BY DEF TypeOK
<1>2. Len(pipe) \in Nat \ {0}
  BY <1>1, EmptySeq
<1>3. Head(pipe) = pipe[1] /\ pipe[1] \in Events
  BY <1>1, <1>2, HeadTailProperties, ElementOfSeq
<1>4. QED
  BY <1>1, <1>2, <1>3, HeadTailProperties

LEMMA PipeElements ==
    ASSUME TypeOK
    PROVE  Len(pipe) \in Nat /\ \A i \in 1..Len(pipe) : pipe[i] \in Events
<1>1. pipe \in Seq(Events)
  BY DEF TypeOK
<1>2. QED
  BY <1>1, LenProperties, ElementOfSeq

-----------------------------------------------------------------------------
LEMMA SessionInit == Init => SessionInv
<1> SUFFICES ASSUME Init PROVE SessionInv
  OBVIOUS
<1>1. Len(<<>>) = 0 /\ <<>> \in Seq(Events)
  BY EmptySeq
<1>2. pipe = <<>> /\ Len(pipe) = 0
  BY <1>1 DEF Init
<1>3. TypeOK
  BY <1>1, <1>2 DEF Init, TypeOK, NoResults, Watchdogs, Outcomes
<1>4. WatchInv /\ TestInv
  BY DEF Init, WatchInv, TestInv, NoResults
<1>5. PipeInv
  BY <1>2 DEF PipeInv
<1>6. ScriptInv
  BY <1>2 DEF Init, ScriptInv, Began, StartWritten, CloseWritten
<1>7. QED
  BY <1>3, <1>4, <1>5, <1>6 DEF SessionInv

-----------------------------------------------------------------------------
(* Types.                                                                  *)

Results == [Tests -> Outcomes \cup {"none"}]

FlagTypes ==
    /\ settled \in BOOLEAN /\ failed \in BOOLEAN /\ pid \in BOOLEAN /\ killed \in BOOLEAN
    /\ sawQuit \in BOOLEAN /\ timedOut \in BOOLEAN /\ killing \in BOOLEAN
    /\ exitSeen \in BOOLEAN /\ dialog \in BOOLEAN /\ job \in BOOLEAN

TraceTypes ==
    /\ timers \subseteq Watchdogs /\ current \in Tests \cup {0}
    /\ started \subseteq Tests /\ ended \in Results /\ results \in Results

WorldTypes ==
    /\ stage \in {"creating", "claiming", "opening", "between", "running", "quitting",
                  "releasing", "exited"}
    /\ test \in Tests \cup {0}
    /\ code \in {"none", "0", "1", "killed", "spawn-error"}
    /\ pipe \in Seq(Events)
    /\ office \in {"none", "alive", "gone"}

Guarded == ~settled => timers # {}

LEMMA TypeParts == TypeOK <=> FlagTypes /\ TraceTypes /\ WorldTypes /\ Guarded
BY DEF TypeOK, FlagTypes, TraceTypes, WorldTypes, Guarded, Results

LEMMA TypePartsNext == FlagTypes' /\ TraceTypes' /\ WorldTypes' /\ Guarded' => TypeOK'
BY DEF TypeOK, FlagTypes, TraceTypes, WorldTypes, Guarded, Results

LEMMA FinishTypes ==
    ASSUME TypeOK, NEW error \in BOOLEAN, NEW events \in Results,
           NEW armed \in SUBSET Watchdogs, Finish(error, events, armed)
    PROVE  /\ settled' = TRUE /\ failed' \in BOOLEAN
           /\ results' \in Results /\ timers' \subseteq Watchdogs
<1>1. FlagTypes /\ TraceTypes
  BY TypeParts
<1>2. CASE settled
  BY <1>1, <1>2 DEF Finish, promise, FlagTypes, TraceTypes
<1>3. CASE ~settled
  BY <1>1, <1>3 DEF Finish, FlagTypes, TraceTypes
<1>4. QED
  BY <1>2, <1>3

LEMMA AbortTypes ==
    ASSUME TypeOK, NEW t \in Tests \cup {0}, NEW outcome \in Outcomes, NEW kills \in BOOLEAN,
           NEW armed \in SUBSET Watchdogs, Abort(t, outcome, kills, armed)
    PROVE  /\ settled' = TRUE /\ failed' \in BOOLEAN
           /\ ended' \in Results /\ results' \in Results /\ timers' \subseteq Watchdogs
           /\ killed' \in BOOLEAN /\ killing' \in BOOLEAN
<1>1. FlagTypes /\ TraceTypes
  BY TypeParts
<1>2. ended' \in Results
  BY <1>1 DEF Abort, TraceTypes, Results
<1>3. killed' \in BOOLEAN /\ killing' \in BOOLEAN
  BY <1>1, Zenon DEF Abort, KillOwnedHost, FlagTypes
<1>4. Finish(TRUE, ended', armed)
  BY DEF Abort
<1>5. QED
  BY <1>2, <1>3, <1>4, FinishTypes

LEMMA EventType == ASSUME TypeOK, HandleEvent PROVE TypeOK'
<1> DEFINE e == Head(pipe)
<1>p. FlagTypes /\ TraceTypes /\ WorldTypes /\ Guarded
  BY TypeParts
<1>h. pipe # <<>> /\ pipe' = Tail(pipe)
  BY DEF HandleEvent
<1>e. e \in Events /\ pipe' \in Seq(Events)
  BY <1>h, Read
<1>f. /\ e.kind = "host-created" => e.what \in BOOLEAN
      /\ e.kind \in {"macro-started", "modal-blocked", "macro-finished"} => e.test \in Tests
      /\ e.kind = "macro-finished" => e.what \in Verdicts
  BY <1>e, EventFields
<1>w. /\ stage' = stage /\ test' = test /\ code' = code /\ dialog' = dialog
      /\ office' = office /\ job' = job /\ timedOut' = timedOut /\ exitSeen' = exitSeen
  BY DEF HandleEvent, world
<1>wt. WorldTypes'
  BY <1>p, <1>w, <1>e DEF WorldTypes
<1> HIDE DEF e
<1>1. CASE e.kind = "host-created" /\ HostCreated(e)
  <2>1. FlagTypes'
    BY <1>p, <1>w, <1>f, <1>1, Zenon DEF HostCreated, FlagTypes, promise
  <2>2. TraceTypes' /\ Guarded'
    BY <1>p, <1>1 DEF HostCreated, TraceTypes, Guarded, promise, trace
  <2> QED BY <2>1, <2>2, <1>wt, TypePartsNext
<1>2. CASE e.kind = "macro-started" /\ MacroStarted(e)
  <2>1. FlagTypes'
    BY <1>p, <1>w, <1>2, Zenon DEF MacroStarted, FlagTypes, promise, owned
  <2>2. TraceTypes' /\ Guarded'
    BY <1>p, <1>f, <1>2 DEF MacroStarted, TraceTypes, Guarded, promise, Watchdogs
  <2> QED BY <2>1, <2>2, <1>wt, TypePartsNext
<1>3. CASE e.kind = "modal-blocked" /\ ModalBlocked(e)
  <2>1. CASE current # 0 /\ current = e.test
    <3>1. Abort(current, "modal-blocked", TRUE, timers)
      BY <1>3, <2>1 DEF ModalBlocked
    <3>2. /\ settled' = TRUE /\ failed' \in BOOLEAN /\ ended' \in Results
          /\ results' \in Results /\ timers' \subseteq Watchdogs
          /\ killed' \in BOOLEAN /\ killing' \in BOOLEAN
      BY <3>1, <1>p, AbortTypes DEF TraceTypes, Outcomes
    <3>3. FlagTypes'
      BY <1>p, <1>w, <1>3, <3>2 DEF ModalBlocked, FlagTypes
    <3>4. TraceTypes' /\ Guarded'
      BY <1>p, <1>3, <3>2 DEF ModalBlocked, TraceTypes, Guarded
    <3> QED BY <3>3, <3>4, <1>wt, TypePartsNext
  <2>2. CASE ~(current # 0 /\ current = e.test)
    <3>1. FlagTypes'
      BY <1>p, <1>w, <1>3, <2>2, Zenon DEF ModalBlocked, FlagTypes, promise
    <3>2. TraceTypes' /\ Guarded'
      BY <1>p, <1>3, <2>2 DEF ModalBlocked, TraceTypes, Guarded, promise
    <3> QED BY <3>1, <3>2, <1>wt, TypePartsNext
  <2> QED BY <2>1, <2>2
<1>4. CASE e.kind = "macro-finished" /\ MacroFinished(e)
  <2>1. FlagTypes'
    BY <1>p, <1>w, <1>4, Zenon DEF MacroFinished, FlagTypes, promise, owned
  <2>2. ended' \in Results
    BY <1>p, <1>f, <1>4 DEF MacroFinished, TraceTypes, Results, Outcomes
  <2>3. TraceTypes' /\ Guarded'
    BY <1>p, <1>f, <1>4, <2>2 DEF MacroFinished, TraceTypes, Guarded, promise, Watchdogs
  <2> QED BY <2>1, <2>3, <1>wt, TypePartsNext
<1>5. CASE e.kind \in {"file-closed", "host-quit"} /\ FileClosedOrQuit(e)
  <2>1. FlagTypes'
    BY <1>p, <1>w, <1>5, Zenon DEF FileClosedOrQuit, FlagTypes, promise
  <2>2. TraceTypes' /\ Guarded'
    BY <1>p, <1>5 DEF FileClosedOrQuit, TraceTypes, Guarded, promise, trace, Watchdogs
  <2> QED BY <2>1, <2>2, <1>wt, TypePartsNext
<1> QED
  BY <1>1, <1>2, <1>3, <1>4, <1>5 DEF HandleEvent, e

LEMMA ExitType == ASSUME TypeOK, HandleHostExit PROVE TypeOK'
<1>p. FlagTypes /\ TraceTypes /\ WorldTypes /\ Guarded
  BY TypeParts
<1>w. /\ exitSeen' = TRUE /\ current' = current /\ started' = started
      /\ pid' = pid /\ sawQuit' = sawQuit /\ timedOut' = timedOut
      /\ stage' = stage /\ test' = test /\ code' = code /\ dialog' = dialog
      /\ office' = office /\ job' = job /\ pipe' = pipe
  BY DEF HandleHostExit, world
<1>wt. WorldTypes'
  BY <1>p, <1>w DEF WorldTypes
<1>1. CASE settled /\ UNCHANGED <<promise, timers, ended, killed, killing>>
  <2>1. FlagTypes'
    BY <1>p, <1>w, <1>1, Zenon DEF FlagTypes, promise
  <2>2. TraceTypes' /\ Guarded'
    BY <1>p, <1>w, <1>1 DEF TraceTypes, Guarded, promise
  <2> QED BY <2>1, <2>2, <1>wt, TypePartsNext
<1>2. CASE Finish(FALSE, ended, timers) /\ UNCHANGED <<ended, killed, killing>>
  <2>1. /\ settled' = TRUE /\ failed' \in BOOLEAN
        /\ results' \in Results /\ timers' \subseteq Watchdogs
    BY <1>p, <1>2, FinishTypes DEF TraceTypes
  <2>2. FlagTypes'
    BY <1>p, <1>w, <1>2, <2>1, Zenon DEF FlagTypes
  <2>3. TraceTypes' /\ Guarded'
    BY <1>p, <1>w, <1>2, <2>1 DEF TraceTypes, Guarded
  <2> QED BY <2>2, <2>3, <1>wt, TypePartsNext
<1>3. CASE Abort(current, "runner-error", FALSE, timers)
  <2>1. /\ settled' = TRUE /\ failed' \in BOOLEAN
        /\ ended' \in Results /\ results' \in Results /\ timers' \subseteq Watchdogs
        /\ killed' \in BOOLEAN /\ killing' \in BOOLEAN
    BY <1>p, <1>3, AbortTypes DEF TraceTypes, Outcomes, Verdicts
  <2>2. FlagTypes'
    BY <1>p, <1>w, <2>1 DEF FlagTypes
  <2>3. TraceTypes' /\ Guarded'
    BY <1>p, <1>w, <2>1 DEF TraceTypes, Guarded
  <2> QED BY <2>2, <2>3, <1>wt, TypePartsNext
<1> QED
  BY <1>1, <1>2, <1>3 DEF HandleHostExit

LEMMA WatchdogType ==
    ASSUME TypeOK, WatchInv, StartupWatchdog \/ MacroWatchdog \/ CleanupWatchdog
    PROVE  TypeOK'
<1>p. FlagTypes /\ TraceTypes /\ WorldTypes /\ Guarded
  BY TypeParts
<1>w. /\ exitSeen' = exitSeen /\ current' = current /\ started' = started
      /\ pid' = pid /\ sawQuit' = sawQuit
      /\ stage' = stage /\ test' = test /\ code' = code /\ dialog' = dialog
      /\ office' = office /\ job' = job /\ pipe' = pipe
  BY DEF StartupWatchdog, MacroWatchdog, CleanupWatchdog, world, trace
<1>wt. WorldTypes'
  BY <1>p, <1>w DEF WorldTypes
<1>a. ASSUME NEW t \in Tests \cup {0}, NEW name \in Watchdogs, timedOut' = TRUE,
             Abort(t, "timeout", TRUE, timers \ {name})
      PROVE  TypeOK'
  <2>0. timers \ {name} \in SUBSET Watchdogs
    BY <1>p DEF TraceTypes
  <2>1. /\ settled' = TRUE /\ failed' \in BOOLEAN
        /\ ended' \in Results /\ results' \in Results /\ timers' \subseteq Watchdogs
        /\ killed' \in BOOLEAN /\ killing' \in BOOLEAN
    BY <2>0, <1>a, AbortTypes DEF Outcomes
  <2>2. FlagTypes'
    BY <1>p, <1>w, <1>a, <2>1, Zenon DEF FlagTypes
  <2>3. TraceTypes' /\ Guarded'
    BY <1>p, <1>w, <2>1 DEF TraceTypes, Guarded
  <2> QED BY <2>2, <2>3, <1>wt, TypePartsNext
<1>1. CASE StartupWatchdog
  <2>1. CASE settled \/ current # 0
    <3>1. settled
      BY <1>1, <2>1 DEF StartupWatchdog, WatchInv
    <3>2. timers' \subseteq timers /\ UNCHANGED <<promise, ended, killed, timedOut, killing>>
      BY <1>1, <2>1 DEF StartupWatchdog
    <3>3. FlagTypes'
      BY <1>p, <1>w, <3>2, Zenon DEF FlagTypes, promise
    <3>4. TraceTypes' /\ Guarded'
      BY <1>p, <1>w, <3>1, <3>2 DEF TraceTypes, Guarded, promise
    <3> QED BY <3>3, <3>4, <1>wt, TypePartsNext
  <2>2. CASE ~(settled \/ current # 0)
    BY <1>1, <2>2, <1>a DEF StartupWatchdog, Watchdogs
  <2> QED BY <2>1, <2>2
<1>2. CASE MacroWatchdog
  <2>1. CASE current = 0 \/ timedOut
    <3>1. settled
      BY <1>2, <2>1 DEF MacroWatchdog, WatchInv
    <3>2. timers' \subseteq timers /\ UNCHANGED <<promise, ended, killed, timedOut, killing>>
      BY <1>2, <2>1 DEF MacroWatchdog
    <3>3. FlagTypes'
      BY <1>p, <1>w, <3>2, Zenon DEF FlagTypes, promise
    <3>4. TraceTypes' /\ Guarded'
      BY <1>p, <1>w, <3>1, <3>2 DEF TraceTypes, Guarded, promise
    <3> QED BY <3>3, <3>4, <1>wt, TypePartsNext
  <2>2. CASE ~(current = 0 \/ timedOut)
    BY <1>p, <1>2, <2>2, <1>a DEF MacroWatchdog, Watchdogs, TraceTypes
  <2> QED BY <2>1, <2>2
<1>3. CASE CleanupWatchdog
  <2>1. CASE settled
    <3>1. timers' \subseteq timers /\ UNCHANGED <<promise, ended, killed, timedOut, killing>>
      BY <1>3, <2>1 DEF CleanupWatchdog, trace
    <3>2. FlagTypes'
      BY <1>p, <1>w, <3>1, Zenon DEF FlagTypes, promise
    <3>3. TraceTypes' /\ Guarded'
      BY <1>p, <1>w, <2>1, <3>1 DEF TraceTypes, Guarded, promise
    <3> QED BY <3>2, <3>3, <1>wt, TypePartsNext
  <2>2. CASE ~settled
    <3>0. timers \ {"cleanup"} \in SUBSET Watchdogs
      BY <1>p DEF TraceTypes
    <3>1. Finish(FALSE, ended, timers \ {"cleanup"}) /\ ended' = ended /\ timedOut' = timedOut
      BY <1>3, <2>2 DEF CleanupWatchdog, trace
    <3>2. /\ settled' = TRUE /\ failed' \in BOOLEAN
          /\ results' \in Results /\ timers' \subseteq Watchdogs
      BY <1>p, <3>0, <3>1, FinishTypes DEF TraceTypes
    <3>3. killed' \in BOOLEAN /\ killing' \in BOOLEAN
      BY <1>p, <1>3, <2>2, Zenon DEF CleanupWatchdog, KillOwnedHost, FlagTypes
    <3>4. FlagTypes'
      BY <1>p, <1>w, <3>1, <3>2, <3>3, Zenon DEF FlagTypes
    <3>5. TraceTypes' /\ Guarded'
      BY <1>p, <1>w, <3>1, <3>2 DEF TraceTypes, Guarded
    <3> QED BY <3>4, <3>5, <1>wt, TypePartsNext
  <2> QED BY <2>1, <2>2
<1> QED
  BY <1>1, <1>2, <1>3

SameSession ==
    /\ settled' = settled /\ results' = results /\ failed' = failed /\ timers' = timers
    /\ current' = current /\ started' = started /\ ended' = ended
    /\ pid' = pid /\ killed' = killed /\ sawQuit' = sawQuit
    /\ timedOut' = timedOut /\ killing' = killing /\ exitSeen' = exitSeen

\* The steps of the script and the application.
Outside == Script \/ ScriptKilled \/ OfficeKilled

LEMMA SessionFrame == UNCHANGED session => SameSession
BY DEF session, promise, trace, owned, SameSession

LEMMA OutsideFrame == Outside => SameSession
<1> SUFFICES ASSUME Outside PROVE UNCHANGED session
  BY SessionFrame
<1> QED
  BY DEF Outside, Script, ScriptKilled, OfficeKilled, SpawnFails, CreateOffice, ClaimOffice,
         OpenFile, StartTest, ReportDialog, FinishTest, CloseFile, QuitOffice, ScriptExits,
         ScriptCrashes, OfficeCrashes, ProcessEnds

\* The steps that write an event, with the event.
Writes(e) ==
    /\ Emit(e)
    /\ \/ ClaimOffice /\ \E known \in BOOLEAN : e = Event("host-created", 0, known)
       \/ StartTest /\ e = Event("macro-started", test + 1, "none")
       \/ ReportDialog /\ e = Event("modal-blocked", test, "none")
       \/ FinishTest /\ \E v \in Verdicts : e = Event("macro-finished", test, v)
       \/ CloseFile /\ e = Event("file-closed", 0, "none")
       \/ QuitOffice /\ e = Event("host-quit", 0, "none")

\* And those that do not.
Silent ==
    /\ pipe' = pipe
    /\ \/ SpawnFails \/ CreateOffice \/ OpenFile \/ CloseFile \/ QuitOffice
       \/ ScriptExits \/ ScriptCrashes \/ OfficeCrashes \/ ScriptKilled \/ OfficeKilled

LEMMA OutsideWrites ==
    ASSUME TypeOK, ScriptInv, Outside
    PROVE  Silent \/ \E e \in Events : Writes(e)
<1>t. test \in Tests \cup {0} /\ (stage = "running" => test \in Tests)
  BY DEF TypeOK, ScriptInv
<1>1. CASE ClaimOffice
  <2>1. PICK known \in BOOLEAN : Emit(Event("host-created", 0, known))
    BY <1>1 DEF ClaimOffice
  <2>2. Event("host-created", 0, known) \in Events
    BY DEF Event, Events
  <2> QED BY <1>1, <2>1, <2>2 DEF Writes
<1>2. CASE StartTest
  <2>1. test + 1 \in Tests
    BY <1>t, <1>2, NTestsAssumption DEF StartTest, Tests
  <2>2. Event("macro-started", test + 1, "none") \in Events
    BY <2>1 DEF Event, Events
  <2> QED BY <1>2, <2>2 DEF Writes, StartTest
<1>3. CASE ReportDialog
  <2>1. test \in Tests
    BY <1>t, <1>3 DEF ReportDialog
  <2>2. Event("modal-blocked", test, "none") \in Events
    BY <2>1 DEF Event, Events
  <2> QED BY <1>3, <2>2 DEF Writes, ReportDialog
<1>4. CASE FinishTest
  <2>1. PICK v \in Verdicts : Emit(Event("macro-finished", test, v))
    BY <1>4 DEF FinishTest
  <2>2. Event("macro-finished", test, v) \in Events
    BY <1>t, <1>4 DEF Event, Events, FinishTest
  <2> QED BY <1>4, <2>1, <2>2 DEF Writes
<1>5. CASE CloseFile
  <2>1. Event("file-closed", 0, "none") \in Events
    BY DEF Event, Events
  <2> QED BY <1>5, <2>1 DEF Writes, Silent, CloseFile
<1>6. CASE QuitOffice
  <2>1. Event("host-quit", 0, "none") \in Events
    BY DEF Event, Events
  <2> QED BY <1>6, <2>1 DEF Writes, Silent, QuitOffice
<1>7. CASE \/ SpawnFails \/ CreateOffice \/ OpenFile \/ ScriptExits \/ ScriptCrashes
           \/ OfficeCrashes \/ ScriptKilled \/ OfficeKilled
  BY <1>7 DEF Silent, SpawnFails, CreateOffice, OpenFile, ScriptExits, ScriptCrashes,
              OfficeCrashes, ScriptKilled, OfficeKilled, ProcessEnds
<1> QED
  BY <1>1, <1>2, <1>3, <1>4, <1>5, <1>6, <1>7 DEF Outside, Script

LEMMA OutsideType == ASSUME TypeOK, ScriptInv, Outside PROVE TypeOK'
<1>p. FlagTypes /\ TraceTypes /\ WorldTypes /\ Guarded
  BY TypeParts
<1>s. SameSession
  BY OutsideFrame
<1>1. TraceTypes' /\ Guarded'
  BY <1>p, <1>s DEF SameSession, TraceTypes, Guarded
<1>2. pipe' \in Seq(Events)
  <2>1. CASE Silent
    BY <1>p, <2>1 DEF Silent, WorldTypes
  <2>2. ASSUME NEW e \in Events, Writes(e) PROVE pipe' \in Seq(Events)
    BY <2>2, Written DEF Writes
  <2> QED BY <2>1, <2>2, OutsideWrites
<1>3. /\ stage' \in {"creating", "claiming", "opening", "between", "running", "quitting",
                  "releasing", "exited"}
      /\ code' \in {"none", "0", "1", "killed", "spawn-error"}
      /\ office' \in {"none", "alive", "gone"}
  BY <1>p DEF WorldTypes, Outside, Script, ScriptKilled, OfficeKilled, SpawnFails, CreateOffice,
         ClaimOffice, OpenFile, StartTest, ReportDialog, FinishTest, CloseFile, QuitOffice,
         ScriptExits, ScriptCrashes, OfficeCrashes, ProcessEnds
<1>4. test' \in Tests \cup {0}
  <2>1. CASE StartTest
    BY <1>p, <2>1, NTestsAssumption DEF WorldTypes, StartTest, Tests
  <2>2. CASE ~StartTest
    BY <1>p, <2>2 DEF WorldTypes, Outside, Script, ScriptKilled, OfficeKilled, SpawnFails,
         CreateOffice, ClaimOffice, OpenFile, ReportDialog, FinishTest, CloseFile, QuitOffice,
         ScriptExits, ScriptCrashes, OfficeCrashes, ProcessEnds
  <2> QED BY <2>1, <2>2
<1>5. dialog' \in BOOLEAN /\ job' \in BOOLEAN
  BY <1>p, Zenon DEF FlagTypes, Outside, Script, ScriptKilled, OfficeKilled, SpawnFails, CreateOffice,
         ClaimOffice, OpenFile, StartTest, ReportDialog, FinishTest, CloseFile, QuitOffice,
         ScriptExits, ScriptCrashes, OfficeCrashes, ProcessEnds
<1>6. FlagTypes'
  BY <1>p, <1>s, <1>5, Zenon DEF SameSession, FlagTypes
<1>7. WorldTypes'
  BY <1>2, <1>3, <1>4 DEF WorldTypes
<1> QED
  BY <1>1, <1>6, <1>7, TypePartsNext

-----------------------------------------------------------------------------
(* Reading.                                                                *)

Reads == TypeOK /\ pipe # <<>> /\ pipe' = Tail(pipe)

\* What is left was one place further back.
LEMMA Shift ==
    ASSUME Reads, NEW i \in 1..Len(pipe')
    PROVE  /\ i + 1 \in 2..Len(pipe)
           /\ pipe'[i] = pipe[i + 1]
BY Read DEF Reads

LEMMA ShiftBack ==
    ASSUME Reads, NEW i \in 1..Len(pipe), i # 1
    PROVE  /\ i - 1 \in 1..Len(pipe')
           /\ pipe'[i - 1] = pipe[i]
<1>1. Len(pipe) \in Nat \ {0} /\ Len(pipe') = Len(pipe) - 1
  BY Read DEF Reads
<1>2. i - 1 \in 1..Len(pipe')
  BY <1>1
<1>3. pipe'[i - 1] = pipe[(i - 1) + 1]
  BY <1>2, Read DEF Reads
<1>4. QED
  BY <1>2, <1>3

LEMMA WrittenAfterRead ==
    ASSUME Reads, NEW t
    PROVE  /\ StartWritten(t)' => StartWritten(t)
           /\ StartWritten(t) => (Starts(1) /\ pipe[1].test = t) \/ StartWritten(t)'
           /\ EndWritten(t)' => EndWritten(t)
           /\ EndWritten(t) => (Ends(1) /\ pipe[1].test = t) \/ EndWritten(t)'
           /\ CloseWritten' => CloseWritten
<1>1. ASSUME StartWritten(t)' PROVE StartWritten(t)
  BY <1>1, Shift, PipeElements DEF StartWritten, Starts, Reads
<1>2. ASSUME StartWritten(t), ~(Starts(1) /\ pipe[1].test = t) PROVE StartWritten(t)'
  BY <1>2, ShiftBack DEF StartWritten, Starts
<1>3. ASSUME EndWritten(t)' PROVE EndWritten(t)
  BY <1>3, Shift, PipeElements DEF EndWritten, Ends, Reads
<1>4. ASSUME EndWritten(t), ~(Ends(1) /\ pipe[1].test = t) PROVE EndWritten(t)'
  BY <1>4, ShiftBack DEF EndWritten, Ends
<1>5. ASSUME CloseWritten' PROVE CloseWritten
  BY <1>5, Shift, PipeElements DEF CloseWritten, Closes, Reads
<1>6. QED
  BY <1>1, <1>2, <1>3, <1>4, <1>5

\* The tests of the unread events are numbers.
LEMMA Mentions ==
    ASSUME TypeOK, NEW i \in 1..Len(pipe), Starts(i) \/ Ends(i)
    PROVE  pipe[i].test \in Tests /\ pipe[i].test \in Nat
BY PipeElements, EventFields, TestNumbers DEF Starts, Ends

\* Of what is read first: a test in flight is the one it ends.
LEMMA FirstMention ==
    ASSUME TypeOK, TestInv, PipeInv, ScriptInv, pipe # <<>>, Starts(1) \/ Ends(1)
    PROVE  /\ Starts(1) => current = 0 /\ pipe[1].test \notin started
           /\ Ends(1) => current \in {0, pipe[1].test} /\ pipe[1].test \in started
<1>0. 1 \in 1..Len(pipe) /\ Len(pipe) \in Nat
  <2>1. pipe \in Seq(Events)
    BY DEF TypeOK
  <2>2. QED
    BY <2>1, EmptySeq, LenProperties
<1> DEFINE x == pipe[1].test
<1>1. x \in Tests /\ x \in Nat
  BY <1>0, Mentions
<1>2. Later(1) /\ Follows(1)
  BY <1>0 DEF PipeInv
<1>3. /\ x <= test
      /\ \A t \in started : t < x \/ (t = x /\ t = current /\ Ends(1))
  BY <1>2 DEF Later
<1>4. ASSUME current # 0, current # x PROVE FALSE
  <2>1. current \in started /\ current \in Tests /\ current \in Nat /\ test \in Nat
    BY <1>4, TestNumbers DEF TestInv, TypeOK
  <2>2. current < x /\ current < test
    BY <1>3, <1>4, <1>1, <2>1
  <2>3. Over(current)
    BY <2>1, <2>2 DEF ScriptInv, Began
  <2>4. PICK j \in 1..Len(pipe) : Ends(j) /\ pipe[j].test = current
    BY <2>3 DEF Over, EndWritten
  <2>5. j # 1 /\ 1 < j
    BY <2>4, <1>4, <1>0
  <2>6. InOrder(1, j)
    BY <1>0 DEF PipeInv
  <2>7. x < current \/ x = current
    BY <2>4, <2>5, <2>6 DEF InOrder
  <2>8. QED
    BY <2>2, <2>7, <2>1, <1>1
<1>5. Starts(1) => x \notin started /\ (current # 0 => current # x)
  BY <1>3, <1>1 DEF TestInv, Starts, Ends
<1>6. Ends(1) => x \in started
  <2>1. \A j \in 1..Len(pipe) : ~(j < 1)
    BY <1>0
  <2>2. QED
    BY <1>2, <2>1 DEF Follows
<1>7. QED
  BY <1>4, <1>5, <1>6

\* When the close of the file is read first, no test is in flight.
LEMMA FirstClose ==
    ASSUME TypeOK, TestInv, PipeInv, ScriptInv, pipe # <<>>, Closes(1)
    PROVE  current = 0
<1>0. 1 \in 1..Len(pipe) /\ Len(pipe) \in Nat
  <2>1. pipe \in Seq(Events)
    BY DEF TypeOK
  <2>2. QED
    BY <2>1, EmptySeq, LenProperties
<1> SUFFICES ASSUME current # 0 PROVE FALSE
  OBVIOUS
<1>1. current \in started /\ current \in Tests
  BY DEF TestInv, TypeOK
<1>2. OutOfTests
  BY <1>0 DEF OutOfTests, CloseWritten
<1>3. Over(current)
  BY <1>1, <1>2 DEF ScriptInv, Began
<1>4. PICK j \in 1..Len(pipe) : Ends(j)
  BY <1>3 DEF Over, EndWritten
<1>5. j # 1
  BY <1>4 DEF Ends, Closes
<1>6. 1 < j
  BY <1>0, <1>5
<1>7. QED
  BY <1>0, <1>4, <1>6 DEF PipeInv

\* Reading keeps the order of what is left, and every end after its start,
\* when a start read is remembered.
LEMMA ReadOrder ==
    ASSUME Reads, PipeInv, started \subseteq started',
           Starts(1) => pipe[1].test \in started'
    PROVE  /\ \A i \in 1..Len(pipe') : Follows(i)'
           /\ \A i, j \in 1..Len(pipe') : InOrder(i, j)'
           /\ \A i, j \in 1..Len(pipe') : i < j /\ Closes(i)' => ~Starts(j)' /\ ~Ends(j)'
<1>0. Len(pipe) \in Nat /\ Len(pipe') \in Nat
  BY Read DEF Reads
<1>1. ASSUME NEW i \in 1..Len(pipe'), Ends(i)' PROVE Follows(i)'
  <2>1. i + 1 \in 1..Len(pipe) /\ pipe'[i] = pipe[i + 1] /\ Ends(i + 1)
    BY <1>0, <1>1, Shift DEF Ends
  <2>2. Follows(i + 1)
    BY <2>1 DEF PipeInv
  <2>3. CASE pipe[i + 1].test \in started
    BY <2>1, <2>3 DEF Follows
  <2>4. CASE \E j \in 1..Len(pipe) : j < i + 1 /\ Starts(j) /\ pipe[j].test = pipe[i + 1].test
    <3>1. PICK j \in 1..Len(pipe) : j < i + 1 /\ Starts(j) /\ pipe[j].test = pipe[i + 1].test
      BY <2>4
    <3>2. CASE j = 1
      BY <2>1, <3>1, <3>2 DEF Follows
    <3>3. CASE j # 1
      <4>1. j - 1 \in 1..Len(pipe') /\ pipe'[j - 1] = pipe[j]
        BY <3>3, ShiftBack
      <4>2. j - 1 < i
        BY <1>0, <3>1
      <4>3. pipe'[j - 1].kind = "macro-started" /\ pipe'[j - 1].test = pipe'[i].test
        BY <4>1, <3>1, <2>1 DEF Starts
      <4> QED BY <4>1, <4>2, <4>3 DEF Follows, Starts
    <3> QED BY <3>2, <3>3
  <2> QED BY <2>1, <2>2, <2>3, <2>4 DEF Follows
<1>2. ASSUME NEW i \in 1..Len(pipe'), NEW j \in 1..Len(pipe')
      PROVE  InOrder(i, j)' /\ (i < j /\ Closes(i)' => ~Starts(j)' /\ ~Ends(j)')
  <2>1. /\ i + 1 \in 1..Len(pipe) /\ pipe'[i] = pipe[i + 1]
        /\ j + 1 \in 1..Len(pipe) /\ pipe'[j] = pipe[j + 1]
        /\ i < j => i + 1 < j + 1
    BY <1>0, Shift
  <2>2. InOrder(i + 1, j + 1)
    BY <2>1 DEF PipeInv
  <2>3. i + 1 < j + 1 /\ Closes(i + 1) => ~Starts(j + 1) /\ ~Ends(j + 1)
    BY <2>1 DEF PipeInv
  <2>4. InOrder(i, j)'
    BY <2>1, <2>2 DEF InOrder, Starts, Ends
  <2>5. i < j /\ Closes(i)' => ~Starts(j)' /\ ~Ends(j)'
    BY <2>1, <2>3 DEF Closes, Starts, Ends
  <2> QED BY <2>4, <2>5
<1>3. \A i \in 1..Len(pipe') : ~Ends(i)' => Follows(i)'
  BY DEF Follows
<1>4. QED
  BY <1>1, <1>2, <1>3

\* What reading an event does to the tests the session knows of.
Notes ==
    \/ ~Starts(1) /\ ~Ends(1) /\ started' = started /\ current' = current
    \/ Starts(1) /\ started' = started \cup {pipe[1].test} /\ current' = pipe[1].test
    \/ Ends(1) /\ started' = started /\ current' = 0

LEMMA ReadPipe ==
    ASSUME Reads, TestInv, PipeInv, ScriptInv, Notes, test' = test
    PROVE  PipeInv'
<1>0. Len(pipe) \in Nat /\ 1 \in 1..Len(pipe) /\ Len(pipe') \in Nat
  BY Read DEF Reads
<1>1. started \subseteq started' /\ (Starts(1) => pipe[1].test \in started')
  BY DEF Notes, Starts, Ends
<1>2. ASSUME NEW i \in 1..Len(pipe'), Starts(i)' \/ Ends(i)' PROVE Later(i)'
  <2>1. /\ i + 1 \in 1..Len(pipe) /\ pipe'[i] = pipe[i + 1] /\ 1 < i + 1
        /\ (Starts(i)' <=> Starts(i + 1)) /\ (Ends(i)' <=> Ends(i + 1))
    BY <1>0, Shift DEF Starts, Ends
  <2> DEFINE x == pipe[i + 1].test
             y == pipe[1].test
  <2>2. x \in Nat
    BY <1>2, <2>1, Mentions DEF Reads
  <2>3. Later(i + 1) /\ InOrder(1, i + 1)
    BY <1>0, <2>1 DEF PipeInv
  <2>4. x <= test /\ \A t \in started : t < x \/ (t = x /\ t = current /\ Ends(i + 1))
    BY <1>2, <2>1, <2>3 DEF Later
  <2>5. Starts(1) \/ Ends(1) =>
            /\ y \in Nat
            /\ y < x \/ (y = x /\ Starts(1) /\ Ends(i + 1))
            /\ \A t \in started : t < y \/ (t = y /\ Ends(1))
    <3>1. Later(1)
      BY <1>0 DEF PipeInv
    <3>2. Starts(1) \/ Ends(1) => y \in Nat
      BY <1>0, Mentions DEF Reads
    <3>3. QED
      BY <1>2, <2>1, <2>3, <3>1, <3>2 DEF InOrder, Later
  <2>6. started \subseteq Nat
    BY TestNumbers DEF Reads, TypeOK
  <2>7. \A t \in started' : t < x \/ (t = x /\ t = current' /\ Ends(i + 1))
    <3>1. CASE ~Starts(1) /\ ~Ends(1) /\ started' = started /\ current' = current
      BY <2>4, <3>1
    <3>2. CASE Starts(1) /\ started' = started \cup {y} /\ current' = y
      <4>1. ~Ends(1)
        BY <3>2 DEF Starts, Ends
      <4>2. y \in Nat /\ (y < x \/ (y = x /\ Ends(i + 1))) /\ \A t \in started : t < y
        BY <2>5, <3>2, <4>1
      <4>3. \A t \in started : t < x
        BY <4>2, <2>2, <2>6
      <4>4. QED
        BY <3>2, <4>2, <4>3
    <3>3. CASE Ends(1) /\ started' = started /\ current' = 0
      <4>1. ~Starts(1)
        BY <3>3 DEF Starts, Ends
      <4>2. y \in Nat /\ y < x /\ \A t \in started : t < y \/ t = y
        BY <2>5, <3>3, <4>1
      <4>3. \A t \in started : t < x
        BY <4>2, <2>2, <2>6
      <4>4. QED
        BY <3>3, <4>3
    <3> QED BY <3>1, <3>2, <3>3 DEF Notes
  <2>8. pipe'[i].test = x
    BY <2>1
  <2> HIDE DEF x, y
  <2> QED BY <2>1, <2>4, <2>7, <2>8 DEF Later
<1>3. \A i \in 1..Len(pipe') : Later(i)'
  BY <1>2 DEF Later
<1>4. QED
  BY <1>1, <1>3, ReadOrder DEF PipeInv

LEMMA ReadScript ==
    ASSUME Reads, TestInv, PipeInv, ScriptInv, Notes,
           test' = test, stage' = stage, code' = code
    PROVE  ScriptInv'
<1> DEFINE y == pipe[1].test
<1>0. pipe # <<>> /\ TypeOK /\ 1 \in 1..Len(pipe)
  BY Read DEF Reads
<1>1. Starts(1) \/ Ends(1) => y \in Tests
  BY <1>0, Mentions
<1>2. /\ Starts(1) => current = 0 /\ y \notin started
      /\ Ends(1) => current \in {0, y} /\ y \in started
  BY <1>0, FirstMention
<1>3. 0 \notin Tests /\ started \subseteq Tests
  BY <1>0, TestNumbers DEF TypeOK
<1>4. ~(Starts(1) /\ Ends(1))
  BY DEF Starts, Ends
<1>5. ASSUME NEW t \in Tests
      PROVE  (Began(t)' <=> Began(t)) /\ (Over(t)' <=> Over(t))
  <2>1. /\ StartWritten(t)' => StartWritten(t)
        /\ StartWritten(t) => (Starts(1) /\ y = t) \/ StartWritten(t)'
        /\ EndWritten(t)' => EndWritten(t)
        /\ EndWritten(t) => (Ends(1) /\ y = t) \/ EndWritten(t)'
    BY WrittenAfterRead
  <2>2. /\ Starts(1) => StartWritten(y)
        /\ Ends(1) => EndWritten(y)
    BY <1>0 DEF StartWritten, EndWritten
  <2> HIDE DEF y
  <2>3. CASE ~Starts(1) /\ ~Ends(1) /\ started' = started /\ current' = current
    BY <2>1, <2>3 DEF Began, Over
  <2>4. CASE Starts(1) /\ started' = started \cup {y} /\ current' = y
    <3>1. Began(t)' <=> Began(t)
      BY <2>1, <2>2, <2>4, <1>4 DEF Began
    <3>2. Over(t)' <=> Over(t)
      BY <2>1, <2>4, <1>2, <1>3, <1>4 DEF Over
    <3> QED BY <3>1, <3>2
  <2>5. CASE Ends(1) /\ started' = started /\ current' = 0
    <3>1. Began(t)' <=> Began(t)
      BY <2>1, <2>5, <1>4 DEF Began
    <3>2. Over(t)' <=> Over(t)
      BY <2>1, <2>2, <2>5, <1>2, <1>3, <1>4 DEF Over
    <3> QED BY <3>1, <3>2
  <2> QED BY <2>3, <2>4, <2>5 DEF Notes, y
<1>6. CloseWritten' => CloseWritten
  BY WrittenAfterRead
<1>7. OutOfTests' => OutOfTests
  BY <1>6 DEF OutOfTests
<1>8. \A t \in Tests : Began(t)' /\ (t < test' \/ OutOfTests') => Over(t)'
  BY <1>5, <1>7 DEF ScriptInv
<1>9. stage' = "running" => test' \in Tests /\ Began(test)' /\ ~Over(test)'
  <2>1. SUFFICES ASSUME stage = "running"
                 PROVE  test \in Tests /\ Began(test)' /\ ~Over(test)'
    OBVIOUS
  <2>2. test \in Tests /\ Began(test) /\ ~Over(test)
    BY <2>1 DEF ScriptInv
  <2>3. /\ Began(test)' <=> (test \in started' \/ StartWritten(test)')
        /\ Over(test)' <=> (test \in started' /\ test # current') \/ EndWritten(test)'
    BY DEF Began, Over
  <2>4. QED
    BY <1>5, <2>2
<1>10. code' = "0" => stage' = "exited"
  BY DEF ScriptInv
<1>11. CloseWritten' => stage' \in {"quitting", "releasing", "exited"}
  BY <1>6 DEF ScriptInv
<1> QED
  BY <1>8, <1>9, <1>10, <1>11 DEF ScriptInv

\* A run that is aborted has a result for the test in flight.
LEMMA AbortTests ==
    ASSUME TypeOK, WatchInv, TestInv, NEW t \in {0, current}, NEW outcome, NEW kills, NEW armed,
           outcome \notin {"none", "passed", "failed"}, armed \subseteq timers,
           Abort(t, outcome, kills, armed), current' = current, started' = started, test' = test
    PROVE  WatchInv' /\ TestInv'
<1>1. current \in Tests \cup {0} /\ ended \in [Tests -> Outcomes \cup {"none"}]
  BY DEF TypeOK
<1>2. \/ ended' = ended
      \/ current \in Tests /\ ended' = [ended EXCEPT ![current] = outcome]
  BY TestNumbers DEF Abort
<1>0. /\ current # 0 => current \in started /\ ended[current] \notin {"passed", "failed"}
      /\ started \subseteq Tests
      /\ \A u \in started : u <= test /\ (u # current => ended[u] # "none")
      /\ \A u \in Tests : ended[u] # "none" => u \in started
  BY DEF TestInv, TypeOK
<1>3. TestInv'
  <2>1. CASE ended' = ended
    BY <1>0, <2>1 DEF TestInv
  <2>2. CASE current \in Tests /\ ended' = [ended EXCEPT ![current] = outcome]
    <3>1. /\ ended'[current] = outcome
          /\ \A u \in Tests : u # current => ended'[u] = ended[u]
      BY <1>1, <2>2
    <3>2. current \in started
      BY <1>0, <2>2, TestNumbers
    <3>3. \A u \in started' : u <= test' /\ (u # current' => ended'[u] # "none")
      BY <1>0, <3>1
    <3>4. \A u \in Tests : ended'[u] # "none" => u \in started'
      BY <1>0, <3>1, <3>2
    <3> QED BY <3>1, <3>2, <3>3, <3>4 DEF TestInv
  <2> QED BY <1>2, <2>1, <2>2
<1>4. timers' \subseteq timers /\ settled'
  <2>1. CASE settled
    BY <2>1 DEF Abort, Finish, promise
  <2>2. CASE ~settled
    BY <2>2 DEF Abort, Finish
  <2> QED BY <2>1, <2>2
<1>5. WatchInv'
  BY <1>4 DEF WatchInv
<1>6. QED
  BY <1>3, <1>5

LEMMA EventKeeps == ASSUME SessionInv, HandleEvent PROVE SessionInv'
<1> DEFINE e == pipe[1]
<1>i. TypeOK /\ WatchInv /\ TestInv /\ PipeInv /\ ScriptInv
  BY DEF SessionInv
<1>h. pipe # <<>> /\ pipe' = Tail(pipe)
  BY DEF HandleEvent
<1>r. Reads /\ Head(pipe) = e /\ e \in Events
  BY <1>i, <1>h, Read DEF Reads
<1>w. test' = test /\ stage' = stage /\ code' = code /\ timedOut' = timedOut
  BY DEF HandleEvent, world
<1>f. /\ e.kind \in {"macro-started", "modal-blocked", "macro-finished"} => e.test \in Tests
      /\ e.kind = "macro-finished" => e.what \in Verdicts
  BY <1>r, EventFields
<1>t. TypeOK'
  BY <1>i, EventType
<1>k. /\ Starts(1) <=> e.kind = "macro-started"
      /\ Ends(1) <=> e.kind = "macro-finished"
      /\ Closes(1) <=> e.kind \in {"file-closed", "host-quit"}
  BY DEF Starts, Ends, Closes
<1>c. \/ e.kind = "host-created" /\ HostCreated(e)
      \/ e.kind = "macro-started" /\ MacroStarted(e)
      \/ e.kind = "modal-blocked" /\ ModalBlocked(e)
      \/ e.kind = "macro-finished" /\ MacroFinished(e)
      \/ e.kind \in {"file-closed", "host-quit"} /\ FileClosedOrQuit(e)
  BY <1>r DEF HandleEvent
<1>m. /\ Starts(1) => current = 0 /\ e.test \notin started
      /\ Ends(1) => current \in {0, e.test} /\ e.test \in started
      /\ Starts(1) \/ Ends(1) => e.test <= test
  <2>1. Later(1)
    BY <1>i, <1>r, Read DEF PipeInv, Reads
  <2>2. QED
    BY <1>i, <1>h, <2>1, FirstMention DEF Later
<1>z. Closes(1) => current = 0
  BY <1>i, <1>h, FirstClose
<1>y. current \in Tests \cup {0} /\ ended \in [Tests -> Outcomes \cup {"none"}]
  BY <1>i DEF TypeOK
<1> HIDE DEF e
<1>1. CASE e.kind = "host-created" /\ HostCreated(e)
  <2>1. UNCHANGED <<settled, timers, current, started, ended>>
    BY <1>1 DEF HostCreated, promise, trace
  <2>2. WatchInv' /\ TestInv'
    BY <1>i, <1>w, <2>1 DEF WatchInv, TestInv
  <2>3. Notes
    BY <1>1, <1>k, <2>1 DEF Notes
  <2> QED BY <1>i, <1>r, <1>t, <1>w, <2>2, <2>3, ReadPipe, ReadScript DEF SessionInv
<1>2. CASE e.kind = "macro-started" /\ MacroStarted(e)
  <2>1. /\ started' = started \cup {e.test} /\ current' = e.test /\ timers' = {"macro"}
        /\ settled' = settled /\ ended' = ended
    BY <1>2 DEF MacroStarted, promise
  <2>2. WatchInv'
    BY <1>i, <1>w, <1>f, <1>2, <2>1, TestNumbers DEF WatchInv
  <2>3. ended[e.test] = "none"
    BY <1>i, <1>f, <1>k, <1>m, <1>2 DEF TestInv
  <2>4. TestInv'
    <3>1. /\ current = 0 /\ e.test <= test /\ 0 \notin started
          /\ \A t \in started : t <= test /\ (t # current => ended[t] # "none")
          /\ \A t \in Tests : ended[t] # "none" => t \in started
      BY <1>i, <1>k, <1>m, <1>2, TestNumbers DEF TestInv, TypeOK
    <3>2. \A t \in started' : t <= test' /\ (t # current' => ended'[t] # "none")
      BY <1>w, <2>1, <3>1
    <3>3. \A t \in Tests : ended'[t] # "none" => t \in started'
      BY <2>1, <3>1
    <3>4. current' \in started' /\ ended'[current'] \notin {"passed", "failed"}
      BY <2>1, <2>3
    <3> QED BY <3>2, <3>3, <3>4 DEF TestInv
  <2>5. Notes
    BY <1>2, <1>k, <2>1 DEF Notes, e
  <2> QED BY <1>i, <1>r, <1>t, <1>w, <2>2, <2>4, <2>5, ReadPipe, ReadScript DEF SessionInv
<1>3. CASE e.kind = "modal-blocked" /\ ModalBlocked(e)
  <2>1. current' = current /\ started' = started
    BY <1>3 DEF ModalBlocked
  <2>2. Notes
    BY <1>3, <1>k, <2>1 DEF Notes
  <2>3. CASE current # 0 /\ current = e.test
    <3>1. Abort(current, "modal-blocked", TRUE, timers)
      BY <1>3, <2>3 DEF ModalBlocked
    <3>2. WatchInv' /\ TestInv'
      BY <1>i, <1>w, <2>1, <3>1, AbortTests
    <3> QED BY <1>i, <1>r, <1>t, <1>w, <2>2, <3>2, ReadPipe, ReadScript DEF SessionInv
  <2>4. CASE ~(current # 0 /\ current = e.test)
    <3>1. UNCHANGED <<settled, timers, ended>>
      BY <1>3, <2>4 DEF ModalBlocked, promise
    <3>2. WatchInv' /\ TestInv'
      BY <1>i, <1>w, <2>1, <3>1 DEF WatchInv, TestInv
    <3> QED BY <1>i, <1>r, <1>t, <1>w, <2>2, <3>2, ReadPipe, ReadScript DEF SessionInv
  <2> QED BY <2>3, <2>4
<1>4. CASE e.kind = "macro-finished" /\ MacroFinished(e)
  <2>1. /\ ended' = [ended EXCEPT ![e.test] = e.what] /\ current' = 0
        /\ timers' = (timers \ {"macro"}) \cup {"cleanup"}
        /\ started' = started /\ settled' = settled
    BY <1>4 DEF MacroFinished, promise
  <2>2. WatchInv'
    BY <1>i, <1>w, <2>1 DEF WatchInv
  <2>3. e.what # "none"
    BY <1>f, <1>4 DEF Verdicts
  <2>4. TestInv'
    BY <1>i, <1>w, <1>f, <1>k, <1>m, <1>y, <1>4, <2>1, <2>3 DEF TestInv
  <2>5. Notes
    BY <1>4, <1>k, <2>1 DEF Notes
  <2> QED BY <1>i, <1>r, <1>t, <1>w, <2>2, <2>4, <2>5, ReadPipe, ReadScript DEF SessionInv
<1>5. CASE e.kind \in {"file-closed", "host-quit"} /\ FileClosedOrQuit(e)
  <2>1. /\ timers' = timers \cup {"cleanup"}
        /\ UNCHANGED <<settled, current, started, ended>>
    BY <1>5 DEF FileClosedOrQuit, promise, trace
  <2>2. current = 0
    BY <1>5, <1>k, <1>z
  <2>3. WatchInv' /\ TestInv'
    BY <1>i, <1>w, <2>1, <2>2 DEF WatchInv, TestInv
  <2>4. Notes
    BY <1>5, <1>k, <2>1 DEF Notes
  <2> QED BY <1>i, <1>r, <1>t, <1>w, <2>3, <2>4, ReadPipe, ReadScript DEF SessionInv
<1> QED
  BY <1>c, <1>1, <1>2, <1>3, <1>4, <1>5

-----------------------------------------------------------------------------
(* The steps of the session that read nothing.                             *)

LEMMA QuietScript ==
    ASSUME PipeInv, ScriptInv,
           UNCHANGED <<pipe, started, current, test, stage, code>>
    PROVE  PipeInv' /\ ScriptInv'
BY DEF PipeInv, ScriptInv, Later, Follows, InOrder, Starts, Ends, Closes, Began, Over,
       StartWritten, EndWritten, CloseWritten, OutOfTests

LEMMA ExitKeeps == ASSUME SessionInv, HandleHostExit PROVE SessionInv'
<1>i. TypeOK /\ WatchInv /\ TestInv /\ PipeInv /\ ScriptInv
  BY DEF SessionInv
<1>w. UNCHANGED <<pipe, started, current, test, stage, code, timedOut>>
  BY DEF HandleHostExit, world
<1>q. TypeOK' /\ PipeInv' /\ ScriptInv'
  BY <1>i, <1>w, ExitType, QuietScript
<1>1. CASE settled /\ UNCHANGED <<promise, timers, ended, killed, killing>>
  <2>1. WatchInv' /\ TestInv'
    BY <1>i, <1>w, <1>1 DEF WatchInv, TestInv, promise
  <2> QED BY <1>q, <2>1 DEF SessionInv
<1>2. CASE ~settled /\ Finish(FALSE, ended, timers) /\ UNCHANGED <<ended, killed, killing>>
  <2>1. WatchInv' /\ TestInv'
    BY <1>i, <1>w, <1>2 DEF WatchInv, TestInv, Finish
  <2> QED BY <1>q, <2>1 DEF SessionInv
<1>3. CASE Abort(current, "runner-error", FALSE, timers)
  <2>1. WatchInv' /\ TestInv'
    BY <1>i, <1>w, <1>3, AbortTests
  <2> QED BY <1>q, <2>1 DEF SessionInv
<1> QED
  BY <1>1, <1>2, <1>3 DEF HandleHostExit

LEMMA WatchdogKeeps ==
    ASSUME SessionInv, StartupWatchdog \/ MacroWatchdog \/ CleanupWatchdog
    PROVE  SessionInv'
<1>i. TypeOK /\ WatchInv /\ TestInv /\ PipeInv /\ ScriptInv
  BY DEF SessionInv
<1>w. UNCHANGED <<pipe, started, current, test, stage, code>>
  BY DEF StartupWatchdog, MacroWatchdog, CleanupWatchdog, world, trace
<1>q. TypeOK' /\ PipeInv' /\ ScriptInv'
  BY <1>i, <1>w, WatchdogType, QuietScript
<1>1. CASE timers' \subseteq timers /\ UNCHANGED <<promise, ended, timedOut>>
  <2>1. WatchInv' /\ TestInv'
    BY <1>i, <1>w, <1>1 DEF WatchInv, TestInv, promise
  <2> QED BY <1>q, <2>1 DEF SessionInv
<1>2. ASSUME NEW t \in {0, current}, NEW armed, armed \subseteq timers,
             Abort(t, "timeout", TRUE, armed)
      PROVE  SessionInv'
  <2>1. WatchInv' /\ TestInv'
    BY <1>i, <1>w, <1>2, AbortTests
  <2> QED BY <1>q, <2>1 DEF SessionInv
<1>3. CASE StartupWatchdog
  BY <1>3, <1>1, <1>2 DEF StartupWatchdog
<1>4. CASE MacroWatchdog
  BY <1>4, <1>1, <1>2 DEF MacroWatchdog
<1>5. CASE CleanupWatchdog /\ settled
  BY <1>5, <1>1 DEF CleanupWatchdog, trace
<1>6. CASE CleanupWatchdog /\ ~settled
  <2>1. settled' = TRUE /\ timers' = {} /\ ended' = ended
    BY <1>6 DEF CleanupWatchdog, Finish, trace
  <2>2. WatchInv' /\ TestInv'
    BY <1>i, <1>w, <2>1 DEF WatchInv, TestInv
  <2> QED BY <1>q, <2>2 DEF SessionInv
<1> QED
  BY <1>3, <1>4, <1>5, <1>6

-----------------------------------------------------------------------------
(* The script and the application.                                         *)

LEMMA SilentScript ==
    ASSUME TypeOK, PipeInv, ScriptInv, Silent, SameSession
    PROVE  test' = test /\ PipeInv' /\ ScriptInv'
<1>1. test' = test /\ pipe' = pipe /\ started' = started /\ current' = current
  BY DEF Silent, SameSession, SpawnFails, CreateOffice, OpenFile, CloseFile, QuitOffice,
         ScriptExits, ScriptCrashes, OfficeCrashes, ScriptKilled, OfficeKilled, ProcessEnds
<1>2. /\ PipeInv'
      /\ (CloseWritten' <=> CloseWritten)
      /\ \A t : (Began(t)' <=> Began(t)) /\ (Over(t)' <=> Over(t))
      /\ (Began(test)' <=> Began(test)) /\ (Over(test)' <=> Over(test))
  BY <1>1 DEF PipeInv, Later, Follows, InOrder, Starts, Ends, Closes, Began, Over,
       StartWritten, EndWritten, CloseWritten
<1>3. /\ stage' = "running" => stage = "running"
      /\ stage \in {"quitting", "releasing", "exited"}
             => stage' \in {"quitting", "releasing", "exited"}
      /\ code' = "0" => code = "0" \/ (stage = "releasing" /\ stage' = "exited")
      /\ stage = "exited" => stage' = "exited" /\ code' = code
      /\ stage = "running" /\ stage' # "running" => stage' = "exited" /\ code' = "killed"
  BY DEF Silent, SpawnFails, CreateOffice, OpenFile, CloseFile, QuitOffice, Alive,
         ScriptExits, ScriptCrashes, OfficeCrashes, ScriptKilled, OfficeKilled, ProcessEnds
<1>4. OutOfTests' => OutOfTests
  BY <1>2, <1>3 DEF OutOfTests, ScriptInv
<1>5. \A t \in Tests : Began(t)' /\ (t < test' \/ OutOfTests') => Over(t)'
  BY <1>1, <1>2, <1>4 DEF ScriptInv
<1>6. stage' = "running" => test' \in Tests /\ Began(test)' /\ ~Over(test)'
  BY <1>1, <1>2, <1>3 DEF ScriptInv
<1>7. code' = "0" => stage' = "exited"
  BY <1>3 DEF ScriptInv
<1>8. CloseWritten' => stage' \in {"quitting", "releasing", "exited"}
  BY <1>2, <1>3 DEF ScriptInv
<1> QED
  BY <1>1, <1>2, <1>5, <1>6, <1>7, <1>8 DEF ScriptInv

\* What is known to be written once e is.
LEMMA WrittenAfterWrite ==
    ASSUME TypeOK, NEW e \in Events, Emit(e), NEW t
    PROVE  /\ StartWritten(t)' <=> StartWritten(t) \/ (e.kind = "macro-started" /\ e.test = t)
           /\ EndWritten(t)' <=> EndWritten(t) \/ (e.kind = "macro-finished" /\ e.test = t)
           /\ CloseWritten' <=> CloseWritten \/ e.kind \in {"file-closed", "host-quit"}
<1> DEFINE N == Len(pipe)
<1>1. /\ N \in Nat /\ Len(pipe') = N + 1 /\ pipe'[N + 1] = e
      /\ \A i \in 1..N : pipe'[i] = pipe[i]
  BY Written
<1>2. 1..Len(pipe') = 1..N \cup {N + 1}
  BY <1>1
<1> HIDE DEF N
<1>3. StartWritten(t)' <=> StartWritten(t) \/ (e.kind = "macro-started" /\ e.test = t)
  BY <1>1, <1>2 DEF StartWritten, Starts, N
<1>4. EndWritten(t)' <=> EndWritten(t) \/ (e.kind = "macro-finished" /\ e.test = t)
  BY <1>1, <1>2 DEF EndWritten, Ends, N
<1>5. CloseWritten' <=> CloseWritten \/ e.kind \in {"file-closed", "host-quit"}
  BY <1>1, <1>2 DEF CloseWritten, Closes, N
<1>6. QED
  BY <1>3, <1>4, <1>5

\* The order of the output is kept by an event that fits behind it.
LEMMA WriteOrder ==
    ASSUME TypeOK, PipeInv, NEW e \in Events, Emit(e), SameSession, test' \in Nat, test <= test',
           e.kind \in {"macro-started", "macro-finished"} =>
               /\ e.test <= test'
               /\ \A t \in started : \/ t < e.test
                                     \/ t = e.test /\ t = current /\ e.kind = "macro-finished"
               /\ \A i \in 1..Len(pipe) : Starts(i) \/ Ends(i) =>
                      \/ pipe[i].test < e.test
                      \/ pipe[i].test = e.test /\ Starts(i) /\ e.kind = "macro-finished"
               /\ ~CloseWritten,
           e.kind = "macro-finished" => Began(e.test)
    PROVE  PipeInv'
<1>0. PICK N \in Nat : N = Len(pipe)
  BY PipeElements
<1>1. /\ N \in Nat /\ Len(pipe') = N + 1 /\ pipe'[N + 1] = e
      /\ \A i \in 1..N : pipe'[i] = pipe[i]
  BY <1>0, Written
<1>2. 1..Len(pipe') = 1..N \cup {N + 1} /\ N + 1 \notin 1..N
  BY <1>1
<1>3. started' = started /\ current' = current /\ test \in Nat
  BY TestNumbers DEF SameSession, TypeOK
<1>4. \A i \in 1..N : /\ Starts(i)' <=> Starts(i)
                      /\ Ends(i)' <=> Ends(i)
                      /\ Closes(i)' <=> Closes(i)
  BY <1>1 DEF Starts, Ends, Closes
<1>5. /\ Starts(N + 1)' <=> e.kind = "macro-started"
      /\ Ends(N + 1)' <=> e.kind = "macro-finished"
  BY <1>1 DEF Starts, Ends
<1>6. ASSUME NEW i \in 1..N PROVE Later(i)' /\ Follows(i)'
  <2>1. Later(i) /\ Follows(i)
    BY <1>0 DEF PipeInv
  <2>2. pipe'[i] = pipe[i] /\ (Starts(i) \/ Ends(i) => pipe[i].test \in Nat)
    BY <1>0, <1>1, Mentions
  <2>3. Later(i)'
    BY <1>3, <1>4, <2>1, <2>2 DEF Later
  <2>4. Follows(i)'
    <3>1. CASE \E j \in 1..N : j < i /\ Starts(j) /\ pipe[j].test = pipe[i].test
      <4>1. PICK j \in 1..N : j < i /\ Starts(j) /\ pipe[j].test = pipe[i].test
        BY <3>1
      <4>2. j \in 1..Len(pipe') /\ Starts(j)' /\ pipe'[j].test = pipe'[i].test
        BY <1>1, <1>2, <1>4, <4>1
      <4> QED BY <4>1, <4>2 DEF Follows
    <3>2. CASE ~Ends(i) \/ pipe[i].test \in started
      BY <1>3, <1>4, <2>2, <3>2 DEF Follows
    <3> QED BY <1>0, <2>1, <3>1, <3>2 DEF Follows
  <2> QED BY <2>3, <2>4
<1>7. Later(N + 1)'
  <2>1. pipe'[N + 1].test = e.test
    BY <1>1
  <2> QED BY <1>3, <1>5, <2>1 DEF Later
<1>8. Follows(N + 1)'
  <2>1. CASE e.kind = "macro-finished" /\ StartWritten(e.test)
    <3>1. PICK j \in 1..N : Starts(j) /\ pipe[j].test = e.test
      BY <1>0, <2>1 DEF StartWritten
    <3>2. j \in 1..Len(pipe') /\ j < N + 1 /\ Starts(j)' /\ pipe'[j].test = pipe'[N + 1].test
      BY <1>1, <1>2, <1>4, <3>1
    <3> QED BY <3>2 DEF Follows
  <2>2. CASE e.kind = "macro-finished" /\ e.test \in started
    BY <1>1, <1>3, <1>5, <2>2 DEF Follows
  <2>3. CASE e.kind # "macro-finished"
    BY <1>5, <2>3 DEF Follows
  <2> QED BY <2>1, <2>2, <2>3 DEF Began
<1>9. ASSUME NEW i \in 1..N, NEW j \in 1..N
      PROVE  InOrder(i, j)' /\ (i < j /\ Closes(i)' => ~Starts(j)' /\ ~Ends(j)')
  <2>1. InOrder(i, j) /\ (i < j /\ Closes(i) => ~Starts(j) /\ ~Ends(j))
    BY <1>0 DEF PipeInv
  <2>2. pipe'[i] = pipe[i] /\ pipe'[j] = pipe[j]
    BY <1>1
  <2> QED BY <1>4, <2>1, <2>2 DEF InOrder
<1>10. ASSUME NEW i \in 1..N
       PROVE  InOrder(i, N + 1)' /\ (Closes(i)' => ~Starts(N + 1)' /\ ~Ends(N + 1)')
  <2>1. pipe'[i] = pipe[i] /\ pipe'[N + 1].test = e.test
    BY <1>1
  <2>2. Closes(i) => CloseWritten
    BY <1>0 DEF CloseWritten
  <2>3. InOrder(i, N + 1)'
    BY <1>0, <1>4, <1>5, <2>1 DEF InOrder
  <2> QED BY <1>4, <1>5, <2>2, <2>3
<1>11. ASSUME NEW i \in 1..N + 1 PROVE ~(N + 1 < i)
  BY <1>1
<1>12. \A i \in 1..Len(pipe') : Later(i)' /\ Follows(i)'
  BY <1>2, <1>6, <1>7, <1>8
<1>13. \A i, j \in 1..Len(pipe') : InOrder(i, j)'
  <2> SUFFICES ASSUME NEW i \in 1..Len(pipe'), NEW j \in 1..Len(pipe') PROVE InOrder(i, j)'
    OBVIOUS
  <2>1. CASE i \in 1..N /\ j \in 1..N
    BY <1>9, <2>1
  <2>2. CASE i \in 1..N /\ j = N + 1
    BY <1>10, <2>2
  <2>3. CASE i = N + 1
    BY <1>1, <1>11, <2>3 DEF InOrder
  <2> QED BY <1>2, <2>1, <2>2, <2>3
<1>14. \A i, j \in 1..Len(pipe') : i < j /\ Closes(i)' => ~Starts(j)' /\ ~Ends(j)'
  <2> SUFFICES ASSUME NEW i \in 1..Len(pipe'), NEW j \in 1..Len(pipe'), i < j, Closes(i)'
               PROVE  ~Starts(j)' /\ ~Ends(j)'
    OBVIOUS
  <2>1. CASE i \in 1..N /\ j \in 1..N
    BY <1>9, <2>1
  <2>2. CASE i \in 1..N /\ j = N + 1
    BY <1>10, <2>2
  <2>3. CASE i = N + 1
    BY <1>1, <1>11, <2>3
  <2> QED BY <1>2, <2>1, <2>2, <2>3
<1>15. QED
  BY <1>12, <1>13, <1>14 DEF PipeInv

\* Nothing is said, read or not, of a test the script has not come to.
LEMMA BeganBound ==
    ASSUME TypeOK, TestInv, PipeInv, NEW t \in Tests
    PROVE  /\ Began(t) => t <= test
           /\ EndWritten(t) => t <= test
<1>1. t \in started => t <= test
  BY DEF TestInv
<1>2. \A i \in 1..Len(pipe) : Starts(i) \/ Ends(i) => pipe[i].test <= test
  BY DEF PipeInv, Later
<1>3. StartWritten(t) \/ EndWritten(t) => t <= test
  BY <1>2 DEF StartWritten, EndWritten
<1>4. QED
  BY <1>1, <1>3 DEF Began

LEMMA StartKeeps ==
    ASSUME TypeOK, TestInv, PipeInv, ScriptInv, SameSession, StartTest,
           NEW e \in Events, Emit(e), e = Event("macro-started", test + 1, "none")
    PROVE  test' = test + 1 /\ PipeInv' /\ ScriptInv'
<1>1. /\ stage = "between" /\ stage' = "running" /\ test' = test + 1 /\ code' = code
      /\ test \in Nat /\ test + 1 \in Tests
  BY TestNumbers, NTestsAssumption DEF StartTest, TypeOK, Tests
<1>2. e.kind = "macro-started" /\ e.test = test + 1
  BY DEF Event
<1>3. ~CloseWritten /\ code # "0" /\ OutOfTests
  BY <1>1 DEF ScriptInv, OutOfTests
<1>4. started \subseteq Tests /\ \A t \in started : t <= test
  BY DEF TypeOK, TestInv
<1>5. \A t \in started : t < e.test
  BY <1>1, <1>2, <1>4, TestNumbers
<1>6. \A i \in 1..Len(pipe) : Starts(i) \/ Ends(i) => pipe[i].test < e.test
  <2>1. \A i \in 1..Len(pipe) : Starts(i) \/ Ends(i) => pipe[i].test <= test
    BY DEF PipeInv, Later
  <2>2. \A i \in 1..Len(pipe) : Starts(i) \/ Ends(i) => pipe[i].test \in Nat
    BY Mentions
  <2> QED BY <1>1, <1>2, <2>1, <2>2
<1>7. PipeInv'
  BY <1>1, <1>2, <1>3, <1>5, <1>6, WriteOrder
<1>8. ~CloseWritten'
  BY <1>2, <1>3, WrittenAfterWrite
<1>9. ASSUME NEW t \in Tests
      PROVE  /\ Began(t)' <=> Began(t) \/ t = test + 1
             /\ Over(t)' <=> Over(t)
  <2>1. /\ StartWritten(t)' <=> StartWritten(t) \/ t = test + 1
        /\ EndWritten(t)' <=> EndWritten(t)
    BY <1>2, WrittenAfterWrite
  <2> QED BY <2>1 DEF Began, Over, SameSession
<1>10. ASSUME NEW t \in Tests, Began(t)', t < test' \/ OutOfTests'
       PROVE  Over(t)'
  <2>1. ~OutOfTests'
    BY <1>1, <1>3, <1>8 DEF OutOfTests
  <2>2. t \in Nat /\ t # test + 1
    BY <1>1, <1>10, <2>1, TestNumbers
  <2>3. Began(t)
    BY <1>9, <1>10, <2>2
  <2>4. Over(t)
    BY <1>3, <2>3 DEF ScriptInv
  <2> QED BY <1>9, <2>4
<1>11. test' \in Tests /\ Began(test)' /\ ~Over(test)'
  <2>1. PICK u \in Tests : u = test + 1
    BY <1>1
  <2>2. Began(u)'
    BY <1>9, <2>1
  <2>3. u \notin started /\ ~EndWritten(u)
    BY <1>1, <1>4, <2>1, BeganBound
  <2>4. ~Over(u)'
    BY <1>9, <2>3 DEF Over
  <2>5. test' = u
    BY <1>1, <2>1
  <2> QED BY <2>2, <2>4, <2>5 DEF Began, Over, StartWritten, EndWritten
<1> QED
  BY <1>1, <1>3, <1>7, <1>8, <1>10, <1>11 DEF ScriptInv

LEMMA EndKeeps ==
    ASSUME TypeOK, TestInv, PipeInv, ScriptInv, SameSession, FinishTest,
           NEW e \in Events, Emit(e), NEW v, e = Event("macro-finished", test, v)
    PROVE  test' = test /\ PipeInv' /\ ScriptInv'
<1>1. stage = "running" /\ stage' = "between" /\ test' = test /\ code' = code
  BY DEF FinishTest
<1>2. e.kind = "macro-finished" /\ e.test = test
  BY DEF Event
<1>3. /\ ~CloseWritten /\ code # "0"
      /\ test \in Tests /\ Began(test) /\ ~Over(test)
  BY <1>1 DEF ScriptInv
<1>4. test \in Nat /\ started \subseteq Nat /\ \A t \in started : t <= test
  BY <1>3, TestNumbers DEF TypeOK, TestInv
<1>5. \A t \in started : t < test \/ (t = test /\ t = current)
  BY <1>3, <1>4 DEF Over
<1>6. \A i \in 1..Len(pipe) : Starts(i) \/ Ends(i) =>
          pipe[i].test < test \/ (pipe[i].test = test /\ Starts(i))
  <2>1. \A i \in 1..Len(pipe) : Starts(i) \/ Ends(i) => pipe[i].test <= test
    BY DEF PipeInv, Later
  <2>2. \A i \in 1..Len(pipe) : Starts(i) \/ Ends(i) => pipe[i].test \in Nat
    BY Mentions
  <2>3. \A i \in 1..Len(pipe) : Ends(i) => pipe[i].test # test
    BY <1>3 DEF Over, EndWritten
  <2> QED BY <1>4, <2>1, <2>2, <2>3
<1>7. PipeInv'
  BY <1>1, <1>2, <1>3, <1>4, <1>5, <1>6, WriteOrder
<1>8. ~CloseWritten'
  BY <1>2, <1>3, WrittenAfterWrite
<1>9. ASSUME NEW t \in Tests
      PROVE  /\ Began(t)' <=> Began(t)
             /\ Over(t)' <=> Over(t) \/ t = test
  <2>1. /\ StartWritten(t)' <=> StartWritten(t)
        /\ EndWritten(t)' <=> EndWritten(t) \/ t = test
    BY <1>2, WrittenAfterWrite
  <2> QED BY <2>1 DEF Began, Over, SameSession
<1>10. ASSUME NEW t \in Tests, Began(t)' PROVE Over(t)'
  <2>1. t \in Nat /\ t <= test
    BY <1>9, <1>10, BeganBound, TestNumbers
  <2>2. CASE t = test
    BY <1>9, <2>2
  <2>3. CASE t < test
    BY <1>9, <1>10, <2>3 DEF ScriptInv
  <2> QED BY <1>4, <2>1, <2>2, <2>3
<1> QED
  BY <1>1, <1>3, <1>7, <1>8, <1>10 DEF ScriptInv

LEMMA OtherKeeps ==
    ASSUME TypeOK, TestInv, PipeInv, ScriptInv, SameSession,
           ClaimOffice \/ ReportDialog \/ CloseFile \/ QuitOffice,
           NEW e \in Events, Emit(e), e.kind \notin {"macro-started", "macro-finished"},
           e.kind \in {"file-closed", "host-quit"} => CloseFile \/ QuitOffice
    PROVE  test' = test /\ PipeInv' /\ ScriptInv'
<1>1. /\ test' = test /\ code' = code
      /\ stage' = "running" => stage = "running"
      /\ stage \in {"quitting", "releasing", "exited"}
             => stage' \in {"quitting", "releasing", "exited"}
      /\ CloseFile \/ QuitOffice => stage' \in {"quitting", "releasing"}
      /\ stage # "exited"
      /\ stage = "running" => stage' = "running"
      /\ stage # "running" => stage' \notin {"running", "exited"}
  BY DEF ClaimOffice, ReportDialog, CloseFile, QuitOffice
<1>2. test \in Nat
  BY TestNumbers DEF TypeOK
<1>3. PipeInv'
  BY <1>1, <1>2, WriteOrder
<1>4. ASSUME NEW t \in Tests \cup {0}
      PROVE  (Began(t)' <=> Began(t)) /\ (Over(t)' <=> Over(t))
  <2>1. (StartWritten(t)' <=> StartWritten(t)) /\ (EndWritten(t)' <=> EndWritten(t))
    BY WrittenAfterWrite
  <2> QED BY <2>1 DEF Began, Over, SameSession
<1>5. CloseWritten' => CloseWritten \/ CloseFile \/ QuitOffice
  BY WrittenAfterWrite
<1>6. CloseWritten' => stage' \in {"quitting", "releasing", "exited"}
  BY <1>1, <1>5 DEF ScriptInv
<1>7. code # "0"
  BY <1>1 DEF ScriptInv
<1>8. OutOfTests' => OutOfTests
  BY <1>1, <1>6, <1>7 DEF OutOfTests
<1>9. ASSUME NEW t \in Tests, Began(t)', t < test' \/ OutOfTests' PROVE Over(t)'
  BY <1>1, <1>4, <1>8, <1>9 DEF ScriptInv
<1>10. ASSUME stage' = "running" PROVE test' \in Tests /\ Began(test)' /\ ~Over(test)'
  <2>1. PICK u \in Tests : u = test /\ Began(u) /\ ~Over(u)
    BY <1>1, <1>10 DEF ScriptInv
  <2>2. Began(u)' /\ ~Over(u)'
    BY <1>4, <2>1
  <2>3. test' = u
    BY <1>1, <2>1
  <2> QED BY <2>2, <2>3 DEF Began, Over, StartWritten, EndWritten
<1> QED
  BY <1>1, <1>3, <1>6, <1>7, <1>9, <1>10 DEF ScriptInv

LEMMA OutsideKeeps == ASSUME SessionInv, Outside PROVE SessionInv'
<1>i. TypeOK /\ WatchInv /\ TestInv /\ PipeInv /\ ScriptInv
  BY DEF SessionInv
<1>s. SameSession
  BY OutsideFrame
<1>t. TypeOK'
  BY <1>i, OutsideType
<1>1. test' \in {test, test + 1} /\ PipeInv' /\ ScriptInv'
  <2>1. CASE Silent
    BY <1>i, <1>s, <2>1, SilentScript
  <2>2. ASSUME NEW e \in Events, Writes(e)
        PROVE  test' \in {test, test + 1} /\ PipeInv' /\ ScriptInv'
    <3>1. CASE StartTest /\ e = Event("macro-started", test + 1, "none")
      BY <1>i, <1>s, <2>2, <3>1, StartKeeps DEF Writes
    <3>2. ASSUME NEW v \in Verdicts, FinishTest, e = Event("macro-finished", test, v)
          PROVE  test' \in {test, test + 1} /\ PipeInv' /\ ScriptInv'
      BY <1>i, <1>s, <2>2, <3>2, EndKeeps DEF Writes
    <3>3. CASE \/ ClaimOffice /\ \E known \in BOOLEAN : e = Event("host-created", 0, known)
               \/ ReportDialog /\ e = Event("modal-blocked", test, "none")
               \/ CloseFile /\ e = Event("file-closed", 0, "none")
               \/ QuitOffice /\ e = Event("host-quit", 0, "none")
      <4>1. /\ ClaimOffice \/ ReportDialog \/ CloseFile \/ QuitOffice
            /\ e.kind \notin {"macro-started", "macro-finished"}
            /\ e.kind \in {"file-closed", "host-quit"} => CloseFile \/ QuitOffice
        BY <3>3 DEF Event
      <4> QED BY <1>i, <1>s, <2>2, <4>1, OtherKeeps DEF Writes
    <3> QED BY <2>2, <3>1, <3>2, <3>3 DEF Writes
  <2> QED BY <1>i, <2>1, <2>2, OutsideWrites
<1>2. WatchInv'
  BY <1>i, <1>s DEF SameSession, WatchInv
<1>3. TestInv'
  <2>1. test \in Nat /\ started \subseteq Nat
    BY <1>i, TestNumbers DEF TypeOK
  <2>2. \A t \in started : t <= test'
    BY <1>i, <1>1, <2>1 DEF TestInv
  <2> QED BY <1>i, <1>s, <2>2 DEF SameSession, TestInv
<1> QED
  BY <1>t, <1>1, <1>2, <1>3 DEF SessionInv

-----------------------------------------------------------------------------
(* The specification.                                                      *)

LEMMA SessionStep == SessionInv /\ [Next]_vars => SessionInv'
<1> SUFFICES ASSUME SessionInv, [Next]_vars PROVE SessionInv'
  OBVIOUS
<1>1. CASE Outside
  BY <1>1, OutsideKeeps
<1>2. CASE Session
  BY <1>2, EventKeeps, ExitKeeps, WatchdogKeeps DEF Session
<1>3. CASE UNCHANGED vars
  <2>1. SameSession /\ UNCHANGED <<world, pipe>>
    BY <1>3, SessionFrame DEF vars
  <2>2. UNCHANGED <<pipe, started, current, test, stage, code>>
    BY <2>1 DEF SameSession, world
  <2>3. PipeInv' /\ ScriptInv'
    BY <2>2, QuietScript DEF SessionInv
  <2>4. WatchInv' /\ TestInv'
    BY <2>1, <2>2 DEF SameSession, WatchInv, TestInv, SessionInv
  <2>5. FlagTypes /\ TraceTypes /\ WorldTypes /\ Guarded
    BY TypeParts DEF SessionInv
  <2>6. FlagTypes'
    BY <2>1, <2>5, Zenon DEF SameSession, world, FlagTypes
  <2>7. TraceTypes' /\ Guarded' /\ WorldTypes'
    BY <2>1, <2>5 DEF SameSession, world, TraceTypes, Guarded, WorldTypes
  <2> QED BY <2>3, <2>4, <2>6, <2>7, TypePartsNext DEF SessionInv
<1> QED
  BY <1>1, <1>2, <1>3 DEF Next, Outside

THEOREM SessionInvariant == Spec => []SessionInv
<1> QED
  BY SessionInit, SessionStep, PTL DEF Spec

\* Types, and that no phase before the session settles is without a watchdog:
\* each of the transitions that disarm one (the next test, its end, a timer
\* that fires) arms another or settles.
THEOREM TypeCorrect == Spec => []TypeOK
<1>1. SessionInv => TypeOK
  BY DEF SessionInv
<1> QED
  BY <1>1, SessionInvariant, PTL

\* No test is in flight when the script says that it ended well and all it
\* wrote is read.
LEMMA ExitedWell ==
    ASSUME SessionInv, code = "0", pipe = <<>>
    PROVE  current = 0
<1> SUFFICES ASSUME current # 0 PROVE FALSE
  OBVIOUS
<1>1. current \in started /\ current \in Tests
  BY DEF SessionInv, TestInv, TypeOK
<1>2. Over(current)
  BY <1>1 DEF SessionInv, ScriptInv, Began, OutOfTests
<1>3. PICK j \in 1..Len(pipe) : Ends(j)
  BY <1>2 DEF Over, EndWritten
<1>4. Len(pipe) = 0
  BY EmptySeq
<1> QED
  BY <1>3, <1>4

LEMMA FinishResults ==
    ASSUME NEW error, NEW events, NEW armed, ~settled, Finish(error, events, armed)
    PROVE  results' = events
BY DEF Finish

LEMMA AbortResults ==
    ASSUME SessionInv, NEW t \in {0, current}, current # 0 => t = current,
           NEW outcome, outcome # "none", NEW kills, NEW armed,
           ~settled, Abort(t, outcome, kills, armed), started' = started
    PROVE  \A u \in started' : results'[u] # "none"
<1>1. results' = ended'
  BY FinishResults DEF Abort
<1>2. /\ current \in Tests \cup {0} /\ ended \in [Tests -> Outcomes \cup {"none"}]
      /\ started \subseteq Tests /\ 0 \notin Tests
      /\ \A u \in started : u # current => ended[u] # "none"
  BY TestNumbers DEF SessionInv, TypeOK, TestInv
<1>3. CASE current = 0
  <2>1. ended' = ended
    BY <1>2, <1>3 DEF Abort
  <2> QED BY <1>1, <1>2, <1>3, <2>1
<1>4. CASE current # 0
  <2>1. ended' = [ended EXCEPT ![current] = outcome]
    BY <1>2, <1>4 DEF Abort
  <2>2. \A u \in started : ended'[u] = IF u = current THEN outcome ELSE ended[u]
    BY <1>2, <2>1
  <2> QED BY <1>1, <1>2, <2>2
<1> QED
  BY <1>3, <1>4

LEMMA SettlingStep ==
    ASSUME SessionInv, [Next]_vars, ~settled, settled'
    PROVE  \A t \in started' : results'[t] # "none"
<1>0. /\ TypeOK
      /\ \A u \in started : u # current => ended[u] # "none"
      /\ started \subseteq Tests /\ 0 \notin Tests
  BY TestNumbers DEF SessionInv, TestInv, TypeOK
<1>1. CASE HandleEvent
  <2> DEFINE e == Head(pipe)
  <2>1. ModalBlocked(e)
    BY <1>1 DEF HandleEvent, HostCreated, MacroStarted, MacroFinished, FileClosedOrQuit, promise
  <2> HIDE DEF e
  <2>2. current # 0 /\ Abort(current, "modal-blocked", TRUE, timers) /\ started' = started
    BY <2>1 DEF ModalBlocked, promise
  <2> QED BY <2>2, AbortResults
<1>2. CASE HandleHostExit
  <2>1. started' = started
    BY <1>2 DEF HandleHostExit
  <2>2. CASE code = "0" /\ Finish(FALSE, ended, timers)
    <3>1. current = 0
      BY <1>2, <2>2, ExitedWell DEF HandleHostExit
    <3>2. results' = ended
      BY <2>2, FinishResults
    <3> QED BY <1>0, <2>1, <3>1, <3>2
  <2>3. CASE Abort(current, "runner-error", FALSE, timers)
    BY <2>1, <2>3, AbortResults
  <2> QED BY <1>2, <2>2, <2>3 DEF HandleHostExit
<1>3. CASE StartupWatchdog
  <2>1. /\ current = 0 /\ started' = started
        /\ Abort(0, "timeout", TRUE, timers \ {"startup"})
    BY <1>3 DEF StartupWatchdog, SessionInv, WatchInv
  <2> QED BY <2>1, AbortResults
<1>4. CASE MacroWatchdog
  <2>1. started' = started /\ Abort(current, "timeout", TRUE, timers \ {"macro"})
    BY <1>4 DEF MacroWatchdog, SessionInv, WatchInv
  <2> QED BY <2>1, AbortResults
<1>5. CASE CleanupWatchdog
  <2>1. current = 0 /\ started' = started
    BY <1>5 DEF CleanupWatchdog, SessionInv, WatchInv, trace
  <2>2. results' = ended
    BY <1>5, FinishResults DEF CleanupWatchdog
  <2> QED BY <1>0, <2>1, <2>2
<1>6. CASE Outside \/ UNCHANGED vars
  <2>1. settled' = settled
    BY <1>6, OutsideFrame, SessionFrame DEF vars, SameSession
  <2> QED BY <2>1
<1> QED
  BY <1>1, <1>2, <1>3, <1>4, <1>5, <1>6 DEF Next, Outside, Session

\* Whatever ends the run (its own success, a watchdog, a dialog, the death of
\* the script), every test the session saw start leaves it with a result.
THEOREM StartedTestsGetResults == Spec => StartedTestsHaveResults
<1>1. SessionInv /\ [Next]_vars
          => [~settled /\ settled' => \A t \in started' : results'[t] # "none"]_vars
  BY SettlingStep
<1> QED
  BY <1>1, SessionInvariant, PTL DEF Spec, StartedTestsHaveResults

LEMMA VerdictStep ==
    ASSUME SessionInv, [Next]_vars, NEW t \in Tests, ended[t] \in {"passed", "failed"}
    PROVE  ended'[t] = ended[t]
<1>0. /\ TypeOK /\ TestInv /\ PipeInv /\ ScriptInv
      /\ current # t /\ 0 \notin Tests
      /\ ended \in [Tests -> Outcomes \cup {"none"}]
  BY TestNumbers DEF SessionInv, TestInv, TypeOK
<1>1. ASSUME NEW u \in {0, current}, NEW outcome, NEW kills, NEW armed,
             Abort(u, outcome, kills, armed)
      PROVE  ended'[t] = ended[t]
  <2>1. t # u /\ (ended' = ended \/ ended' = [ended EXCEPT ![u] = outcome])
    BY <1>0, <1>1 DEF Abort
  <2> QED BY <1>0, <2>1
<1>2. CASE HandleEvent
  <2> DEFINE e == pipe[1]
  <2>1. pipe # <<>> /\ Head(pipe) = e /\ 1 \in 1..Len(pipe) /\ e \in Events
    <3>1. pipe # <<>> /\ pipe' = Tail(pipe)
      BY <1>2 DEF HandleEvent
    <3> QED BY <1>0, <3>1, Read
  <2>2. \/ HostCreated(e) \/ MacroStarted(e) \/ ModalBlocked(e) \/ FileClosedOrQuit(e)
        \/ e.kind = "macro-finished" /\ MacroFinished(e)
    BY <1>2, <2>1 DEF HandleEvent
  <2>3. CASE e.kind = "macro-finished" /\ MacroFinished(e)
    <3>1. Ends(1) /\ ~Starts(1)
      BY <2>3 DEF Ends, Starts
    <3>2. current \in {0, e.test} /\ e.test \in started /\ e.test \in Nat
      BY <1>0, <2>1, <3>1, FirstMention, Mentions
    <3>3. e.test = current
      <4>1. Later(1)
        BY <1>0, <2>1 DEF PipeInv
      <4>2. e.test < e.test \/ e.test = current
        BY <3>1, <3>2, <4>1 DEF Later
      <4> QED BY <3>2, <4>2
    <3>4. ended' = [ended EXCEPT ![e.test] = e.what]
      BY <2>3 DEF MacroFinished
    <3> HIDE DEF e
    <3> QED BY <1>0, <3>3, <3>4
  <2>4. CASE HostCreated(e) \/ MacroStarted(e) \/ FileClosedOrQuit(e)
    <3>1. ended' = ended
      BY <2>4 DEF HostCreated, MacroStarted, FileClosedOrQuit, trace
    <3> QED BY <3>1
  <2>5. CASE ModalBlocked(e)
    BY <1>1, <2>5 DEF ModalBlocked
  <2> QED BY <2>2, <2>3, <2>4, <2>5
<1>3. CASE HandleHostExit
  BY <1>1, <1>3 DEF HandleHostExit
<1>4. CASE StartupWatchdog
  BY <1>1, <1>4 DEF StartupWatchdog
<1>5. CASE MacroWatchdog
  BY <1>1, <1>5 DEF MacroWatchdog
<1>6. CASE CleanupWatchdog
  BY <1>6 DEF CleanupWatchdog, trace
<1>7. CASE Outside \/ UNCHANGED vars
  <2>1. ended' = ended
    BY <1>7, OutsideFrame, SessionFrame DEF vars, SameSession
  <2> QED BY <2>1
<1> QED
  BY <1>2, <1>3, <1>4, <1>5, <1>6, <1>7 DEF Next, Outside, Session

\* A pass or a failure that was read is never overwritten, neither by what is
\* read after it nor by the way the run ends.
THEOREM ReadVerdictsStand == Spec => VerdictsStand
<1>1. SessionInv /\ [Next]_vars
          => [\A t \in Tests : ended[t] \in {"passed", "failed"} => ended'[t] = ended[t]]_vars
  BY VerdictStep
<1> QED
  BY <1>1, SessionInvariant, PTL DEF Spec, VerdictsStand

=============================================================================
