----------------------- MODULE HostCoordinationProofs -----------------------
(***************************************************************************)
(* The safety of HostCoordination for any number of writes, user acts and  *)
(* F5 runs, under every setting; that unsaved work survives is proved for  *)
(* the policies that promise it, which closeForce does not.                *)
(***************************************************************************)
EXTENDS HostCoordination, FiniteSetTheorems, TLAPS

-----------------------------------------------------------------------------
(* The invariant *)

RunSteps == {"none", "saving", "looking", "closing", "again", "opening", "running"}
WriteSteps == {"idle", "closing", "testing", "retrying", "reopening", "marking",
               "written", "failed"}
Outcomes == [closed : BOOLEAN, forced : BOOLEAN, freed : BOOLEAN,
             wasReadOnly : {"unknown", "readOnly", "editable"}]
OpenCopies ==
    [open : {TRUE}, readOnly : BOOLEAN, unsaved : BOOLEAN, shows : Nat, mine : BOOLEAN]

\* The parts of the state that different steps disturb.
FileType ==
    /\ disk \in Nat /\ copy \in Copies /\ owed \in Nat /\ gone \in {"user", "xlide"}
WriteType ==
    /\ at \in [Writers -> WriteSteps]
    /\ scope \in [Writers -> {"none", "readOnlyCopy", "any"}]
    /\ outcome \in [Writers -> Outcomes]
RefreshType ==
    /\ refresh \in {"none", "looking", "reopening"} /\ pending \in BOOLEAN
    /\ pending => refresh # "none"
RunType ==
    /\ run \in [at : RunSteps, saver : Writers \cup {"nobody"}, needs : Nat]
    /\ suppressed = IF run.at = "none" THEN 0 ELSE 1
    /\ runs \in 0..MaxRuns
RestType ==
    /\ app \in Apps /\ held \in BOOLEAN /\ opened \in BOOLEAN /\ users \in 0..MaxUser

Shape == FileType /\ WriteType /\ RefreshType /\ RunType /\ RestType

\* Once F5 has closed a copy for its run, whatever copy comes up in between is
\* one of a text no older than the save.
SavedInv ==
    /\ run.needs <= disk
    /\ run.at \in {"opening", "running"} /\ copy.open => copy.shows >= run.needs

-----------------------------------------------------------------------------
(* Lemmas about the operators *)

\* A copy that is open has all its fields.
LEMMA OpenCopy == ASSUME copy \in Copies, copy.open PROVE copy \in OpenCopies
<1>1. copy # NoCopy
  <2>1. NoCopy.open = FALSE
    BY DEF NoCopy
  <2> QED BY <2>1
<1> QED BY <1>1 DEF Copies, OpenCopies

\* A copy opened now shows the file as it is.
LEMMA CopyType ==
    ASSUME disk \in Nat, NEW ro \in BOOLEAN, NEW mine \in BOOLEAN
    PROVE  /\ Copy(ro, mine) \in OpenCopies
           /\ Copy(ro, mine) \in Copies
           /\ Copy(ro, mine).shows = disk
BY DEF Copy, Copies, OpenCopies

LEMMA OpensType ==
    ASSUME FileType, NEW ro \in BOOLEAN, NEW mine \in BOOLEAN, Opens(ro, mine),
           disk' = disk
    PROVE  FileType'
<1>1. copy' \in Copies
  BY CopyType DEF FileType, Opens
<1>2. owed' \in Nat
  <2>1. CASE copy.open \/ owed = 0
    BY <2>1 DEF FileType, Opens
  <2>2. CASE ~(copy.open \/ owed = 0)
    <3>1. owed' = owed - 1
      BY <2>2 DEF Opens
    <3> QED BY <2>2, <3>1 DEF FileType
  <2> QED BY <2>1, <2>2
<1> QED BY <1>1, <1>2 DEF FileType, Opens

LEMMA ClosesType == ASSUME FileType, Closes, disk' = disk PROVE FileType'
<1>1. copy' \in Copies
  BY DEF Closes, Copies
<1>2. owed' \in Nat /\ gone' \in {"user", "xlide"}
  <2>1. CASE copy.open
    BY <2>1 DEF FileType, Closes
  <2>2. CASE ~copy.open
    BY <2>2 DEF FileType, Closes, ghosts
  <2> QED BY <2>1, <2>2
<1> QED BY <1>1, <1>2 DEF FileType

\* Opening leaves an open copy alone, and else shows the file as it is.
LEMMA OpensSaved ==
    ASSUME FileType, NEW ro \in BOOLEAN, NEW mine \in BOOLEAN, Opens(ro, mine),
           NEW n \in Nat, n <= disk, copy.open => copy.shows >= n
    PROVE  copy'.open => copy'.shows >= n
<1>1. CASE copy.open
  BY <1>1 DEF Opens
<1>2. CASE ~copy.open
  <2>1. copy' = Copy(ro, mine)
    BY <1>2 DEF Opens
  <2>2. copy'.shows = disk /\ disk \in Nat
    BY <2>1, CopyType DEF FileType
  <2> QED BY <2>2
<1> QED BY <1>1, <1>2

LEMMA ReopenReadOnlyType ==
    ASSUME NEW was PROVE ResolveReopenReadOnly(was) \in BOOLEAN
BY Zenon DEF ResolveReopenReadOnly

-----------------------------------------------------------------------------
LEMMA ShapeInit == Init => Shape /\ SavedInv
<1> SUFFICES ASSUME Init PROVE Shape /\ SavedInv
  OBVIOUS
<1>1. disk = 0 /\ copy \in Copies
  <2>1. disk = 0 /\ disk \in Nat
    BY DEF Init
  <2>2. \A ro \in BOOLEAN : Copy(ro, FALSE) \in Copies
    <3> TAKE ro \in BOOLEAN
    <3>1. FALSE \in BOOLEAN
      OBVIOUS
    <3> QED BY <2>1, <3>1, CopyType
  <2> QED BY <2>1, <2>2 DEF Init, Copies
<1>2. FileType
  BY <1>1 DEF Init, FileType
<1>3. WriteType
  BY DEF Init, WriteType, WriteSteps, Outcomes, NoOutcome
<1>4. RefreshType /\ RestType
  <2>1. pending = FALSE /\ held = FALSE /\ opened = FALSE /\ users = 0
    BY DEF Init
  <2>2. pending \in BOOLEAN /\ held \in BOOLEAN /\ opened \in BOOLEAN
    BY <2>1
  <2>3. pending => refresh # "none"
    BY <2>1
  <2>4. 0 \in 0..MaxUser
    BY BoundsAssumption
  <2> QED BY <2>1, <2>2, <2>3, <2>4 DEF Init, RefreshType, RestType
<1>5. RunType
  BY BoundsAssumption DEF Init, RunType, NoRun, RunSteps
<1>6. SavedInv
  BY <1>1 DEF Init, SavedInv, NoRun
<1> QED BY <1>2, <1>3, <1>4, <1>5, <1>6 DEF Shape

-----------------------------------------------------------------------------
(* One lemma per action: it keeps the types *)

LEMMA ScopeType == CloseScopeForWrite \in {"none", "readOnlyCopy", "any"}
BY DEF CloseScopeForWrite

LEMMA AskRefreshType == ASSUME RefreshType, AskRefresh PROVE RefreshType'
<1>1. (refresh # "none") \in BOOLEAN
  BY Zenon
<1>2. pending' = (refresh # "none") /\ pending' \in BOOLEAN
  BY <1>1 DEF AskRefresh
<1>3. CASE refresh = "none"
  <2>1. pending' = FALSE
    BY <1>2, <1>3, Zenon
  <2>2. refresh' = "looking"
    BY <1>3 DEF AskRefresh
  <2> QED BY <1>2, <2>1, <2>2 DEF RefreshType
<1>4. CASE refresh # "none"
  <2>1. refresh' = refresh
    BY <1>4 DEF AskRefresh
  <2> QED BY <1>2, <1>4, <2>1 DEF RefreshType
<1> QED BY <1>3, <1>4

LEMMA RefreshEndsType == ASSUME RefreshType, RefreshEnds PROVE RefreshType'
<1>1. pending' = FALSE /\ pending' \in BOOLEAN /\ (pending' => refresh' # "none")
  BY DEF RefreshEnds
<1>2. refresh' \in {"looking", "none"}
  BY DEF RefreshEnds
<1> QED BY <1>1, <1>2 DEF RefreshType

LEMMA WriteShape == ASSUME Shape, NEW w \in Writers, Write(w) PROVE Shape'
<1>1. FileType'
  <2>1. disk' = disk + 1 \/ disk' = disk
    BY DEF Write
  <2>2. UNCHANGED <<copy, owed, gone>>
    BY DEF Write, ghosts
  <2> QED BY <2>1, <2>2 DEF Shape, FileType
<1>2. WriteType'
  <2>1. at' \in [Writers -> WriteSteps]
    <3>1. PICK step \in {"written", "failed", "closing"} : at' = [at EXCEPT ![w] = step]
      BY DEF Write
    <3> QED BY <3>1 DEF Shape, WriteType, WriteSteps
  <2>2. scope' = scope \/ scope' = [scope EXCEPT ![w] = CloseScopeForWrite]
    BY DEF Write
  <2>3. scope' \in [Writers -> {"none", "readOnlyCopy", "any"}]
    BY <2>2, ScopeType DEF Shape, WriteType
  <2>4. outcome' = outcome
    BY DEF Write
  <2> QED BY <2>1, <2>3, <2>4 DEF Shape, WriteType
<1>3. RefreshType'
  <2>1. AskRefresh \/ UNCHANGED <<refresh, pending>>
    BY DEF Write
  <2>2. CASE AskRefresh
    BY <2>2, AskRefreshType DEF Shape
  <2>3. CASE UNCHANGED <<refresh, pending>>
    BY <2>3 DEF Shape, RefreshType
  <2> QED BY <2>1, <2>2, <2>3
<1>4. RunType' /\ RestType'
  BY DEF Write, Shape, RunType, RestType
<1> QED BY <1>1, <1>2, <1>3, <1>4 DEF Shape

LEMMA CloseCopyShape ==
    ASSUME Shape, NEW w \in Writers, CloseCopy(w), app' = app PROVE Shape'
<1> DEFINE closes == MayClose(scope[w] = "readOnlyCopy")
<1>1. FileType'
  <2>1. disk' = disk
    BY DEF CloseCopy
  <2>2. CASE Closes
    BY <2>1, <2>2, ClosesType DEF Shape
  <2>3. CASE UNCHANGED <<copy, ghosts>>
    BY <2>1, <2>3 DEF Shape, FileType, ghosts
  <2> QED BY <2>2, <2>3 DEF CloseCopy
<1>2. WriteType'
  <2>1. closes \in BOOLEAN
    BY Zenon DEF MayClose
  <2>2. PICK was \in {"unknown", "readOnly", "editable"} :
          outcome' = [outcome EXCEPT ![w] =
                        [NoOutcome EXCEPT !.closed = closes, !.wasReadOnly = was]]
    BY DEF CloseCopy
  <2> HIDE DEF closes
  <2>3. [NoOutcome EXCEPT !.closed = closes, !.wasReadOnly = was] \in Outcomes
    BY <2>1 DEF NoOutcome, Outcomes
  <2>4. outcome' \in [Writers -> Outcomes]
    BY <2>2, <2>3 DEF Shape, WriteType
  <2>5. at' = [at EXCEPT ![w] = "testing"] /\ scope' = scope
    BY DEF CloseCopy
  <2>6. at' \in [Writers -> WriteSteps]
    BY <2>5 DEF Shape, WriteType, WriteSteps
  <2> QED BY <2>4, <2>5, <2>6 DEF Shape, WriteType
<1>3. RefreshType' /\ RunType' /\ RestType'
  BY DEF CloseCopy, Shape, RefreshType, RunType, RestType
<1> QED BY <1>1, <1>2, <1>3 DEF Shape

LEMMA TestLockShape ==
    ASSUME Shape, NEW w \in Writers, TestLock(w), app' = app PROVE Shape'
<1> DEFINE kills == Locked /\ Mode = "closeForce" /\ scope[w] = "any"
           freed == IF kills THEN ~held ELSE ~Locked
<1>1. FileType'
  <2>1. disk' = disk
    BY DEF TestLock
  <2>2. CASE Closes
    BY <2>1, <2>2, ClosesType DEF Shape
  <2>3. CASE UNCHANGED <<copy, ghosts>>
    BY <2>1, <2>3 DEF Shape, FileType, ghosts
  <2> QED BY <2>2, <2>3 DEF TestLock
<1>2. WriteType'
  <2>1. kills \in BOOLEAN /\ (~held) \in BOOLEAN /\ (~Locked) \in BOOLEAN
    BY Zenon
  <2>2. freed \in BOOLEAN
    BY <2>1
  <2>3. outcome' = [outcome EXCEPT ![w].forced = kills, ![w].freed = freed]
    BY DEF TestLock
  <2> HIDE DEF kills, freed
  <2>4. outcome[w] \in Outcomes /\ outcome \in [Writers -> Outcomes]
    BY DEF Shape, WriteType
  <2>5. [outcome[w] EXCEPT !.forced = kills, !.freed = freed] \in Outcomes
    BY <2>1, <2>2, <2>4 DEF Outcomes
  <2>6. outcome' = [outcome EXCEPT ![w] = [outcome[w] EXCEPT !.forced = kills, !.freed = freed]]
    BY <2>3, <2>4
  <2>7. outcome' \in [Writers -> Outcomes]
    BY <2>4, <2>5, <2>6
  <2>8. at' = [at EXCEPT ![w] = "retrying"] /\ scope' = scope
    BY DEF TestLock
  <2>9. at' \in [Writers -> WriteSteps]
    BY <2>8 DEF Shape, WriteType, WriteSteps
  <2> QED BY <2>7, <2>8, <2>9 DEF Shape, WriteType
<1>3. RefreshType' /\ RunType' /\ RestType'
  BY DEF TestLock, Shape, RefreshType, RunType, RestType
<1> QED BY <1>1, <1>2, <1>3 DEF Shape

LEMMA RetryShape ==
    ASSUME Shape, NEW w \in Writers, Retry(w), app' = app PROVE Shape'
<1>1. FileType'
  <2>1. disk' = disk + 1 \/ disk' = disk
    BY DEF Retry
  <2>2. UNCHANGED <<copy, owed, gone>>
    BY DEF Retry, ghosts
  <2> QED BY <2>1, <2>2 DEF Shape, FileType
<1>2. WriteType'
  <2>1. PICK step \in {"reopening", "written", "failed"} : at' = [at EXCEPT ![w] = step]
    BY DEF Retry, AfterRetry
  <2>2. UNCHANGED <<scope, outcome>>
    BY DEF Retry
  <2> QED BY <2>1, <2>2 DEF Shape, WriteType, WriteSteps
<1>3. RestType'
  <2>1. opened' = (opened /\ ~Forgotten(w, ~Locked))
    BY DEF Retry
  <2>2. opened' \in BOOLEAN
    BY <2>1, Zenon
  <2> QED BY <2>2 DEF Retry, Shape, RestType
<1>4. RefreshType' /\ RunType'
  BY DEF Retry, Shape, RefreshType, RunType
<1> QED BY <1>1, <1>2, <1>3, <1>4 DEF Shape

LEMMA ReopenShape ==
    ASSUME Shape, NEW w \in Writers, Reopen(w), app' = app PROVE Shape'
<1> DEFINE ro == ResolveReopenReadOnly(outcome[w].wasReadOnly)
<1>0. ro \in BOOLEAN
  BY ReopenReadOnlyType
<1>1. FileType'
  <2>1. disk' = disk
    BY DEF Reopen
  <2>2. CASE copy' = Copy(TRUE, TRUE) /\ UNCHANGED ghosts
    <3>1. copy' \in Copies
      BY <2>2, CopyType DEF Shape, FileType
    <3> QED BY <2>1, <2>2, <3>1 DEF Shape, FileType, ghosts
  <2>3. CASE Opens(ro, TRUE)
    <3> HIDE DEF ro
    <3>1. TRUE \in BOOLEAN
      OBVIOUS
    <3> QED BY <1>0, <2>1, <2>3, <3>1, OpensType DEF Shape
  <2>4. CASE UNCHANGED <<copy, ghosts>>
    BY <2>1, <2>4 DEF Shape, FileType, ghosts
  <2> QED BY <2>2, <2>3, <2>4 DEF Reopen
<1>2. WriteType'
  <2>1. PICK step \in {"marking", "written"} : at' = [at EXCEPT ![w] = step]
    BY DEF Reopen
  <2>2. UNCHANGED <<scope, outcome>>
    BY DEF Reopen
  <2> QED BY <2>1, <2>2 DEF Shape, WriteType, WriteSteps
<1>3. RefreshType' /\ RunType' /\ RestType'
  BY DEF Reopen, Shape, RefreshType, RunType, RestType
<1> QED BY <1>1, <1>2, <1>3 DEF Shape

LEMMA MarkShape ==
    ASSUME Shape, NEW w \in Writers, Mark(w), app' = app PROVE Shape'
<1>1. WriteType'
  BY DEF Mark, Shape, WriteType, WriteSteps
<1>2. FileType' /\ RefreshType' /\ RunType' /\ RestType'
  BY DEF Mark, ghosts, Shape, FileType, RefreshType, RunType, RestType
<1> QED BY <1>1, <1>2 DEF Shape

LEMMA RefreshShape == ASSUME Shape, Refresh PROVE Shape'
<1>1. CASE RefreshLook
  <2>1. FileType'
    <3>1. disk' = disk
      BY <1>1 DEF RefreshLook
    <3>2. CASE Closes
      BY <3>1, <3>2, ClosesType DEF Shape
    <3>3. CASE UNCHANGED <<copy, ghosts>>
      BY <3>1, <3>3 DEF Shape, FileType, ghosts
    <3> QED BY <1>1, <3>2, <3>3 DEF RefreshLook
  <2>2. RefreshType'
    <3>1. CASE RefreshEnds
      BY <3>1, RefreshEndsType DEF Shape
    <3>2. CASE refresh' = "reopening" /\ UNCHANGED pending
      BY <3>2 DEF Shape, RefreshType
    <3> QED BY <1>1, <3>1, <3>2 DEF RefreshLook
  <2>3. WriteType' /\ RunType' /\ RestType'
    BY <1>1 DEF Refresh, RefreshLook, coord, Shape, WriteType, RunType, RestType
  <2> QED BY <2>1, <2>2, <2>3 DEF Shape
<1>2. CASE RefreshReopen
  <2>1. FileType'
    <3>1. disk' = disk
      BY <1>2 DEF RefreshReopen
    <3>2. CASE Opens(TRUE, TRUE)
      <4>1. TRUE \in BOOLEAN
        OBVIOUS
      <4> QED BY <3>1, <3>2, <4>1, OpensType DEF Shape
    <3>3. CASE UNCHANGED <<copy, ghosts>>
      BY <3>1, <3>3 DEF Shape, FileType, ghosts
    <3> QED BY <1>2, <3>2, <3>3 DEF RefreshReopen
  <2>2. RefreshType'
    BY <1>2, RefreshEndsType DEF RefreshReopen, Shape
  <2>3. RestType'
    <3>1. opened' = TRUE \/ opened' = opened
      BY <1>2 DEF RefreshReopen
    <3>2. opened' \in BOOLEAN
      BY <3>1 DEF Shape, RestType
    <3> QED BY <1>2, <3>2 DEF Refresh, RefreshReopen, Shape, RestType
  <2>4. WriteType' /\ RunType'
    BY <1>2 DEF RefreshReopen, coord, Shape, WriteType, RunType
  <2> QED BY <2>1, <2>2, <2>3, <2>4 DEF Shape
<1> QED BY <1>1, <1>2 DEF Refresh

LEMMA RunBeginShape == ASSUME Shape, RunBegin PROVE Shape'
<1>1. RunType'
  <2>1. run.at = "none" /\ suppressed = 0 /\ suppressed' = 1
    <3>1. run.at = "none" /\ suppressed' = suppressed + 1
      BY DEF RunBegin, NoRun
    <3>2. suppressed = IF run.at = "none" THEN 0 ELSE 1
      BY DEF Shape, RunType
    <3> QED BY <3>1, <3>2
  <2>2. runs' \in 0..MaxRuns
    <3>1. runs \in 0..MaxRuns
      BY DEF Shape, RunType
    <3>2. runs < MaxRuns /\ runs' = runs + 1
      BY DEF RunBegin
    <3> QED BY <3>1, <3>2, BoundsAssumption
  <2>3. CASE run' = [NoRun EXCEPT !.at = "looking"]
    BY <2>1, <2>2, <2>3 DEF NoRun, RunType, RunSteps
  <2>4. ASSUME NEW w \in Writers, run' = [NoRun EXCEPT !.at = "saving", !.saver = w]
        PROVE  RunType'
    BY <2>1, <2>2, <2>4 DEF NoRun, RunType, RunSteps
  <2> QED BY <2>3, <2>4 DEF RunBegin
<1>2. FileType' /\ WriteType' /\ RefreshType' /\ RestType'
  BY DEF RunBegin, ghosts, coord, Shape, FileType, WriteType, RefreshType, RestType
<1> QED BY <1>1, <1>2 DEF Shape

\* The end of a run takes its suppression with it.
LEMMA RunEndsType ==
    ASSUME RunType, run.at # "none", RunEnds, runs' = runs PROVE RunType'
BY DEF RunEnds, RunType, NoRun, RunSteps

\* A step within a run leaves the count at one.
LEMMA RunGoesOn ==
    ASSUME RunType, run.at # "none", NEW step \in RunSteps \ {"none"}, NEW n \in Nat,
           run' = [run EXCEPT !.at = step, !.needs = n],
           suppressed' = suppressed, runs' = runs
    PROVE  RunType'
BY DEF RunType, RunSteps

LEMMA RunShape == ASSUME Shape, Run PROVE Shape'
<1>T. RunType /\ run.needs \in Nat /\ disk \in Nat
  BY DEF Shape, RunType, FileType
<1>S. /\ "looking" \in RunSteps \ {"none"} /\ "opening" \in RunSteps \ {"none"}
      /\ "closing" \in RunSteps \ {"none"} /\ "again" \in RunSteps \ {"none"}
      /\ "running" \in RunSteps \ {"none"}
  BY DEF RunSteps
<1>K. \A step \in RunSteps : [run EXCEPT !.at = step] = [run EXCEPT !.at = step, !.needs = run.needs]
  BY DEF Shape, RunType
<1>1. CASE RunSaved
  <2>1. run.at # "none" /\ runs' = runs
    BY <1>1 DEF RunSaved
  <2>2. ASSUME run' = [run EXCEPT !.at = "looking", !.needs = disk], UNCHANGED suppressed
        PROVE  RunType'
    BY <1>T, <1>S, <2>1, <2>2, RunGoesOn
  <2>3. ASSUME RunEnds PROVE RunType'
    BY <1>T, <2>1, <2>3, RunEndsType
  <2>4. RunType'
    BY <1>1, <2>2, <2>3 DEF RunSaved
  <2>5. FileType' /\ WriteType' /\ RefreshType' /\ RestType'
    BY <1>1 DEF Run, RunSaved, ghosts, coord, Shape, FileType, WriteType, RefreshType, RestType
  <2> QED BY <2>4, <2>5 DEF Shape
<1>2. CASE RunLook
  <2>1. run.at # "none" /\ runs' = runs /\ disk' = disk
    BY <1>2 DEF RunLook
  <2>2. RunType'
    <3>1. CASE \E step \in {"opening", "closing"} : run' = [run EXCEPT !.at = step] /\ suppressed' = suppressed
      <4>1. PICK step \in {"opening", "closing"} : run' = [run EXCEPT !.at = step] /\ suppressed' = suppressed
        BY <3>1
      <4>2. step \in RunSteps \ {"none"} /\ run' = [run EXCEPT !.at = step, !.needs = run.needs]
        BY <1>S, <1>K, <4>1
      <4> QED BY <1>T, <2>1, <4>1, <4>2, RunGoesOn
    <3>2. CASE RunEnds
      BY <1>T, <2>1, <3>2, RunEndsType
    <3> QED BY <1>2, <3>1, <3>2 DEF RunLook
  <2>3. FileType'
    <3>1. CASE Closes
      BY <2>1, <3>1, ClosesType DEF Shape
    <3>2. CASE UNCHANGED <<copy, ghosts>>
      BY <2>1, <3>2 DEF Shape, FileType, ghosts
    <3> QED BY <1>2, <3>1, <3>2 DEF RunLook
  <2>4. WriteType' /\ RefreshType' /\ RestType'
    BY <1>2 DEF Run, RunLook, coord, Shape, WriteType, RefreshType, RestType
  <2> QED BY <2>2, <2>3, <2>4 DEF Shape
<1>3. CASE RunClose
  <2>1. run.at # "none" /\ runs' = runs /\ disk' = disk /\ suppressed' = suppressed
    BY <1>3 DEF RunClose
  <2>2. run' = [run EXCEPT !.at = "again", !.needs = run.needs]
    BY <1>3, <1>S, <1>K DEF RunClose
  <2>3. RunType'
    BY <1>T, <1>S, <2>1, <2>2, RunGoesOn
  <2>4. FileType'
    <3>1. CASE Closes
      BY <2>1, <3>1, ClosesType DEF Shape
    <3>2. CASE UNCHANGED <<copy, ghosts>>
      BY <2>1, <3>2 DEF Shape, FileType, ghosts
    <3> QED BY <1>3, <3>1, <3>2 DEF RunClose
  <2>5. WriteType' /\ RefreshType' /\ RestType'
    BY <1>3 DEF Run, RunClose, coord, Shape, WriteType, RefreshType, RestType
  <2> QED BY <2>3, <2>4, <2>5 DEF Shape
<1>4. CASE RunOpen
  <2>1. run.at # "none" /\ runs' = runs /\ disk' = disk
    BY <1>4 DEF RunOpen
  <2>2. ASSUME run' = [run EXCEPT !.at = "running"], Opens(TRUE, TRUE), UNCHANGED suppressed
        PROVE  RunType' /\ FileType'
    <3>1. run' = [run EXCEPT !.at = "running", !.needs = run.needs]
      BY <2>2, <1>S, <1>K
    <3>2. TRUE \in BOOLEAN
      OBVIOUS
    <3>3. RunType'
      BY <1>T, <1>S, <2>1, <2>2, <3>1, RunGoesOn
    <3>4. FileType'
      BY <2>1, <2>2, <3>2, OpensType DEF Shape
    <3> QED BY <3>3, <3>4
  <2>3. ASSUME RunEnds, UNCHANGED <<copy, ghosts>> PROVE RunType' /\ FileType'
    <3>1. RunType'
      BY <1>T, <2>1, <2>3, RunEndsType
    <3> QED BY <2>1, <2>3, <3>1 DEF Shape, FileType, ghosts
  <2>4. RunType' /\ FileType'
    BY <1>4, <2>2, <2>3 DEF RunOpen
  <2>5. WriteType' /\ RefreshType' /\ RestType'
    BY <1>4 DEF Run, RunOpen, coord, Shape, WriteType, RefreshType, RestType
  <2> QED BY <2>4, <2>5 DEF Shape
<1>5. CASE RunDone
  <2>1. RunType'
    BY <1>5, <1>T, RunEndsType DEF RunDone
  <2>2. FileType' /\ WriteType' /\ RefreshType' /\ RestType'
    BY <1>5 DEF Run, RunDone, ghosts, coord, Shape, FileType, WriteType, RefreshType, RestType
  <2> QED BY <2>1, <2>2 DEF Shape
<1> QED BY <1>1, <1>2, <1>3, <1>4, <1>5 DEF Run

LEMMA UserShape == ASSUME Shape, User PROVE Shape'
<1>T. FileType /\ disk \in Nat /\ copy \in Copies /\ opened \in BOOLEAN
  BY DEF Shape, FileType, RestType
<1>U. users' \in 0..MaxUser /\ app' = app /\ held' = held
  <2>1. users \in 0..MaxUser
    BY DEF Shape, RestType
  <2>2. users < MaxUser /\ users' = users + 1 /\ app' = app /\ held' = held
    BY DEF User
  <2> QED BY <2>1, <2>2, BoundsAssumption
<1>1. ASSUME NEW ro \in BOOLEAN, NEW mine \in BOOLEAN, UserOpens(ro, mine)
      PROVE  FileType' /\ opened' \in BOOLEAN
  <2>1. copy' \in Copies
    BY <1>T, <1>1, CopyType DEF UserOpens
  <2>2. opened' \in BOOLEAN
    <3>1. opened' = (opened \/ mine)
      BY <1>1 DEF UserOpens
    <3> QED BY <3>1, Zenon
  <2> QED BY <1>T, <1>1, <2>1, <2>2 DEF UserOpens, ghosts, FileType
<1>2. ASSUME UserCloses PROVE FileType' /\ opened' \in BOOLEAN
  BY <1>T, <1>2 DEF UserCloses, FileType, Copies
<1>3. ASSUME UserTypes PROVE FileType' /\ opened' \in BOOLEAN
  <2>1. copy \in OpenCopies
    BY <1>T, <1>3, OpenCopy DEF UserTypes
  <2>2. [copy EXCEPT !.unsaved = TRUE] \in OpenCopies
    BY <2>1 DEF OpenCopies
  <2>3. copy' \in Copies
    BY <1>3, <2>2 DEF UserTypes, Copies, OpenCopies
  <2> QED BY <1>T, <1>3, <2>3 DEF UserTypes, ghosts, FileType
<1>4. ASSUME UserSaves PROVE FileType' /\ opened' \in BOOLEAN
  <2>1. copy \in OpenCopies
    BY <1>T, <1>4, OpenCopy DEF UserSaves
  <2>2. [copy EXCEPT !.unsaved = FALSE, !.shows = disk + 1] \in OpenCopies
    <3>1. disk + 1 \in Nat
      BY <1>T
    <3> QED BY <2>1, <3>1 DEF OpenCopies
  <2>3. copy' \in Copies
    BY <1>4, <2>2 DEF UserSaves, Copies, OpenCopies
  <2> QED BY <1>T, <1>4, <2>3 DEF UserSaves, ghosts, FileType
<1>5. FileType' /\ opened' \in BOOLEAN
  BY <1>1, <1>2, <1>3, <1>4 DEF User
<1>6. RestType'
  BY <1>U, <1>5 DEF Shape, RestType
<1>7. WriteType' /\ RefreshType' /\ RunType'
  BY DEF User, coord, Shape, WriteType, RefreshType, RunType
<1> QED BY <1>5, <1>6, <1>7 DEF Shape

LEMMA OthersShape == ASSUME Shape, Others PROVE Shape'
<1>1. RestType'
  <2>1. users \in 0..MaxUser
    BY DEF Shape, RestType
  <2>2. users' \in 0..MaxUser
    BY <2>1, BoundsAssumption DEF Others
  <2>3. held' \in BOOLEAN
    BY DEF Others
  <2> QED BY <2>2, <2>3 DEF Others, Shape, RestType
<1>2. FileType' /\ WriteType' /\ RefreshType' /\ RunType'
  BY DEF Others, ghosts, coord, Shape, FileType, WriteType, RefreshType, RunType
<1> QED BY <1>1, <1>2 DEF Shape

LEMMA ShapeStep == ASSUME Shape, [Next]_vars PROVE Shape'
<1>1. ASSUME NEW w \in Writers, Write(w) PROVE Shape'
  BY <1>1, WriteShape
<1>2. ASSUME NEW w \in Writers, Coordinate(w) PROVE Shape'
  BY <1>2, CloseCopyShape, TestLockShape, RetryShape, ReopenShape, MarkShape DEF Coordinate
<1>3. CASE Refresh
  BY <1>3, RefreshShape
<1>4. CASE RunBegin
  BY <1>4, RunBeginShape
<1>5. CASE Run
  BY <1>5, RunShape
<1>6. CASE User
  BY <1>6, UserShape
<1>7. CASE Others
  BY <1>7, OthersShape
<1>8. CASE UNCHANGED vars
  <2>1. FileType' /\ WriteType' /\ RefreshType'
    BY <1>8 DEF vars, Shape, FileType, WriteType, RefreshType
  <2>2. RunType' /\ RestType'
    BY <1>8 DEF vars, Shape, RunType, RestType
  <2> QED BY <2>1, <2>2 DEF Shape
<1> QED BY <1>1, <1>2, <1>3, <1>4, <1>5, <1>6, <1>7, <1>8 DEF Next

LEMMA ShapeTypes == Shape => TypeOK
<1> SUFFICES ASSUME Shape PROVE TypeOK
  OBVIOUS
<1>1. run.at \in RunSteps
  BY DEF Shape, RunType
<1> QED BY <1>1 DEF Shape, FileType, WriteType, RefreshType, RunType, RestType, TypeOK,
                    RunSteps, WriteSteps, Outcomes

\* The types; the count of suppressions is that of the runs under way: F5 gives
\* back what it took on every way out.
THEOREM TypeCorrect == Spec => []TypeOK
<1>1. Init => Shape
  BY ShapeInit
<1>2. Shape /\ [Next]_vars => Shape'
  BY ShapeStep
<1>3. Shape => TypeOK
  BY ShapeTypes
<1> QED BY <1>1, <1>2, <1>3, PTL DEF Spec

-----------------------------------------------------------------------------
(* The text F5 runs in *)

\* A step of others leaves the run where it was.  If it changes the copy, what
\* is then open shows no less than it did, or the file as it is.
LEMMA SavedFrame ==
    ASSUME Shape, Shape', SavedInv, run' = run, disk <= disk',
           copy'.open => \/ copy.open /\ copy'.shows = copy.shows
                         \/ copy'.shows >= disk
    PROVE  SavedInv'
<1>1. run.needs \in Nat /\ run.needs <= disk /\ disk \in Nat /\ disk' \in Nat
  BY DEF Shape, RunType, FileType, SavedInv
<1>2. copy'.open => copy'.shows \in Nat
  <2> SUFFICES ASSUME copy'.open PROVE copy'.shows \in Nat
    OBVIOUS
  <2>1. copy' \in Copies /\ copy' # NoCopy
    <3>1. NoCopy.open = FALSE
      BY DEF NoCopy
    <3> QED BY <3>1 DEF Shape, FileType
  <2> QED BY <2>1 DEF Copies
<1> QED BY <1>1, <1>2 DEF SavedInv

\* What Opens, Closes and the user do to the copy is as SavedFrame asks.
LEMMA OpensShows ==
    ASSUME FileType, NEW ro \in BOOLEAN, NEW mine \in BOOLEAN,
           Opens(ro, mine) \/ copy' = Copy(ro, mine)
    PROVE  copy'.open => \/ copy.open /\ copy'.shows = copy.shows
                         \/ copy'.shows >= disk
<1>1. CASE copy' = copy
  BY <1>1
<1>2. CASE copy' = Copy(ro, mine)
  BY <1>2, CopyType DEF FileType
<1> QED BY <1>1, <1>2 DEF Opens

LEMMA ClosesShows == ASSUME Closes PROVE copy'.open = FALSE
BY DEF Closes, NoCopy

LEMMA SavedStep == ASSUME Shape, SavedInv, [Next]_vars PROVE SavedInv'
<1> DEFINE Shows == copy'.open => \/ copy.open /\ copy'.shows = copy.shows
                                  \/ copy'.shows >= disk
<1>T. Shape' /\ FileType /\ disk \in Nat /\ TRUE \in BOOLEAN
  BY ShapeStep DEF Shape, FileType
<1>D. copy' = copy => Shows
  OBVIOUS
<1>C. Closes => Shows
  BY ClosesShows
<1>O. ASSUME NEW ro \in BOOLEAN, NEW mine \in BOOLEAN,
             Opens(ro, mine) \/ copy' = Copy(ro, mine)
      PROVE  Shows
  BY <1>O, <1>T, OpensShows
<1>F. ASSUME run' = run, disk' = disk \/ disk' = disk + 1, Shows PROVE SavedInv'
  <2>1. disk <= disk'
    BY <1>T, <1>F
  <2> QED BY <1>T, <1>F, <2>1, SavedFrame
<1> HIDE DEF Shows
<1>1. ASSUME NEW w \in Writers, Write(w) PROVE SavedInv'
  BY <1>1, <1>D, <1>F DEF Write
<1>2. ASSUME NEW w \in Writers, Coordinate(w) PROVE SavedInv'
  <2>1. CASE CloseCopy(w)
    BY <2>1, <1>C, <1>D, <1>F DEF CloseCopy
  <2>2. CASE TestLock(w)
    BY <2>2, <1>C, <1>D, <1>F DEF TestLock
  <2>3. CASE Retry(w)
    BY <2>3, <1>D, <1>F DEF Retry
  <2>4. CASE Reopen(w)
    <3>1. ResolveReopenReadOnly(outcome[w].wasReadOnly) \in BOOLEAN
      BY ReopenReadOnlyType
    <3>2. Shows
      BY <2>4, <3>1, <1>T, <1>O, <1>D DEF Reopen
    <3> QED BY <2>4, <3>2, <1>F DEF Reopen
  <2>5. CASE Mark(w)
    BY <2>5, <1>D, <1>F DEF Mark
  <2> QED BY <1>2, <2>1, <2>2, <2>3, <2>4, <2>5 DEF Coordinate
<1>3. CASE Refresh
  <2>1. CASE RefreshLook
    BY <2>1, <1>C, <1>D, <1>F DEF RefreshLook
  <2>2. CASE RefreshReopen
    BY <2>2, <1>T, <1>O, <1>D, <1>F DEF RefreshReopen
  <2> QED BY <1>3, <2>1, <2>2 DEF Refresh
<1>4. CASE RunBegin
  <2>1. run'.needs = 0 /\ run'.at \notin {"opening", "running"} /\ disk' = disk
    BY <1>4 DEF RunBegin, NoRun
  <2> QED BY <2>1, <1>T DEF SavedInv
<1>5. CASE Run
  <2>R. /\ run \in [at : RunSteps, saver : Writers \cup {"nobody"}, needs : Nat]
        /\ run.needs \in Nat /\ run.needs <= disk
    BY DEF Shape, RunType, SavedInv
  <2>E. ASSUME RunEnds PROVE SavedInv'
    <3>1. run'.needs = 0 /\ run'.at = "none" /\ disk' \in Nat
      BY <2>E, <1>T DEF RunEnds, NoRun, Shape, FileType
    <3> QED BY <3>1 DEF SavedInv
  <2>1. CASE RunSaved
    <3>1. ASSUME run' = [run EXCEPT !.at = "looking", !.needs = disk], disk' = disk
          PROVE  SavedInv'
      <4>1. run'.at = "looking" /\ run'.needs = disk
        BY <3>1, <2>R
      <4> QED BY <3>1, <4>1, <1>T DEF SavedInv
    <3> QED BY <2>1, <2>E, <3>1 DEF RunSaved
  <2>2. CASE RunLook
    <3>1. ASSUME run' = [run EXCEPT !.at = "opening"], Closes, disk' = disk PROVE SavedInv'
      <4>1. run'.needs = run.needs /\ copy'.open = FALSE
        BY <3>1, <2>R, ClosesShows
      <4> QED BY <3>1, <4>1, <2>R DEF SavedInv
    <3>2. ASSUME run' = [run EXCEPT !.at = "closing"], disk' = disk PROVE SavedInv'
      <4>1. run'.needs = run.needs /\ run'.at = "closing"
        BY <3>2, <2>R
      <4> QED BY <3>2, <4>1, <2>R DEF SavedInv
    <3> QED BY <2>2, <2>E, <3>1, <3>2 DEF RunLook
  <2>3. CASE RunClose
    <3>1. run'.needs = run.needs /\ run'.at = "again" /\ disk' = disk
      BY <2>3, <2>R DEF RunClose
    <3> QED BY <3>1, <2>R DEF SavedInv
  <2>4. CASE RunOpen
    <3>1. ASSUME run.at = "opening", run' = [run EXCEPT !.at = "running"],
                 Opens(TRUE, TRUE), disk' = disk
          PROVE  SavedInv'
      <4>1. run'.needs = run.needs
        BY <3>1, <2>R
      <4>2. copy.open => copy.shows >= run.needs
        BY <3>1 DEF SavedInv
      <4>3. copy'.open => copy'.shows >= run.needs
        BY <3>1, <4>2, <1>T, <2>R, OpensSaved
      <4> QED BY <3>1, <4>1, <4>3, <2>R DEF SavedInv
    <3> QED BY <2>4, <2>E, <3>1 DEF RunOpen
  <2>5. CASE RunDone
    BY <2>5, <2>E DEF RunDone
  <2> QED BY <1>5, <2>1, <2>2, <2>3, <2>4, <2>5 DEF Run
<1>6. CASE User
  <2>1. ASSUME NEW ro \in BOOLEAN, NEW mine \in BOOLEAN, UserOpens(ro, mine) PROVE Shows
    BY <2>1, <1>O DEF UserOpens
  <2>2. UserCloses => Shows
    BY DEF UserCloses, NoCopy, Shows
  <2>3. ASSUME UserTypes PROVE Shows
    <3>1. copy \in OpenCopies
      BY <2>3, <1>T, OpenCopy DEF UserTypes, FileType
    <3> QED BY <2>3, <3>1 DEF UserTypes, Shows, OpenCopies
  <2>4. ASSUME UserSaves PROVE Shows
    <3>1. copy \in OpenCopies
      BY <2>4, <1>T, OpenCopy DEF UserSaves, FileType
    <3>2. copy'.shows = disk + 1
      BY <2>4, <3>1 DEF UserSaves, OpenCopies
    <3> QED BY <3>2, <1>T DEF Shows
  <2>5. run' = run /\ (disk' = disk \/ disk' = disk + 1)
    BY <1>6 DEF User, UserOpens, UserCloses, UserTypes, UserSaves
  <2> QED BY <1>6, <1>F, <2>1, <2>2, <2>3, <2>4, <2>5 DEF User
<1>7. CASE Others
  BY <1>7, <1>D, <1>F DEF Others
<1>8. CASE UNCHANGED vars
  BY <1>8, <1>D, <1>F DEF vars
<1> QED BY <1>1, <1>2, <1>3, <1>4, <1>5, <1>6, <1>7, <1>8 DEF Next

\* The macro runs in a text no older than the save F5 made for it, whatever
\* writes, refreshes and users open or close between F5's close and its reopen.
THEOREM RunsInTheSavedText == Spec => []RunsTheSavedText
<1>1. Init => Shape /\ SavedInv
  BY ShapeInit
<1>2. (Shape /\ SavedInv) /\ [Next]_vars => (Shape /\ SavedInv)'
  BY ShapeStep, SavedStep
<1>3. Shape /\ SavedInv => RunsTheSavedText
  BY DEF SavedInv, RunsTheSavedText
<1> QED BY <1>1, <1>2, <1>3, PTL DEF Spec

-----------------------------------------------------------------------------
(* What is never closed *)

\* Only closeForce closes a copy with unsaved work.
LEMMA MayCloseSaved ==
    ASSUME Mode # "closeForce", NEW b, MayClose(b) PROVE ~copy.unsaved
BY DEF MayClose

LEMMA UnsavedStep ==
    ASSUME Mode # "closeForce", Shape, Next, copy.open, copy.unsaved, users' = users
    PROVE  copy' = copy
<1>O. ASSUME NEW ro, NEW mine, Opens(ro, mine) PROVE copy' = copy
  BY <1>O DEF Opens
<1>1. ASSUME NEW w \in Writers, Write(w) PROVE copy' = copy
  BY <1>1 DEF Write
<1>2. ASSUME NEW w \in Writers, Coordinate(w) PROVE copy' = copy
  <2>1. CASE CloseCopy(w)
    BY <2>1, MayCloseSaved DEF CloseCopy
  <2>2. CASE TestLock(w)
    BY <2>2 DEF TestLock
  <2>3. CASE Reopen(w)
    BY <2>3, <1>O DEF Reopen
  <2>4. CASE Retry(w) \/ Mark(w)
    BY <2>4 DEF Retry, Mark
  <2> QED BY <1>2, <2>1, <2>2, <2>3, <2>4 DEF Coordinate
<1>3. CASE Refresh
  BY <1>3, <1>O DEF Refresh, RefreshLook, RefreshReopen
<1>4. CASE RunBegin
  BY <1>4 DEF RunBegin
<1>5. CASE Run
  <2>1. CASE RunClose
    BY <2>1, MayCloseSaved DEF RunClose
  <2>2. CASE RunOpen
    BY <2>2, <1>O DEF RunOpen
  <2>3. CASE RunSaved \/ RunLook \/ RunDone
    BY <2>3 DEF RunSaved, RunLook, RunDone
  <2> QED BY <1>5, <2>1, <2>2, <2>3 DEF Run
<1>6. CASE User
  <2>1. users \in Int /\ users' = users + 1
    BY <1>6 DEF User, Shape, RestType
  <2> QED BY <2>1
<1>7. CASE Others
  BY <1>7 DEF Others
<1> QED BY <1>1, <1>2, <1>3, <1>4, <1>5, <1>6, <1>7 DEF Next

\* Under block and closeTracked no write, retry, reopen, refresh or run closes or
\* replaces a copy with unsaved work, in whatever order they come.
THEOREM UnsavedWorkSurvives ==
    ASSUME Mode # "closeForce"
    PROVE  Spec => UnsavedSurvives
<1>1. Init => Shape
  BY ShapeInit
<1>2. Shape /\ [Next]_vars => Shape'
  BY ShapeStep
<1>3. Shape /\ [Next]_vars =>
        [copy.open /\ copy.unsaved /\ users' = users => copy' = copy]_vars
  BY UnsavedStep
<1> QED BY <1>1, <1>2, <1>3, PTL DEF Spec, UnsavedSurvives

-----------------------------------------------------------------------------
(* What is opened *)

\* The writes that have closed a copy and may still put it back.
HasClosed(w) == at[w] \in {"testing", "retrying", "reopening"} /\ outcome[w].closed
Closers == {w \in Writers : HasClosed(w)}

\* As long as F5 has not run, every write and refresh that may still open the
\* file has an owed copy of its own.
OwedInv ==
    /\ \A w \in Writers : /\ ~outcome[w].forced
                          /\ at[w] = "reopening" => outcome[w].closed
    /\ runs = 0 =>
         /\ run.at = "none"
         /\ refresh # "reopening" => owed >= Cardinality(Closers)
         /\ refresh = "reopening" => owed >= Cardinality(Closers) + 1

LEMMA OwedInit == ASSUME IsFiniteSet(Writers), Init PROVE OwedInv
<1>1. Closers = {}
  BY DEF Init, Closers, HasClosed
<1>2. Cardinality(Closers) = 0 /\ owed = 0
  BY <1>1, FS_EmptySet DEF Init
<1>3. \A w \in Writers : outcome[w].forced = FALSE /\ at[w] = "idle"
  BY DEF Init, NoOutcome
<1>4. refresh = "none" /\ run.at = "none"
  BY DEF Init, NoRun
<1> QED BY <1>2, <1>3, <1>4 DEF OwedInv

\* Closers is finite and shrinks or grows by one.
LEMMA ClosersCount ==
    ASSUME IsFiniteSet(Writers)
    PROVE  /\ Cardinality(Closers) \in Nat
           /\ Closers' \subseteq Closers => Cardinality(Closers') <= Cardinality(Closers)
           /\ \A w \in Writers :
                /\ Closers' \subseteq Closers \cup {w} =>
                     Cardinality(Closers') <= Cardinality(Closers) + 1
                /\ Closers' \subseteq Closers \ {w} /\ w \in Closers =>
                     Cardinality(Closers') <= Cardinality(Closers) - 1
           /\ Cardinality(Closers') \in Nat
<1>1. IsFiniteSet(Closers) /\ IsFiniteSet(Closers') /\ Cardinality(Closers) \in Nat
      /\ Cardinality(Closers') \in Nat
  <2>1. Closers \subseteq Writers /\ Closers' \subseteq Writers
    BY DEF Closers
  <2> QED BY <2>1, FS_Subset, FS_CardinalityType
<1>2. Closers' \subseteq Closers => Cardinality(Closers') <= Cardinality(Closers)
  BY <1>1, FS_Subset
<1>3. ASSUME NEW w \in Writers, Closers' \subseteq Closers \cup {w}
      PROVE  Cardinality(Closers') <= Cardinality(Closers) + 1
  <2>1. /\ IsFiniteSet(Closers \cup {w})
        /\ Cardinality(Closers \cup {w}) = IF w \in Closers THEN Cardinality(Closers)
                                           ELSE Cardinality(Closers) + 1
    BY <1>1, FS_AddElement
  <2>2. Cardinality(Closers') <= Cardinality(Closers \cup {w})
    BY <1>3, <2>1, FS_Subset
  <2> QED BY <1>1, <2>1, <2>2
<1>4. ASSUME NEW w \in Writers, Closers' \subseteq Closers \ {w}, w \in Closers
      PROVE  Cardinality(Closers') <= Cardinality(Closers) - 1
  <2>1. /\ IsFiniteSet(Closers \ {w})
        /\ Cardinality(Closers \ {w}) = Cardinality(Closers) - 1
    BY <1>1, <1>4, FS_RemoveElement
  <2>2. Cardinality(Closers') <= Cardinality(Closers \ {w})
    BY <1>4, <2>1, FS_Subset
  <2> QED BY <1>1, <2>1, <2>2
<1> QED BY <1>1, <1>2, <1>3, <1>4

\* Opens takes at most one of what is owed, Closes adds one for a copy it closed.
LEMMA OpensOwed ==
    ASSUME FileType, NEW ro, NEW mine, Opens(ro, mine)
    PROVE  owed' \in Nat /\ owed' >= owed - 1 /\ owed' <= owed
<1>1. owed \in Nat
  BY DEF FileType
<1>2. CASE copy.open \/ owed = 0
  BY <1>1, <1>2 DEF Opens
<1>3. CASE ~(copy.open \/ owed = 0)
  <2>1. owed' = owed - 1 /\ owed # 0
    BY <1>3 DEF Opens
  <2> QED BY <1>1, <2>1
<1> QED BY <1>2, <1>3

\* A step that leaves the writes alone keeps the invariant if what is owed
\* covers the refresh.
LEMMA OwedFrame ==
    ASSUME IsFiniteSet(Writers), FileType, FileType', OwedInv, UNCHANGED coord, runs' = runs,
           runs = 0 => run'.at = "none",
           \/ owed' >= owed /\ (refresh' = "reopening" => refresh = "reopening")
           \/ owed' >= owed + 1
           \/ owed' >= owed - 1 /\ refresh = "reopening" /\ refresh' # "reopening"
    PROVE  OwedInv'
<1>1. Closers' = Closers
  BY DEF Closers, HasClosed, coord
<1>2. \A w \in Writers : /\ ~outcome'[w].forced
                         /\ at'[w] = "reopening" => outcome'[w].closed
  BY DEF OwedInv, coord
<1>3. Cardinality(Closers) \in Nat /\ owed \in Nat /\ owed' \in Nat
  BY ClosersCount DEF FileType
<1>4. ASSUME runs' = 0
      PROVE  /\ run'.at = "none"
             /\ refresh' # "reopening" => owed' >= Cardinality(Closers)
             /\ refresh' = "reopening" => owed' >= Cardinality(Closers) + 1
  <2>1. runs = 0
    BY <1>4
  <2>2. /\ refresh # "reopening" => owed >= Cardinality(Closers)
        /\ refresh = "reopening" => owed >= Cardinality(Closers) + 1
    BY <2>1 DEF OwedInv
  <2> QED BY <1>3, <2>1, <2>2
<1> QED BY <1>1, <1>2, <1>4 DEF OwedInv

\* The same of a step of one write, by what it does to Closers.
LEMMA OwedWrite ==
    ASSUME IsFiniteSet(Writers), FileType, FileType', OwedInv, NEW w \in Writers,
           WriteType, WriteType', run' = run, runs' = runs,
           refresh' = "reopening" <=> refresh = "reopening",
           \A v \in Writers \ {w} : at'[v] = at[v] /\ outcome'[v] = outcome[v],
           ~outcome'[w].forced, at'[w] = "reopening" => outcome'[w].closed,
           \/ owed' >= owed /\ (HasClosed(w)' => HasClosed(w))
           \/ owed' >= owed + 1
           \/ owed' >= owed - 1 /\ HasClosed(w) /\ ~HasClosed(w)'
    PROVE  OwedInv'
<1>1. \A v \in Writers \ {w} : HasClosed(v)' <=> HasClosed(v)
  BY DEF HasClosed
<1>2. \A v \in Writers : /\ ~outcome'[v].forced
                         /\ at'[v] = "reopening" => outcome'[v].closed
  BY DEF OwedInv
<1>3. /\ Cardinality(Closers) \in Nat /\ owed \in Nat /\ owed' \in Nat
      /\ Cardinality(Closers') \in Nat
  BY ClosersCount DEF FileType
<1>4. \/ owed' >= owed /\ Cardinality(Closers') <= Cardinality(Closers)
      \/ owed' >= owed + 1 /\ Cardinality(Closers') <= Cardinality(Closers) + 1
      \/ owed' >= owed - 1 /\ Cardinality(Closers') <= Cardinality(Closers) - 1
  <2>1. CASE owed' >= owed /\ (HasClosed(w)' => HasClosed(w))
    <3>1. Closers' \subseteq Closers
      BY <1>1, <2>1 DEF Closers
    <3> QED BY <2>1, <3>1, ClosersCount
  <2>2. CASE owed' >= owed + 1
    <3>1. Closers' \subseteq Closers \cup {w}
      BY <1>1 DEF Closers
    <3> QED BY <2>2, <3>1, ClosersCount
  <2>3. CASE owed' >= owed - 1 /\ HasClosed(w) /\ ~HasClosed(w)'
    <3>1. Closers' \subseteq Closers \ {w} /\ w \in Closers
      BY <1>1, <2>3 DEF Closers
    <3> QED BY <2>3, <3>1, ClosersCount
  <2> QED BY <2>1, <2>2, <2>3
<1>5. ASSUME runs' = 0
      PROVE  /\ run'.at = "none"
             /\ refresh' # "reopening" => owed' >= Cardinality(Closers')
             /\ refresh' = "reopening" => owed' >= Cardinality(Closers') + 1
  <2>1. /\ run.at = "none"
        /\ refresh # "reopening" => owed >= Cardinality(Closers)
        /\ refresh = "reopening" => owed >= Cardinality(Closers) + 1
    BY <1>5 DEF OwedInv
  <2> QED BY <1>3, <1>4, <2>1
<1> QED BY <1>2, <1>5 DEF OwedInv

LEMMA OwedStep ==
    ASSUME IsFiniteSet(Writers), Mode # "closeForce", Shape, OwedInv, [Next]_vars
    PROVE  OwedInv'
<1>T. /\ FileType /\ FileType' /\ WriteType /\ WriteType' /\ owed \in Nat /\ owed' \in Nat
      /\ runs \in Nat
  BY ShapeStep, BoundsAssumption DEF Shape, FileType, RunType
<1>R. runs = 0 => run.at = "none"
  BY DEF OwedInv
<1>C. ASSUME Closes PROVE owed' >= owed /\ (copy.open => owed' >= owed + 1)
  BY <1>C, <1>T DEF Closes, ghosts
<1>G. UNCHANGED ghosts => owed' >= owed
  BY <1>T DEF ghosts
<1>O. ASSUME Opens(TRUE, TRUE) PROVE owed' >= owed - 1
  BY <1>O, <1>T, OpensOwed
<1>1. ASSUME NEW w \in Writers, Write(w) PROVE OwedInv'
  <2>1. outcome' = outcome /\ run' = run /\ runs' = runs /\ owed' >= owed
    BY <1>1, <1>G DEF Write
  <2>2. PICK step \in {"written", "failed", "closing"} : at' = [at EXCEPT ![w] = step]
    BY <1>1 DEF Write
  <2>3. at'[w] = step /\ \A v \in Writers \ {w} : at'[v] = at[v]
    BY <1>T, <2>2 DEF WriteType
  <2>4. refresh' = "reopening" <=> refresh = "reopening"
    BY <1>1 DEF Write, AskRefresh
  <2>5. ~HasClosed(w)' /\ ~outcome'[w].forced
    BY <2>1, <2>3 DEF HasClosed, OwedInv
  <2> QED BY <1>T, <2>1, <2>3, <2>4, <2>5, OwedWrite
<1>2. ASSUME NEW w \in Writers, Coordinate(w) PROVE OwedInv'
  <2>F. ~outcome[w].forced /\ (at[w] = "reopening" => outcome[w].closed)
    BY DEF OwedInv
  <2>1. CASE CloseCopy(w)
    <3>1. run' = run /\ runs' = runs /\ refresh' = refresh
      BY <2>1 DEF CloseCopy
    <3>2. at'[w] = "testing" /\ \A v \in Writers \ {w} : at'[v] = at[v]
      BY <1>T, <2>1 DEF CloseCopy, WriteType
    <3>3. \A v \in Writers \ {w} : outcome'[v] = outcome[v]
      BY <1>T, <2>1 DEF CloseCopy, WriteType
    <3>4. outcome'[w].forced = FALSE /\ outcome'[w].closed = MayClose(scope[w] = "readOnlyCopy")
      BY <1>T, <2>1 DEF CloseCopy, WriteType, NoOutcome
    <3>5. CASE MayClose(scope[w] = "readOnlyCopy")
      <4>1. copy.open /\ Closes
        BY <2>1, <3>5 DEF CloseCopy, MayClose
      <4> QED BY <1>T, <1>C, <3>1, <3>2, <3>3, <3>4, <4>1, OwedWrite
    <3>6. CASE ~MayClose(scope[w] = "readOnlyCopy")
      <4>1. owed' >= owed /\ ~HasClosed(w)'
        BY <2>1, <1>G, <3>4, <3>6 DEF CloseCopy, HasClosed
      <4> QED BY <1>T, <3>1, <3>2, <3>3, <3>4, <4>1, OwedWrite
    <3> QED BY <3>5, <3>6
  <2>2. CASE TestLock(w)
    <3>1. run' = run /\ runs' = runs /\ refresh' = refresh /\ owed' >= owed /\ at[w] = "testing"
      BY <2>2, <1>G DEF TestLock
    <3>2. at'[w] = "retrying" /\ \A v \in Writers \ {w} : at'[v] = at[v]
      BY <1>T, <2>2 DEF TestLock, WriteType
    <3>3. \A v \in Writers \ {w} : outcome'[v] = outcome[v]
      BY <1>T, <2>2 DEF TestLock, WriteType
    <3>4. outcome[w] \in Outcomes /\ outcome \in [Writers -> Outcomes]
      BY <1>T DEF WriteType
    <3>5. outcome'[w].closed = outcome[w].closed
      BY <2>2, <3>4 DEF TestLock, Outcomes
    <3>6. outcome'[w].forced = (Locked /\ Mode = "closeForce" /\ scope[w] = "any")
      BY <2>2, <3>4 DEF TestLock, Outcomes
    <3>7. ~outcome'[w].forced
      BY <3>6
    <3>8. HasClosed(w)' => HasClosed(w)
      BY <3>1, <3>5 DEF HasClosed
    <3> QED BY <1>T, <3>1, <3>2, <3>3, <3>7, <3>8, OwedWrite
  <2>3. CASE Retry(w)
    <3>1. /\ run' = run /\ runs' = runs /\ refresh' = refresh /\ outcome' = outcome
          /\ owed' >= owed /\ at[w] = "retrying"
      BY <2>3, <1>G DEF Retry
    <3>2. at'[w] = "reopening" => outcome[w].closed
      BY <1>T, <2>3, <2>F DEF Retry, AfterRetry, ViewLost, WriteType
    <3>3. \A v \in Writers \ {w} : at'[v] = at[v]
      BY <1>T, <2>3 DEF Retry, WriteType
    <3>4. HasClosed(w)' => HasClosed(w)
      BY <3>1 DEF HasClosed
    <3> QED BY <1>T, <2>F, <3>1, <3>2, <3>3, <3>4, OwedWrite
  <2>4. CASE Reopen(w)
    <3>1. /\ run' = run /\ runs' = runs /\ refresh' = refresh /\ outcome' = outcome
          /\ at[w] = "reopening" /\ HasClosed(w)
      BY <2>4, <2>F DEF Reopen, HasClosed
    <3>2. PICK step \in {"marking", "written"} : at' = [at EXCEPT ![w] = step]
      BY <2>4 DEF Reopen
    <3>3. at'[w] = step /\ \A v \in Writers \ {w} : at'[v] = at[v]
      BY <1>T, <3>2 DEF WriteType
    <3>4. ~HasClosed(w)'
      BY <3>3 DEF HasClosed
    <3>5. owed' >= owed - 1
      <4>1. ASSUME NEW ro, Opens(ro, TRUE) PROVE owed' >= owed - 1
        BY <4>1, <1>T, OpensOwed
      <4>2. UNCHANGED ghosts => owed' >= owed - 1
        BY <1>T DEF ghosts
      <4> QED BY <2>4, <4>1, <4>2 DEF Reopen
    <3> QED BY <1>T, <2>F, <3>1, <3>3, <3>4, <3>5, OwedWrite
  <2>5. CASE Mark(w)
    <3>1. /\ run' = run /\ runs' = runs /\ refresh' = refresh /\ outcome' = outcome
          /\ owed' >= owed
      BY <2>5, <1>G DEF Mark
    <3>2. at'[w] = "written" /\ \A v \in Writers \ {w} : at'[v] = at[v]
      BY <1>T, <2>5 DEF Mark, WriteType
    <3>3. ~HasClosed(w)'
      BY <3>2 DEF HasClosed
    <3> QED BY <1>T, <2>F, <3>1, <3>2, <3>3, OwedWrite
  <2> QED BY <1>2, <2>1, <2>2, <2>3, <2>4, <2>5 DEF Coordinate
<1>3. CASE Refresh
  <2>1. CASE RefreshLook
    <3>1. UNCHANGED coord /\ runs' = runs /\ run' = run /\ refresh = "looking"
      BY <2>1 DEF RefreshLook
    <3>2. \/ owed' >= owed + 1
          \/ owed' >= owed /\ refresh' # "reopening"
      BY <2>1, <1>C, <1>G DEF RefreshLook, RefreshEnds
    <3> QED BY <1>T, <1>R, <3>1, <3>2, OwedFrame
  <2>2. CASE RefreshReopen
    <3>1. UNCHANGED coord /\ runs' = runs /\ run' = run /\ refresh = "reopening"
      BY <2>2 DEF RefreshReopen
    <3>2. refresh' # "reopening"
      BY <2>2 DEF RefreshReopen, RefreshEnds
    <3>3. owed' >= owed - 1
      <4>1. UNCHANGED ghosts => owed' >= owed - 1
        BY <1>T DEF ghosts
      <4> QED BY <2>2, <1>O, <4>1 DEF RefreshReopen
    <3> QED BY <1>T, <1>R, <3>1, <3>2, <3>3, OwedFrame
  <2> QED BY <1>3, <2>1, <2>2 DEF Refresh
<1>4. CASE RunBegin
  <2>1. runs' = runs + 1 /\ at' = at /\ outcome' = outcome
    BY <1>4 DEF RunBegin, coord
  <2>2. runs' # 0
    <3>1. runs \in Nat
      BY <1>T
    <3> QED BY <2>1, <3>1
  <2> QED BY <2>1, <2>2 DEF OwedInv
<1>5. CASE Run
  <2>1. run.at # "none" /\ runs' = runs /\ at' = at /\ outcome' = outcome
    BY <1>5 DEF Run, RunSaved, RunLook, RunClose, RunOpen, RunDone, coord
  <2>2. runs' # 0
    BY <1>R, <2>1
  <2> QED BY <2>1, <2>2 DEF OwedInv
<1>6. CASE User
  <2>1. UNCHANGED coord /\ runs' = runs /\ run' = run /\ refresh' = refresh
    BY <1>6 DEF User
  <2>2. owed' >= owed
    <3>1. owed' = owed
      BY <1>6 DEF User, UserOpens, UserCloses, UserTypes, UserSaves, ghosts
    <3> QED BY <1>T, <3>1
  <2> QED BY <1>T, <1>R, <2>1, <2>2, OwedFrame
<1>7. CASE Others
  <2>1. UNCHANGED coord /\ runs' = runs /\ run' = run /\ refresh' = refresh /\ owed' >= owed
    BY <1>7, <1>G DEF Others
  <2> QED BY <1>T, <1>R, <2>1, OwedFrame
<1>8. CASE UNCHANGED vars
  <2>1. UNCHANGED coord /\ runs' = runs /\ run' = run /\ refresh' = refresh /\ owed' >= owed
    BY <1>8, <1>T DEF vars, coord
  <2> QED BY <1>T, <1>R, <2>1, OwedFrame
<1> QED BY <1>1, <1>2, <1>3, <1>4, <1>5, <1>6, <1>7, <1>8 DEF Next

\* A step that opens the file, other than the user's and F5's, has one of the
\* owed copies to open it for.
LEMMA InvitedStep ==
    ASSUME IsFiniteSet(Writers), Mode # "closeForce", Shape, OwedInv, Next,
           ~copy.open, copy'.open, users' = users, runs = 0
    PROVE  owed > 0
<1>T. owed \in Nat /\ run.at = "none" /\ Cardinality(Closers) \in Nat
  BY ClosersCount DEF Shape, FileType, OwedInv
<1>O. copy' # copy /\ ~Closes
  BY ClosesShows
<1>1. ASSUME NEW w \in Writers, Coordinate(w) PROVE owed > 0
  <2>1. at[w] = "reopening"
    BY <1>1, <1>O DEF Coordinate, CloseCopy, TestLock, Retry, Mark, Reopen
  <2>2. w \in Closers /\ IsFiniteSet(Closers)
    <3>1. Closers \subseteq Writers
      BY DEF Closers
    <3> QED BY <2>1, <3>1, FS_Subset DEF OwedInv, Closers, HasClosed
  <2>3. Cardinality(Closers) # 0
    BY <2>2, FS_EmptySet
  <2> QED BY <1>T, <2>3 DEF OwedInv
<1>2. CASE Refresh
  <2>1. refresh = "reopening"
    BY <1>2, <1>O DEF Refresh, RefreshLook, RefreshReopen
  <2> QED BY <1>T, <2>1 DEF OwedInv
<1>3. ASSUME Run PROVE FALSE
  BY <1>T, <1>3 DEF Run, RunSaved, RunLook, RunClose, RunOpen, RunDone
<1>4. ASSUME User PROVE FALSE
  <2>1. users \in Int /\ users' = users + 1
    BY <1>4 DEF User, Shape, RestType
  <2> QED BY <2>1
<1>5. ASSUME (\E w \in Writers : Write(w)) \/ RunBegin \/ Others PROVE FALSE
  BY <1>5, <1>O DEF Write, RunBegin, Others
<1> QED BY <1>1, <1>2, <1>3, <1>4, <1>5 DEF Next

\* Under block and closeTracked, writes and refreshes open the file only where
\* XLIDE closed a copy of it, however many of them overlap: each that may still
\* open it has closed a copy that nobody has put back.
THEOREM NeverOpensAFileUninvited ==
    ASSUME IsFiniteSet(Writers), Mode # "closeForce"
    PROVE  Spec => NeverOpensUninvited
<1>1. Init => Shape /\ OwedInv
  BY ShapeInit, OwedInit
<1>2. (Shape /\ OwedInv) /\ [Next]_vars => (Shape /\ OwedInv)'
  BY ShapeStep, OwedStep
<1>3. Shape /\ OwedInv /\ [Next]_vars =>
        [~copy.open /\ copy'.open /\ users' = users /\ runs = 0 => owed > 0]_vars
  BY InvitedStep
<1> QED BY <1>1, <1>2, <1>3, PTL DEF Spec, NeverOpensUninvited

=============================================================================
