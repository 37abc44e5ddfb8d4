----------------------- MODULE LiveDiagnosticsProofs ------------------------
(***************************************************************************)
(* The safety of LiveDiagnostics for any number of openings, events and    *)
(* faults, in three parts.  TypeCorrect rests on Types, which says of the  *)
(* passes that run that a generation has one of each kind, after its timer, *)
(* and that those of the latest have read the text as it is.               *)
(* ProblemsGoOnlyForward rests on GoInv: a full pass reads nothing before  *)
(* the early pass of its generation is over, and a pass that counts has read *)
(* the project there is and settings no older than any that are shown.     *)
(* QuietProblemsAreTrue rests on QuietInv: whatever the problems lack will *)
(* be made good by the full timer, a full pass of the latest generation, a *)
(* retry or an event (DueInv), and with diagnostics off likewise for what  *)
(* they still show (OffInv).  Each of the last two names the races it cannot *)
(* do with.                                                                *)
(***************************************************************************)
EXTENDS LiveDiagnostics, TLAPS

Kinds == {"local", "full"}

Ats == {"begun", "waiting", "project", "settings", "worker", "superseded", "host"}

\* A pass from the moment its timer fires, and one that is among the passes.
Records == [kind : Kinds, gen : Nat \ {0}, life : Lives, version : Versions \ {0},
            at : Ats, awaits : Nat, project : Versions, settings : Versions]

Passes == {p \in Records : p.at # "begun" /\ (p.at = "waiting" => p.kind = "full")}

Runs == [is : {"run"}, gen : Nat \ {0}, version : Versions]

DocInv ==
    /\ open \in BOOLEAN /\ life \in 0..MaxLives /\ versions \in [Lives -> Versions]
    /\ events \in 0..MaxEvents
    /\ \A l \in Lives : (versions[l] > 0 <=> l <= life) /\ versions[l] <= events + 1

FlagInv ==
    /\ enabled \in BOOLEAN /\ watched \in BOOLEAN /\ unsaid \in BOOLEAN /\ known \in BOOLEAN
    /\ up \in [Kinds -> BOOLEAN]

\* What is cached was on disk once.
ClockInv ==
    /\ project \in 0..events /\ settings \in 0..events
    /\ cache = Unread \/ cache \in 0..settings

\* Only a fault makes a pass try again.
RetryInv ==
    /\ faults \in 0..MaxFaults /\ retries \in 0..faults
    /\ retrying \in [Lives -> 0..faults]
    /\ \A l \in Lives : retrying[l] > 0 => l <= life

\* The timers there are were started together.
TimerInv ==
    /\ generation \in Nat /\ completed \in {0, generation}
    /\ open => life > 0 /\ generation > 0
    /\ localTimer \in Timers /\ fullTimer \in Timers
    /\ \A t \in {localTimer, fullTimer} \ {None} : t.gen = generation /\ t.life <= life
    /\ localTimer # None /\ fullTimer # None => localTimer.life = fullTimer.life

\* A generation has one pass of each kind, after its timer; what is of the
\* latest generation has read the text its document has.
PassInv ==
    /\ passes \subseteq Passes
    /\ \A p \in passes : p.gen \in 1..generation /\ p.life \in 1..life
                         /\ p.version \in 1..versions[p.life]
    /\ \A p, q \in passes : p.kind = q.kind /\ p.gen = q.gen => p = q
    /\ localTimer # None => \A p \in passes : p.gen # generation
    /\ fullTimer # None => \A p \in passes : p.kind = "full" => p.gen # generation
    /\ \A p \in passes : p.gen = generation =>
          /\ p.at # "superseded" /\ p.version = versions[p.life]
          /\ fullTimer # None => p.life = fullTimer.life

ShownInv ==
    /\ earlyRun = None \/ (earlyRun \in Runs /\ earlyRun.gen <= generation)
    /\ full \in Reports \cup {None} /\ early \in Reports \cup {None}

Types == DocInv /\ FlagInv /\ ClockInv /\ RetryInv /\ TimerInv /\ PassInv /\ ShownInv

-----------------------------------------------------------------------------
(* Passes and reports are records.                                         *)

\* Of the same document, text and generation.
SamePass(q, p) ==
    /\ q.kind = p.kind /\ q.gen = p.gen /\ q.life = p.life /\ q.version = p.version

LEMMA RecordIs ==
    ASSUME NEW p \in Records
    PROVE  /\ p.kind \in Kinds /\ p.gen \in Nat /\ p.gen > 0 /\ p.life \in Lives
           /\ p.version \in Versions /\ p.version > 0 /\ p.at \in Ats
           /\ p.awaits \in Nat /\ p.project \in Versions /\ p.settings \in Versions
BY BoundsAssumption DEF Records, Versions

LEMMA MovedIs ==
    ASSUME NEW p \in Records, NEW a \in Ats
    PROVE  LET q == [p EXCEPT !.at = a]
           IN  /\ q \in Records /\ SamePass(q, p) /\ q.at = a /\ q.awaits = p.awaits
               /\ q.project = p.project /\ q.settings = p.settings
BY DEF Records, SamePass

LEMMA AsksIs ==
    ASSUME NEW p \in Records, NEW s \in Versions
    PROVE  LET q == AsksSettings(p, s)
           IN  /\ q \in Records /\ SamePass(q, p) /\ q.at = "settings"
               /\ q.awaits = p.awaits /\ q.project = p.project /\ q.settings = s
BY DEF Records, SamePass, AsksSettings, Ats

LEMMA ReadIs ==
    ASSUME NEW p \in Records, NEW v \in Versions
    PROVE  LET q == [p EXCEPT !.project = v]
           IN  /\ q \in Records /\ SamePass(q, p) /\ q.at = p.at
               /\ q.project = v /\ q.settings = p.settings
BY DEF Records, SamePass

LEMMA BegunIs ==
    ASSUME NEW p \in Records, NEW v \in Versions
    PROVE  LET q == [p EXCEPT !.at = "project", !.project = v]
           IN  /\ q \in Records /\ SamePass(q, p) /\ q.at = "project" /\ q.project = v
BY DEF Records, SamePass, Ats

LEMMA WaitingIs ==
    ASSUME NEW p \in Records, NEW n \in Nat
    PROVE  LET q == [p EXCEPT !.at = "waiting", !.awaits = n]
           IN  /\ q \in Records /\ SamePass(q, p) /\ q.at = "waiting" /\ q.awaits = n
BY DEF Records, SamePass, Ats

LEMMA ReportIs ==
    ASSUME NEW v \in Versions, NEW p \in Versions, NEW s \in Versions, NEW g \in Nat,
           NEW e \in BOOLEAN
    PROVE  LET r == Report(v, p, s, g, e)
           IN  /\ r \in Reports /\ r # None
               /\ r.version = v /\ r.project = p /\ r.settings = s /\ r.gen = g
               /\ r.error = e
<1>1. Report(v, p, s, g, e) \in Reports
  BY DEF Report, Reports
<1>2. Report(v, p, s, g, e).is = "report" /\ None.is = "none"
  BY DEF Report, None
<1>3. Report(v, p, s, g, e) # None
  BY <1>2
<1> QED BY <1>1, <1>3 DEF Report

LEMMA ReportFields ==
    ASSUME NEW r \in Reports
    PROVE  /\ r.version \in Versions /\ r.project \in Versions /\ r.settings \in Versions
           /\ r.gen \in Nat /\ r.error \in BOOLEAN
BY DEF Reports

LEMMA TimerIs ==
    ASSUME NEW t \in Timers, t # None
    PROVE  t.gen \in Nat /\ t.gen > 0 /\ t.life \in Lives
BY DEF Timers

\* What Schedule starts.
LEMMA NewTimerIs ==
    ASSUME generation \in Nat, NEW l \in Lives
    PROVE  /\ Timer(l) \in Timers /\ Timer(l) # None
           /\ Timer(l).gen = generation + 1 /\ Timer(l).life = l
<1>1. Timer(l).is = "timer" /\ None.is = "none"
  BY DEF Timer, None
<1>2. Timer(l) # None
  BY <1>1
<1> QED BY <1>2 DEF Timer, Timers

LEMMA ReadableIs ==
    ASSUME DocInv, ClockInv, NEW s \in Readable
    PROVE  /\ s \in Versions /\ s \in 0..settings /\ s # Unread
           /\ s = settings \/ (s = cache /\ cache # Unread)
BY BoundsAssumption DEF DocInv, ClockInv, Readable, Versions, Unread

-----------------------------------------------------------------------------
(* What the steps do to the timers and the passes.                         *)

\* The timers and the passes of this generation are left alone.
SameGeneration == UNCHANGED <<docVars, generation, localTimer, fullTimer>>

\* Whatever runs was started before: a step that starts no pass.
Kept ==
    /\ passes' \subseteq Passes
    /\ \A q \in passes' : \E p \in passes :
          SamePass(q, p) /\ (q.at = "superseded" => p.at = "superseded" \/ q.gen # generation')
    /\ \A q, r \in passes' : q.kind = r.kind /\ q.gen = r.gen => q = r

LEMMA SamePassIs == ASSUME NEW p PROVE SamePass(p, p)
BY DEF SamePass

LEMMA FewerKept ==
    ASSUME PassInv, passes' \subseteq passes
    PROVE  Kept
BY SamePassIs DEF PassInv, Kept

\* A pass moves on.
LEMMA OneMovesKept ==
    ASSUME PassInv, NEW p \in passes, NEW q \in Passes, SamePass(q, p), q.at # "superseded",
           passes' \subseteq (passes \ {p}) \cup {q}
    PROVE  Kept
<1>1. passes' \subseteq Passes
  BY DEF PassInv
<1>2. ASSUME NEW r \in passes'
      PROVE  \E o \in passes : SamePass(r, o) /\ (r.at = "superseded" => o.at = "superseded")
  <2>1. CASE r = q
    BY <2>1
  <2>2. CASE r # q
    BY <2>2, SamePassIs
  <2> QED BY <2>1, <2>2
<1>3. ASSUME NEW r \in passes', NEW s \in passes', r.kind = s.kind, r.gen = s.gen PROVE r = s
  <2>1. \A o \in passes : o.kind = q.kind /\ o.gen = q.gen => o = p
    BY DEF PassInv, SamePass
  <2>2. r \in passes \ {p} \/ r = q
    OBVIOUS
  <2>3. s \in passes \ {p} \/ s = q
    OBVIOUS
  <2> QED BY <1>3, <2>1, <2>2, <2>3 DEF PassInv
<1> QED BY <1>1, <1>2, <1>3 DEF Kept

\* What a request of the worker's does to those before it.
LEMMA SupersededIs ==
    ASSUME PassInv, NEW kinds, NEW q \in Superseded(kinds)
    PROVE  \E p \in passes :
             /\ q = p \/ (p.at = "worker" /\ p.kind \in kinds /\ q = [p EXCEPT !.at = "superseded"])
             /\ q \in Passes /\ SamePass(q, p)
             /\ q.at = "superseded" => p.at \in {"worker", "superseded"}
             /\ q.at # "superseded" => q = p
<1>1. PICK p \in passes : q = IF p.at = "worker" /\ p.kind \in kinds
                              THEN [p EXCEPT !.at = "superseded"] ELSE p
  BY DEF Superseded
<1>2. p \in Records /\ p \in Passes
  BY DEF PassInv, Passes
<1>3. CASE p.at = "worker" /\ p.kind \in kinds
  <2>1. q = [p EXCEPT !.at = "superseded"]
    BY <1>1, <1>3
  <2>2. q \in Records /\ SamePass(q, p) /\ q.at = "superseded"
    BY <1>2, <2>1, MovedIs DEF Ats
  <2> QED BY <1>3, <2>1, <2>2 DEF Passes
<1>4. CASE ~(p.at = "worker" /\ p.kind \in kinds)
  <2>1. q = p
    BY <1>1, <1>4
  <2> QED BY <1>2, <2>1, SamePassIs
<1> QED BY <1>3, <1>4

\* No two passes become one.
LEMMA SupersededUnique ==
    ASSUME PassInv, NEW kinds, NEW q \in Superseded(kinds), NEW r \in Superseded(kinds),
           q.kind = r.kind, q.gen = r.gen
    PROVE  q = r
<1> DEFINE F(p) == IF p.at = "worker" /\ p.kind \in kinds
                   THEN [p EXCEPT !.at = "superseded"] ELSE p
<1>0. ASSUME NEW p \in passes PROVE F(p).kind = p.kind /\ F(p).gen = p.gen
  <2>1. p \in Records
    BY DEF PassInv, Passes
  <2> QED BY <2>1, MovedIs DEF Ats, SamePass
<1>1. PICK p \in passes : q = F(p)
  BY DEF Superseded
<1>2. PICK o \in passes : r = F(o)
  BY DEF Superseded
<1> HIDE DEF F
<1>3. p = o
  BY <1>0, <1>1, <1>2 DEF PassInv
<1> QED BY <1>1, <1>2, <1>3

\* The passes go on while the module is scheduled anew.
LEMMA RenewedPasses ==
    ASSUME Types, Kept, TimerInv', generation' = generation + 1, life' \in Nat, life' >= life,
           \A l \in Lives : versions'[l] \in Nat /\ versions'[l] >= versions[l]
    PROVE  PassInv' /\ \A q \in passes' : q.gen # generation'
<1>1. ASSUME NEW q \in passes'
      PROVE  /\ q.gen \in 1..generation /\ q.life \in 1..life'
             /\ q.version \in 1..versions'[q.life]
  <2>1. PICK p \in passes : SamePass(q, p)
    BY DEF Kept
  <2>2. p.gen \in 1..generation /\ p.life \in 1..life /\ p.version \in 1..versions[p.life]
    BY DEF Types, PassInv
  <2>3. p.life \in Lives /\ life \in Nat /\ versions[p.life] \in Nat
    BY RecordIs DEF Types, PassInv, Passes, DocInv, Versions
  <2>4. p.life \in 1..life' /\ p.version \in 1..versions'[p.life]
    BY <2>2, <2>3
  <2> QED BY <2>1, <2>2, <2>4 DEF SamePass
<1>2. generation \in Nat
  BY DEF Types, TimerInv
<1>3. \A q \in passes' : q.gen \in 1..generation' /\ q.gen # generation'
  BY <1>1, <1>2
<1> QED BY <1>1, <1>3 DEF Kept, PassInv

LEMMA GoingPasses ==
    ASSUME Types, Kept, SameGeneration
    PROVE  PassInv'
<1>0. generation' = generation /\ localTimer' = localTimer /\ fullTimer' = fullTimer
      /\ life' = life /\ versions' = versions
  BY DEF SameGeneration, docVars
<1>1. ASSUME NEW q \in passes'
      PROVE  /\ q.gen \in 1..generation /\ q.life \in 1..life
             /\ q.version \in 1..versions[q.life]
             /\ localTimer # None => q.gen # generation
             /\ fullTimer # None /\ q.kind = "full" => q.gen # generation
             /\ q.gen = generation =>
                  /\ q.at # "superseded" /\ q.version = versions[q.life]
                  /\ fullTimer # None => q.life = fullTimer.life
  <2>1. PICK p \in passes : /\ SamePass(q, p)
                            /\ q.at = "superseded" => p.at = "superseded" \/ q.gen # generation
    BY <1>0 DEF Kept
  <2>2. /\ p.gen \in 1..generation /\ p.life \in 1..life /\ p.version \in 1..versions[p.life]
        /\ localTimer # None => p.gen # generation
        /\ fullTimer # None /\ p.kind = "full" => p.gen # generation
        /\ p.gen = generation =>
             /\ p.at # "superseded" /\ p.version = versions[p.life]
             /\ fullTimer # None => p.life = fullTimer.life
    BY DEF Types, PassInv
  <2>3. q.kind = p.kind /\ q.gen = p.gen /\ q.life = p.life /\ q.version = p.version
    BY <2>1 DEF SamePass
  <2> QED BY <2>1, <2>2, <2>3
<1>2. passes' \subseteq Passes /\ \A q, r \in passes' : q.kind = r.kind /\ q.gen = r.gen => q = r
  BY DEF Kept
<1> QED BY <1>0, <1>1, <1>2 DEF PassInv

LEMMA ScheduleTimers ==
    ASSUME Types, NEW l \in Lives, NEW kinds, Schedule(l, kinds),
           life' \in Nat, l <= life', open' => life' > 0
    PROVE  /\ TimerInv' /\ generation' = generation + 1
           /\ "full" \in kinds => fullTimer' # None
           /\ \A t \in {localTimer', fullTimer'} \ {None} : t.life = l
<1>1. generation \in Nat
  BY DEF Types, TimerInv
<1>2. /\ Timer(l) \in Timers /\ Timer(l) # None
      /\ Timer(l).gen = generation + 1 /\ Timer(l).life = l
  BY <1>1, NewTimerIs
<1>3. /\ generation' = generation + 1 /\ completed' = 0
      /\ localTimer' \in {Timer(l), None} /\ fullTimer' \in {Timer(l), None}
      /\ "full" \in kinds => fullTimer' = Timer(l)
  BY DEF Schedule
<1>4. None \in Timers
  BY DEF Timers
<1>5. \A t \in {localTimer', fullTimer'} \ {None} : t = Timer(l)
  BY <1>3
<1>6. localTimer' \in Timers /\ fullTimer' \in Timers
  BY <1>2, <1>3, <1>4
<1>7. localTimer' # None /\ fullTimer' # None => localTimer'.life = fullTimer'.life
  BY <1>3
<1>8. generation' \in Nat /\ generation' > 0 /\ completed' \in {0, generation'}
  BY <1>1, <1>3
<1>9. \A t \in {localTimer', fullTimer'} \ {None} : t.gen = generation' /\ t.life <= life'
  BY <1>2, <1>3, <1>5
<1>10. TimerInv'
  BY <1>6, <1>7, <1>8, <1>9 DEF TimerInv
<1> QED BY <1>2, <1>3, <1>5, <1>10

LEMMA SameTimers ==
    ASSUME Types, SameGeneration, completed' \in {0, generation}
    PROVE  TimerInv'
BY DEF Types, TimerInv, SameGeneration, docVars

LEMMA EventIs ==
    ASSUME DocInv, Event
    PROVE  events' = events + 1 /\ events' \in 0..MaxEvents /\ faults' = faults
BY BoundsAssumption DEF DocInv, Event

LEMMA SameDocs ==
    ASSUME DocInv, UNCHANGED docVars, events' = events \/ Event
    PROVE  DocInv' /\ events' >= events
<1>1. events' \in 0..MaxEvents /\ events' >= events
  BY EventIs DEF DocInv
<1>2. open' = open /\ life' = life /\ versions' = versions
  BY DEF docVars
<1>3. ASSUME NEW l \in Lives PROVE versions[l] <= events' + 1
  BY <1>1, <1>3 DEF DocInv, Versions
<1> QED BY <1>1, <1>2, <1>3 DEF DocInv

LEMMA SameClocks ==
    ASSUME DocInv, ClockInv, UNCHANGED <<project, settings>>, events' \in Nat, events' >= events,
           cache' = cache \/ cache' = Unread \/ cache' \in Readable
    PROVE  ClockInv'
<1>1. cache' = Unread \/ cache' \in 0..settings
  BY ReadableIs DEF ClockInv
<1>2. project \in 0..events' /\ settings \in 0..events'
  BY DEF DocInv, ClockInv
<1> QED BY <1>1, <1>2 DEF ClockInv

LEMMA LivesIs == ASSUME DocInv, life > 0 PROVE life \in Lives
BY BoundsAssumption DEF DocInv, Lives

LEMMA VersionsIs ==
    ASSUME DocInv, NEW l \in Lives
    PROVE  versions[l] \in Nat
BY DEF DocInv, Versions

\* A project, settings or configuration that changes.
LEMMA RerunTypes ==
    ASSUME Types, NEW kinds, Rerun(kinds), UNCHANGED <<docVars, passes, earlyRun, shownVars>>
    PROVE  TimerInv' /\ PassInv' /\ ShownInv'
<1>0. Kept
  BY FewerKept DEF Types
<1>1. CASE open
  <2>1. life \in Lives /\ Schedule(life, kinds) /\ life' = life /\ life \in Nat /\ life > 0
    BY <1>1, LivesIs DEF Types, TimerInv, DocInv, Rerun, docVars
  <2>2. TimerInv' /\ generation' = generation + 1
    BY <2>1, ScheduleTimers
  <2>3. \A l \in Lives : versions'[l] \in Nat /\ versions'[l] >= versions[l]
    BY VersionsIs DEF docVars, Types
  <2>4. PassInv'
    BY <1>0, <2>1, <2>2, <2>3, RenewedPasses
  <2>5. generation \in Nat /\ generation' = generation + 1 /\ earlyRun' = earlyRun
    BY <2>2 DEF Types, TimerInv
  <2>6. ShownInv'
    BY <2>5 DEF Types, ShownInv, shownVars, Runs
  <2> QED BY <2>2, <2>4, <2>6
<1>2. CASE ~open
  <2>1. SameGeneration /\ completed' = completed /\ generation' = generation
    BY <1>2 DEF Rerun, schedulerVars, SameGeneration
  <2>2. TimerInv'
    BY <2>1, SameTimers DEF Types, TimerInv
  <2>3. PassInv'
    BY <1>0, <2>1, GoingPasses
  <2>4. ShownInv'
    BY <2>1 DEF Types, ShownInv, shownVars
  <2> QED BY <2>2, <2>3, <2>4
<1> QED BY <1>1, <1>2

-----------------------------------------------------------------------------
(* What happens to the module keeps the types.                             *)

LEMMA OpenTypes == ASSUME Types, Open PROVE Types'
<1>0. life + 1 \in Lives /\ life \in Nat /\ life' = life + 1 /\ open' = TRUE /\ events' = events
      /\ versions' = [versions EXCEPT ![life + 1] = 1]
  <2>1. /\ life < MaxLives /\ life' = life + 1 /\ open' = TRUE /\ events' = events
        /\ versions' = [versions EXCEPT ![life + 1] = 1]
    BY DEF Open
  <2> QED BY <2>1, BoundsAssumption DEF Types, DocInv, Lives
<1>1. DocInv'
  <2>1. versions' \in [Lives -> Versions]
    <3>1. 1 \in Versions /\ versions \in [Lives -> Versions]
      BY BoundsAssumption DEF Versions, Types, DocInv
    <3> QED BY <1>0, <3>1
  <2>2. ASSUME NEW l \in Lives
        PROVE  (versions'[l] > 0 <=> l <= life') /\ versions'[l] <= events + 1
    <3>1. (versions[l] > 0 <=> l <= life) /\ versions[l] <= events + 1
      BY DEF Types, DocInv
    <3>2. versions'[l] = IF l = life + 1 THEN 1 ELSE versions[l]
      BY <1>0 DEF Types, DocInv
    <3>3. CASE l = life + 1
      BY <1>0, <3>2, <3>3 DEF Types, DocInv
    <3>4. CASE l # life + 1
      BY <1>0, <3>1, <3>2, <3>4 DEF Lives
    <3> QED BY <3>3, <3>4
  <2>3. life' \in 0..MaxLives
    BY <1>0, BoundsAssumption DEF Lives
  <2> QED BY <1>0, <2>1, <2>2, <2>3 DEF Types, DocInv
<1>2. Schedule(life + 1, {"local", "full"}) /\ life' \in Nat /\ life + 1 <= life' /\ life' > 0
  <2>1. Schedule(life + 1, {"local", "full"})
    BY DEF Open
  <2> QED BY <1>0, <2>1
<1>3. TimerInv' /\ generation' = generation + 1
  BY <1>0, <1>2, ScheduleTimers
<1>4. Kept
  BY FewerKept DEF Types, Open
<1>5. \A l \in Lives : versions'[l] \in Nat /\ versions'[l] >= versions[l]
  <2> SUFFICES ASSUME NEW l \in Lives PROVE versions'[l] \in Nat /\ versions'[l] >= versions[l]
    OBVIOUS
  <2>1. versions[l] \in Nat /\ (versions[l] > 0 <=> l <= life)
    BY VersionsIs DEF Types, DocInv
  <2>2. versions'[l] = IF l = life + 1 THEN 1 ELSE versions[l]
    BY <1>0 DEF Types, DocInv
  <2> QED BY <1>0, <2>1, <2>2 DEF Lives
<1>6. PassInv'
  BY <1>0, <1>2, <1>3, <1>4, <1>5, RenewedPasses
<1>7. FlagInv' /\ ShownInv'
  <2>1. generation \in Nat
    BY DEF Types, TimerInv
  <2>2. UNCHANGED <<enabled, watched, unsaid, known, up, earlyRun, full, early>>
    BY DEF Open, inputVars, metaVars, shownVars
  <2>3. FlagInv'
    BY <2>2 DEF Types, FlagInv
  <2>4. ShownInv'
    BY <1>3, <2>1, <2>2 DEF Types, ShownInv, Runs
  <2> QED BY <2>3, <2>4
<1>8. ClockInv'
  <2>1. cache' = cache \/ cache' = Unread
    BY DEF Open
  <2>2. UNCHANGED <<project, settings>>
    BY DEF Open, inputVars
  <2>3. events' \in Nat /\ events' >= events
    BY <1>0 DEF Types, DocInv
  <2> QED BY <2>1, <2>2, <2>3, SameClocks DEF Types
<1>9. RetryInv'
  <2>1. UNCHANGED <<faults, retries, retrying>>
    BY DEF Open, metaVars
  <2> QED BY <1>0, <2>1 DEF Types, RetryInv, Lives
<1> QED BY <1>1, <1>3, <1>6, <1>7, <1>8, <1>9 DEF Types

LEMMA EditTypes == ASSUME Types, Edit PROVE Types'
<1>0. /\ life \in Lives /\ life \in Nat /\ life > 0 /\ life' = life /\ open' = open
      /\ versions' = [versions EXCEPT ![life] = versions[life] + 1]
  BY LivesIs DEF Edit, Types, DocInv, TimerInv
<1>1. events' = events + 1 /\ events' \in 0..MaxEvents /\ faults' = faults /\ events \in Nat
  BY EventIs DEF Edit, Types, DocInv
<1>5. ASSUME NEW l \in Lives
      PROVE  /\ versions'[l] = IF l = life THEN versions[l] + 1 ELSE versions[l]
             /\ versions[l] \in Nat /\ (versions[l] > 0 <=> l <= life)
             /\ versions[l] <= events + 1
  BY <1>0, VersionsIs DEF Types, DocInv
<1>2. DocInv'
  <2>1. ASSUME NEW l \in Lives
        PROVE  versions'[l] \in Nat /\ (versions'[l] > 0 <=> l <= life) /\ versions'[l] <= events' + 1
    BY <1>0, <1>1, <1>5
  <2>2. ASSUME NEW l \in Lives PROVE versions'[l] \in Versions
    BY <1>1, <2>1, BoundsAssumption DEF Versions
  <2>3. DOMAIN versions' = Lives /\ versions' = [l \in Lives |-> versions'[l]]
    BY <1>0 DEF Types, DocInv
  <2>4. versions' \in [Lives -> Versions]
    BY <2>2, <2>3
  <2> QED BY <1>0, <1>1, <2>1, <2>4 DEF Types, DocInv
<1>3. PICK kinds : Schedule(life, kinds)
  BY DEF Edit
<1>4. TimerInv' /\ generation' = generation + 1
  BY <1>0, <1>3, ScheduleTimers DEF Types, TimerInv
<1>6. Kept
  BY FewerKept DEF Types, Edit
<1>7. \A l \in Lives : versions'[l] \in Nat /\ versions'[l] >= versions[l]
  BY <1>5
<1>8. PassInv'
  BY <1>0, <1>4, <1>6, <1>7, RenewedPasses
<1>9. FlagInv' /\ ShownInv'
  <2>1. generation \in Nat
    BY DEF Types, TimerInv
  <2> QED BY <1>4, <2>1 DEF Edit, inputVars, metaVars, settingsVars, shownVars, Types, FlagInv, ShownInv, Runs
<1>10. ClockInv'
  BY <1>1, SameClocks DEF Edit, inputVars, settingsVars, Types
<1>11. RetryInv'
  BY <1>0, <1>1 DEF Edit, metaVars, Types, RetryInv
<1> QED BY <1>2, <1>4, <1>8, <1>9, <1>10, <1>11 DEF Types

LEMMA ActivateTypes == ASSUME Types, Activate PROVE Types'
<1>0. life \in Lives /\ life \in Nat /\ life > 0 /\ life' = life /\ open' = open /\ versions' = versions
  BY LivesIs DEF Activate, docVars, Types, DocInv, TimerInv
<1>1. events' = events + 1 /\ events' \in 0..MaxEvents /\ faults' = faults /\ events \in Nat
  BY EventIs DEF Activate, Types, DocInv
<1>2. DocInv'
  BY SameDocs DEF Activate, Types
<1>3. TimerInv' /\ generation' = generation + 1
  BY <1>0, ScheduleTimers DEF Activate, Types, TimerInv
<1>4. Kept
  BY FewerKept DEF Types, Activate
<1>5. PassInv'
  BY <1>0, <1>3, <1>4, VersionsIs, RenewedPasses DEF Types
<1>6. FlagInv' /\ ShownInv'
  <2>1. generation \in Nat
    BY DEF Types, TimerInv
  <2> QED BY <1>3, <2>1 DEF Activate, inputVars, metaVars, settingsVars, shownVars, Types, FlagInv, ShownInv, Runs
<1>7. ClockInv'
  BY <1>1, SameClocks DEF Activate, inputVars, settingsVars, Types
<1>8. RetryInv'
  BY <1>0, <1>1 DEF Activate, metaVars, Types, RetryInv
<1> QED BY <1>2, <1>3, <1>5, <1>6, <1>7, <1>8 DEF Types

LEMMA CloseTypes == ASSUME Types, Close PROVE Types'
<1>0. life \in Nat /\ life' = life /\ open' = FALSE /\ versions' = versions /\ generation \in Nat
  BY DEF Close, Types, DocInv, TimerInv
<1>1. events' = events + 1 /\ events' \in 0..MaxEvents /\ faults' = faults /\ events \in Nat
  BY EventIs DEF Close, Types, DocInv
<1>2. DocInv'
  <2>1. ASSUME NEW l \in Lives PROVE versions[l] <= events' + 1
    BY <1>1, VersionsIs DEF Types, DocInv
  <2> QED BY <1>0, <1>1, <2>1 DEF Types, DocInv
<1>3. localTimer' = None /\ fullTimer' = None /\ generation' = generation + 1 /\ completed' = 0
  BY DEF Close
<1>4. TimerInv'
  BY <1>0, <1>3 DEF TimerInv, Timers
<1>5. passes' = Superseded({"local", "full"})
  BY DEF Close
<1>6. Kept
  <2>1. ASSUME NEW q \in passes'
        PROVE  q \in Passes /\ \E p \in passes : SamePass(q, p) /\ q.gen # generation'
    <3>1. PICK p \in passes : q \in Passes /\ SamePass(q, p)
      BY <1>5, SupersededIs DEF Types
    <3>2. p.gen \in 1..generation
      BY DEF Types, PassInv
    <3> QED BY <1>0, <1>3, <3>1, <3>2 DEF SamePass
  <2>2. \A q, r \in passes' : q.kind = r.kind /\ q.gen = r.gen => q = r
    BY <1>5, SupersededUnique DEF Types
  <2> QED BY <2>1, <2>2 DEF Kept
<1>7. PassInv'
  BY <1>0, <1>3, <1>4, <1>6, VersionsIs, RenewedPasses DEF Types
<1>8. FlagInv' /\ ShownInv'
  <2>1. full' = None /\ early' = None /\ earlyRun' = earlyRun
    BY DEF Close, ShowNothing
  <2>2. /\ enabled' = enabled /\ watched' = FALSE /\ unsaid' = FALSE /\ known' = FALSE
        /\ up' = up
    BY DEF Close
  <2>3. FlagInv'
    BY <2>2 DEF Types, FlagInv
  <2>4. ShownInv'
    BY <1>0, <1>3, <2>1 DEF Types, ShownInv, Runs
  <2> QED BY <2>3, <2>4
<1>9. ClockInv'
  BY <1>1, SameClocks DEF Close, Types
<1>10. RetryInv'
  BY <1>0, <1>1 DEF Close, Types, RetryInv
<1> QED BY <1>2, <1>4, <1>7, <1>8, <1>9, <1>10 DEF Types

LEMMA ProjectChangesTypes == ASSUME Types, ProjectChanges PROVE Types'
<1>1. events' = events + 1 /\ events' \in 0..MaxEvents /\ faults' = faults /\ events \in Nat
  BY EventIs DEF ProjectChanges, Types, DocInv
<1>2. DocInv'
  BY SameDocs DEF ProjectChanges, Types
<1>3. TimerInv' /\ PassInv' /\ ShownInv'
  BY RerunTypes DEF ProjectChanges
<1>4. FlagInv'
  BY DEF ProjectChanges, metaVars, settingsVars, Types, FlagInv
<1>5. ClockInv'
  BY <1>1 DEF ProjectChanges, settingsVars, Types, ClockInv
<1>6. RetryInv'
  BY <1>1 DEF ProjectChanges, docVars, metaVars, Types, RetryInv
<1> QED BY <1>2, <1>3, <1>4, <1>5, <1>6 DEF Types

LEMMA SettingsChangeTypes == ASSUME Types, SettingsChange PROVE Types'
<1>1. events' = events + 1 /\ events' \in 0..MaxEvents /\ faults' = faults /\ events \in Nat
  BY EventIs DEF SettingsChange, Types, DocInv
<1>2. DocInv'
  BY SameDocs DEF SettingsChange, Types
<1>3. SameGeneration /\ Kept /\ completed' = completed /\ generation' = generation
  BY FewerKept DEF SettingsChange, schedulerVars, SameGeneration, Types
<1>4. TimerInv' /\ PassInv'
  BY <1>3, SameTimers, GoingPasses DEF Types, TimerInv
<1>5. ShownInv'
  BY <1>3 DEF SettingsChange, shownVars, Types, ShownInv
<1>6. FlagInv'
  <2>1. UNCHANGED <<enabled, watched, known, up>> /\ unsaid' = watched
    BY DEF SettingsChange, metaVars, settingsVars
  <2> QED BY <2>1 DEF Types, FlagInv
<1>7. ClockInv'
  <2>1. settings' = settings + 1 /\ project' = project /\ cache' = cache
    BY DEF SettingsChange, settingsVars
  <2> QED BY <1>1, <2>1 DEF Types, ClockInv
<1>8. RetryInv'
  BY <1>1 DEF SettingsChange, docVars, metaVars, Types, RetryInv
<1> QED BY <1>2, <1>4, <1>5, <1>6, <1>7, <1>8 DEF Types

LEMMA SettingsSaidTypes == ASSUME Types, SettingsSaid PROVE Types'
<1>1. events' = events /\ events \in Nat /\ faults' = faults
  BY DEF SettingsSaid, Types, DocInv
<1>2. DocInv'
  BY <1>1, SameDocs DEF SettingsSaid, Types
<1>3. TimerInv' /\ PassInv' /\ ShownInv'
  BY RerunTypes DEF SettingsSaid
<1>4. FlagInv'
  <2>1. UNCHANGED <<enabled, watched, known, up>> /\ unsaid' = FALSE
    BY DEF SettingsSaid, metaVars
  <2> QED BY <2>1 DEF Types, FlagInv
<1>5. ClockInv'
  BY <1>1, SameClocks DEF SettingsSaid, Types
<1>6. RetryInv'
  BY <1>1 DEF SettingsSaid, docVars, metaVars, Types, RetryInv
<1> QED BY <1>2, <1>3, <1>4, <1>5, <1>6 DEF Types

LEMMA ConfigurationTypes == ASSUME Types, ConfigurationChanges PROVE Types'
<1>1. events' = events + 1 /\ events' \in 0..MaxEvents /\ faults' = faults /\ events \in Nat
  BY EventIs DEF ConfigurationChanges, Types, DocInv
<1>2. DocInv'
  BY SameDocs DEF ConfigurationChanges, Types
<1>3. TimerInv' /\ PassInv' /\ ShownInv'
  BY RerunTypes DEF ConfigurationChanges
<1>4. FlagInv'
  <2>1. UNCHANGED <<unsaid, watched, known, up>> /\ enabled' = ~enabled
    BY DEF ConfigurationChanges, metaVars
  <2> QED BY <2>1 DEF Types, FlagInv
<1>5. ClockInv'
  BY <1>1, SameClocks DEF ConfigurationChanges, Types
<1>6. RetryInv'
  BY <1>1 DEF ConfigurationChanges, docVars, metaVars, Types, RetryInv
<1> QED BY <1>2, <1>3, <1>4, <1>5, <1>6 DEF Types

LEMMA FireRetryTypes == ASSUME Types, NEW l \in Lives, FireRetry(l) PROVE Types'
<1>0. /\ l <= life /\ life \in Nat /\ life' = life /\ open' = open /\ versions' = versions
      /\ events' = events /\ events \in Nat /\ faults' = faults /\ retries' = retries
      /\ retrying' = [retrying EXCEPT ![l] = retrying[l] - 1] /\ retrying[l] > 0
  BY DEF FireRetry, docVars, Types, DocInv, RetryInv
<1>1. DocInv'
  BY <1>0 DEF Types, DocInv
<1>2. TimerInv' /\ generation' = generation + 1
  <2>1. life' > 0
    BY <1>0 DEF Lives
  <2> QED BY <1>0, <2>1, ScheduleTimers DEF FireRetry
<1>3. Kept
  BY FewerKept DEF FireRetry, Types
<1>4. PassInv'
  BY <1>0, <1>2, <1>3, VersionsIs, RenewedPasses DEF Types
<1>5. ShownInv'
  <2>1. generation \in Nat
    BY DEF Types, TimerInv
  <2>2. UNCHANGED <<earlyRun, full, early>>
    BY DEF FireRetry, shownVars
  <2> QED BY <1>2, <2>1, <2>2 DEF Types, ShownInv, Runs
<1>6. FlagInv'
  BY DEF FireRetry, inputVars, settingsVars, Types, FlagInv
<1>7. ClockInv'
  BY <1>0 DEF FireRetry, inputVars, settingsVars, Types, ClockInv
<1>8. RetryInv'
  <2>1. ASSUME NEW k \in Lives
        PROVE  retrying'[k] \in 0..faults /\ retrying'[k] <= retrying[k]
    BY <1>0 DEF Types, RetryInv
  <2>2. retrying' \in [Lives -> 0..faults]
    <3>1. DOMAIN retrying' = Lives /\ retrying' = [k \in Lives |-> retrying'[k]]
      BY <1>0 DEF Types, RetryInv
    <3> QED BY <2>1, <3>1
  <2>3. ASSUME NEW k \in Lives, retrying'[k] > 0 PROVE k <= life
    BY <2>1, <2>3 DEF Types, RetryInv
  <2> QED BY <1>0, <2>2, <2>3 DEF Types, RetryInv
<1> QED BY <1>1, <1>2, <1>4, <1>5, <1>6, <1>7, <1>8 DEF Types

-----------------------------------------------------------------------------
(* A pass begins.                                                          *)

\* What a timer's pass reads first.
LEMMA NewPassIs ==
    ASSUME Types, NEW kind \in Kinds, NEW t \in {localTimer, fullTimer}, t # None
    PROVE  LET p == NewPass(kind, t)
           IN  /\ p \in Records /\ p.kind = kind /\ p.gen = generation /\ p.life = t.life
               /\ p.life \in 1..life /\ p.version = versions[t.life] /\ p.at = "begun"
<1>1. t \in Timers /\ t.gen = generation /\ t.life <= life
  BY DEF Types, TimerInv
<1>2. t.gen \in Nat \ {0} /\ t.life \in Lives
  BY <1>1, TimerIs
<1>3. versions[t.life] \in Versions /\ versions[t.life] # 0
  BY <1>1, <1>2, VersionsIs DEF Types, DocInv
<1>4. Unread \in Versions
  BY BoundsAssumption DEF Unread, Versions
<1>5. t.life \in 1..life
  BY <1>1, <1>2 DEF Types, DocInv, Lives
<1> QED BY <1>1, <1>2, <1>3, <1>4, <1>5 DEF NewPass, Records, Ats, Kinds

\* A pass that begins asks for the project, or without the worker for the
\* settings alone.
BegunAs(q, p) ==
    /\ q \in Passes /\ SamePass(q, p) /\ q.at \in {"project", "settings"}
    /\ q.at = "project" => q.project = project

LEMMA BegunCases ==
    ASSUME Types, NEW p \in Records, NEW s \in Versions
    PROVE  /\ ~enabled => Begun(p, s) = {}
           /\ enabled /\ (p.kind = "full" \/ up["local"]) =>
                \E q \in Passes : Begun(p, s) = {q} /\ BegunAs(q, p) /\ q.at = "project"
           /\ Begun(p, s) = {} \/ \E q \in Passes : Begun(p, s) = {q} /\ BegunAs(q, p)
<1>1. project \in Versions
  BY BoundsAssumption DEF Types, DocInv, ClockInv, Versions
<1>2. CASE ~enabled
  BY <1>2 DEF Begun
<1>3. CASE enabled /\ (p.kind = "full" \/ up["local"])
  <2> DEFINE q == [p EXCEPT !.at = "project", !.project = project]
  <2>1. q \in Records /\ SamePass(q, p) /\ q.at = "project" /\ q.project = project
    BY <1>1, BegunIs
  <2>2. Begun(p, s) = {q}
    BY <1>3 DEF Begun
  <2> HIDE DEF q
  <2>3. q \in Passes
    BY <2>1 DEF Passes
  <2> QED BY <1>3, <2>1, <2>2, <2>3 DEF BegunAs
<1>4. CASE enabled /\ ~(p.kind = "full" \/ up["local"]) /\ known
  <2> DEFINE q == AsksSettings(p, s)
  <2>1. q \in Records /\ SamePass(q, p) /\ q.at = "settings"
    BY AsksIs
  <2>2. Begun(p, s) = {q}
    BY <1>4 DEF Begun
  <2> HIDE DEF q
  <2>3. q \in Passes
    BY <2>1 DEF Passes
  <2> QED BY <1>4, <2>1, <2>2, <2>3 DEF BegunAs
<1>5. CASE enabled /\ ~(p.kind = "full" \/ up["local"]) /\ ~known
  BY <1>5 DEF Begun
<1> QED BY <1>2, <1>3, <1>4, <1>5

LEMMA BeginIs ==
    ASSUME Types, NEW p \in Records, NEW others, Begin(p, others)
    PROVE  /\ ~enabled => passes' = others
           /\ enabled /\ (p.kind = "full" \/ up["local"]) =>
                /\ \E q \in Passes : passes' = others \cup {q} /\ BegunAs(q, p) /\ q.at = "project"
                /\ cache' = cache
           /\ passes' = others \/ \E q \in Passes : passes' = others \cup {q} /\ BegunAs(q, p)
           /\ cache' = cache \/ cache' \in Readable
           /\ ~enabled => cache' = cache
           /\ IF ~enabled /\ Current(p) THEN full' = None /\ early' = None ELSE UNCHANGED shownVars
           /\ watched' = (watched \/ enabled)
           /\ generation' = generation /\ completed' = completed
<1>1. PICK s \in Readable :
        /\ passes' = others \cup Begun(p, s)
        /\ cache' = IF \E q \in Begun(p, s) : q.at = "settings" THEN s ELSE cache
  BY DEF Begin
<1>2. s \in Versions
  BY ReadableIs DEF Types
<1>3. /\ ~enabled => Begun(p, s) = {}
      /\ enabled /\ (p.kind = "full" \/ up["local"]) =>
           \E q \in Passes : Begun(p, s) = {q} /\ BegunAs(q, p) /\ q.at = "project"
      /\ Begun(p, s) = {} \/ \E q \in Passes : Begun(p, s) = {q} /\ BegunAs(q, p)
  BY <1>2, BegunCases
<1>4. IF ~enabled /\ Current(p) THEN full' = None /\ early' = None ELSE UNCHANGED shownVars
  BY DEF Begin, ShowNothing
<1>5. /\ watched' = (watched \/ enabled) /\ generation' = generation /\ completed' = completed
  BY DEF Begin
<1>6. cache' = cache \/ cache' \in Readable
  BY <1>1
<1>7. ~enabled => passes' = others /\ cache' = cache
  BY <1>1, <1>3
<1>8. ASSUME enabled, p.kind = "full" \/ up["local"]
      PROVE  /\ \E q \in Passes : passes' = others \cup {q} /\ BegunAs(q, p) /\ q.at = "project"
             /\ cache' = cache
  <2>1. PICK q \in Passes : Begun(p, s) = {q} /\ BegunAs(q, p) /\ q.at = "project"
    BY <1>3, <1>8
  <2> QED BY <1>1, <2>1
<1>9. passes' = others \/ \E q \in Passes : passes' = others \cup {q} /\ BegunAs(q, p)
  BY <1>1, <1>3
<1> QED BY <1>4, <1>5, <1>6, <1>7, <1>8, <1>9

\* The types of what Begin leaves.
LEMMA BeginTypes ==
    ASSUME Types, NEW p \in Records, NEW others, Begin(p, others),
           UNCHANGED <<docVars, inputVars, metaVars, up, events, faults>>
    PROVE  /\ DocInv' /\ FlagInv' /\ ClockInv' /\ RetryInv'
           /\ full' \in Reports \cup {None} /\ early' \in Reports \cup {None}
           /\ generation' = generation /\ completed' = completed
<1>1. DocInv'
  BY SameDocs DEF Types
<1>2. FlagInv'
  <2>1. watched' = (watched \/ enabled) /\ UNCHANGED <<enabled, unsaid, known, up>>
    BY BeginIs DEF inputVars, metaVars
  <2> QED BY <2>1 DEF Types, FlagInv
<1>3. ClockInv'
  <2>1. cache' = cache \/ cache' \in Readable
    BY BeginIs
  <2>2. UNCHANGED <<project, settings>> /\ events' \in Nat /\ events' >= events
    BY DEF inputVars, Types, DocInv
  <2> QED BY <2>1, <2>2, SameClocks DEF Types
<1>4. RetryInv'
  BY DEF docVars, metaVars, Types, RetryInv
<1>5. IF ~enabled /\ Current(p) THEN full' = None /\ early' = None ELSE UNCHANGED shownVars
  BY BeginIs
<1>6. full' \in Reports \cup {None} /\ early' \in Reports \cup {None}
  BY <1>5 DEF shownVars, Types, ShownInv
<1> QED BY <1>1, <1>2, <1>3, <1>4, <1>6, BeginIs

\* The pass of a timer is the only one of its kind and generation.
LEMMA StartedPasses ==
    ASSUME Types, NEW q \in Passes, passes' \subseteq passes \cup {q},
           UNCHANGED docVars, generation' = generation,
           localTimer' = None, fullTimer' \in {fullTimer, None},
           q.gen = generation, q.life \in 1..life, q.version = versions[q.life],
           q.at # "superseded", q.kind = "full" => fullTimer' = None,
           fullTimer' # None => q.life = fullTimer.life,
           \A p \in passes : p.kind = q.kind => p.gen # generation
    PROVE  PassInv'
<1>0. life' = life /\ versions' = versions
  BY DEF docVars
<1>1. q \in Records /\ generation \in Nat
  BY DEF Passes, Types, TimerInv
<1>2. q.gen \in 1..generation /\ q.version \in 1..versions[q.life]
  BY <1>1, RecordIs, VersionsIs DEF Types
<1>3. \A p \in passes' : p.gen \in 1..generation /\ p.life \in 1..life
                         /\ p.version \in 1..versions[p.life]
  BY <1>2 DEF Types, PassInv
<1>4. \A p, r \in passes' : p.kind = r.kind /\ p.gen = r.gen => p = r
  <2> SUFFICES ASSUME NEW p \in passes', NEW r \in passes', p.kind = r.kind, p.gen = r.gen
               PROVE  p = r
    OBVIOUS
  <2>1. p \in passes \/ p = q
    OBVIOUS
  <2>2. r \in passes \/ r = q
    OBVIOUS
  <2> QED BY <2>1, <2>2 DEF Types, PassInv
<1>5. fullTimer' # None => \A p \in passes' : p.kind = "full" => p.gen # generation
  BY DEF Types, PassInv
<1>6. \A p \in passes' : p.gen = generation =>
         /\ p.at # "superseded" /\ p.version = versions[p.life]
         /\ fullTimer' # None => p.life = fullTimer'.life
  <2> SUFFICES ASSUME NEW p \in passes', p.gen = generation
               PROVE  /\ p.at # "superseded" /\ p.version = versions[p.life]
                      /\ fullTimer' # None => p.life = fullTimer'.life
    OBVIOUS
  <2>1. CASE p = q
    BY <2>1
  <2>2. CASE p \in passes
    BY <2>2 DEF Types, PassInv
  <2> QED BY <2>1, <2>2
<1>7. passes' \subseteq Passes
  BY DEF Types, PassInv
<1> QED BY <1>0, <1>3, <1>4, <1>5, <1>6, <1>7 DEF PassInv

LEMMA FireLocalTypes == ASSUME Types, FireLocal PROVE Types'
<1> DEFINE p == NewPass("local", localTimer)
<1>0. /\ p \in Records /\ p.kind = "local" /\ p.gen = generation /\ p.life = localTimer.life
      /\ p.life \in 1..life /\ p.version = versions[localTimer.life]
  BY NewPassIs DEF FireLocal, Kinds
<1>1. /\ Begin(p, passes) /\ localTimer' = None /\ fullTimer' = fullTimer /\ localTimer # None
      /\ UNCHANGED <<docVars, inputVars, metaVars, up, events, faults>>
      /\ earlyRun' = None \/ earlyRun' = [is |-> "run", gen |-> p.gen, version |-> p.version]
  BY DEF FireLocal
<1> HIDE DEF p
<1>2. /\ DocInv' /\ FlagInv' /\ ClockInv' /\ RetryInv'
      /\ full' \in Reports \cup {None} /\ early' \in Reports \cup {None}
      /\ generation' = generation /\ completed' = completed
  BY <1>0, <1>1, BeginTypes
<1>3. TimerInv'
  <2>1. None \in Timers
    BY DEF Timers
  <2> QED BY <1>1, <1>2, <2>1 DEF docVars, Types, TimerInv
<1>4. \A o \in passes : o.gen # generation
  BY <1>1 DEF Types, PassInv
<1>5. PassInv'
  <2>1. CASE passes' = passes
    <3>1. \A o \in passes : o.gen # generation
      BY <1>4
    <3> QED BY <1>1, <1>2, <2>1, <3>1 DEF docVars, Types, PassInv
  <2>2. CASE \E q \in Passes : passes' = passes \cup {q} /\ BegunAs(q, p)
    <3>1. PICK q \in Passes : passes' = passes \cup {q} /\ BegunAs(q, p)
      BY <2>2
    <3>2. /\ q.gen = generation /\ q.life = localTimer.life /\ q.life \in 1..life
          /\ q.version = versions[q.life] /\ q.at # "superseded" /\ q.kind = "local"
      BY <1>0, <3>1 DEF BegunAs, SamePass
    <3>3. fullTimer' # None => q.life = fullTimer.life
      BY <1>1, <3>2 DEF Types, TimerInv
    <3> QED BY <1>1, <1>2, <1>4, <3>1, <3>2, <3>3, StartedPasses
  <2> QED BY <1>0, <1>1, <2>1, <2>2, BeginIs
<1>6. ShownInv'
  <2>1. p.gen \in Nat \ {0} /\ p.version \in Versions /\ p.gen <= generation
    BY <1>0, RecordIs
  <2>2. earlyRun' = None \/ (earlyRun' \in Runs /\ earlyRun'.gen <= generation')
    BY <1>1, <1>2, <2>1 DEF Runs
  <2> QED BY <1>2, <2>2 DEF ShownInv
<1> QED BY <1>2, <1>3, <1>5, <1>6 DEF Types

LEMMA BeginFullTypes ==
    ASSUME Types, NEW p \in Records, p.kind = "full", NEW others, BeginFull(p, others),
           UNCHANGED <<docVars, inputVars, metaVars, up, events, faults>>
    PROVE  /\ DocInv' /\ FlagInv' /\ ClockInv' /\ RetryInv'
           /\ full' \in Reports \cup {None} /\ early' \in Reports \cup {None}
           /\ generation' = generation /\ completed' \in {0, generation}
           /\ passes' = others \/ \E q \in Passes : passes' = others \cup {q} /\ BegunAs(q, p)
<1>1. CASE EarlyDidAll(p)
  <2>1. /\ completed' = p.gen /\ passes' = others /\ p.gen = generation
        /\ UNCHANGED <<generation, settingsVars, shownVars>>
    BY <1>1 DEF BeginFull, EarlyDidAll, Current
  <2>2. DocInv'
    BY SameDocs DEF Types
  <2>3. FlagInv'
    BY <2>1 DEF inputVars, metaVars, settingsVars, Types, FlagInv
  <2>4. ClockInv' /\ RetryInv'
    BY <2>1 DEF docVars, inputVars, metaVars, settingsVars, Types, ClockInv, RetryInv
  <2> QED BY <2>1, <2>2, <2>3, <2>4 DEF shownVars, Types, ShownInv
<1>2. CASE ~EarlyDidAll(p)
  <2>1. Begin(p, others)
    BY <1>2 DEF BeginFull
  <2>2. completed \in {0, generation}
    BY DEF Types, TimerInv
  <2> QED BY <2>1, <2>2, BeginTypes, BeginIs
<1> QED BY <1>1, <1>2

LEMMA FireFullTypes == ASSUME Types, FireFull PROVE Types'
<1> DEFINE p == NewPass("full", fullTimer)
           w == [p EXCEPT !.at = "waiting", !.awaits = earlyRun.gen]
<1>0. /\ p \in Records /\ p.kind = "full" /\ p.gen = generation /\ p.life = fullTimer.life
      /\ p.life \in 1..life /\ p.version = versions[fullTimer.life]
  BY NewPassIs DEF FireFull, Kinds
<1>1. /\ localTimer' = None /\ fullTimer' = None /\ fullTimer # None
      /\ UNCHANGED <<docVars, inputVars, metaVars, earlyRun, up, events, faults>>
  BY DEF FireFull
<1>2. \/ /\ earlyRun # None /\ passes' = passes \cup {w}
         /\ UNCHANGED <<generation, completed, settingsVars, shownVars>>
      \/ BeginFull(p, passes)
  BY DEF FireFull
<1>w. earlyRun # None => w \in Records /\ SamePass(w, p) /\ w.at = "waiting"
  <2>1. earlyRun # None => earlyRun.gen \in Nat
    BY DEF Types, ShownInv, Runs
  <2> QED BY <1>0, <2>1, WaitingIs
<1> HIDE DEF w, p
<1>3. /\ DocInv' /\ FlagInv' /\ ClockInv' /\ RetryInv'
      /\ full' \in Reports \cup {None} /\ early' \in Reports \cup {None}
      /\ generation' = generation /\ completed' \in {0, generation}
      /\ passes' = passes \/ \E q \in Passes : /\ passes' = passes \cup {q}
                                               /\ SamePass(q, p) /\ q.at # "superseded"
  <2>1. CASE BeginFull(p, passes)
    <3>1. passes' = passes \/ \E q \in Passes : passes' = passes \cup {q} /\ BegunAs(q, p)
      BY <1>0, <1>1, <2>1, BeginFullTypes
    <3>2. \A q \in Passes : BegunAs(q, p) => SamePass(q, p) /\ q.at # "superseded"
      BY DEF BegunAs
    <3> QED BY <1>0, <1>1, <2>1, <3>1, <3>2, BeginFullTypes
  <2>2. CASE /\ earlyRun # None /\ passes' = passes \cup {w}
             /\ UNCHANGED <<generation, completed, settingsVars, shownVars>>
    <3>1. DocInv'
      BY <1>1, SameDocs DEF Types
    <3>2. FlagInv'
      BY <1>1, <2>2 DEF inputVars, metaVars, settingsVars, Types, FlagInv
    <3>3. ClockInv' /\ RetryInv'
      BY <1>1, <2>2 DEF docVars, inputVars, metaVars, settingsVars, Types, ClockInv, RetryInv
    <3>4. w \in Passes /\ SamePass(w, p) /\ w.at # "superseded"
      BY <1>w, <1>0, <2>2 DEF Passes, SamePass
    <3>5. completed \in {0, generation}
      BY DEF Types, TimerInv
    <3> QED BY <2>2, <3>1, <3>2, <3>3, <3>4, <3>5 DEF shownVars, Types, ShownInv
  <2> QED BY <1>2, <2>1, <2>2
<1>4. TimerInv'
  <2>1. None \in Timers
    BY DEF Timers
  <2> QED BY <1>1, <1>3, <2>1 DEF docVars, Types, TimerInv
<1>5. \A o \in passes : o.kind = "full" => o.gen # generation
  BY <1>1 DEF Types, PassInv
<1>6. PassInv'
  <2>1. CASE passes' = passes
    <3>1. Kept /\ life' = life /\ versions' = versions
      BY <1>1, <2>1, FewerKept DEF docVars, Types
    <3> QED BY <1>1, <1>3, <2>1, <3>1 DEF Types, PassInv
  <2>2. CASE \E q \in Passes : passes' = passes \cup {q} /\ SamePass(q, p) /\ q.at # "superseded"
    <3>1. PICK q \in Passes : passes' = passes \cup {q} /\ SamePass(q, p) /\ q.at # "superseded"
      BY <2>2
    <3>2. /\ q.gen = generation /\ q.life \in 1..life
          /\ q.version = versions[q.life] /\ q.kind = "full"
      BY <1>0, <3>1 DEF SamePass
    <3> QED BY <1>1, <1>3, <1>5, <3>1, <3>2, StartedPasses
  <2> QED BY <1>3, <2>1, <2>2
<1>7. ShownInv'
  BY <1>1, <1>3 DEF Types, ShownInv
<1> QED BY <1>3, <1>4, <1>6, <1>7 DEF Types

-----------------------------------------------------------------------------
(* A pass goes on.                                                         *)

Reading == {"settings", "worker", "host"}

\* The steps of a pass leave the generation, the text and the inputs alone.
LEMMA GoingFrame ==
    ASSUME NEW p \in passes,
           \/ EarlySettled(p) \/ ProjectRead(p) \/ ProjectUnknown(p) \/ SettingsRead(p)
           \/ Answered(p) \/ SupersededEnds(p) \/ InHost(p)
    PROVE  SameGeneration /\ UNCHANGED <<inputVars, up, events>>
<1>1. CASE EarlySettled(p)
  BY <1>1 DEF EarlySettled, BeginFull, Begin, SameGeneration
<1>2. CASE ProjectRead(p)
  BY <1>2 DEF ProjectRead, schedulerVars, SameGeneration
<1>3. CASE ProjectUnknown(p)
  BY <1>3 DEF ProjectUnknown, schedulerVars, SameGeneration
<1>4. CASE SettingsRead(p)
  BY <1>4 DEF SettingsRead, Publish, Dispatch, schedulerVars, SameGeneration
<1>5. CASE Answered(p)
  BY <1>5 DEF Answered, Publish, SameGeneration
<1>6. CASE SupersededEnds(p)
  BY <1>6 DEF SupersededEnds, schedulerVars, SameGeneration
<1>7. CASE InHost(p)
  BY <1>7 DEF InHost, Publish, SameGeneration
<1> QED BY <1>1, <1>2, <1>3, <1>4, <1>5, <1>6, <1>7

LEMMA EndKept ==
    ASSUME Types, NEW p \in passes, End(p)
    PROVE  /\ Kept /\ passes' = passes \ {p}
           /\ earlyRun' = None \/ earlyRun' = earlyRun
BY FewerKept DEF Types, End

\* A result takes the place of what was shown only while its pass counts.
LEMMA PublishIs ==
    ASSUME Types, NEW p \in passes, NEW complete \in BOOLEAN, NEW error \in BOOLEAN,
           Publish(p, complete, error)
    PROVE  /\ End(p) /\ completed' \in {0, generation}
           /\ full' \in Reports \cup {None} /\ early' \in Reports \cup {None}
           /\ ~Current(p) => UNCHANGED shownVars
           /\ Current(p) /\ p.kind = "local" =>
                /\ full' = full
                /\ ~error => early' = Report(p.version, p.project, p.settings,
                                             IF complete THEN p.gen ELSE 0, FALSE)
                /\ error => early' = early
           /\ Current(p) /\ p.kind = "full" =>
                PublishFull(Report(p.version, p.project, p.settings, 0, error))
<1>0. p \in Records /\ completed \in {0, generation}
  BY DEF Types, PassInv, Passes, TimerInv
<1>1. p.kind \in Kinds /\ p.version \in Versions /\ p.project \in Versions
      /\ p.settings \in Versions /\ p.gen \in Nat
  BY <1>0, RecordIs
<1>2. full \in Reports \cup {None} /\ early \in Reports \cup {None}
  BY DEF Types, ShownInv
<1>3. CASE ~Current(p)
  BY <1>0, <1>2, <1>3 DEF Publish, shownVars
<1>4. CASE Current(p) /\ p.kind = "local"
  <2> DEFINE g == IF complete THEN p.gen ELSE 0
             r == Report(p.version, p.project, p.settings, g, FALSE)
  <2>1. /\ End(p) /\ completed' = completed /\ full' = full
        /\ early' = IF error THEN early ELSE r
    BY <1>4 DEF Publish
  <2>2. g \in Nat
    BY <1>1
  <2>3. r \in Reports
    BY <1>1, <2>2, ReportIs
  <2>4. early' \in Reports \cup {None}
    BY <1>2, <2>1, <2>3
  <2> QED BY <1>0, <1>2, <1>4, <2>1, <2>4
<1>5. CASE Current(p) /\ p.kind = "full"
  <2> DEFINE r == Report(p.version, p.project, p.settings, 0, error)
  <2>1. End(p) /\ completed' = p.gen /\ PublishFull(r) /\ p.gen = generation
    BY <1>5 DEF Publish, Current
  <2>2. r \in Reports
    BY <1>1, ReportIs
  <2>3. full' = r /\ (early' = None \/ early' = early)
    BY <2>1 DEF PublishFull
  <2> QED BY <1>2, <1>5, <2>1, <2>2, <2>3
<1> QED BY <1>1, <1>3, <1>4, <1>5 DEF Kinds

LEMMA GoingTypes ==
    ASSUME Types, SameGeneration, events' = events, Kept, completed' \in {0, generation},
           full' \in Reports \cup {None}, early' \in Reports \cup {None},
           earlyRun' = None \/ earlyRun' = earlyRun
    PROVE  DocInv' /\ TimerInv' /\ PassInv' /\ ShownInv'
<1>1. DocInv'
  BY SameDocs DEF SameGeneration, Types
<1>2. TimerInv' /\ PassInv'
  BY SameTimers, GoingPasses
<1>3. ShownInv'
  BY DEF SameGeneration, Types, ShownInv
<1> QED BY <1>1, <1>2, <1>3

\* What neither reads the settings nor meets a fault.
LEMMA QuietTypes ==
    ASSUME Types, UNCHANGED <<docVars, inputVars, metaVars, settingsVars, up, events, faults>>
    PROVE  FlagInv' /\ ClockInv' /\ RetryInv'
<1>1. FlagInv'
  BY DEF inputVars, metaVars, settingsVars, Types, FlagInv
<1>2. ClockInv' /\ RetryInv'
  BY DEF docVars, inputVars, metaVars, settingsVars, Types, ClockInv, RetryInv
<1> QED BY <1>1, <1>2

LEMMA FaultIs ==
    ASSUME RetryInv, Fault
    PROVE  faults' = faults + 1 /\ faults' \in 0..MaxFaults /\ faults \in Nat
BY BoundsAssumption DEF RetryInv, Fault

LEMMA FaultTypes ==
    ASSUME RetryInv, Fault, UNCHANGED <<docVars, metaVars>>
    PROVE  RetryInv'
<1>1. faults' = faults + 1 /\ faults' \in 0..MaxFaults /\ faults \in Nat
  BY FaultIs
<1>2. UNCHANGED <<life, retries, retrying>>
  BY DEF docVars, metaVars
<1>3. 0..faults \subseteq 0..faults'
  BY <1>1
<1>4. retrying \in [Lives -> 0..faults']
  BY <1>3 DEF RetryInv
<1> QED BY <1>1, <1>2, <1>3, <1>4 DEF RetryInv

LEMMA EarlySettledTypes == ASSUME Types, NEW p \in passes, EarlySettled(p) PROVE Types'
<1>0. /\ SameGeneration /\ earlyRun' = earlyRun
      /\ UNCHANGED <<docVars, inputVars, metaVars, up, events, faults>>
  BY GoingFrame DEF EarlySettled
<1>1. p \in Passes /\ p \in Records /\ p.at = "waiting" /\ p.kind = "full"
  BY DEF EarlySettled, Types, PassInv, Passes
<1>2. CASE Current(p)
  <2>1. BeginFull(p, passes \ {p})
    BY <1>2 DEF EarlySettled
  <2>2. /\ FlagInv' /\ ClockInv' /\ RetryInv'
        /\ full' \in Reports \cup {None} /\ early' \in Reports \cup {None}
        /\ completed' \in {0, generation}
        /\ \/ passes' = passes \ {p}
           \/ \E q \in Passes : passes' = (passes \ {p}) \cup {q} /\ BegunAs(q, p)
    BY <1>0, <1>1, <2>1, BeginFullTypes
  <2>3. Kept
    <3>1. CASE passes' = passes \ {p}
      BY <3>1, FewerKept DEF Types
    <3>2. CASE \E q \in Passes : passes' = (passes \ {p}) \cup {q} /\ BegunAs(q, p)
      <4>1. PICK q \in Passes : passes' = (passes \ {p}) \cup {q} /\ BegunAs(q, p)
        BY <3>2
      <4>2. SamePass(q, p) /\ q.at # "superseded"
        BY <4>1 DEF BegunAs
      <4> QED BY <4>1, <4>2, OneMovesKept DEF Types
    <3> QED BY <2>2, <3>1, <3>2
  <2> QED BY <1>0, <2>2, <2>3, GoingTypes DEF Types
<1>3. CASE ~Current(p)
  <2>1. passes' = passes \ {p} /\ UNCHANGED <<completed, settingsVars, shownVars>>
    BY <1>3 DEF EarlySettled
  <2>2. Kept
    BY <2>1, FewerKept DEF Types
  <2>3. FlagInv' /\ ClockInv' /\ RetryInv'
    BY <1>0, <2>1, QuietTypes
  <2>4. /\ completed' \in {0, generation}
        /\ full' \in Reports \cup {None} /\ early' \in Reports \cup {None}
    BY <2>1 DEF shownVars, Types, TimerInv, ShownInv
  <2> QED BY <1>0, <2>2, <2>3, <2>4, GoingTypes DEF Types
<1> QED BY <1>2, <1>3

\* The pass p goes on as q, with the project and the settings it read.
Reads(p, q) ==
    /\ q \in Passes /\ SamePass(q, p) /\ q.at = "settings"
    /\ q.project \in p.project..project /\ q.settings \in Readable
    /\ passes' = (passes \ {p}) \cup {q} /\ cache' = q.settings

LEMMA ProjectReadIs ==
    ASSUME Types, NEW p \in passes, ProjectRead(p)
    PROVE  /\ \E q \in Passes : Reads(p, q)
           /\ SameGeneration /\ completed' = completed /\ UNCHANGED <<inputVars, up, events>>
           /\ UNCHANGED <<earlyRun, shownVars, faults, retrying, watched>>
           /\ known' = TRUE /\ retries' = 0
<1>0. p \in Records /\ project \in Versions /\ p.project \in Nat /\ p.project \in Versions
  BY RecordIs, BoundsAssumption DEF Types, DocInv, ClockInv, PassInv, Passes, Versions
<1>1. PICK v \in p.project..project, s \in Readable :
        Go(p, AsksSettings([p EXCEPT !.project = v], s)) /\ cache' = s
  BY DEF ProjectRead
<1>2. v \in Versions /\ s \in Versions
  <2>1. v \in Versions
    BY <1>0, BoundsAssumption DEF Versions
  <2> QED BY <2>1, ReadableIs DEF Types
<1> DEFINE r == [p EXCEPT !.project = v]
           q == AsksSettings(r, s)
<1>3. r \in Records /\ SamePass(r, p) /\ r.project = v
  BY <1>0, <1>2, ReadIs
<1>4. q \in Records /\ SamePass(q, r) /\ q.at = "settings" /\ q.project = v /\ q.settings = s
  <2> HIDE DEF r
  <2>1. r \in Records /\ r.project = v
    BY <1>3
  <2> QED BY <1>2, <2>1, AsksIs
<1>5. passes' = (passes \ {p}) \cup {q} /\ earlyRun' = earlyRun /\ cache' = s
  BY <1>1 DEF Go
<1> HIDE DEF r, q
<1>6. q \in Passes
  BY <1>4 DEF Passes
<1>7. SamePass(q, p)
  BY <1>3, <1>4 DEF SamePass
<1>8. Reads(p, q)
  BY <1>4, <1>5, <1>6, <1>7 DEF Reads
<1>9. /\ SameGeneration /\ completed' = completed /\ UNCHANGED <<inputVars, up, events>>
      /\ UNCHANGED <<shownVars, faults, retrying, watched>>
      /\ known' = TRUE /\ retries' = 0
  BY DEF ProjectRead, schedulerVars, SameGeneration
<1> QED BY <1>5, <1>6, <1>8, <1>9

LEMMA ProjectReadTypes == ASSUME Types, NEW p \in passes, ProjectRead(p) PROVE Types'
<1>0. /\ \E q \in Passes : Reads(p, q)
      /\ SameGeneration /\ completed' = completed /\ UNCHANGED <<inputVars, up, events>>
      /\ UNCHANGED <<earlyRun, shownVars, faults, retrying, watched>>
      /\ known' = TRUE /\ retries' = 0
  BY ProjectReadIs
<1>1. PICK q \in Passes : Reads(p, q)
  BY <1>0
<1>2. Kept
  BY <1>1, OneMovesKept DEF Reads, Types
<1>3. DocInv' /\ TimerInv' /\ PassInv' /\ ShownInv'
  <2>1. /\ completed' \in {0, generation}
        /\ full' \in Reports \cup {None} /\ early' \in Reports \cup {None}
    BY <1>0 DEF shownVars, Types, TimerInv, ShownInv
  <2> QED BY <1>0, <1>2, <2>1, GoingTypes
<1>4. FlagInv'
  BY <1>0 DEF inputVars, Types, FlagInv
<1>5. ClockInv'
  <2>1. cache' \in Readable
    BY <1>1 DEF Reads
  <2>2. UNCHANGED <<project, settings>> /\ events' \in Nat /\ events' >= events
    BY <1>0 DEF inputVars, Types, DocInv
  <2> QED BY <2>1, <2>2, SameClocks DEF Types
<1>6. RetryInv'
  <2>1. life' = life
    BY <1>0 DEF SameGeneration, docVars
  <2> QED BY <1>0, <2>1 DEF Types, RetryInv
<1> QED BY <1>3, <1>4, <1>5, <1>6 DEF Types

LEMMA ProjectUnknownTypes == ASSUME Types, NEW p \in passes, ProjectUnknown(p) PROVE Types'
<1>0. /\ SameGeneration /\ UNCHANGED <<docVars, inputVars, up, events, completed, known>>
      /\ UNCHANGED <<settingsVars, shownVars>>
  <2>1. SameGeneration
    BY GoingFrame
  <2>2. /\ UNCHANGED <<docVars, inputVars, schedulerVars, known>>
        /\ UNCHANGED <<settingsVars, shownVars, up, events>>
    BY DEF ProjectUnknown
  <2> QED BY <2>1, <2>2 DEF schedulerVars
<1>1. DocInv' /\ TimerInv' /\ PassInv' /\ ShownInv'
  <2>1. /\ completed' \in {0, generation}
        /\ full' \in Reports \cup {None} /\ early' \in Reports \cup {None}
    BY <1>0 DEF shownVars, Types, TimerInv, ShownInv
  <2>2. Kept /\ (earlyRun' = None \/ earlyRun' = earlyRun)
    BY EndKept DEF ProjectUnknown
  <2> QED BY <1>0, <2>1, <2>2, GoingTypes
<1>2. FlagInv'
  BY <1>0 DEF inputVars, settingsVars, Types, FlagInv
<1>3. ClockInv'
  BY <1>0 DEF inputVars, settingsVars, Types, ClockInv
<1>4. RetryInv'
  <2>1. faults' = faults + 1 /\ faults' \in 0..MaxFaults /\ faults \in Nat /\ life' = life
    BY FaultIs DEF ProjectUnknown, docVars, Types
  <2>2. CASE UNCHANGED <<retries, retrying>>
    BY <2>2, FaultTypes, <1>0 DEF ProjectUnknown, metaVars, Types
  <2>3. CASE /\ Current(p) /\ retries' = retries + 1
             /\ retrying' = [retrying EXCEPT ![p.life] = retrying[p.life] + 1]
    <3>1. p.life \in Lives /\ p.life <= life
      BY RecordIs DEF Types, PassInv, Passes
    <3>2. ASSUME NEW l \in Lives
          PROVE  /\ retrying'[l] \in 0..faults'
                 /\ retrying'[l] > 0 => l <= life
      <4>1. retrying[l] \in 0..faults /\ (retrying[l] > 0 => l <= life)
        BY DEF Types, RetryInv
      <4>2. retrying'[l] = IF l = p.life THEN retrying[l] + 1 ELSE retrying[l]
        BY <2>3 DEF Types, RetryInv
      <4> QED BY <2>1, <3>1, <4>1, <4>2
    <3>3. retrying' \in [Lives -> 0..faults']
      <4>1. DOMAIN retrying' = Lives /\ retrying' = [l \in Lives |-> retrying'[l]]
        BY <2>3 DEF Types, RetryInv
      <4> QED BY <3>2, <4>1
    <3>4. retries' \in 0..faults'
      BY <2>1, <2>3 DEF Types, RetryInv
    <3> QED BY <2>1, <3>2, <3>3, <3>4 DEF RetryInv
  <2> QED BY <2>2, <2>3 DEF ProjectUnknown
<1> QED BY <1>1, <1>2, <1>3, <1>4 DEF Types

\* A request supersedes the one before it, of an earlier generation.
LEMMA DispatchKept ==
    ASSUME Types, NEW p \in passes, p.at = "settings", Current(p), Dispatch(p)
    PROVE  Kept
<1> DEFINE w == [p EXCEPT !.at = "worker"]
<1>0. p \in Passes /\ p \in Records /\ p.gen = generation /\ generation' = generation
  BY DEF Types, PassInv, Passes, Current, Dispatch, schedulerVars
<1>1. w \in Records /\ SamePass(w, p) /\ w.at = "worker"
  BY <1>0, MovedIs DEF Ats
<1>2. passes' = (Superseded({p.kind}) \ {p}) \cup {w}
  BY DEF Dispatch
<1> HIDE DEF w
<1>3. w \in Passes
  BY <1>1 DEF Passes
<1>4. ASSUME NEW q \in Superseded({p.kind}), q # p
      PROVE  /\ q \in Passes
             /\ \E o \in passes :
                  SamePass(q, o) /\ (q.at = "superseded" => o.at = "superseded" \/ q.gen # generation)
             /\ ~(q.kind = p.kind /\ q.gen = p.gen)
  <2>1. PICK o \in passes :
          /\ q = o \/ (o.at = "worker" /\ o.kind \in {p.kind} /\ q = [o EXCEPT !.at = "superseded"])
          /\ q \in Passes /\ SamePass(q, o)
          /\ q.at = "superseded" => o.at \in {"worker", "superseded"}
          /\ q.at # "superseded" => q = o
    BY SupersededIs DEF Types
  <2>2. o # p
    BY <1>4, <2>1
  <2>3. ~(q.kind = p.kind /\ q.gen = p.gen)
    BY <2>1, <2>2 DEF SamePass, Types, PassInv
  <2>4. q.at = "superseded" => o.at = "superseded" \/ q.gen # generation
    <3>1. CASE q = o
      BY <3>1
    <3>2. CASE o.kind = p.kind
      BY <1>0, <2>1, <2>3, <3>2 DEF SamePass
    <3> QED BY <2>1, <3>1, <3>2
  <2> QED BY <2>1, <2>3, <2>4
<1>5. ASSUME NEW q \in passes', NEW r \in passes', q.kind = r.kind, q.gen = r.gen PROVE q = r
  <2>1. q = w \/ (q \in Superseded({p.kind}) /\ q # p)
    BY <1>2
  <2>2. r = w \/ (r \in Superseded({p.kind}) /\ r # p)
    BY <1>2
  <2>3. CASE q \in Superseded({p.kind}) /\ q # p /\ r \in Superseded({p.kind}) /\ r # p
    BY <1>5, <2>3, SupersededUnique DEF Types
  <2>4. CASE q = w /\ r # w
    BY <1>1, <1>4, <1>5, <2>2, <2>4 DEF SamePass
  <2>5. CASE r = w /\ q # w
    BY <1>1, <1>4, <1>5, <2>1, <2>5 DEF SamePass
  <2> QED BY <2>1, <2>2, <2>3, <2>4, <2>5
<1>6. ASSUME NEW q \in passes'
      PROVE  /\ q \in Passes
             /\ \E o \in passes :
                  SamePass(q, o) /\ (q.at = "superseded" => o.at = "superseded" \/ q.gen # generation')
  <2>1. CASE q = w
    BY <1>1, <1>3, <2>1
  <2>2. CASE q \in Superseded({p.kind}) /\ q # p
    BY <1>0, <1>4, <2>2
  <2> QED BY <1>2, <2>1, <2>2
<1> QED BY <1>5, <1>6 DEF Kept

LEMMA PublishTypes ==
    ASSUME Types, NEW p \in passes, SameGeneration, UNCHANGED <<inputVars, up, events>>,
           NEW complete \in BOOLEAN, NEW error \in BOOLEAN, Publish(p, complete, error)
    PROVE  DocInv' /\ TimerInv' /\ PassInv' /\ ShownInv'
<1>1. /\ End(p) /\ completed' \in {0, generation}
      /\ full' \in Reports \cup {None} /\ early' \in Reports \cup {None}
  BY PublishIs
<1>2. Kept /\ (earlyRun' = None \/ earlyRun' = earlyRun)
  BY <1>1, EndKept
<1> QED BY <1>1, <1>2, GoingTypes

LEMMA SettingsReadTypes == ASSUME Types, NEW p \in passes, SettingsRead(p) PROVE Types'
<1>0. /\ SameGeneration /\ p.at = "settings"
      /\ UNCHANGED <<docVars, inputVars, metaVars, settingsVars, up, events, faults>>
  BY GoingFrame DEF SettingsRead
<1>1. FlagInv' /\ ClockInv' /\ RetryInv'
  BY <1>0, QuietTypes
<1>2. CASE ~Current(p)
  <2>1. End(p) /\ UNCHANGED <<schedulerVars, shownVars>>
    BY <1>2 DEF SettingsRead
  <2>2. Kept /\ (earlyRun' = None \/ earlyRun' = earlyRun)
    BY <2>1, EndKept
  <2>3. /\ completed' \in {0, generation}
        /\ full' \in Reports \cup {None} /\ early' \in Reports \cup {None}
    BY <2>1 DEF schedulerVars, shownVars, Types, TimerInv, ShownInv
  <2> QED BY <1>0, <1>1, <2>2, <2>3, GoingTypes DEF Types
<1>3. CASE Current(p) /\ Dispatch(p)
  <2>1. Kept
    BY <1>0, <1>3, DispatchKept
  <2>2. /\ completed' \in {0, generation} /\ earlyRun' = earlyRun
        /\ full' \in Reports \cup {None} /\ early' \in Reports \cup {None}
    BY <1>3 DEF Dispatch, schedulerVars, shownVars, Types, TimerInv, ShownInv
  <2> QED BY <1>0, <1>1, <2>1, <2>2, GoingTypes DEF Types
<1>4. CASE Publish(p, TRUE, FALSE)
  BY <1>0, <1>1, <1>4, PublishTypes DEF Types
<1> QED BY <1>2, <1>3, <1>4 DEF SettingsRead

LEMMA AnsweredTypes == ASSUME Types, NEW p \in passes, Answered(p) PROVE Types'
<1>0. /\ SameGeneration
      /\ UNCHANGED <<docVars, inputVars, metaVars, settingsVars, up, events>>
  BY GoingFrame DEF Answered
<1>1. CASE Publish(p, TRUE, FALSE) /\ UNCHANGED faults
  <2>1. FlagInv' /\ ClockInv' /\ RetryInv'
    BY <1>0, <1>1, QuietTypes
  <2> QED BY <1>0, <1>1, <2>1, PublishTypes DEF Types
<1>2. CASE Fault /\ \E failed \in BOOLEAN : Publish(p, FALSE, failed)
  <2>1. FlagInv' /\ ClockInv'
    BY <1>0 DEF inputVars, metaVars, settingsVars, Types, FlagInv, ClockInv
  <2>2. RetryInv'
    BY <1>0, <1>2, FaultTypes DEF Types
  <2>3. PICK failed \in BOOLEAN : Publish(p, FALSE, failed)
    BY <1>2
  <2> QED BY <1>0, <2>1, <2>2, <2>3, PublishTypes DEF Types
<1> QED BY <1>1, <1>2 DEF Answered

LEMMA SupersededEndsTypes == ASSUME Types, NEW p \in passes, SupersededEnds(p) PROVE Types'
<1>0. /\ SameGeneration /\ End(p) /\ UNCHANGED <<schedulerVars, shownVars>>
      /\ UNCHANGED <<docVars, inputVars, metaVars, settingsVars, up, events, faults>>
  BY GoingFrame DEF SupersededEnds
<1>1. Kept /\ (earlyRun' = None \/ earlyRun' = earlyRun)
  BY <1>0, EndKept
<1>2. /\ completed' \in {0, generation}
      /\ full' \in Reports \cup {None} /\ early' \in Reports \cup {None}
  BY <1>0 DEF schedulerVars, shownVars, Types, TimerInv, ShownInv
<1>3. FlagInv' /\ ClockInv' /\ RetryInv'
  BY <1>0, QuietTypes
<1> QED BY <1>0, <1>1, <1>2, <1>3, GoingTypes DEF Types

LEMMA InHostTypes == ASSUME Types, NEW p \in passes, InHost(p) PROVE Types'
<1>0. /\ SameGeneration /\ Publish(p, TRUE, FALSE)
      /\ UNCHANGED <<docVars, inputVars, metaVars, settingsVars, up, events, faults>>
  BY GoingFrame DEF InHost
<1>1. FlagInv' /\ ClockInv' /\ RetryInv'
  BY <1>0, QuietTypes
<1> QED BY <1>0, <1>1, PublishTypes DEF Types

\* What was with the worker goes on in the host.
LEMMA DiesIs ==
    ASSUME Types, NEW v \in Kinds, WorkerDies(v), NEW q \in passes'
    PROVE  \E p \in passes :
             /\ SamePass(q, p) /\ q \in Passes
             /\ q = p \/ (/\ p.at \in {"worker", "superseded"} /\ q.at = "host"
                          /\ q.project = p.project /\ q.settings = p.settings)
<1>1. PICK p \in passes : q = IF p.kind = v /\ p.at \in {"worker", "superseded"}
                              THEN [p EXCEPT !.at = "host"] ELSE p
  BY DEF WorkerDies
<1>2. p \in Passes /\ p \in Records
  BY DEF Types, PassInv, Passes
<1>3. CASE p.kind = v /\ p.at \in {"worker", "superseded"}
  <2>1. q = [p EXCEPT !.at = "host"]
    BY <1>1, <1>3
  <2>2. /\ q \in Records /\ SamePass(q, p) /\ q.at = "host"
        /\ q.project = p.project /\ q.settings = p.settings
    BY <1>2, <2>1, MovedIs DEF Ats
  <2> QED BY <1>3, <2>2 DEF Passes
<1>4. CASE ~(p.kind = v /\ p.at \in {"worker", "superseded"})
  BY <1>1, <1>2, <1>4, SamePassIs
<1> QED BY <1>3, <1>4

LEMMA WorkerDiesTypes == ASSUME Types, NEW v \in Kinds, WorkerDies(v) PROVE Types'
<1>0. /\ UNCHANGED <<docVars, inputVars, schedulerVars, metaVars, settingsVars>>
      /\ UNCHANGED <<earlyRun, shownVars, events>> /\ SameGeneration
      /\ Fault /\ up' = [up EXCEPT ![v] = FALSE]
  BY DEF WorkerDies, schedulerVars, SameGeneration
<1>1. Kept
  <2> DEFINE F(p) == IF p.kind = v /\ p.at \in {"worker", "superseded"}
                     THEN [p EXCEPT !.at = "host"] ELSE p
  <2>1. passes' = {F(p) : p \in passes}
    BY DEF WorkerDies
  <2>2. ASSUME NEW p \in passes PROVE F(p).kind = p.kind /\ F(p).gen = p.gen
    <3>1. p \in Records
      BY DEF Types, PassInv, Passes
    <3> QED BY <3>1, MovedIs DEF Ats, SamePass
  <2> HIDE DEF F
  <2>3. ASSUME NEW q \in passes', NEW r \in passes', q.kind = r.kind, q.gen = r.gen PROVE q = r
    <3>1. PICK p \in passes : q = F(p)
      BY <2>1
    <3>2. PICK o \in passes : r = F(o)
      BY <2>1
    <3>3. p = o
      BY <2>2, <2>3, <3>1, <3>2 DEF Types, PassInv
    <3> QED BY <3>1, <3>2, <3>3
  <2>4. ASSUME NEW q \in passes'
        PROVE  q \in Passes /\ \E p \in passes :
                 SamePass(q, p) /\ (q.at = "superseded" => p.at = "superseded" \/ q.gen # generation')
    BY DiesIs
  <2> QED BY <2>3, <2>4 DEF Kept
<1>2. DocInv' /\ TimerInv' /\ PassInv' /\ ShownInv'
  <2>1. /\ completed' \in {0, generation}
        /\ full' \in Reports \cup {None} /\ early' \in Reports \cup {None}
    BY <1>0 DEF schedulerVars, shownVars, Types, TimerInv, ShownInv
  <2> QED BY <1>0, <1>1, <2>1, GoingTypes
<1>3. FlagInv'
  <2>1. up' \in [Kinds -> BOOLEAN]
    BY <1>0 DEF Types, FlagInv
  <2> QED BY <1>0, <2>1 DEF inputVars, metaVars, settingsVars, Types, FlagInv
<1>4. ClockInv'
  BY <1>0 DEF inputVars, settingsVars, Types, ClockInv
<1>5. RetryInv'
  BY <1>0, FaultTypes DEF Types
<1> QED BY <1>2, <1>3, <1>4, <1>5 DEF Types

LEMMA StutterTypes == ASSUME Types, UNCHANGED vars PROVE Types'
<1>0. /\ SameGeneration /\ UNCHANGED <<docVars, inputVars, schedulerVars, metaVars, settingsVars>>
      /\ UNCHANGED <<passes, earlyRun, shownVars, up, events, faults>>
  BY DEF vars, schedulerVars, SameGeneration
<1>1. Kept
  BY <1>0, FewerKept DEF Types
<1>2. /\ completed' \in {0, generation}
      /\ full' \in Reports \cup {None} /\ early' \in Reports \cup {None}
  BY <1>0 DEF schedulerVars, shownVars, Types, TimerInv, ShownInv
<1>3. FlagInv' /\ ClockInv' /\ RetryInv'
  BY <1>0, QuietTypes
<1> QED BY <1>0, <1>1, <1>2, <1>3, GoingTypes DEF Types

LEMMA TypesStep == ASSUME Types, [Next]_vars PROVE Types'
<1>1. ASSUME NEW p \in passes,
             \/ EarlySettled(p) \/ ProjectRead(p) \/ ProjectUnknown(p) \/ SettingsRead(p)
             \/ Answered(p) \/ SupersededEnds(p) \/ InHost(p)
      PROVE  Types'
  BY <1>1, EarlySettledTypes, ProjectReadTypes, ProjectUnknownTypes, SettingsReadTypes,
     AnsweredTypes, SupersededEndsTypes, InHostTypes
<1>2. CASE PassGoesOn
  BY <1>1, <1>2 DEF PassGoesOn
<1>3. ASSUME NEW v \in {"local", "full"}, WorkerDies(v) PROVE Types'
  BY <1>3, WorkerDiesTypes DEF Kinds
<1>4. ASSUME NEW l \in Lives, FireRetry(l) PROVE Types'
  BY <1>4, FireRetryTypes
<1>5. CASE Open \/ Edit \/ Activate \/ Close
  BY <1>5, OpenTypes, EditTypes, ActivateTypes, CloseTypes
<1>6. CASE ProjectChanges \/ SettingsChange \/ ConfigurationChanges \/ SettingsSaid
  BY <1>6, ProjectChangesTypes, SettingsChangeTypes, ConfigurationTypes, SettingsSaidTypes
<1>7. CASE FireLocal \/ FireFull
  BY <1>7, FireLocalTypes, FireFullTypes
<1> QED BY <1>2, <1>3, <1>4, <1>5, <1>6, <1>7, StutterTypes DEF Next

LEMMA TypesInit == Init => Types
<1> SUFFICES ASSUME Init PROVE Types
  OBVIOUS
<1>1. 0 \in Versions /\ 0 \in 0..MaxLives /\ 0 \in 0..MaxEvents /\ 0 \in 0..MaxFaults
  <2>1. MaxLives \in Nat /\ MaxEvents \in Nat /\ MaxFaults \in Nat
    BY BoundsAssumption
  <2> QED BY <2>1 DEF Versions
<1>2. DocInv
  <2>1. open = FALSE /\ life = 0 /\ versions = [l \in Lives |-> 0] /\ events = 0
    BY DEF Init
  <2>2. ASSUME NEW l \in Lives
        PROVE  (versions[l] > 0 <=> l <= life) /\ versions[l] <= events + 1
    BY <2>1 DEF Lives
  <2>3. versions \in [Lives -> Versions]
    BY <1>1, <2>1
  <2>4. open \in BOOLEAN /\ life \in 0..MaxLives /\ events \in 0..MaxEvents
    BY <1>1, <2>1
  <2> QED BY <2>2, <2>3, <2>4 DEF DocInv
<1>3. FlagInv
  BY DEF Init, FlagInv, Kinds
<1>4. ClockInv /\ RetryInv
  BY <1>1 DEF Init, ClockInv, RetryInv
<1>5. TimerInv /\ PassInv /\ ShownInv
  BY DEF Init, TimerInv, PassInv, ShownInv, Timers
<1> QED BY <1>2, <1>3, <1>4, <1>5 DEF Types

LEMMA TypesHold == Types => TypeOK
<1> SUFFICES ASSUME Types PROVE TypeOK
  OBVIOUS
<1>1. 0..MaxEvents \subseteq Versions /\ Unread \in Versions /\ MaxFaults \in Nat /\ MaxRetries \in Nat
  BY BoundsAssumption DEF Versions, Unread
<1>2. project \in Versions /\ settings \in Versions /\ cache \in Versions
  <2>1. 0..events \subseteq Versions /\ 0..settings \subseteq 0..events
    BY BoundsAssumption DEF Types, DocInv, ClockInv, Versions
  <2> QED BY <1>1, <2>1 DEF Types, ClockInv
<1>3. retrying \in [Lives -> 0..MaxRetries] /\ retries \in 0..MaxRetries /\ faults \in 0..MaxFaults
  <2>1. 0..faults \subseteq 0..MaxRetries
    BY <1>1, RetriesAssumption DEF Types, RetryInv
  <2>2. retrying \in [Lives -> 0..faults] /\ retries \in 0..faults /\ faults \in 0..MaxFaults
    BY DEF Types, RetryInv
  <2>3. retrying \in [Lives -> 0..MaxRetries]
    BY <2>1, <2>2
  <2> QED BY <2>1, <2>2, <2>3
<1>4. earlyRun = None \/ (earlyRun.gen \in 1..generation /\ earlyRun.version \in Versions)
  BY DEF Types, TimerInv, ShownInv, Runs
<1>5. /\ open \in BOOLEAN /\ life \in 0..MaxLives /\ versions \in [Lives -> Versions]
      /\ \A l \in Lives : versions[l] > 0 <=> l <= life
      /\ events \in 0..MaxEvents
  BY DEF Types, DocInv
<1>6. /\ enabled \in BOOLEAN /\ watched \in BOOLEAN /\ unsaid \in BOOLEAN /\ known \in BOOLEAN
      /\ up \in [{"local", "full"} -> BOOLEAN]
  BY DEF Types, FlagInv, Kinds
<1>7. /\ generation \in Nat /\ completed \in {0, generation}
      /\ localTimer \in Timers /\ fullTimer \in Timers
      /\ \A t \in {localTimer, fullTimer} \ {None} : t.gen = generation
      /\ full \in Reports \cup {None} /\ early \in Reports \cup {None}
  BY DEF Types, TimerInv, ShownInv
<1>8. /\ \A p \in passes : p.gen \in 1..generation /\ p.life \in 1..life
                           /\ p.version \in 1..versions[p.life]
      /\ \A p, q \in passes : p.kind = q.kind /\ p.gen = q.gen => p = q
  BY DEF Types, PassInv
<1> QED BY <1>2, <1>3, <1>4, <1>5, <1>6, <1>7, <1>8 DEF TypeOK

\* Type correctness: whatever races, a generation has one pass of each kind,
\* what runs was started by a generation there was, of a document and a text
\* there were, and no more retries are due than faults were met.
THEOREM TypeCorrect == Spec => []TypeOK
<1>1. Init => Types
  BY TypesInit
<1>2. Types /\ [Next]_vars => Types'
  BY TypesStep
<1>3. Types => TypeOK
  BY TypesHold
<1> QED BY <1>1, <1>2, <1>3, PTL DEF Spec

-----------------------------------------------------------------------------
(* The problems go forward.                                                *)

\* The early pass of the latest generation is earlyRuns', and the full pass
\* waits for it.
RunInv ==
    /\ \A p \in passes : p.kind = "local" /\ p.gen = generation =>
          earlyRun # None /\ earlyRun.gen = p.gen /\ earlyRun.version = p.version
    /\ \A p, q \in passes :
          p.kind = "full" /\ q.kind = "local" /\ p.gen = generation /\ q.gen = generation =>
             p.at = "waiting" /\ p.awaits = generation

\* A report is of what there is or was, and no newer than what is cached.
NotNewer(r) ==
    /\ open /\ r.version <= versions[life] /\ r.project <= project /\ r.settings <= settings
    /\ cache = Unread \/ r.settings <= cache

ReportInv ==
    /\ full # None => NotNewer(full)
    /\ early # None => NotNewer(early)

\* A pass that counts has read the project there is, and settings no older
\* than those of what is shown.
Forward(p) ==
    /\ p.at = "project" => p.project = project
    /\ p.at \in Reading =>
          /\ p.project = project /\ p.settings <= settings
          /\ cache = Unread \/ p.settings <= cache
          /\ full # None => full.settings <= p.settings
          /\ early # None => early.settings <= p.settings

ForwardInv == \A p \in passes : Current(p) => Forward(p)

GoInv == Types /\ up["local"] /\ RunInv /\ ReportInv /\ ForwardInv

\* A pass stays as it is, or goes on with what it has read.
Steady(q, p) ==
    /\ SamePass(q, p)
    /\ p.at = "waiting" \/ q.at = "project" => q = p
    /\ q.at \in Reading => /\ p.at \in Reading \cup {"superseded"}
                           /\ q.project = p.project /\ q.settings = p.settings

LEMMA SteadyIs == ASSUME NEW p PROVE Steady(p, p)
BY DEF Steady, SamePass

LEMMA CurrentSame ==
    ASSUME SameGeneration, NEW p, NEW q, SamePass(q, p)
    PROVE  /\ Current(q) <=> Current(p)
           /\ Current(q)' <=> Current(p)
BY DEF SameGeneration, docVars, SamePass, Current

\* Nothing that runs is of a generation just begun.
LEMMA OldPasses ==
    ASSUME Types, generation' = generation + 1, up' = up,
           passes' = passes \/ \E kinds : passes' = Superseded(kinds)
    PROVE  /\ \A q \in passes' : q.gen # generation'
           /\ RunInv' /\ ForwardInv'
<1>1. ASSUME NEW q \in passes' PROVE q.gen \in 1..generation
  <2>1. CASE passes' = passes
    BY <2>1 DEF Types, PassInv
  <2>2. CASE \E kinds : passes' = Superseded(kinds)
    <3>1. PICK p \in passes : SamePass(q, p)
      BY <2>2, SupersededIs DEF Types
    <3> QED BY <3>1 DEF SamePass, Types, PassInv
  <2> QED BY <2>1, <2>2
<1>2. \A q \in passes' : q.gen # generation'
  BY <1>1 DEF Types, TimerInv
<1> QED BY <1>2 DEF RunInv, ForwardInv, Current

\* The reports stay while the document, the project and the settings go on.
LEMMA SameReports ==
    ASSUME Types, ReportInv, UNCHANGED shownVars, open' = open,
           open => life' = life /\ versions'[life] >= versions[life] /\ versions'[life] \in Nat,
           project' >= project, settings' >= settings, project' \in Nat, settings' \in Nat,
           cache' = cache \/ cache' = Unread \/ (cache' \in Readable /\ settings' = settings)
    PROVE  ReportInv'
<1>1. ASSUME NEW r \in {full, early}, r # None, NotNewer(r)
      PROVE  /\ open' /\ r.version <= versions'[life'] /\ r.project <= project'
             /\ r.settings <= settings'
             /\ cache' = Unread \/ r.settings <= cache'
  <2>1. r \in Reports
    BY <1>1 DEF Types, ShownInv
  <2>2. r.version \in Nat /\ r.project \in Nat /\ r.settings \in Nat
    BY <2>1, ReportFields DEF Versions
  <2>3. life \in Lives /\ versions[life] \in Nat /\ project \in Nat /\ settings \in Nat
    BY <1>1, LivesIs, VersionsIs DEF NotNewer, Types, DocInv, TimerInv, ClockInv
  <2>4. r.version <= versions'[life'] /\ r.project <= project' /\ r.settings <= settings'
    BY <1>1, <2>2, <2>3 DEF NotNewer
  <2>5. cache' = Unread \/ r.settings <= cache'
    BY <1>1, ReadableIs DEF NotNewer, Types
  <2> QED BY <1>1, <2>4, <2>5 DEF NotNewer
<1>2. full' = full /\ early' = early
  BY DEF shownVars
<1> QED BY <1>1, <1>2 DEF ReportInv, NotNewer

LEMMA SteadyRuns ==
    ASSUME Types, RunInv, SameGeneration, \A q \in passes' : \E p \in passes : Steady(q, p),
           \/ earlyRun' = earlyRun
           \/ \A q \in passes' : ~(q.kind = "local" /\ q.gen = generation)
    PROVE  RunInv'
<1>0. generation' = generation
  BY DEF SameGeneration
<1>1. ASSUME NEW q \in passes', q.kind = "local", q.gen = generation
      PROVE  earlyRun' # None /\ earlyRun'.gen = q.gen /\ earlyRun'.version = q.version
  <2>1. PICK p \in passes : SamePass(q, p)
    BY DEF Steady
  <2> QED BY <1>1, <2>1 DEF RunInv, SamePass
<1>2. ASSUME NEW q \in passes', NEW r \in passes', q.kind = "full", r.kind = "local",
             q.gen = generation, r.gen = generation
      PROVE  q.at = "waiting" /\ q.awaits = generation
  <2>1. PICK p \in passes : Steady(q, p)
    OBVIOUS
  <2>2. PICK o \in passes : SamePass(r, o)
    BY DEF Steady
  <2>3. p.at = "waiting" /\ p.awaits = generation
    BY <1>2, <2>1, <2>2 DEF RunInv, Steady, SamePass
  <2>4. q = p
    BY <2>1, <2>3 DEF Steady
  <2> QED BY <2>3, <2>4
<1> QED BY <1>0, <1>1, <1>2 DEF RunInv

LEMMA EndRuns ==
    ASSUME Types, RunInv, NEW p \in passes, End(p)
    PROVE  /\ \A q \in passes' : q \in passes /\ Steady(q, q)
           /\ \/ earlyRun' = earlyRun
              \/ \A q \in passes' : ~(q.kind = "local" /\ q.gen = generation)
<1>1. passes' = passes \ {p}
  BY DEF End
<1>2. CASE p.kind = "local" /\ earlyRun # None /\ earlyRun.gen = p.gen
  <2>1. \A q \in passes' : ~(q.kind = "local" /\ q.gen = generation)
    BY <1>1, <1>2 DEF RunInv, Types, PassInv
  <2> QED BY <1>1, <2>1, SteadyIs
<1>3. CASE ~(p.kind = "local" /\ earlyRun # None /\ earlyRun.gen = p.gen)
  <2>1. earlyRun' = earlyRun
    BY <1>3 DEF End
  <2> QED BY <1>1, <2>1, SteadyIs
<1> QED BY <1>2, <1>3

LEMMA SteadyForward ==
    ASSUME Types, ForwardInv, SameGeneration, \A q \in passes' : \E p \in passes : Steady(q, p),
           UNCHANGED <<project, settings, cache>>,
           UNCHANGED shownVars \/ (full' = None /\ early' = None)
    PROVE  ForwardInv'
<1> SUFFICES ASSUME NEW q \in passes', Current(q)' PROVE Forward(q)'
  BY DEF ForwardInv
<1>1. PICK p \in passes : Steady(q, p)
  OBVIOUS
<1>2. Current(p) /\ q.gen = generation /\ p.gen = generation
  BY <1>1, CurrentSame DEF Steady, SamePass, Current
<1>3. Forward(p) /\ p.at # "superseded"
  BY <1>2 DEF ForwardInv, Types, PassInv
<1>4. q.at = "project" => q.project = project
  BY <1>1, <1>3 DEF Steady, Forward
<1>5. q.at \in Reading =>
         /\ q.project = project /\ q.settings <= settings
         /\ cache = Unread \/ q.settings <= cache
         /\ full # None => full.settings <= q.settings
         /\ early # None => early.settings <= q.settings
  BY <1>1, <1>3 DEF Steady, Forward
<1> QED BY <1>4, <1>5 DEF Forward, shownVars

\* What a pass that counts shows: its report for the result it replaces, and a
\* full one for the early result too.
LEMMA PublishShows ==
    ASSUME GoInv, NEW p \in passes, p.at \in Reading, Current(p),
           NEW complete \in BOOLEAN, NEW error \in BOOLEAN, Publish(p, complete, error)
    PROVE  \E r \in Reports :
             /\ r # None
             /\ r.version = p.version /\ r.project = p.project /\ r.settings = p.settings
             /\ r.gen \in {0, p.gen}
             /\ \/ p.kind = "local" /\ full' = full /\ (early' = r \/ early' = early)
                \/ p.kind = "full" /\ full' = r /\ early' = None
<1>0. Types /\ ReportInv /\ p \in Records
  BY DEF GoInv, Types, PassInv, Passes
<1>t. /\ p.version \in Versions /\ p.project \in Versions
      /\ p.settings \in Versions /\ p.gen \in Nat /\ p.kind \in Kinds
  BY <1>0, RecordIs
<1>1. CASE p.kind = "local"
  <2> DEFINE g == IF complete THEN p.gen ELSE 0
             r == Report(p.version, p.project, p.settings, g, FALSE)
  <2>1. full' = full /\ (early' = r \/ early' = early)
    BY <1>0, <1>1, PublishIs
  <2>2. g \in Nat /\ g \in {0, p.gen}
    BY <1>t
  <2>3. r \in Reports
    BY <1>t, <2>2, ReportIs
  <2>4. r.version = p.version /\ r.project = p.project /\ r.settings = p.settings /\ r.gen = g
    BY DEF Report
  <2>5. r.is = "report" /\ None.is = "none"
    BY DEF Report, None
  <2>6. r # None
    BY <2>5
  <2> HIDE DEF r
  <2> QED BY <1>1, <2>1, <2>2, <2>3, <2>4, <2>6
<1>2. CASE p.kind = "full"
  <2> DEFINE r == Report(p.version, p.project, p.settings, 0, error)
  <2>1. PublishFull(r)
    BY <1>0, <1>2, PublishIs
  <2>2. r \in Reports
    BY <1>t, ReportIs
  <2>3. r.version = p.version /\ r.project = p.project /\ r.settings = p.settings /\ r.gen = 0
    BY DEF Report
  <2>4. r.is = "report" /\ None.is = "none"
    BY DEF Report, None
  <2>5. r # None
    BY <2>4
  <2> HIDE DEF r
  <2>6. early = None \/ early.version <= r.version
    BY <1>0, <2>3 DEF ReportInv, NotNewer, Current
  <2>7. full' = r /\ early' = None
    BY <2>1, <2>6 DEF PublishFull
  <2> QED BY <1>2, <2>2, <2>3, <2>5, <2>7
<1> QED BY <1>t, <1>1, <1>2 DEF Kinds

\* The result of a pass that counts is not older than what it takes the place
\* of, and no other pass is about to give one.
LEMMA PublishGoes ==
    ASSUME GoInv, NEW p \in passes, p.at \in Reading, Current(p),
           NEW complete \in BOOLEAN, NEW error \in BOOLEAN, Publish(p, complete, error),
           SameGeneration, UNCHANGED <<project, settings, cache>>
    PROVE  /\ ReportInv' /\ ForwardInv'
           /\ Lead # None /\ Lead' # None =>
                /\ Lead'.version >= Lead.version /\ Lead'.project >= Lead.project
                /\ Lead'.settings >= Lead.settings
<1>0. Types /\ ReportInv /\ p \in Records /\ Forward(p) /\ p.version = versions[life] /\ open
      /\ life \in Lives /\ versions[life] \in Nat
  <2>1. open /\ p.life = life /\ p.version = versions[life] /\ Forward(p)
    BY DEF Current, GoInv, ForwardInv
  <2>2. Types /\ ReportInv /\ p \in Records
    BY DEF GoInv, Types, PassInv, Passes
  <2>3. life \in Lives
    BY <2>1, <2>2, RecordIs
  <2> QED BY <2>1, <2>2, <2>3, VersionsIs DEF Types
<1>1. /\ p.project = project /\ p.settings <= settings
      /\ cache = Unread \/ p.settings <= cache
      /\ full # None => full.settings <= p.settings
      /\ early # None => early.settings <= p.settings
  BY <1>0 DEF Forward
<1>t. /\ p.settings \in Nat /\ project \in Nat /\ p.version \in Versions /\ p.project \in Versions
      /\ p.settings \in Versions /\ p.gen \in Nat /\ p.kind \in Kinds
  BY <1>0, RecordIs DEF Versions, Types, ClockInv
<1>2. PICK r \in Reports :
        /\ r # None
        /\ r.version = p.version /\ r.project = p.project /\ r.settings = p.settings
        /\ \/ p.kind = "local" /\ full' = full /\ (early' = r \/ early' = early)
           \/ p.kind = "full" /\ full' = r /\ early' = None
  BY PublishShows
<1>3. /\ full # None => /\ full.version \in Nat /\ full.project \in Nat /\ full.settings \in Nat
                        /\ full.version <= r.version /\ full.project <= r.project
                        /\ full.settings <= r.settings
      /\ early # None => /\ early.version \in Nat /\ early.project \in Nat /\ early.settings \in Nat
                         /\ early.version <= r.version /\ early.project <= r.project
                         /\ early.settings <= r.settings
  <2>1. full # None => full \in Reports
    BY <1>0 DEF Types, ShownInv
  <2>2. early # None => early \in Reports
    BY <1>0 DEF Types, ShownInv
  <2>3. full # None => full.version \in Nat /\ full.project \in Nat /\ full.settings \in Nat
    BY <2>1, ReportFields DEF Versions
  <2>4. early # None => early.version \in Nat /\ early.project \in Nat /\ early.settings \in Nat
    BY <2>2, ReportFields DEF Versions
  <2> QED BY <1>0, <1>1, <1>2, <2>3, <2>4 DEF ReportInv, NotNewer
<1>4. \/ full' = full /\ (early' = r \/ early' = early)
      \/ full' = r /\ early' = None
  BY <1>2
<1>r. r.version \in Nat /\ r.project \in Nat /\ r.settings \in Nat
  BY <1>2, ReportFields DEF Versions
<1>5. Lead # None /\ Lead' # None =>
         /\ Lead'.version >= Lead.version /\ Lead'.project >= Lead.project
         /\ Lead'.settings >= Lead.settings
  <2>1. CASE early' = early /\ full' = full
    <3>1. Lead' = Lead
      BY <2>1 DEF Lead
    <3>2. Lead = full \/ Lead = early
      BY DEF Lead
    <3> QED BY <1>3, <3>1, <3>2
  <2>2. CASE full' = full /\ early' = r
    <3>1. Lead' = r
      <4>1. ~(early' = None \/ (full' # None /\ early'.version < full'.version))
        BY <1>2, <1>3, <1>r, <2>2
      <4> QED BY <2>2, <4>1 DEF Lead
    <3>2. Lead = full \/ Lead = early
      BY DEF Lead
    <3> QED BY <1>3, <1>r, <3>1, <3>2
  <2>3. CASE full' = r /\ early' = None
    <3>1. Lead' = r
      BY <2>3 DEF Lead
    <3>2. Lead = full \/ Lead = early
      BY DEF Lead
    <3> QED BY <1>3, <1>r, <3>1, <3>2
  <2> QED BY <1>4, <2>1, <2>2, <2>3
<1>6. ReportInv'
  <2>1. open' = open /\ life' = life /\ versions' = versions
    BY DEF SameGeneration, docVars
  <2>2. NotNewer(r)
    BY <1>0, <1>1, <1>2, <1>r, <1>t DEF NotNewer
  <2>3. ASSUME NEW s \in {r, full, early}, s # None
        PROVE  /\ open' /\ s.version <= versions'[life'] /\ s.project <= project'
               /\ s.settings <= settings'
               /\ cache' = Unread \/ s.settings <= cache'
    BY <1>0, <2>1, <2>2, <2>3 DEF ReportInv, NotNewer
  <2>4. full' \in {r, full} /\ early' \in {r, early, None}
    BY <1>4
  <2> QED BY <2>3, <2>4 DEF ReportInv, NotNewer
<1>7. ForwardInv'
  <2> SUFFICES ASSUME NEW q \in passes', Current(q)' PROVE Forward(q)'
    BY DEF ForwardInv
  <2>1. q \in passes /\ q # p
    BY PublishIs, <1>0 DEF End
  <2>2. Current(q) /\ q.gen = generation /\ p.gen = generation
    BY CurrentSame, SamePassIs DEF Current
  <2>3. q.at \notin Reading
    <3>1. q.kind # p.kind
      BY <1>0, <2>1, <2>2 DEF Types, PassInv
    <3>2. q.kind \in Kinds
      BY <1>0, <2>1, RecordIs DEF Types, PassInv, Passes
    <3> QED BY <1>t, <2>1, <2>2, <3>1, <3>2 DEF Kinds, GoInv, RunInv, Reading
  <2>4. Forward(q)
    BY <2>1, <2>2 DEF GoInv, ForwardInv
  <2> QED BY <2>3, <2>4 DEF Forward
<1> QED BY <1>5, <1>6, <1>7

GoesForward ==
    Lead # None /\ Lead' # None =>
        /\ Lead'.version >= Lead.version
        /\ Lead'.project >= Lead.project
        /\ Lead'.settings >= Lead.settings

GoRest == up["local"] /\ RunInv /\ ReportInv /\ ForwardInv

LEMMA SameShown ==
    ASSUME Types, UNCHANGED shownVars \/ (full' = None /\ early' = None)
    PROVE  GoesForward
<1>1. CASE UNCHANGED shownVars
  <2>1. Lead' = Lead
    BY <1>1 DEF shownVars, Lead
  <2>2. Lead \in Reports \cup {None}
    BY DEF Types, ShownInv, Lead
  <2>3. Lead # None => Lead.version \in Nat /\ Lead.project \in Nat /\ Lead.settings \in Nat
    BY <2>2, ReportFields DEF Versions
  <2> QED BY <2>1, <2>3 DEF GoesForward
<1>2. CASE full' = None /\ early' = None
  <2>1. Lead' = None
    BY <1>2 DEF Lead
  <2> QED BY <2>1 DEF GoesForward
<1> QED BY <1>1, <1>2

LEMMA OpenGoes == ASSUME GoInv, Open PROVE GoRest' /\ GoesForward
<1>0. Types /\ ReportInv
  BY DEF GoInv
<1>1. full = None /\ early = None /\ UNCHANGED <<passes, shownVars, up>>
  BY DEF Open, GoInv, ReportInv, NotNewer
<1>2. generation' = generation + 1
  BY DEF Open, Schedule
<1>3. RunInv' /\ ForwardInv'
  BY <1>0, <1>1, <1>2, OldPasses
<1>4. ReportInv'
  BY <1>1 DEF ReportInv, shownVars
<1> QED BY <1>0, <1>1, <1>3, <1>4, SameShown DEF GoInv, GoRest

LEMMA EditGoes == ASSUME GoInv, Edit PROVE GoRest' /\ GoesForward
<1>0. Types /\ ReportInv /\ UNCHANGED <<passes, shownVars, up>> /\ generation' = generation + 1
  BY DEF GoInv, Edit, Schedule
<1>1. RunInv' /\ ForwardInv'
  BY <1>0, OldPasses
<1>2. ReportInv'
  <2>1. /\ open' = open /\ life' = life /\ UNCHANGED <<project, settings, cache>>
        /\ versions' = [versions EXCEPT ![life] = versions[life] + 1]
    BY DEF Edit, inputVars, settingsVars
  <2>2. life \in Lives /\ versions[life] \in Nat
    BY <1>0, LivesIs, VersionsIs DEF Edit, Types, TimerInv
  <2>3. versions'[life] = versions[life] + 1
    BY <1>0, <2>1, <2>2 DEF Types, DocInv
  <2>4. project \in Nat /\ settings \in Nat
    BY <1>0 DEF Types, ClockInv
  <2> QED BY <1>0, <2>1, <2>2, <2>3, <2>4, SameReports
<1> QED BY <1>0, <1>1, <1>2, SameShown DEF GoInv, GoRest

\* The module is scheduled anew as it is.
LEMMA RenewedGoes ==
    ASSUME GoInv, UNCHANGED <<docVars, passes, shownVars, up>>, generation' = generation + 1,
           project' \in Nat, settings' \in Nat, project' >= project, settings' >= settings,
           cache' = cache \/ cache' = Unread
    PROVE  GoRest' /\ GoesForward
<1>0. Types /\ ReportInv
  BY DEF GoInv
<1>1. ReportInv'
  <2>1. open' = open /\ life' = life /\ versions' = versions
    BY DEF docVars
  <2>2. open => versions[life] \in Nat
    BY <1>0, LivesIs, VersionsIs DEF Types, TimerInv
  <2>3. open => versions'[life] >= versions[life] /\ versions'[life] \in Nat
    BY <2>1, <2>2
  <2> QED BY <1>0, <2>1, <2>3, SameReports
<1>2. RunInv' /\ ForwardInv'
  BY <1>0, OldPasses
<1> QED BY <1>0, <1>1, <1>2, SameShown DEF GoInv, GoRest

\* Nothing is scheduled: the module is not open, or the settings alone change.
LEMMA UnsaidGoes ==
    ASSUME GoInv, SameGeneration, UNCHANGED <<passes, earlyRun, shownVars, up>>,
           project' \in Nat, settings' \in Nat, project' >= project, settings' >= settings,
           cache' = cache \/ cache' = Unread, open => project' = project
    PROVE  GoRest' /\ GoesForward
<1>0. Types /\ ReportInv /\ RunInv /\ ForwardInv
  BY DEF GoInv
<1>1. open' = open /\ life' = life /\ versions' = versions
  BY DEF SameGeneration, docVars
<1>2. ReportInv'
  <2>1. open => versions[life] \in Nat
    BY <1>0, LivesIs, VersionsIs DEF Types, TimerInv
  <2>2. open => versions'[life] >= versions[life] /\ versions'[life] \in Nat
    BY <1>1, <2>1
  <2> QED BY <1>0, <1>1, <2>2, SameReports
<1>3. RunInv'
  BY <1>0, SteadyIs, SteadyRuns
<1>4. ForwardInv'
  <2> SUFFICES ASSUME NEW q \in passes', Current(q)' PROVE Forward(q)'
    BY DEF ForwardInv
  <2>1. q \in passes /\ Current(q) /\ open
    BY CurrentSame, SamePassIs DEF Current
  <2>2. Forward(q) /\ project' = project
    BY <1>0, <2>1 DEF ForwardInv
  <2>3. q.settings \in Nat /\ settings \in Nat
    BY <1>0, <2>1, RecordIs DEF Types, PassInv, Passes, ClockInv, Versions
  <2>4. q.settings <= settings => q.settings <= settings'
    BY <2>3
  <2> QED BY <2>2, <2>4 DEF Forward, shownVars
<1> QED BY <1>0, <1>2, <1>3, <1>4, SameShown DEF GoInv, GoRest

LEMMA CloseGoes == ASSUME GoInv, Close PROVE GoRest' /\ GoesForward
<1>0. Types /\ up' = up /\ generation' = generation + 1 /\ full' = None /\ early' = None
      /\ passes' = Superseded({"local", "full"})
  BY DEF GoInv, Close, ShowNothing
<1>1. RunInv' /\ ForwardInv'
  BY <1>0, OldPasses
<1>2. ReportInv'
  BY <1>0 DEF ReportInv
<1> QED BY <1>0, <1>1, <1>2, SameShown DEF GoInv, GoRest

\* The project, the settings or the configuration change, or are said to.
LEMMA ChangesGo ==
    ASSUME GoInv, ProjectChanges \/ SettingsChange \/ ConfigurationChanges \/ SettingsSaid
    PROVE  GoRest' /\ GoesForward
<1>0. project \in Nat /\ settings \in Nat
  BY DEF GoInv, Types, ClockInv
<1>1. /\ UNCHANGED <<docVars, passes, earlyRun, shownVars, up>>
      /\ project' \in {project, project + 1} /\ settings' \in {settings, settings + 1}
      /\ cache' \in {cache, Unread}
  BY DEF ProjectChanges, SettingsChange, ConfigurationChanges, SettingsSaid, settingsVars
<1>2. /\ project' \in Nat /\ settings' \in Nat /\ project' >= project /\ settings' >= settings
      /\ cache' = cache \/ cache' = Unread
  BY <1>0, <1>1
<1>3. \/ generation' = generation + 1
      \/ SameGeneration /\ (open => project' = project)
  <2>1. CASE SettingsChange
    BY <2>1 DEF SettingsChange, schedulerVars, SameGeneration
  <2>2. ASSUME NEW kinds, Rerun(kinds)
        PROVE  generation' = generation + 1 \/ (SameGeneration /\ ~open)
    BY <1>1, <2>2 DEF Rerun, Schedule, schedulerVars, SameGeneration
  <2>3. CASE ProjectChanges \/ ConfigurationChanges \/ SettingsSaid
    BY <2>2, <2>3 DEF ProjectChanges, ConfigurationChanges, SettingsSaid
  <2> QED BY <2>1, <2>3
<1>4. CASE generation' = generation + 1
  BY <1>1, <1>2, <1>4, RenewedGoes
<1>5. CASE SameGeneration /\ (open => project' = project)
  BY <1>1, <1>2, <1>5, UnsaidGoes
<1> QED BY <1>3, <1>4, <1>5

LEMMA ActivateGoes == ASSUME GoInv, Activate PROVE GoRest' /\ GoesForward
<1>1. /\ UNCHANGED <<docVars, passes, shownVars, up>> /\ generation' = generation + 1
      /\ UNCHANGED <<project, settings, cache>>
  BY DEF Activate, Schedule, inputVars, settingsVars
<1>2. project \in Nat /\ settings \in Nat
  BY DEF GoInv, Types, ClockInv
<1> QED BY <1>1, <1>2, RenewedGoes

LEMMA FireRetryGoes == ASSUME GoInv, NEW l \in Lives, FireRetry(l) PROVE GoRest' /\ GoesForward
<1>1. /\ UNCHANGED <<docVars, passes, shownVars, up>> /\ generation' = generation + 1
      /\ UNCHANGED <<project, settings, cache>>
  BY DEF FireRetry, Schedule, inputVars, settingsVars
<1>2. project \in Nat /\ settings \in Nat
  BY DEF GoInv, Types, ClockInv
<1> QED BY <1>1, <1>2, RenewedGoes

LEMMA StillReports ==
    ASSUME GoInv, UNCHANGED <<docVars, project, settings>>, cache' = cache \/ cache' \in Readable,
           UNCHANGED shownVars \/ (full' = None /\ early' = None)
    PROVE  ReportInv' /\ GoesForward
<1>0. Types /\ ReportInv /\ project \in Nat /\ settings \in Nat
  BY DEF GoInv, Types, ClockInv
<1>1. CASE UNCHANGED shownVars
  <2>1. open' = open /\ life' = life /\ versions' = versions
    BY DEF docVars
  <2>2. open => versions[life] \in Nat
    BY <1>0, LivesIs, VersionsIs DEF Types, TimerInv
  <2>3. open => versions'[life] >= versions[life] /\ versions'[life] \in Nat
    BY <2>1, <2>2
  <2> QED BY <1>0, <1>1, <2>1, <2>3, SameReports, SameShown
<1>2. CASE full' = None /\ early' = None
  BY <1>0, <1>2, SameShown DEF ReportInv
<1> QED BY <1>1, <1>2

\* A pass is started with the project there is, or to wait for the early one.
LEMMA StartedGoes ==
    ASSUME GoInv, NEW q \in Passes, passes' \subseteq passes \cup {q},
           UNCHANGED <<docVars, project, settings, cache, generation>>,
           UNCHANGED shownVars \/ (full' = None /\ early' = None),
           q.gen = generation, q.at \in {"project", "waiting"},
           q.at = "project" => q.project = project
    PROVE  ForwardInv'
<1> SUFFICES ASSUME NEW r \in passes', Current(r)' PROVE Forward(r)'
  BY DEF ForwardInv
<1>1. CASE r = q
  BY <1>1 DEF Forward, Reading
<1>2. CASE r \in passes
  <2>1. Current(r)
    BY DEF Current, docVars
  <2>2. Forward(r)
    BY <1>2, <2>1 DEF GoInv, ForwardInv
  <2> QED BY <2>2 DEF Forward, shownVars
<1> QED BY <1>1, <1>2

LEMMA FireLocalGoes == ASSUME GoInv, FireLocal PROVE GoRest' /\ GoesForward
<1> DEFINE p == NewPass("local", localTimer)
<1>0. Types /\ p \in Records /\ p.kind = "local" /\ p.gen = generation /\ up["local"]
  BY NewPassIs DEF FireLocal, Kinds, GoInv
<1>1. /\ Begin(p, passes) /\ localTimer # None
      /\ UNCHANGED <<docVars, inputVars, up>>
      /\ earlyRun' = IF passes' = passes THEN None
                     ELSE [is |-> "run", gen |-> p.gen, version |-> p.version]
  BY DEF FireLocal
<1> HIDE DEF p
<1>2. /\ generation' = generation /\ cache' = cache
      /\ UNCHANGED shownVars \/ (full' = None /\ early' = None)
      /\ \/ passes' = passes
         \/ \E q \in Passes : passes' = passes \cup {q} /\ BegunAs(q, p) /\ q.at = "project"
  BY <1>0, <1>1, BeginIs
<1>3. \A o \in passes : o.gen # generation
  BY <1>0, <1>1 DEF Types, PassInv
<1>4. ReportInv' /\ GoesForward
  BY <1>1, <1>2, StillReports DEF inputVars
<1>5. CASE passes' = passes
  <2>1. \A o \in passes' : o.gen # generation'
    BY <1>2, <1>3, <1>5
  <2>2. RunInv' /\ ForwardInv'
    BY <2>1 DEF RunInv, ForwardInv, Current
  <2> QED BY <1>0, <1>1, <1>4, <2>2 DEF GoRest
<1>6. CASE \E q \in Passes : passes' = passes \cup {q} /\ BegunAs(q, p) /\ q.at = "project"
  <2>1. PICK q \in Passes : passes' = passes \cup {q} /\ BegunAs(q, p) /\ q.at = "project"
    BY <1>6
  <2>2. q.gen = generation /\ q.kind = "local" /\ q.project = project /\ q.version = p.version
    BY <1>0, <2>1 DEF BegunAs, SamePass
  <2>3. ForwardInv'
    BY <1>1, <1>2, <2>1, <2>2, StartedGoes DEF inputVars
  <2>4. q \notin passes
    BY <1>3, <2>2
  <2>5. earlyRun' = [is |-> "run", gen |-> p.gen, version |-> p.version]
    BY <1>1, <2>1, <2>4
  <2>6. earlyRun' # None /\ earlyRun'.gen = q.gen /\ earlyRun'.version = q.version
    <3>1. earlyRun'.is = "run" /\ None.is = "none"
      BY <2>5 DEF None
    <3>2. earlyRun' # None
      BY <3>1
    <3> QED BY <1>0, <2>2, <2>5, <3>2
  <2>7. \A r \in passes' : r.gen = generation' => r = q
    BY <1>2, <1>3, <2>1
  <2>8. RunInv'
    BY <2>2, <2>6, <2>7 DEF RunInv
  <2> QED BY <1>0, <1>1, <1>4, <2>3, <2>8 DEF GoRest
<1> QED BY <1>2, <1>5, <1>6

\* A full pass is started only where the early one of its generation is over.
LEMMA StartedRuns ==
    ASSUME GoInv, NEW q \in Passes, passes' \subseteq passes \cup {q},
           generation' = generation, earlyRun' = earlyRun, q.kind = "full",
           \A r \in passes : r.kind = "local" /\ r.gen = generation =>
              q.at = "waiting" /\ q.awaits = generation
    PROVE  RunInv'
<1>1. RunInv
  BY DEF GoInv
<1>2. \A p \in passes' : p \in passes \/ p = q
  OBVIOUS
<1>3. \A p \in passes' : p.kind = "local" /\ p.gen = generation' =>
          earlyRun' # None /\ earlyRun'.gen = p.gen /\ earlyRun'.version = p.version
  BY <1>1, <1>2 DEF RunInv
<1>4. \A p, r \in passes' :
          p.kind = "full" /\ r.kind = "local" /\ p.gen = generation' /\ r.gen = generation' =>
             p.at = "waiting" /\ p.awaits = generation'
  BY <1>1, <1>2 DEF RunInv
<1> QED BY <1>3, <1>4 DEF RunInv

LEMMA BeginFullGoes ==
    ASSUME GoInv, NEW p \in Records, p.kind = "full", p.gen = generation,
           NEW others, others \subseteq passes, BeginFull(p, others),
           UNCHANGED <<docVars, inputVars, up, earlyRun>>,
           \A r \in passes : ~(r.kind = "local" /\ r.gen = generation)
    PROVE  GoRest' /\ GoesForward
<1>0. Types /\ up["local"] /\ RunInv /\ ForwardInv
  BY DEF GoInv
<1>1. /\ generation' = generation /\ cache' = cache
      /\ UNCHANGED shownVars \/ (full' = None /\ early' = None)
      /\ \/ passes' = others
         \/ \E q \in Passes : passes' = others \cup {q} /\ BegunAs(q, p) /\ q.at = "project"
  <2>1. CASE EarlyDidAll(p)
    BY <2>1 DEF BeginFull, settingsVars
  <2>2. CASE ~EarlyDidAll(p)
    BY <1>0, <2>2, BeginIs DEF BeginFull
  <2> QED BY <2>1, <2>2
<1>2. ReportInv' /\ GoesForward
  BY <1>1, StillReports DEF inputVars
<1>3. CASE passes' = others
  <2>1. \A r \in passes' : r \in passes
    BY <1>3
  <2>2. RunInv'
    BY <1>0, <1>1, <2>1 DEF RunInv
  <2>3. ForwardInv'
    <3> SUFFICES ASSUME NEW r \in passes', Current(r)' PROVE Forward(r)'
      BY DEF ForwardInv
    <3>1. Current(r)
      BY <1>1 DEF Current, docVars
    <3>2. Forward(r)
      BY <1>0, <2>1, <3>1 DEF ForwardInv
    <3> QED BY <1>1, <3>2 DEF Forward, inputVars, shownVars
  <2> QED BY <1>0, <1>2, <2>2, <2>3 DEF GoRest
<1>4. CASE \E q \in Passes : passes' = others \cup {q} /\ BegunAs(q, p) /\ q.at = "project"
  <2>1. PICK q \in Passes : passes' = others \cup {q} /\ BegunAs(q, p) /\ q.at = "project"
    BY <1>4
  <2>2. q.gen = generation /\ q.kind = "full" /\ q.project = project
    BY <2>1 DEF BegunAs, SamePass
  <2>3. passes' \subseteq passes \cup {q}
    BY <2>1
  <2>4. ForwardInv'
    BY <1>1, <2>1, <2>2, <2>3, StartedGoes DEF inputVars
  <2>5. RunInv'
    BY <1>1, <2>2, <2>3, StartedRuns
  <2> QED BY <1>0, <1>2, <2>4, <2>5 DEF GoRest
<1> QED BY <1>1, <1>3, <1>4

LEMMA FireFullGoes == ASSUME GoInv, FireFull PROVE GoRest' /\ GoesForward
<1> DEFINE p == NewPass("full", fullTimer)
           w == [p EXCEPT !.at = "waiting", !.awaits = earlyRun.gen]
<1>0. /\ Types /\ RunInv /\ up["local"]
      /\ p \in Records /\ p.kind = "full" /\ p.gen = generation /\ p.life = fullTimer.life
      /\ p.version = versions[fullTimer.life]
  BY NewPassIs DEF FireFull, Kinds, GoInv
<1>1. fullTimer # None /\ UNCHANGED <<docVars, inputVars, earlyRun, up>>
  BY DEF FireFull
<1>2. \/ /\ earlyRun # None /\ passes' = passes \cup {w}
         /\ UNCHANGED <<generation, completed, settingsVars, shownVars>>
      \/ ~(earlyRun # None /\ earlyRun.version = p.version) /\ BeginFull(p, passes)
  BY DEF FireFull
<1>w. earlyRun # None =>
        w \in Records /\ SamePass(w, p) /\ w.at = "waiting" /\ w.awaits = earlyRun.gen
  <2>1. earlyRun # None => earlyRun.gen \in Nat
    BY <1>0 DEF Types, ShownInv, Runs
  <2> QED BY <1>0, <2>1, WaitingIs
<1> HIDE DEF w, p
<1>3. \A r \in passes : r.kind = "local" /\ r.gen = generation =>
         earlyRun # None /\ earlyRun.gen = generation /\ earlyRun.version = p.version
  BY <1>0, <1>1 DEF RunInv, Types, PassInv
<1>4. CASE /\ earlyRun # None /\ passes' = passes \cup {w}
           /\ UNCHANGED <<generation, completed, settingsVars, shownVars>>
  <2>1. /\ w \in Passes /\ w.gen = generation /\ w.kind = "full" /\ w.at = "waiting"
        /\ w.awaits = earlyRun.gen
    BY <1>0, <1>w, <1>4 DEF Passes, SamePass
  <2>2. ReportInv' /\ GoesForward
    BY <1>1, <1>4, StillReports DEF inputVars, settingsVars
  <2>3. ForwardInv'
    BY <1>1, <1>4, <2>1, StartedGoes DEF inputVars, settingsVars
  <2>4. RunInv'
    BY <1>1, <1>3, <1>4, <2>1, StartedRuns
  <2> QED BY <1>0, <1>1, <2>2, <2>3, <2>4 DEF GoRest
<1>5. CASE ~(earlyRun # None /\ earlyRun.version = p.version) /\ BeginFull(p, passes)
  <2>1. \A r \in passes : ~(r.kind = "local" /\ r.gen = generation)
    BY <1>3, <1>5
  <2> QED BY <1>0, <1>1, <1>5, <2>1, BeginFullGoes
<1> QED BY <1>2, <1>4, <1>5

\* The pass p ends, and nothing else changes.
LEMMA DropGoes ==
    ASSUME GoInv, NEW p \in passes, passes' = passes \ {p}, SameGeneration,
           UNCHANGED <<project, settings, cache, up, shownVars>>,
           earlyRun' = earlyRun \/ End(p)
    PROVE  GoRest' /\ GoesForward
<1>0. Types /\ RunInv /\ ForwardInv /\ UNCHANGED docVars
  BY DEF GoInv, SameGeneration
<1>1. \A q \in passes' : \E o \in passes : Steady(q, o)
  BY SteadyIs
<1>2. \/ earlyRun' = earlyRun
      \/ \A q \in passes' : ~(q.kind = "local" /\ q.gen = generation)
  BY <1>0, EndRuns
<1>3. RunInv'
  BY <1>0, <1>1, <1>2, SteadyRuns
<1>4. ForwardInv'
  BY <1>0, <1>1, SteadyForward
<1>5. ReportInv' /\ GoesForward
  BY <1>0, StillReports
<1> QED BY <1>3, <1>4, <1>5 DEF GoInv, GoRest

LEMMA EarlySettledGoes == ASSUME GoInv, NEW p \in passes, EarlySettled(p) PROVE GoRest' /\ GoesForward
<1>0. /\ SameGeneration /\ UNCHANGED <<docVars, inputVars, up, earlyRun>>
      /\ p.at = "waiting" /\ ~\E q \in passes : q.kind = "local" /\ q.gen = p.awaits
  BY GoingFrame DEF EarlySettled
<1>1. p \in Records /\ p.kind = "full"
  BY <1>0 DEF GoInv, Types, PassInv, Passes
<1>2. CASE ~Current(p)
  <2>1. passes' = passes \ {p} /\ UNCHANGED <<settingsVars, shownVars>>
    BY <1>2 DEF EarlySettled
  <2> QED BY <1>0, <2>1, DropGoes DEF inputVars, settingsVars
<1>3. CASE Current(p)
  <2>1. BeginFull(p, passes \ {p}) /\ p.gen = generation
    BY <1>3 DEF EarlySettled, Current
  <2>2. \A r \in passes : ~(r.kind = "local" /\ r.gen = generation)
    BY <1>0, <1>1, <2>1 DEF GoInv, RunInv
  <2>3. passes \ {p} \subseteq passes
    OBVIOUS
  <2> QED BY <1>0, <1>1, <2>1, <2>2, <2>3, BeginFullGoes
<1> QED BY <1>2, <1>3

LEMMA ProjectReadGoes == ASSUME GoInv, NEW p \in passes, ProjectRead(p) PROVE GoRest' /\ GoesForward
<1>0. /\ Types /\ RunInv /\ ForwardInv /\ p.at = "project"
      /\ SameGeneration /\ UNCHANGED <<docVars, inputVars, up, earlyRun, shownVars>>
      /\ \E q \in Passes : Reads(p, q)
  BY ProjectReadIs DEF GoInv, ProjectRead, SameGeneration
<1>1. PICK q \in Passes : Reads(p, q)
  BY <1>0
<1>2. /\ SamePass(q, p) /\ q.at = "settings" /\ passes' = (passes \ {p}) \cup {q}
      /\ q.project \in p.project..project /\ cache' = q.settings /\ cache' \in Readable
  BY <1>1 DEF Reads
<1>3. ReportInv' /\ GoesForward
  BY <1>0, <1>2, StillReports DEF inputVars
<1>4. RunInv'
  <2>1. \A r \in passes' : r = q \/ r \in passes
    BY <1>2
  <2>2. ASSUME NEW r \in passes', r.kind = "local", r.gen = generation
        PROVE  earlyRun # None /\ earlyRun.gen = r.gen /\ earlyRun.version = r.version
    BY <1>0, <1>2, <2>1, <2>2 DEF RunInv, SamePass
  <2>3. ASSUME NEW r \in passes', NEW s \in passes', r.kind = "full", s.kind = "local",
               r.gen = generation, s.gen = generation
        PROVE  r.at = "waiting" /\ r.awaits = generation
    <3>1. CASE r \in passes /\ s \in passes
      BY <1>0, <2>3, <3>1 DEF RunInv
    <3>2. CASE r \in passes /\ s = q
      BY <1>0, <1>2, <2>3, <3>2 DEF RunInv, SamePass
    <3>3. CASE r = q /\ s \in passes
      BY <1>0, <1>2, <2>3, <3>3 DEF RunInv, SamePass
    <3>4. CASE r = q /\ s = q
      BY <2>3, <3>4
    <3> QED BY <2>1, <3>1, <3>2, <3>3, <3>4
  <2>4. generation' = generation /\ earlyRun' = earlyRun
    BY <1>0 DEF SameGeneration
  <2> QED BY <2>2, <2>3, <2>4 DEF RunInv
<1>5. ForwardInv'
  <2> SUFFICES ASSUME NEW r \in passes', Current(r)' PROVE Forward(r)'
    BY DEF ForwardInv
  <2>0. /\ project' = project /\ settings' = settings /\ full' = full /\ early' = early
        /\ project \in Nat /\ settings \in Nat /\ (cache # Unread => cache \in Nat /\ cache <= settings)
    BY <1>0 DEF inputVars, shownVars, Types, ClockInv
  <2>c. /\ cache' \in Nat /\ cache' <= settings
        /\ cache' = settings \/ (cache' = cache /\ cache # Unread)
    BY <1>0, <1>2, ReadableIs DEF Types, ClockInv
  <2>1. CASE r = q
    <3>1. Current(p)
      BY <1>2, <2>1, CurrentSame, <1>0
    <3>2. q.project = project
      <4>1. p.project = project
        BY <1>0, <3>1 DEF ForwardInv, Forward
      <4> QED BY <1>2, <2>0, <4>1
    <3>3. /\ full # None => full.settings <= q.settings
          /\ early # None => early.settings <= q.settings
      BY <1>2, <2>c DEF GoInv, ReportInv, NotNewer
    <3> QED BY <1>2, <2>0, <2>1, <2>c, <3>2, <3>3 DEF Forward, Reading
  <2>2. CASE r \in passes
    <3>1. Current(r)
      BY <1>0, CurrentSame, SamePassIs
    <3>2. Forward(r)
      BY <1>0, <2>2, <3>1 DEF ForwardInv
    <3>3. r.at \in Reading => r.settings <= cache'
      BY <2>c, <3>2 DEF Forward
    <3> QED BY <2>0, <3>2, <3>3 DEF Forward
  <2> QED BY <1>2, <2>1, <2>2
<1> QED BY <1>0, <1>3, <1>4, <1>5 DEF GoInv, GoRest

\* A pass that ends gives its result if it counts.
LEMMA EndGoes ==
    ASSUME GoInv, NEW p \in passes, SameGeneration, UNCHANGED <<inputVars, settingsVars, up>>,
           \/ End(p) /\ UNCHANGED shownVars
           \/ /\ p.at \in Reading
              /\ \E complete, error \in BOOLEAN : Publish(p, complete, error)
    PROVE  GoRest' /\ GoesForward
<1>0. Types /\ RunInv /\ UNCHANGED <<project, settings, cache>>
  BY DEF GoInv, inputVars, settingsVars
<1>1. CASE End(p) /\ UNCHANGED shownVars
  <2>1. passes' = passes \ {p}
    BY <1>1 DEF End
  <2> QED BY <1>0, <1>1, <2>1, DropGoes
<1>2. ASSUME p.at \in Reading, NEW complete \in BOOLEAN, NEW error \in BOOLEAN,
             Publish(p, complete, error)
      PROVE  GoRest' /\ GoesForward
  <2>1. End(p) /\ passes' = passes \ {p}
    BY <1>0, <1>2, PublishIs DEF End
  <2>2. CASE ~Current(p)
    <3>1. UNCHANGED shownVars
      BY <1>0, <1>2, <2>2, PublishIs
    <3> QED BY <1>0, <2>1, <3>1, DropGoes
  <2>3. CASE Current(p)
    <3>1. ReportInv' /\ ForwardInv' /\ GoesForward
      BY <1>0, <1>2, <2>3, PublishGoes DEF GoesForward
    <3>2. \A q \in passes' : q \in passes /\ Steady(q, q)
      BY <1>0, <2>1, EndRuns
    <3>3. \/ earlyRun' = earlyRun
          \/ \A q \in passes' : ~(q.kind = "local" /\ q.gen = generation)
      BY <1>0, <2>1, EndRuns
    <3>4. RunInv'
      BY <1>0, <3>2, <3>3, SteadyRuns
    <3> QED BY <3>1, <3>4 DEF GoInv, GoRest
  <2> QED BY <2>2, <2>3
<1> QED BY <1>1, <1>2

LEMMA ProjectUnknownGoes ==
    ASSUME GoInv, NEW p \in passes, ProjectUnknown(p) PROVE GoRest' /\ GoesForward
<1>1. SameGeneration /\ UNCHANGED <<inputVars, up>>
  BY GoingFrame
<1>2. End(p) /\ UNCHANGED shownVars /\ UNCHANGED settingsVars
  BY DEF ProjectUnknown
<1> QED BY <1>1, <1>2, EndGoes

\* A request moves its pass on, and at most ends the one before it.
LEMMA DispatchSteady ==
    ASSUME Types, NEW p \in passes, p.at = "settings", Dispatch(p), NEW q \in passes'
    PROVE  \E o \in passes : Steady(q, o)
<1>0. p \in Records
  BY DEF Types, PassInv, Passes
<1>1. CASE q \in Superseded({p.kind})
  <2>1. PICK o \in passes :
          /\ q = o \/ (o.at = "worker" /\ q = [o EXCEPT !.at = "superseded"])
          /\ SamePass(q, o)
          /\ q.at # "superseded" => q = o
    BY <1>1, SupersededIs DEF Types
  <2>2. CASE q = o
    BY <2>2, SteadyIs
  <2>3. CASE q # o
    BY <2>1, <2>3 DEF Steady, Reading
  <2> QED BY <2>2, <2>3
<1>2. CASE q = [p EXCEPT !.at = "worker"]
  <2>1. SamePass(q, p) /\ q.at = "worker" /\ q.project = p.project /\ q.settings = p.settings
    BY <1>0, <1>2, MovedIs DEF Ats
  <2> QED BY <2>1 DEF Steady, Reading
<1> QED BY <1>1, <1>2 DEF Dispatch

LEMMA DispatchGoes ==
    ASSUME GoInv, NEW p \in passes, p.at = "settings", Current(p), Dispatch(p), SameGeneration,
           UNCHANGED <<inputVars, settingsVars, up>>
    PROVE  GoRest' /\ GoesForward
<1>0. /\ Types /\ RunInv /\ ForwardInv
      /\ UNCHANGED <<docVars, project, settings, cache, shownVars, earlyRun>>
  BY DEF GoInv, SameGeneration, inputVars, settingsVars, Dispatch
<1>1. \A q \in passes' : \E o \in passes : Steady(q, o)
  BY <1>0, DispatchSteady
<1>2. RunInv'
  BY <1>0, <1>1, SteadyRuns
<1>3. ForwardInv'
  BY <1>0, <1>1, SteadyForward
<1>4. ReportInv' /\ GoesForward
  BY <1>0, StillReports
<1> QED BY <1>2, <1>3, <1>4 DEF GoInv, GoRest

LEMMA SettingsReadGoes ==
    ASSUME GoInv, NEW p \in passes, SettingsRead(p) PROVE GoRest' /\ GoesForward
<1>1. SameGeneration /\ UNCHANGED <<inputVars, up, settingsVars>> /\ p.at = "settings"
  BY GoingFrame DEF SettingsRead
<1>2. CASE ~Current(p)
  <2>1. End(p) /\ UNCHANGED shownVars
    BY <1>2 DEF SettingsRead
  <2> QED BY <1>1, <2>1, EndGoes
<1>3. CASE Current(p) /\ Dispatch(p)
  BY <1>1, <1>3, DispatchGoes
<1>4. CASE Publish(p, TRUE, FALSE)
  <2>1. p.at \in Reading /\ \E complete, error \in BOOLEAN : Publish(p, complete, error)
    BY <1>1, <1>4 DEF Reading
  <2> QED BY <1>1, <2>1, EndGoes
<1> QED BY <1>2, <1>3, <1>4 DEF SettingsRead

LEMMA AnsweredGoes ==
    ASSUME GoInv, NEW p \in passes, Answered(p) PROVE GoRest' /\ GoesForward
<1>1. SameGeneration /\ UNCHANGED <<inputVars, up, settingsVars>> /\ p.at = "worker"
  BY GoingFrame DEF Answered
<1>2. p.at \in Reading /\ \E complete, error \in BOOLEAN : Publish(p, complete, error)
  BY <1>1 DEF Answered, Reading
<1> QED BY <1>1, <1>2, EndGoes

LEMMA SupersededEndsGoes ==
    ASSUME GoInv, NEW p \in passes, SupersededEnds(p) PROVE GoRest' /\ GoesForward
<1>1. SameGeneration /\ UNCHANGED <<inputVars, up, settingsVars>>
  BY GoingFrame DEF SupersededEnds
<1>2. End(p) /\ UNCHANGED shownVars
  BY DEF SupersededEnds
<1> QED BY <1>1, <1>2, EndGoes

LEMMA InHostGoes ==
    ASSUME GoInv, NEW p \in passes, InHost(p) PROVE GoRest' /\ GoesForward
<1>1. SameGeneration /\ UNCHANGED <<inputVars, up, settingsVars>> /\ p.at = "host"
  BY GoingFrame DEF InHost
<1>2. p.at \in Reading /\ \E complete, error \in BOOLEAN : Publish(p, complete, error)
  BY <1>1 DEF InHost, Reading
<1> QED BY <1>1, <1>2, EndGoes

\* The worker of the early passes stays.
LEMMA WorkerDiesGoes ==
    ASSUME GoInv, "early down" \notin Races, NEW v \in Kinds, WorkerDies(v)
    PROVE  GoRest' /\ GoesForward
<1>0. /\ Types /\ RunInv /\ ForwardInv /\ SameGeneration
      /\ UNCHANGED <<docVars, project, settings, cache, shownVars, earlyRun>>
      /\ v = "full" /\ up' = [up EXCEPT ![v] = FALSE]
  BY DEF GoInv, WorkerDies, SameGeneration, schedulerVars, inputVars, settingsVars
<1>1. ASSUME NEW q \in passes' PROVE \E o \in passes : Steady(q, o)
  <2>1. PICK o \in passes :
          /\ SamePass(q, o)
          /\ q = o \/ (/\ o.at \in {"worker", "superseded"} /\ q.at = "host"
                       /\ q.project = o.project /\ q.settings = o.settings)
    BY <1>0, DiesIs
  <2>2. Steady(q, o)
    BY <2>1, SteadyIs DEF Steady, Reading
  <2> QED BY <2>2
<1>2. RunInv'
  BY <1>0, <1>1, SteadyRuns
<1>3. ForwardInv'
  BY <1>0, <1>1, SteadyForward
<1>4. ReportInv' /\ GoesForward
  BY <1>0, StillReports
<1>5. up'["local"]
  <2>1. up \in [Kinds -> BOOLEAN] /\ up["local"] /\ "local" \in Kinds
    BY DEF GoInv, Types, FlagInv, Kinds
  <2> QED BY <1>0, <2>1
<1> QED BY <1>2, <1>3, <1>4, <1>5 DEF GoRest

LEMMA StutterGoes == ASSUME GoInv, UNCHANGED vars PROVE GoRest' /\ GoesForward
<1>1. SameGeneration /\ UNCHANGED <<passes, earlyRun, shownVars, up, project, settings, cache>>
  BY DEF vars, SameGeneration, schedulerVars, inputVars, settingsVars
<1>2. project \in Nat /\ settings \in Nat
  BY DEF GoInv, Types, ClockInv
<1>3. /\ project' \in Nat /\ settings' \in Nat /\ project' >= project /\ settings' >= settings
      /\ cache' = cache /\ project' = project
  BY <1>1, <1>2
<1> QED BY <1>1, <1>3, UnsaidGoes

LEMMA GoStep ==
    ASSUME GoInv, "early down" \notin Races, [Next]_vars
    PROVE  GoInv' /\ GoesForward
<1>T. Types'
  BY TypesStep DEF GoInv
<1>1. ASSUME NEW p \in passes,
             \/ EarlySettled(p) \/ ProjectRead(p) \/ ProjectUnknown(p) \/ SettingsRead(p)
             \/ Answered(p) \/ SupersededEnds(p) \/ InHost(p)
      PROVE  GoRest' /\ GoesForward
  BY <1>1, EarlySettledGoes, ProjectReadGoes, ProjectUnknownGoes, SettingsReadGoes,
     AnsweredGoes, SupersededEndsGoes, InHostGoes
<1>2. CASE PassGoesOn
  <2>1. GoRest' /\ GoesForward
    BY <1>1, <1>2 DEF PassGoesOn
  <2> QED BY <1>T, <2>1 DEF GoRest, GoInv
<1>3. CASE UNCHANGED vars
  <2>1. GoRest' /\ GoesForward
    BY <1>3, StutterGoes
  <2> QED BY <1>T, <2>1 DEF GoRest, GoInv
<1>4. CASE \/ Open \/ Edit \/ Activate \/ Close
           \/ ProjectChanges \/ SettingsChange \/ ConfigurationChanges \/ SettingsSaid
           \/ FireLocal \/ FireFull
  <2>1. GoRest' /\ GoesForward
    BY <1>4, OpenGoes, EditGoes, ActivateGoes, CloseGoes, ChangesGo, FireLocalGoes, FireFullGoes
  <2> QED BY <1>T, <2>1 DEF GoRest, GoInv
<1>5. ASSUME NEW l \in Lives, FireRetry(l) PROVE GoInv' /\ GoesForward
  <2>1. GoRest' /\ GoesForward
    BY <1>5, FireRetryGoes
  <2> QED BY <1>T, <2>1 DEF GoRest, GoInv
<1>6. ASSUME NEW v \in {"local", "full"}, WorkerDies(v) PROVE GoInv' /\ GoesForward
  <2>1. GoRest' /\ GoesForward
    BY <1>6, WorkerDiesGoes DEF Kinds
  <2> QED BY <1>T, <2>1 DEF GoRest, GoInv
<1> QED BY <1>2, <1>3, <1>4, <1>5, <1>6 DEF Next

LEMMA GoInit == Init => GoInv
<1> SUFFICES ASSUME Init PROVE GoInv
  OBVIOUS
<1>1. Types
  BY TypesInit
<1>2. passes = {} /\ full = None /\ early = None /\ up["local"]
  BY DEF Init
<1> QED BY <1>1, <1>2 DEF GoInv, RunInv, ReportInv, ForwardInv

\* The problems go forward: with the early passes' worker there, no order of
\* edits, changes of project and settings, reruns, retries, answers and
\* reopenings puts the problems of an older text, project or settings in the
\* place of newer ones.  (A pass without the worker has no project to be of.)
THEOREM ProblemsGoOnlyForward ==
    "early down" \notin Races => (Spec => ProblemsGoForward)
<1> SUFFICES ASSUME "early down" \notin Races PROVE Spec => ProblemsGoForward
  OBVIOUS
<1>1. Init => GoInv
  BY GoInit
<1>2. GoInv /\ [Next]_vars => GoInv'
  BY GoStep
<1>3. GoInv /\ [Next]_vars =>
        [life' = life /\ Lead # None /\ Lead' # None =>
            /\ Lead'.version >= Lead.version
            /\ Lead'.project >= Lead.project
            /\ Lead'.settings >= Lead.settings]_vars
  BY GoStep DEF GoesForward
<1> QED BY <1>1, <1>2, <1>3, PTL DEF Spec, ProblemsGoForward

-----------------------------------------------------------------------------
(* What is shown when nothing is due.                                      *)

\* What is due or runs is of the document that is open.
LifeInv ==
    /\ \A l \in Lives : retrying[l] > 0 => l = life
    /\ \A t \in {localTimer, fullTimer} \ {None} : t.life = life
    /\ \A p \in passes : p.gen = generation => p.life = life

\* Nothing was made of settings that were changed and not said to be: before
\* the sidecar is watched nothing is shown, and no pass has read the settings.
FreshInv ==
    /\ unsaid => watched
    /\ open /\ ~watched => /\ full = None /\ early = None
                           /\ \A p \in passes : p.gen = generation => p.at = "waiting"
    /\ open /\ ~unsaid =>
          /\ cache \in {Unread, settings}
          /\ \A p \in passes : p.gen = generation /\ p.at \in Reading => p.settings = settings

\* An early result that is complete and of the latest generation is the last
\* word: no early pass follows it.
EarlyInv ==
    early # None =>
        /\ early.gen <= generation
        /\ early.gen = generation =>
              /\ localTimer = None
              /\ \A p \in passes : p.gen = generation => p.kind # "local"
              /\ ~unsaid => UpToDate(early)

\* The problems are what they should be.
Done ==
    \/ early # None /\ early.gen = generation
    \/ full # None /\ UpToDate(full) /\ (early # None => UpToDate(early))

FullRuns == \E p \in passes : p.kind = "full" /\ p.gen = generation

\* Whatever is not shown yet will be made good by something that is due.
DueInv ==
    open /\ enabled =>
        fullTimer # None \/ FullRuns \/ retrying[life] > 0 \/ unsaid \/ Done

\* With diagnostics off the problems are gone, or a pass is due that takes
\* them away.
OffInv ==
    open /\ ~enabled =>
        /\ fullTimer # None \/ FullRuns \/ (full = None /\ early = None)
        /\ \A p \in passes : p.gen = generation => p.at = "waiting"
        /\ early # None => early.gen # generation

QuietRest == LifeInv /\ FreshInv /\ EarlyInv /\ DueInv /\ OffInv

QuietInv == GoInv /\ QuietRest

\* A pass of the latest generation counts while the module is open.
LEMMA GenerationCounts ==
    ASSUME QuietInv, open, NEW p \in passes, p.gen = generation
    PROVE  Current(p)
BY DEF QuietInv, QuietRest, GoInv, Types, PassInv, LifeInv, Current

LEMMA ClosedShowsNothing ==
    ASSUME GoInv, ~open
    PROVE  full = None /\ early = None
BY DEF GoInv, ReportInv, NotNewer

\* What must hold of the settings where a generation begins.
FreshStart ==
    /\ unsaid => watched
    /\ open /\ ~watched => full = None /\ early = None
    /\ open /\ ~unsaid => cache \in {Unread, settings}

\* A generation begins, with a full pass due.
LEMMA RenewedQuiet ==
    ASSUME QuietInv, generation' = generation + 1, \A q \in passes' : q.gen # generation',
           early' = early \/ early' = None, fullTimer' # None \/ ~open',
           \A t \in {localTimer', fullTimer'} \ {None} : t.life = life',
           \A l \in Lives : retrying'[l] > 0 => l = life',
           FreshStart'
    PROVE  QuietRest'
<1>1. LifeInv'
  BY DEF LifeInv
<1>2. FreshInv'
  BY DEF FreshStart, FreshInv
<1>3. early' # None => early'.gen <= generation' /\ early'.gen # generation'
  <2>1. early # None => early.gen \in Nat
    BY ReportFields DEF QuietInv, GoInv, Types, ShownInv
  <2>2. early # None => early.gen <= generation
    BY DEF QuietInv, QuietRest, EarlyInv
  <2>3. generation \in Nat
    BY DEF QuietInv, GoInv, Types, TimerInv
  <2> QED BY <2>1, <2>2, <2>3
<1>4. EarlyInv'
  BY <1>3 DEF EarlyInv
<1>5. DueInv' /\ OffInv'
  BY <1>3 DEF DueInv, OffInv
<1> QED BY <1>1, <1>2, <1>4, <1>5 DEF QuietRest

\* FreshStart is where the settings stay as they are.
LEMMA FreshStays ==
    ASSUME QuietInv, UNCHANGED <<open, watched, unsaid, settings, shownVars>>,
           cache' = cache \/ cache' = Unread
    PROVE  FreshStart'
BY DEF QuietInv, QuietRest, FreshInv, FreshStart, shownVars

LEMMA OpenQuiet == ASSUME QuietInv, Races = {}, Open PROVE QuietRest'
<1>0. /\ Types /\ full = None /\ early = None /\ life + 1 \in Lives /\ life \in Nat
      /\ life' = life + 1 /\ open' = TRUE
  <2>1. Types /\ full = None /\ early = None
    BY ClosedShowsNothing DEF Open, QuietInv, GoInv
  <2>2. life < MaxLives /\ life' = life + 1 /\ open' = TRUE /\ life \in Nat
    BY <2>1 DEF Open, Types, DocInv
  <2> QED BY <2>1, <2>2, BoundsAssumption DEF Lives
<1>1. /\ UNCHANGED <<passes, up, full, early, retrying, watched, unsaid, settings>>
      /\ \A l \in Lives : retrying[l] = 0
      /\ cache' \in {Unread, settings}
  <2>1. UNCHANGED <<passes, up, full, early, retrying, watched, unsaid, settings>>
    BY DEF Open, inputVars, metaVars, shownVars
  <2>2. \A l \in Lives : retrying[l] = 0
    BY DEF Open
  <2>3. cache' \in {Unread, settings}
    BY DEF Open
  <2> QED BY <2>1, <2>2, <2>3
<1>2. /\ generation' = generation + 1 /\ fullTimer' # None
      /\ \A t \in {localTimer', fullTimer'} \ {None} : t.life = life'
  <2>1. Schedule(life + 1, {"local", "full"})
    BY DEF Open
  <2>2. life' \in Nat /\ life + 1 <= life' /\ life' > 0
    BY <1>0
  <2> QED BY <1>0, <2>1, <2>2, ScheduleTimers
<1>3. \A q \in passes' : q.gen # generation'
  BY <1>0, <1>1, <1>2, OldPasses
<1>4. FreshStart'
  BY <1>0, <1>1 DEF FreshStart, QuietInv, QuietRest, FreshInv
<1>5. \A l \in Lives : retrying'[l] > 0 => l = life'
  BY <1>1
<1> QED BY <1>1, <1>2, <1>3, <1>4, <1>5, RenewedQuiet

\* Whatever schedules the document that is open, or was last.
LEMMA ScheduledQuiet ==
    ASSUME QuietInv, life \in Lives, NEW kinds, "full" \in kinds, Schedule(life, kinds),
           UNCHANGED <<open, life, passes, up, shownVars>>,
           \A l \in Lives : retrying'[l] > 0 => l = life,
           FreshStart'
    PROVE  QuietRest'
<1>0. Types /\ life' = life /\ life \in Nat /\ life > 0
  BY DEF QuietInv, GoInv, Types, DocInv, Lives
<1>1. /\ generation' = generation + 1 /\ fullTimer' # None
      /\ \A t \in {localTimer', fullTimer'} \ {None} : t.life = life'
  BY <1>0, ScheduleTimers
<1>2. \A q \in passes' : q.gen # generation'
  BY <1>0, <1>1, OldPasses
<1>3. early' = early /\ \A l \in Lives : retrying'[l] > 0 => l = life'
  BY <1>0 DEF shownVars
<1> QED BY <1>1, <1>2, <1>3, RenewedQuiet

LEMMA EditQuiet == ASSUME QuietInv, Edit \/ Activate PROVE QuietRest'
<1>1. life \in Lives
  BY LivesIs DEF QuietInv, GoInv, Types, TimerInv, Edit, Activate
<1>2. /\ UNCHANGED <<open, life, passes, up, shownVars, retrying>>
      /\ UNCHANGED <<watched, unsaid, settings, cache>>
  BY DEF Edit, Activate, docVars, inputVars, metaVars, settingsVars
<1>3. \E kinds : "full" \in kinds /\ Schedule(life, kinds)
  BY DEF Edit, Activate
<1>4. FreshStart'
  BY <1>2, FreshStays
<1>5. \A l \in Lives : retrying'[l] > 0 => l = life
  BY <1>2 DEF QuietInv, QuietRest, LifeInv
<1> QED BY <1>1, <1>2, <1>3, <1>4, <1>5, ScheduledQuiet

LEMMA FireRetryQuiet == ASSUME QuietInv, NEW l \in Lives, FireRetry(l) PROVE QuietRest'
<1>1. l = life /\ Schedule(l, {"local", "full"})
  BY DEF FireRetry, QuietInv, QuietRest, LifeInv
<1>2. /\ UNCHANGED <<open, life, passes, up, shownVars>>
      /\ UNCHANGED <<watched, unsaid, settings, cache>>
      /\ retrying' = [retrying EXCEPT ![l] = retrying[l] - 1]
  BY DEF FireRetry, docVars, inputVars, settingsVars
<1>3. FreshStart'
  BY <1>2, FreshStays
<1>4. \A k \in Lives : retrying'[k] > 0 => k = life
  BY <1>1, <1>2 DEF QuietInv, QuietRest, LifeInv, GoInv, Types, RetryInv
<1> QED BY <1>1, <1>2, <1>3, <1>4, ScheduledQuiet

LEMMA CloseQuiet == ASSUME QuietInv, Close PROVE QuietRest'
<1>0. /\ Types /\ up' = up /\ generation' = generation + 1
      /\ passes' = Superseded({"local", "full"})
      /\ early' = None /\ open' = FALSE /\ localTimer' = None /\ fullTimer' = None
      /\ life' = life /\ retrying' = retrying /\ unsaid' = FALSE
  BY DEF QuietInv, GoInv, Close, ShowNothing
<1>1. \A q \in passes' : q.gen # generation'
  BY <1>0, OldPasses
<1>2. FreshStart'
  BY <1>0 DEF FreshStart
<1>3. \A l \in Lives : retrying'[l] > 0 => l = life'
  BY <1>0 DEF QuietInv, QuietRest, LifeInv
<1>4. \A t \in {localTimer', fullTimer'} \ {None} : t.life = life'
  BY <1>0
<1> QED BY <1>0, <1>1, <1>2, <1>3, <1>4, RenewedQuiet

\* Nothing is shown of a module that is not open.
LEMMA ClosedQuiet ==
    ASSUME QuietInv, ~open, SameGeneration, UNCHANGED <<passes, retrying, shownVars>>,
           unsaid' => watched'
    PROVE  QuietRest'
<1>1. /\ full' = None /\ early' = None /\ ~open' /\ life' = life /\ generation' = generation
      /\ localTimer' = localTimer /\ fullTimer' = fullTimer
      /\ passes' = passes /\ retrying' = retrying
  BY ClosedShowsNothing DEF QuietInv, SameGeneration, docVars, shownVars
<1>2. LifeInv'
  BY <1>1 DEF QuietInv, QuietRest, LifeInv
<1> QED BY <1>1, <1>2 DEF QuietRest, FreshInv, EarlyInv, DueInv, OffInv

\* A project, settings or configuration that changes, and the rerun.
LEMMA RerunQuiet ==
    ASSUME QuietInv, NEW kinds, "full" \in kinds, Rerun(kinds),
           UNCHANGED <<docVars, passes, up, retrying, shownVars, settings>>,
           unsaid' => watched', watched' = watched,
           ~unsaid' => cache' = Unread \/ (~unsaid /\ cache' = cache)
    PROVE  QuietRest'
<1>0. /\ UNCHANGED <<open, life>> /\ settings' = settings
      /\ full' = full /\ early' = early /\ retrying' = retrying
  BY DEF docVars, shownVars
<1>1. CASE open
  <2>1. life \in Lives /\ Schedule(life, kinds)
    BY <1>1, LivesIs DEF Rerun, QuietInv, GoInv, Types, TimerInv
  <2>2. FreshStart'
    <3>0. FreshInv
      BY DEF QuietInv, QuietRest
    <3>1. ~watched' => full' = None /\ early' = None
      BY <1>0, <1>1, <3>0 DEF FreshInv
    <3>2. ~unsaid' => cache' \in {Unread, settings'}
      BY <1>0, <1>1, <3>0 DEF FreshInv
    <3> QED BY <3>1, <3>2 DEF FreshStart
  <2>3. \A l \in Lives : retrying'[l] > 0 => l = life
    BY <1>0 DEF QuietInv, QuietRest, LifeInv
  <2> QED BY <1>0, <2>1, <2>2, <2>3, ScheduledQuiet
<1>2. CASE ~open
  <2>1. SameGeneration
    BY <1>2 DEF Rerun, schedulerVars, SameGeneration
  <2> QED BY <1>0, <1>2, <2>1, ClosedQuiet
<1> QED BY <1>1, <1>2

LEMMA SettingsChangeQuiet == ASSUME QuietInv, Races = {}, SettingsChange PROVE QuietRest'
<1>0. /\ SameGeneration /\ UNCHANGED <<passes, retrying, shownVars, enabled, watched, cache, project>>
      /\ unsaid' = watched /\ (watched \/ ~open \/ cache = Unread)
  BY DEF SettingsChange, inputVars, schedulerVars, metaVars, settingsVars, SameGeneration
<1>1. CASE ~open
  BY <1>0, <1>1, ClosedQuiet
<1>2. CASE open
  <2>0. /\ open' /\ life' = life /\ versions' = versions /\ generation' = generation
        /\ localTimer' = localTimer /\ fullTimer' = fullTimer /\ passes' = passes
        /\ retrying' = retrying /\ full' = full /\ early' = early /\ enabled' = enabled
        /\ watched' = watched /\ cache' = cache
    BY <1>0, <1>2 DEF SameGeneration, docVars, shownVars
  <2>1. LifeInv /\ FreshInv /\ EarlyInv /\ DueInv /\ OffInv
    BY DEF QuietInv, QuietRest
  <2>2. LifeInv'
    BY <2>0, <2>1 DEF LifeInv
  <2>3. OffInv'
    <3>1. FullRuns' <=> FullRuns
      BY <2>0 DEF FullRuns
    <3> QED BY <1>2, <2>0, <2>1, <3>1 DEF OffInv
  <2>4. CASE watched
    BY <1>0, <2>0, <2>1, <2>2, <2>3, <2>4 DEF QuietRest, FreshInv, EarlyInv, DueInv
  <2>5. CASE ~watched
    <3>1. full = None /\ early = None /\ cache = Unread /\ ~unsaid
          /\ \A p \in passes : p.gen = generation => p.at = "waiting"
      BY <1>0, <1>2, <2>1, <2>5 DEF FreshInv
    <3>2. FreshInv'
      BY <1>0, <2>0, <2>5, <3>1 DEF FreshInv, Reading
    <3>3. EarlyInv'
      BY <2>0, <3>1 DEF EarlyInv
    <3>4. DueInv'
      <4>1. (FullRuns' <=> FullRuns) /\ ~Done
        BY <2>0, <3>1 DEF FullRuns, Done
      <4> QED BY <1>2, <2>0, <2>1, <3>1, <4>1 DEF DueInv
    <3> QED BY <2>2, <2>3, <3>2, <3>3, <3>4 DEF QuietRest
  <2> QED BY <2>4, <2>5
<1> QED BY <1>1, <1>2

LEMMA ChangesQuiet ==
    ASSUME QuietInv, ProjectChanges \/ SettingsSaid \/ ConfigurationChanges
    PROVE  QuietRest'
<1>0. unsaid => watched
  BY DEF QuietInv, QuietRest, FreshInv
<1>1. CASE ProjectChanges
  <2>1. /\ Rerun({"full"}) /\ watched' = watched /\ unsaid' = unsaid /\ cache' = cache
        /\ UNCHANGED <<docVars, passes, up, retrying, shownVars, settings>>
    BY <1>1 DEF ProjectChanges, metaVars, settingsVars
  <2>2. unsaid' => watched'
    BY <1>0, <2>1
  <2> QED BY <2>1, <2>2, RerunQuiet
<1>2. CASE SettingsSaid
  <2>1. /\ Rerun({"local", "full"}) /\ watched' = watched /\ unsaid' = FALSE /\ cache' = Unread
        /\ UNCHANGED <<docVars, passes, up, retrying, shownVars, settings>>
    BY <1>2 DEF SettingsSaid, metaVars
  <2> QED BY <2>1, RerunQuiet
<1>3. CASE ConfigurationChanges
  <2>1. /\ Rerun({"local", "full"}) /\ watched' = watched /\ unsaid' = unsaid /\ cache' = Unread
        /\ UNCHANGED <<docVars, passes, up, retrying, shownVars, settings>>
    BY <1>3 DEF ConfigurationChanges, metaVars
  <2>2. unsaid' => watched'
    BY <1>0, <2>1
  <2> QED BY <2>1, <2>2, RerunQuiet
<1> QED BY <1>1, <1>2, <1>3

-----------------------------------------------------------------------------
(* The passes of the generation and what they leave.                       *)

\* The passes move or end, and a full pass of the generation with them only
\* where it will be tried again.
LEMMA KeptRest ==
    ASSUME QuietInv, SameGeneration,
           UNCHANGED <<enabled, unsaid, settings, project, full, early>>,
           \A q \in passes' : \E p \in passes : SamePass(q, p) /\ (p.at = "waiting" => q.at = "waiting"),
           \A l \in Lives : retrying'[l] > 0 => l = life,
           retrying[life] > 0 => retrying'[life] > 0,
           open /\ FullRuns => FullRuns' \/ (enabled /\ retrying'[life] > 0)
    PROVE  LifeInv' /\ EarlyInv' /\ DueInv' /\ OffInv'
<1>0. /\ open' = open /\ life' = life /\ versions' = versions /\ generation' = generation
      /\ localTimer' = localTimer /\ fullTimer' = fullTimer
      /\ enabled' = enabled /\ unsaid' = unsaid /\ settings' = settings /\ project' = project
      /\ full' = full /\ early' = early
  BY DEF SameGeneration, docVars
<1>1. LifeInv /\ EarlyInv /\ DueInv /\ OffInv
  BY DEF QuietInv, QuietRest
<1>2. ASSUME NEW q \in passes', q.gen = generation
      PROVE  \E p \in passes : /\ p.gen = generation /\ p.kind = q.kind /\ p.life = q.life
                               /\ p.at = "waiting" => q.at = "waiting"
  BY <1>2 DEF SamePass
<1>3. LifeInv'
  <2>1. \A q \in passes' : q.gen = generation => q.life = life
    BY <1>1, <1>2 DEF LifeInv
  <2> QED BY <1>0, <1>1, <2>1 DEF LifeInv
<1>4. EarlyInv'
  <2>1. ASSUME early # None, early.gen = generation
        PROVE  \A q \in passes' : q.gen = generation => q.kind # "local"
    BY <1>1, <1>2, <2>1 DEF EarlyInv
  <2>2. UpToDate(early)' <=> UpToDate(early)
    BY <1>0 DEF UpToDate
  <2> QED BY <1>0, <1>1, <2>1, <2>2 DEF EarlyInv
<1>5. DueInv'
  <2>1. Done' <=> Done
    BY <1>0 DEF Done, UpToDate
  <2> QED BY <1>0, <1>1, <2>1 DEF DueInv
<1>6. OffInv'
  <2>1. ASSUME open, ~enabled PROVE \A q \in passes' : q.gen = generation => q.at = "waiting"
    BY <1>1, <1>2, <2>1 DEF OffInv
  <2> QED BY <1>0, <1>1, <2>1 DEF OffInv
<1> QED BY <1>3, <1>4, <1>5, <1>6

LEMMA SteadyFresh ==
    ASSUME QuietInv, SameGeneration, UNCHANGED <<settings, unsaid, watched, cache>>,
           \A q \in passes' : \E p \in passes : Steady(q, p),
           \/ full' = full /\ early' = early
           \/ full' = None /\ early' = None
           \/ watched
    PROVE  FreshInv'
<1>0. /\ open' = open /\ generation' = generation /\ settings' = settings /\ unsaid' = unsaid
      /\ watched' = watched /\ cache' = cache
  BY DEF SameGeneration, docVars
<1>1. FreshInv
  BY DEF QuietInv, QuietRest
<1>2. ASSUME NEW q \in passes', q.gen = generation
      PROVE  \E p \in passes : /\ p.gen = generation
                               /\ p.at = "waiting" => q.at = "waiting"
                               /\ q.at \in Reading => p.at \in Reading /\ q.settings = p.settings
  <2>1. PICK p \in passes : Steady(q, p)
    OBVIOUS
  <2>2. p.gen = generation
    BY <1>2, <2>1 DEF Steady, SamePass
  <2>3. p.at # "superseded"
    BY <2>2 DEF QuietInv, GoInv, Types, PassInv
  <2> QED BY <2>1, <2>2, <2>3 DEF Steady
<1>3. ASSUME open, ~watched
      PROVE  /\ full' = None /\ early' = None
             /\ \A q \in passes' : q.gen = generation => q.at = "waiting"
  BY <1>1, <1>2, <1>3 DEF FreshInv
<1>4. ASSUME open, ~unsaid
      PROVE  /\ cache \in {Unread, settings}
             /\ \A q \in passes' : q.gen = generation /\ q.at \in Reading => q.settings = settings
  BY <1>1, <1>2, <1>4 DEF FreshInv
<1> QED BY <1>0, <1>1, <1>3, <1>4 DEF FreshInv

\* A pass ends that is not a full one of the generation.
LEMMA DropQuiet ==
    ASSUME QuietInv, NEW p \in passes, passes' = passes \ {p}, SameGeneration,
           UNCHANGED <<inputVars, settingsVars, retrying, shownVars>>,
           p.kind = "local" \/ ~Current(p)
    PROVE  QuietRest'
<1>0. UNCHANGED <<project, settings, enabled, unsaid, watched, cache, full, early>>
  BY DEF inputVars, settingsVars, shownVars
<1>1. open /\ FullRuns => FullRuns'
  <2> SUFFICES ASSUME open, FullRuns PROVE FullRuns'
    OBVIOUS
  <2>1. PICK q \in passes : q.kind = "full" /\ q.gen = generation
    BY DEF FullRuns
  <2>2. Current(q) /\ q # p
    BY <2>1, GenerationCounts
  <2>3. q \in passes' /\ generation' = generation
    BY <2>2 DEF SameGeneration
  <2> QED BY <2>1, <2>3 DEF FullRuns
<1>2. \A q \in passes' : q \in passes /\ Steady(q, q) /\ SamePass(q, q)
  BY SteadyIs, SamePassIs
<1>3. LifeInv' /\ EarlyInv' /\ DueInv' /\ OffInv'
  <2>1. \A l \in Lives : retrying'[l] > 0 => l = life
    BY DEF QuietInv, QuietRest, LifeInv
  <2> QED BY <1>0, <1>1, <1>2, <2>1, KeptRest
<1>4. FreshInv'
  BY <1>0, <1>2, SteadyFresh
<1> QED BY <1>3, <1>4 DEF QuietRest

LEMMA SupersededEndsQuiet ==
    ASSUME QuietInv, NEW p \in passes, SupersededEnds(p) PROVE QuietRest'
<1>1. /\ SameGeneration /\ passes' = passes \ {p}
      /\ UNCHANGED <<inputVars, settingsVars, retrying, shownVars>>
  BY GoingFrame DEF SupersededEnds, End, metaVars
<1>2. ~Current(p)
  BY DEF SupersededEnds, Current, QuietInv, GoInv, Types, PassInv
<1> QED BY <1>1, <1>2, DropQuiet

LEMMA ProjectUnknownQuiet ==
    ASSUME QuietInv, NEW p \in passes, ProjectUnknown(p) PROVE QuietRest'
<1>0. /\ SameGeneration /\ passes' = passes \ {p} /\ Fault /\ p.at = "project"
      /\ UNCHANGED <<inputVars, settingsVars, shownVars>>
  BY GoingFrame DEF ProjectUnknown, End
<1>1. CASE p.kind = "full" /\ Current(p)
  <2>1. retries < MaxRetries /\ p.life = life /\ life \in Lives
    <3>1. retries \in Nat /\ retries <= faults /\ faults \in Nat /\ faults < MaxFaults
      BY <1>0 DEF Fault, QuietInv, GoInv, Types, RetryInv
    <3>2. MaxFaults \in Nat /\ MaxRetries \in Nat
      BY BoundsAssumption
    <3>3. retries < MaxRetries
      BY <3>1, <3>2, RetriesAssumption
    <3>4. p.life = life /\ p.life \in Lives
      BY <1>1, RecordIs DEF Current, QuietInv, GoInv, Types, PassInv, Passes
    <3> QED BY <3>3, <3>4
  <2>2. retrying' = [retrying EXCEPT ![life] = retrying[life] + 1]
    BY <1>1, <2>1 DEF ProjectUnknown
  <2>3. ASSUME NEW l \in Lives
        PROVE  retrying'[l] = (IF l = life THEN retrying[l] + 1 ELSE retrying[l]) /\ retrying[l] \in Nat
    BY <2>2 DEF QuietInv, GoInv, Types, RetryInv
  <2>4. retrying'[life] > 0
    BY <2>1, <2>3
  <2>5. \A l \in Lives : retrying'[l] > 0 => l = life
    BY <2>3 DEF QuietInv, QuietRest, LifeInv
  <2>6. \A q \in passes' : q \in passes /\ Steady(q, q) /\ SamePass(q, q)
    BY <1>0, SteadyIs, SamePassIs
  <2>7. open => enabled
    <3>1. p.gen = generation
      BY <1>1 DEF Current
    <3> QED BY <1>0, <3>1 DEF QuietInv, QuietRest, OffInv
  <2>8. UNCHANGED <<project, settings, enabled, unsaid, watched, cache, full, early>>
    BY <1>0 DEF inputVars, settingsVars, shownVars
  <2>9. LifeInv' /\ EarlyInv' /\ DueInv' /\ OffInv'
    BY <1>0, <2>4, <2>5, <2>6, <2>7, <2>8, KeptRest
  <2>10. FreshInv'
    BY <1>0, <2>6, <2>8, SteadyFresh
  <2> QED BY <2>9, <2>10 DEF QuietRest
<1>2. CASE ~(p.kind = "full" /\ Current(p))
  <2>1. p.kind = "local" \/ ~Current(p)
    BY <1>2, RecordIs DEF QuietInv, GoInv, Types, PassInv, Passes, Kinds
  <2>2. retrying' = retrying
    BY <1>2 DEF ProjectUnknown
  <2> QED BY <1>0, <2>1, <2>2, DropQuiet
<1> QED BY <1>1, <1>2

LEMMA WorkerDiesQuiet ==
    ASSUME QuietInv, "early down" \notin Races, NEW v \in Kinds, WorkerDies(v)
    PROVE  QuietRest'
<1>0. /\ SameGeneration
      /\ UNCHANGED <<project, settings, enabled, unsaid, watched, cache, full, early, retrying>>
  BY DEF WorkerDies, SameGeneration, schedulerVars, inputVars, metaVars, settingsVars, shownVars
<1>1. ASSUME NEW q \in passes' PROVE \E o \in passes : Steady(q, o)
  <2>1. PICK o \in passes :
          /\ SamePass(q, o)
          /\ q = o \/ (/\ o.at \in {"worker", "superseded"} /\ q.at = "host"
                       /\ q.project = o.project /\ q.settings = o.settings)
    BY DiesIs DEF QuietInv, GoInv
  <2>2. Steady(q, o)
    BY <2>1, SteadyIs DEF Steady, Reading
  <2> QED BY <2>2
<1>2. FullRuns => FullRuns'
  <2> SUFFICES ASSUME NEW p \in passes, p.kind = "full", p.gen = generation PROVE FullRuns'
    BY DEF FullRuns
  <2> DEFINE q == IF p.kind = v /\ p.at \in {"worker", "superseded"}
                  THEN [p EXCEPT !.at = "host"] ELSE p
  <2>1. q \in passes'
    BY DEF WorkerDies
  <2>2. q.kind = p.kind /\ q.gen = p.gen
    <3>1. p \in Records
      BY DEF QuietInv, GoInv, Types, PassInv, Passes
    <3> QED BY <3>1, MovedIs DEF Ats, SamePass
  <2> HIDE DEF q
  <2> QED BY <1>0, <2>1, <2>2 DEF FullRuns, SameGeneration
<1>3. \A q \in passes' : \E p \in passes : SamePass(q, p) /\ (p.at = "waiting" => q.at = "waiting")
  BY <1>1 DEF Steady
<1>4. LifeInv' /\ EarlyInv' /\ DueInv' /\ OffInv'
  <2>1. \A l \in Lives : retrying'[l] > 0 => l = life
    BY <1>0 DEF QuietInv, QuietRest, LifeInv
  <2> QED BY <1>0, <1>2, <1>3, <2>1, KeptRest
<1>5. FreshInv'
  BY <1>0, <1>1, SteadyFresh
<1> QED BY <1>4, <1>5 DEF QuietRest

LEMMA StutterQuiet == ASSUME QuietInv, UNCHANGED vars PROVE QuietRest'
<1>1. /\ SameGeneration /\ passes' = passes
      /\ UNCHANGED <<project, settings, enabled, unsaid, watched, cache, full, early, retrying>>
  BY DEF vars, SameGeneration, schedulerVars, inputVars, metaVars, settingsVars, shownVars
<1>2. \A q \in passes' : q \in passes /\ Steady(q, q) /\ SamePass(q, q)
  BY <1>1, SteadyIs, SamePassIs
<1>3. FullRuns => FullRuns'
  BY <1>1 DEF FullRuns, SameGeneration
<1>4. LifeInv' /\ EarlyInv' /\ DueInv' /\ OffInv'
  <2>1. \A l \in Lives : retrying'[l] > 0 => l = life
    BY <1>1 DEF QuietInv, QuietRest, LifeInv
  <2> QED BY <1>1, <1>2, <1>3, <2>1, KeptRest
<1>5. FreshInv'
  BY <1>1, <1>2, SteadyFresh
<1> QED BY <1>4, <1>5 DEF QuietRest

LEMMA DispatchQuiet ==
    ASSUME QuietInv, NEW p \in passes, p.at = "settings", Current(p), Dispatch(p), SameGeneration,
           UNCHANGED <<inputVars, settingsVars, retrying>>
    PROVE  QuietRest'
<1>0. /\ UNCHANGED <<project, settings, enabled, unsaid, watched, cache, full, early>>
      /\ Types /\ p \in Records /\ p.gen = generation /\ generation' = generation
  BY DEF inputVars, settingsVars, Dispatch, shownVars, QuietInv, GoInv, Types, PassInv, Passes,
         Current, SameGeneration
<1>1. \A q \in passes' : \E o \in passes : Steady(q, o)
  BY <1>0, DispatchSteady
<1>2. FullRuns => FullRuns'
  <2> SUFFICES ASSUME NEW r \in passes, r.kind = "full", r.gen = generation PROVE FullRuns'
    BY DEF FullRuns
  <2>1. CASE r = p
    <3> DEFINE w == [p EXCEPT !.at = "worker"]
    <3>1. w.kind = "full" /\ w.gen = generation
      BY <1>0, <2>1, MovedIs DEF Ats, SamePass
    <3>2. w \in passes'
      BY DEF Dispatch
    <3> HIDE DEF w
    <3> QED BY <1>0, <3>1, <3>2 DEF FullRuns
  <2>2. CASE r # p
    <3>1. r.kind # p.kind
      BY <1>0, <2>2 DEF Types, PassInv
    <3>2. r \in Superseded({p.kind})
      BY <3>1 DEF Superseded
    <3>3. r \in passes'
      BY <2>2, <3>2 DEF Dispatch
    <3> QED BY <1>0, <3>3 DEF FullRuns
  <2> QED BY <2>1, <2>2
<1>3. \A q \in passes' : \E o \in passes : SamePass(q, o) /\ (o.at = "waiting" => q.at = "waiting")
  BY <1>1 DEF Steady
<1>4. LifeInv' /\ EarlyInv' /\ DueInv' /\ OffInv'
  <2>1. \A l \in Lives : retrying'[l] > 0 => l = life
    BY DEF QuietInv, QuietRest, LifeInv
  <2> QED BY <1>0, <1>2, <1>3, <2>1, KeptRest
<1>5. FreshInv'
  BY <1>0, <1>1, SteadyFresh
<1> QED BY <1>4, <1>5 DEF QuietRest

\* What a pass reads is cached, and read as it is once its change is told.
LEMMA ProjectReadQuiet ==
    ASSUME QuietInv, NEW p \in passes, ProjectRead(p) PROVE QuietRest'
<1>0. /\ Types /\ FreshInv /\ p.at = "project" /\ SameGeneration
      /\ UNCHANGED <<project, settings, enabled, unsaid, watched, full, early, retrying>>
      /\ \E q \in Passes : Reads(p, q)
  BY ProjectReadIs DEF QuietInv, GoInv, QuietRest, ProjectRead, inputVars, shownVars
<1>1. PICK q \in Passes : Reads(p, q)
  BY <1>0
<1>2. /\ passes' = (passes \ {p}) \cup {q} /\ SamePass(q, p) /\ q.at = "settings"
      /\ cache' = q.settings /\ q.settings \in Readable
  BY <1>1 DEF Reads
<1>3. /\ open' = open /\ generation' = generation
  BY <1>0 DEF SameGeneration, docVars
<1>4. \A r \in passes' : \E o \in passes : SamePass(r, o) /\ (o.at = "waiting" => r.at = "waiting")
  BY <1>0, <1>2, SamePassIs
<1>5. FullRuns => FullRuns'
  BY <1>2, <1>3 DEF FullRuns, SamePass
<1>6. LifeInv' /\ EarlyInv' /\ DueInv' /\ OffInv'
  <2>1. \A l \in Lives : retrying'[l] > 0 => l = life
    BY <1>0 DEF QuietInv, QuietRest, LifeInv
  <2> QED BY <1>0, <1>4, <1>5, <2>1, KeptRest
<1>7. ASSUME open, ~watched
      PROVE  /\ full = None /\ early = None
             /\ \A r \in passes' : r.gen = generation => r.at = "waiting"
  <2>1. /\ full = None /\ early = None
        /\ \A r \in passes : r.gen = generation => r.at = "waiting"
    BY <1>0, <1>7 DEF FreshInv
  <2>2. q.gen # generation
    BY <1>0, <1>2, <2>1 DEF SamePass
  <2> QED BY <1>2, <2>1, <2>2
<1>8. ASSUME open, ~unsaid
      PROVE  /\ cache' = settings
             /\ \A r \in passes' : r.gen = generation /\ r.at \in Reading => r.settings = settings
  <2>1. /\ cache \in {Unread, settings}
        /\ \A r \in passes : r.gen = generation /\ r.at \in Reading => r.settings = settings
    BY <1>0, <1>8 DEF FreshInv
  <2>2. q.settings = settings
    BY <1>0, <1>2, <2>1, ReadableIs DEF Types
  <2> QED BY <1>2, <2>1, <2>2
<1>9. FreshInv'
  <2>1. unsaid => watched
    BY <1>0 DEF FreshInv
  <2> QED BY <1>0, <1>3, <1>7, <1>8, <2>1 DEF FreshInv
<1> QED BY <1>6, <1>9 DEF QuietRest

\* A pass that counts ends with its report.
LEMMA PublishQuiet ==
    ASSUME QuietInv, NEW p \in passes, p.at \in Reading, Current(p),
           NEW complete \in BOOLEAN, NEW error \in BOOLEAN, Publish(p, complete, error),
           SameGeneration, UNCHANGED <<inputVars, settingsVars, retrying>>
    PROVE  QuietRest'
<1>0. /\ UNCHANGED <<project, settings, enabled, unsaid, watched, cache>> /\ retrying' = retrying
      /\ open' = open /\ life' = life /\ versions' = versions /\ generation' = generation
      /\ localTimer' = localTimer /\ fullTimer' = fullTimer /\ passes' = passes \ {p}
  BY DEF inputVars, settingsVars, SameGeneration, docVars, Publish, End
<1>I. GoInv /\ Types /\ LifeInv /\ FreshInv /\ EarlyInv /\ DueInv /\ OffInv
  BY DEF QuietInv, QuietRest, GoInv
<1>1. /\ open /\ p.gen = generation /\ p.life = life /\ p.version = versions[life]
      /\ p.project = project /\ p.at # "waiting"
  <2>1. Forward(p)
    BY <1>I DEF GoInv, ForwardInv
  <2> QED BY <2>1 DEF Current, Forward, Reading
<1>2. watched
  BY <1>I, <1>1 DEF FreshInv
<1>3. enabled
  BY <1>I, <1>1 DEF OffInv
<1>4. ~unsaid => p.settings = settings
  BY <1>I, <1>1 DEF FreshInv
<1>5. PICK r \in Reports :
        /\ r # None
        /\ r.version = p.version /\ r.project = p.project /\ r.settings = p.settings
        /\ r.gen \in {0, p.gen}
        /\ \/ p.kind = "local" /\ full' = full /\ (early' = r \/ early' = early)
           \/ p.kind = "full" /\ full' = r /\ early' = None
  BY <1>I, PublishShows
<1>6. ~unsaid => UpToDate(r)'
  BY <1>0, <1>1, <1>4, <1>5 DEF UpToDate
<1>7. LifeInv'
  BY <1>0, <1>I DEF LifeInv
<1>8. FreshInv'
  <2>1. \A q \in passes' : q \in passes /\ Steady(q, q)
    BY <1>0, SteadyIs
  <2> QED BY <1>0, <1>2, <2>1, SteadyFresh
<1>9. generation \in Nat /\ generation > 0
  BY <1>I, <1>1 DEF Types, TimerInv
<1>10. p.kind = "local" /\ early # None => early.gen # generation
  BY <1>I, <1>1 DEF EarlyInv
<1>11. EarlyInv'
  <2>1. CASE early' = r /\ p.kind = "local"
    <3>1. localTimer = None
      BY <1>I, <1>1 DEF Types, PassInv
    <3>2. \A q \in passes' : q.gen = generation => q.kind # "local"
      BY <1>0, <1>I, <1>1, <2>1 DEF Types, PassInv
    <3>3. r.gen <= generation
      BY <1>1, <1>5, <1>9
    <3> QED BY <1>0, <1>6, <2>1, <3>1, <3>2, <3>3 DEF EarlyInv
  <2>2. CASE early' = early /\ p.kind = "local"
    BY <1>0, <1>10, <1>I, <2>2 DEF EarlyInv
  <2>3. CASE early' = None
    BY <2>3 DEF EarlyInv
  <2> QED BY <1>5, <2>1, <2>2, <2>3
<1>12. unsaid' \/ fullTimer' # None \/ FullRuns' \/ retrying'[life'] > 0 \/ Done'
  <2>1. CASE p.kind = "full"
    BY <1>0, <1>5, <1>6, <2>1 DEF Done
  <2>2. CASE p.kind = "local"
    <3>1. FullRuns => FullRuns'
      BY <1>0, <2>2 DEF FullRuns
    <3>2. CASE ~unsaid /\ Done
      <4>1. full # None /\ UpToDate(full) /\ (early # None => UpToDate(early))
        BY <1>10, <2>2, <3>2 DEF Done
      <4>2. full' = full /\ UpToDate(full)'
        BY <1>0, <1>5, <2>2, <4>1 DEF UpToDate
      <4>3. early' # None => UpToDate(early)'
        <5>1. CASE early' = r
          BY <1>6, <3>2, <5>1 DEF UpToDate
        <5>2. CASE early' = early
          BY <1>0, <4>1, <5>2 DEF UpToDate
        <5> QED BY <1>5, <2>2, <5>1, <5>2
      <4> QED BY <4>1, <4>2, <4>3 DEF Done
    <3> QED BY <1>0, <1>I, <1>1, <1>3, <3>1, <3>2 DEF DueInv
  <2> QED BY <1>5, <2>1, <2>2
<1>13. DueInv' /\ OffInv'
  BY <1>0, <1>3, <1>12 DEF DueInv, OffInv
<1> QED BY <1>7, <1>8, <1>11, <1>13 DEF QuietRest

\* A pass that has read all it needs ends, with its report if it counts.
LEMMA EndQuiet ==
    ASSUME QuietInv, NEW p \in passes, p.at \in Reading, SameGeneration,
           UNCHANGED <<inputVars, settingsVars, retrying>>,
           NEW complete \in BOOLEAN, NEW error \in BOOLEAN, Publish(p, complete, error)
    PROVE  QuietRest'
<1>1. CASE Current(p)
  BY <1>1, PublishQuiet
<1>2. CASE ~Current(p)
  <2>1. passes' = passes \ {p} /\ UNCHANGED shownVars
    BY <1>2 DEF Publish, End
  <2> QED BY <1>2, <2>1, DropQuiet
<1> QED BY <1>1, <1>2

LEMMA SettingsReadQuiet ==
    ASSUME QuietInv, NEW p \in passes, SettingsRead(p) PROVE QuietRest'
<1>1. /\ SameGeneration /\ UNCHANGED <<inputVars, settingsVars, retrying>>
      /\ p.at = "settings" /\ p.at \in Reading
  BY GoingFrame DEF SettingsRead, metaVars, Reading
<1>2. CASE ~Current(p) /\ End(p) /\ UNCHANGED shownVars
  <2>1. passes' = passes \ {p}
    BY <1>2 DEF End
  <2> QED BY <1>1, <1>2, <2>1, DropQuiet
<1>3. CASE Current(p) /\ Dispatch(p)
  BY <1>1, <1>3, DispatchQuiet
<1>4. CASE Publish(p, TRUE, FALSE)
  BY <1>1, <1>4, EndQuiet
<1> QED BY <1>2, <1>3, <1>4 DEF SettingsRead

LEMMA AnsweredQuiet ==
    ASSUME QuietInv, NEW p \in passes, Answered(p) PROVE QuietRest'
<1>1. /\ SameGeneration /\ UNCHANGED <<inputVars, settingsVars, retrying>> /\ p.at \in Reading
  BY GoingFrame DEF Answered, metaVars, Reading
<1>2. \E complete, error \in BOOLEAN : Publish(p, complete, error)
  BY DEF Answered
<1> QED BY <1>1, <1>2, EndQuiet

LEMMA InHostQuiet ==
    ASSUME QuietInv, NEW p \in passes, InHost(p) PROVE QuietRest'
<1>1. /\ SameGeneration /\ UNCHANGED <<inputVars, settingsVars, retrying>> /\ p.at \in Reading
      /\ Publish(p, TRUE, FALSE)
  BY GoingFrame DEF InHost, metaVars, Reading
<1> QED BY <1>1, EndQuiet

\* A timer fires, or what a full pass waited for is over: a pass begins to wait
\* or, with diagnostics on, to read.
LEMMA StartedQuiet ==
    ASSUME QuietInv, UNCHANGED <<docVars, inputVars, retrying, cache, generation>>,
           watched => watched',
           localTimer' \in {localTimer, None}, fullTimer' \in {fullTimer, None},
           \A q \in passes' : \/ q \in passes
                              \/ /\ q.life = life /\ (q.kind = "local" => localTimer # None)
                                 /\ q.at = "waiting" \/ (q.at = "project" /\ enabled /\ watched'),
           UNCHANGED shownVars \/ (full' = None /\ early' = None /\ ~enabled),
           open /\ enabled => \/ fullTimer' = fullTimer /\ (FullRuns => FullRuns')
                              \/ FullRuns' \/ Done,
           open /\ ~enabled => FullRuns' \/ (full' = None /\ early' = None)
    PROVE  QuietRest'
<1>0. /\ open' = open /\ life' = life /\ versions' = versions /\ project' = project
      /\ settings' = settings /\ enabled' = enabled /\ unsaid' = unsaid
      /\ retrying' = retrying /\ cache' = cache /\ generation' = generation
  BY DEF docVars, inputVars
<1>I. LifeInv /\ FreshInv /\ EarlyInv /\ DueInv /\ OffInv
  BY DEF QuietInv, QuietRest
<1>1. \/ full' = full /\ early' = early
      \/ full' = None /\ early' = None /\ ~enabled
  BY DEF shownVars
<1>2. LifeInv'
  <2>1. \A t \in {localTimer', fullTimer'} \ {None} : t \in {localTimer, fullTimer} \ {None}
    OBVIOUS
  <2>2. \A q \in passes' : q.gen = generation => q.life = life
    BY <1>I DEF LifeInv
  <2> QED BY <1>0, <1>I, <2>1, <2>2 DEF LifeInv
<1>3. FreshInv'
  <2>1. unsaid => watched'
    BY <1>I DEF FreshInv
  <2>2. ASSUME open, ~watched'
        PROVE  /\ full' = None /\ early' = None
               /\ \A q \in passes' : q.gen = generation => q.at = "waiting"
    <3>1. ~watched
      BY <2>2
    <3>2. /\ full = None /\ early = None
          /\ \A q \in passes : q.gen = generation => q.at = "waiting"
      BY <1>I, <2>2, <3>1 DEF FreshInv
    <3> QED BY <1>1, <2>2, <3>2
  <2>3. ASSUME open, ~unsaid
        PROVE  /\ cache \in {Unread, settings}
               /\ \A q \in passes' : q.gen = generation /\ q.at \in Reading => q.settings = settings
    <3>1. /\ cache \in {Unread, settings}
          /\ \A q \in passes : q.gen = generation /\ q.at \in Reading => q.settings = settings
      BY <1>I, <2>3 DEF FreshInv
    <3> QED BY <3>1 DEF Reading
  <2> QED BY <1>0, <2>1, <2>2, <2>3 DEF FreshInv
<1>4. EarlyInv'
  <2>1. CASE early' = None
    BY <2>1 DEF EarlyInv
  <2>2. CASE early' = early /\ early # None
    <3>1. early.gen <= generation
      BY <1>I, <2>2 DEF EarlyInv
    <3>2. ASSUME early.gen = generation
          PROVE  /\ localTimer = None
                 /\ \A q \in passes' : q.gen = generation => q.kind # "local"
                 /\ ~unsaid => UpToDate(early)
      BY <1>I, <2>2, <3>2 DEF EarlyInv
    <3>3. UpToDate(early)' <=> UpToDate(early)
      BY <1>0, <2>2 DEF UpToDate
    <3> QED BY <1>0, <2>2, <3>1, <3>2, <3>3 DEF EarlyInv
  <2> QED BY <1>1, <2>1, <2>2
<1>5. DueInv'
  <2>1. ASSUME full' = full, early' = early PROVE Done' <=> Done
    BY <1>0, <2>1 DEF Done, UpToDate
  <2> QED BY <1>0, <1>1, <1>I, <2>1 DEF DueInv
<1>6. OffInv'
  <2>1. ASSUME open, ~enabled
        PROVE  /\ \A q \in passes' : q.gen = generation => q.at = "waiting"
               /\ early' # None => early'.gen # generation
    BY <1>1, <1>I, <2>1 DEF OffInv
  <2> QED BY <1>0, <2>1 DEF OffInv
<1> QED BY <1>2, <1>3, <1>4, <1>5, <1>6 DEF QuietRest

\* A pass of the latest generation counts from its timer on.
LEMMA NewestCounts ==
    ASSUME open, NEW p, p.gen = generation, p.life = life, p.version = versions[life]
    PROVE  Current(p)
BY DEF Current

LEMMA FireLocalQuiet == ASSUME QuietInv, FireLocal PROVE QuietRest'
<1> DEFINE p == NewPass("local", localTimer)
<1>0. /\ GoInv /\ Types /\ up["local"] /\ p \in Records /\ p.kind = "local"
      /\ p.gen = generation /\ p.life = life /\ p.version = versions[life]
  BY NewPassIs DEF FireLocal, Kinds, QuietInv, GoInv, QuietRest, LifeInv
<1>1. /\ Begin(p, passes) /\ localTimer # None /\ localTimer' = None /\ fullTimer' = fullTimer
      /\ UNCHANGED <<docVars, inputVars, retrying>>
  BY DEF FireLocal, metaVars
<1> HIDE DEF p
<1>2. /\ generation' = generation /\ cache' = cache /\ watched' = (watched \/ enabled)
      /\ IF ~enabled /\ Current(p) THEN full' = None /\ early' = None ELSE UNCHANGED shownVars
      /\ \/ passes' = passes
         \/ /\ enabled
            /\ \E q \in Passes : passes' = passes \cup {q} /\ BegunAs(q, p) /\ q.at = "project"
  BY <1>0, <1>1, BeginIs
<1>3. /\ passes \subseteq passes'
      /\ \A q \in passes' : \/ q \in passes
                            \/ q.life = life /\ q.at = "project" /\ enabled
  BY <1>0, <1>2 DEF BegunAs, SamePass
<1>4. FullRuns => FullRuns'
  BY <1>2, <1>3 DEF FullRuns
<1>5. open /\ ~enabled => full' = None /\ early' = None
  BY <1>0, <1>2, NewestCounts
<1>6. watched => watched'
  BY <1>2
<1>7. enabled => watched'
  BY <1>2
<1>8. UNCHANGED shownVars \/ (full' = None /\ early' = None /\ ~enabled)
  BY <1>2
<1>9. \A q \in passes' : \/ q \in passes
                         \/ /\ q.life = life /\ (q.kind = "local" => localTimer # None)
                            /\ q.at = "waiting" \/ (q.at = "project" /\ enabled /\ watched')
  BY <1>1, <1>3, <1>7
<1> QED BY <1>1, <1>2, <1>4, <1>5, <1>6, <1>8, <1>9, StartedQuiet

LEMMA BeginFullQuiet ==
    ASSUME QuietInv, NEW p \in Records, p.kind = "full", p.gen = generation,
           p.life = life, p.version = versions[life],
           NEW others, others \subseteq passes, BeginFull(p, others),
           UNCHANGED <<docVars, inputVars, retrying, localTimer>>, fullTimer' \in {fullTimer, None}
    PROVE  QuietRest'
<1>I. GoInv /\ Types
  BY DEF QuietInv, GoInv
<1>1. CASE EarlyDidAll(p)
  <2>1. /\ passes' \subseteq passes /\ generation' = generation /\ watched' = watched
        /\ cache' = cache /\ UNCHANGED shownVars
    BY <1>1 DEF BeginFull, settingsVars
  <2>2. early # None /\ early.gen = generation
    BY <1>1 DEF EarlyDidAll
  <2>3. Done
    BY <2>2 DEF Done
  <2>4. open => enabled
    BY <2>2 DEF QuietInv, QuietRest, OffInv
  <2>5. watched => watched'
    BY <2>1
  <2>6. \A q \in passes' : q \in passes
    BY <2>1
  <2> QED BY <2>1, <2>3, <2>4, <2>5, <2>6, StartedQuiet
<1>2. CASE ~EarlyDidAll(p) /\ enabled
  <2>1. /\ generation' = generation /\ watched' = (watched \/ enabled) /\ cache' = cache
        /\ UNCHANGED shownVars
        /\ \E q \in Passes : passes' = others \cup {q} /\ BegunAs(q, p) /\ q.at = "project"
    BY <1>I, <1>2, BeginIs DEF BeginFull
  <2>2. PICK q \in Passes : passes' = others \cup {q} /\ BegunAs(q, p) /\ q.at = "project"
    BY <2>1
  <2>3. q.life = life /\ q.kind = "full" /\ q.gen = generation
    BY <2>2 DEF BegunAs, SamePass
  <2>4. FullRuns'
    BY <2>1, <2>2, <2>3 DEF FullRuns
  <2>5. watched'
    BY <1>2, <2>1
  <2>6. \A r \in passes' : \/ r \in passes
                           \/ /\ r.life = life /\ r.kind # "local"
                              /\ r.at = "project" /\ enabled /\ watched'
    BY <1>2, <2>2, <2>3, <2>5
  <2> QED BY <2>1, <2>4, <2>5, <2>6, StartedQuiet
<1>3. CASE ~EarlyDidAll(p) /\ ~enabled
  <2>1. /\ generation' = generation /\ watched' = (watched \/ enabled) /\ cache' = cache
        /\ passes' = others
        /\ IF ~enabled /\ Current(p) THEN full' = None /\ early' = None ELSE UNCHANGED shownVars
    BY <1>I, <1>3, BeginIs DEF BeginFull
  <2>2. open => full' = None /\ early' = None
    BY <1>3, <2>1, NewestCounts
  <2>3. \A q \in passes' : q \in passes
    BY <2>1
  <2>4. watched => watched'
    BY <2>1
  <2>5. UNCHANGED shownVars \/ (full' = None /\ early' = None /\ ~enabled)
    BY <1>3, <2>1
  <2> QED BY <1>3, <2>1, <2>2, <2>3, <2>4, <2>5, StartedQuiet
<1> QED BY <1>1, <1>2, <1>3

LEMMA FireFullQuiet == ASSUME QuietInv, FireFull PROVE QuietRest'
<1> DEFINE p == NewPass("full", fullTimer)
           w == [p EXCEPT !.at = "waiting", !.awaits = earlyRun.gen]
<1>0. /\ Types /\ p \in Records /\ p.kind = "full"
      /\ p.gen = generation /\ p.life = life /\ p.version = versions[life]
  BY NewPassIs DEF FireFull, Kinds, QuietInv, GoInv, QuietRest, LifeInv
<1>1. /\ UNCHANGED <<docVars, inputVars, retrying, localTimer>> /\ fullTimer' = None
  BY DEF FireFull, metaVars
<1>2. \/ /\ earlyRun # None /\ passes' = passes \cup {w}
         /\ UNCHANGED <<generation, completed, settingsVars, shownVars>>
      \/ BeginFull(p, passes)
  BY DEF FireFull
<1>w. earlyRun # None => SamePass(w, p) /\ w.at = "waiting"
  <2>1. earlyRun # None => earlyRun.gen \in Nat
    BY <1>0 DEF Types, ShownInv, Runs
  <2> QED BY <1>0, <2>1, WaitingIs
<1> HIDE DEF w, p
<1>3. CASE /\ earlyRun # None /\ passes' = passes \cup {w}
           /\ UNCHANGED <<generation, completed, settingsVars, shownVars>>
  <2>1. w.gen = generation /\ w.kind = "full" /\ w.life = life /\ w.at = "waiting"
    BY <1>0, <1>w, <1>3 DEF SamePass
  <2>2. generation' = generation /\ cache' = cache /\ watched' = watched /\ UNCHANGED shownVars
    BY <1>3 DEF settingsVars
  <2>3. FullRuns'
    BY <1>3, <2>1, <2>2 DEF FullRuns
  <2>4. \A q \in passes' : q \in passes \/ (q.life = life /\ q.kind # "local" /\ q.at = "waiting")
    BY <1>3, <2>1
  <2>5. watched => watched'
    BY <2>2
  <2> QED BY <1>1, <2>2, <2>3, <2>4, <2>5, StartedQuiet
<1>4. CASE BeginFull(p, passes)
  BY <1>0, <1>1, <1>4, BeginFullQuiet
<1> QED BY <1>2, <1>3, <1>4

LEMMA EarlySettledQuiet ==
    ASSUME QuietInv, NEW p \in passes, EarlySettled(p) PROVE QuietRest'
<1>0. /\ SameGeneration /\ UNCHANGED <<docVars, inputVars, retrying, localTimer, fullTimer>>
      /\ p.at = "waiting" /\ p \in Records /\ p.kind = "full"
  BY GoingFrame DEF EarlySettled, metaVars, QuietInv, GoInv, Types, PassInv, Passes
<1>1. CASE ~Current(p)
  <2>1. passes' = passes \ {p} /\ UNCHANGED <<settingsVars, shownVars>>
    BY <1>1 DEF EarlySettled
  <2> QED BY <1>0, <1>1, <2>1, DropQuiet
<1>2. CASE Current(p)
  <2>1. /\ BeginFull(p, passes \ {p}) /\ p.gen = generation /\ p.life = life
        /\ p.version = versions[life]
    BY <1>2 DEF EarlySettled, Current
  <2>2. passes \ {p} \subseteq passes
    OBVIOUS
  <2> QED BY <1>0, <2>1, <2>2, BeginFullQuiet
<1> QED BY <1>1, <1>2

LEMMA QuietStep ==
    ASSUME QuietInv, Races = {}, [Next]_vars
    PROVE  QuietInv'
<1>G. GoInv' /\ "early down" \notin Races
  BY GoStep DEF QuietInv
<1> SUFFICES QuietRest'
  BY <1>G DEF QuietInv
<1>1. ASSUME NEW p \in passes,
             \/ EarlySettled(p) \/ ProjectRead(p) \/ ProjectUnknown(p) \/ SettingsRead(p)
             \/ Answered(p) \/ SupersededEnds(p) \/ InHost(p)
      PROVE  QuietRest'
  BY <1>1, EarlySettledQuiet, ProjectReadQuiet, ProjectUnknownQuiet, SettingsReadQuiet,
     AnsweredQuiet, SupersededEndsQuiet, InHostQuiet
<1>2. CASE PassGoesOn
  BY <1>1, <1>2 DEF PassGoesOn
<1>3. CASE \/ Open \/ Edit \/ Activate \/ Close
           \/ ProjectChanges \/ SettingsChange \/ ConfigurationChanges \/ SettingsSaid
           \/ FireLocal \/ FireFull
  BY <1>3, OpenQuiet, EditQuiet, CloseQuiet, ChangesQuiet, SettingsChangeQuiet, FireLocalQuiet,
     FireFullQuiet
<1>4. ASSUME NEW l \in Lives, FireRetry(l) PROVE QuietRest'
  BY <1>4, FireRetryQuiet
<1>5. ASSUME NEW v \in {"local", "full"}, WorkerDies(v) PROVE QuietRest'
  BY <1>5, <1>G, WorkerDiesQuiet DEF Kinds
<1>6. CASE UNCHANGED vars
  BY <1>6, StutterQuiet
<1> QED BY <1>2, <1>3, <1>4, <1>5, <1>6 DEF Next

LEMMA QuietInit == Init => QuietInv
<1> SUFFICES ASSUME Init PROVE QuietInv
  OBVIOUS
<1>1. GoInv
  BY GoInit
<1>2. /\ ~open /\ ~unsaid /\ passes = {} /\ early = None /\ localTimer = None /\ fullTimer = None
      /\ retrying = [l \in Lives |-> 0]
  BY DEF Init
<1>3. LifeInv
  BY <1>2 DEF LifeInv
<1> QED BY <1>1, <1>2, <1>3 DEF QuietInv, QuietRest, FreshInv, EarlyInv, DueInv, OffInv

\* What is shown is one of the results or both.
LEMMA ShownIs ==
    /\ Lead \in {full, early} /\ (Lead = None => full = None /\ early = None)
    /\ Shown \subseteq {full, early} \ {None} /\ (Lead # None => Lead \in Shown)
    /\ full = None /\ early = None => Shown = {}
BY DEF Lead, Shown

LEMMA QuietHolds == QuietInv => QuietShowsWhatIs
<1> SUFFICES ASSUME QuietInv PROVE QuietShowsWhatIs
  OBVIOUS
<1>I. GoInv /\ Types /\ EarlyInv /\ DueInv /\ OffInv
  BY DEF QuietInv, QuietRest, GoInv
<1>1. ~open => Shown = {}
  BY <1>I, ClosedShowsNothing, ShownIs
<1>2. ASSUME Quiet, open, ~enabled PROVE Shown = {}
  <2>1. full = None /\ early = None
    BY <1>I, <1>2 DEF Quiet, OffInv, FullRuns
  <2> QED BY <2>1, ShownIs
<1>3. ASSUME Quiet, open, enabled PROVE Shown # {} /\ \A r \in Shown : UpToDate(r)
  <2>1. life \in Lives /\ versions[life] \in Nat /\ generation > 0
    BY <1>I, <1>3, LivesIs, VersionsIs DEF Types, TimerInv
  <2>2. retrying[life] = 0 /\ ~unsaid
    BY <1>3, <2>1 DEF Quiet
  <2>3. Done
    BY <1>I, <1>3, <2>2 DEF Quiet, DueInv, FullRuns
  <2>4. CASE early # None /\ early.gen = generation
    <3>1. UpToDate(early)
      BY <1>I, <2>2, <2>4 DEF EarlyInv
    <3>2. full # None => ~(early.version < full.version)
      <4>1. full # None => full.version <= versions[life] /\ full.version \in Nat
        BY <1>I, ReportFields DEF GoInv, ReportInv, NotNewer, Types, ShownInv, Versions
      <4>2. early.version = versions[life]
        BY <3>1 DEF UpToDate
      <4> QED BY <2>1, <4>1, <4>2
    <3>3. Lead = early
      BY <2>4, <3>2 DEF Lead
    <3>4. Lead.gen # 0
      BY <2>1, <2>4, <3>3
    <3>5. Shown = {early}
      BY <2>4, <3>3, <3>4 DEF Shown
    <3> QED BY <3>1, <3>5
  <2>5. CASE full # None /\ UpToDate(full) /\ (early # None => UpToDate(early))
    BY <2>5, ShownIs
  <2> QED BY <2>3, <2>4, <2>5 DEF Done
<1> QED BY <1>1, <1>2, <1>3 DEF QuietShowsWhatIs, ShowsWhatIs

\* When nothing is due and nothing runs, the problems of an open module are of
\* its text, its project and its settings as they are, and there are none with
\* diagnostics off or of a module that is closed: whatever edits, changes,
\* editor switches, silent or failing workers, retries and reopenings there
\* were.  (Where the code does not stand a race the problems may be stale.)
THEOREM QuietProblemsAreTrue ==
    Races = {} => (Spec => []QuietShowsWhatIs)
<1> SUFFICES ASSUME Races = {} PROVE Spec => []QuietShowsWhatIs
  OBVIOUS
<1>1. Init => QuietInv
  BY QuietInit
<1>2. QuietInv /\ [Next]_vars => QuietInv'
  BY QuietStep
<1>3. QuietInv => QuietShowsWhatIs
  BY QuietHolds
<1> QED BY <1>1, <1>2, <1>3, PTL DEF Spec

=============================================================================
