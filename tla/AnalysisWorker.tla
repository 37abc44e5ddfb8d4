--------------------------- MODULE AnalysisWorker ---------------------------
(***************************************************************************)
(* The analysis worker of the extension host (analysisWorkerClient.ts) and *)
(* the thread it drives (analysisWorker.ts, analysisWorkerLogic.ts).       *)
(*                                                                         *)
(* The host asks for one module's analysis at a time from each of two      *)
(* callers: live diagnostics (latestOnly, seeded with the project record   *)
(* of VbaProjectIndexService) and the Analyze Project command (seeded with *)
(* a snapshot under a key of its own).  The client queues the requests,    *)
(* sends the worker a seed when the generation it last sent is not the one *)
(* the request carries, keeps at most one request at the worker, times it  *)
(* out, and settles every request.  The worker is a thread: its inbox and  *)
(* the host's event queue are FIFO channels.                               *)
(*                                                                         *)
(* The host is single-threaded: an event handler runs to its end.  The     *)
(* dispatch loop at the end of a handler is modelled one iteration a step  *)
(* (turn = "dispatch"); no other host step is enabled until it is done.    *)
(***************************************************************************)
EXTENDS ProjectRecord, Integers, Sequences

CONSTANTS
    Analysed,      \* the modules open in an editor, which live diagnostics analyses
    Faults,        \* how a dispatch may fail: subset of {"seed", "post"}
    Unseeded,      \* whether a caller may analyze() a project it never seeded
    MaxRequests,   \* bound: requests made in a behaviour
    MaxChanges,    \* bound: module texts the project takes in
    MaxRecords     \* bound: records built for the project

ASSUME AnalysedAssumption == Analysed \subseteq Modules
ASSUME FaultsAssumption == Faults \subseteq {"seed", "post"}
ASSUME UnseededAssumption == Unseeded \in BOOLEAN
ASSUME BoundsAssumption ==
    MaxRequests \in Nat /\ MaxChanges \in Nat /\ MaxRecords \in Nat \ {0}

VARIABLES
    \* the project, as the index service serves it
    recs,       \* the records built so far; the last is the one served
    clock,      \* generationClock
    held,       \* per module: the record its running pass read, 0 = no pass
    snap,       \* what the running Analyze Project read; generation 0 = none ran
    \* requests and what became of them
    requests,   \* in the order analyze() accepted them
    outcome,    \* how each was settled, "open" while its promise is pending
    basis,      \* the texts each answered request was analysed against
    \* AnalysisWorkerClient
    queue,      \* _queue: pushed at one end and shifted at the other, so its
                \* order is that of the request numbers it holds
    pending,    \* _pending: the dispatched request, 0 = none
    retried,    \* PendingRequest.retried of the dispatched request
    cancelled,  \* its cancellation flag, shared with the worker thread
    failed,     \* _failed
    worker,     \* _worker: its incarnation, 0 = undefined
    spawned,    \* incarnations started so far
    seeded,     \* _seededGenerations, per project key; 0 = absent
    provider,   \* _seedProviders of the live key: a record, 0 = absent
    turn,       \* "dispatch" while _dispatchNext loops, else "idle"
    \* the worker thread
    inbox,      \* messages the current worker has yet to handle
    wseed,      \* _workbooks: what it last was seeded with, per project key
    outbox      \* responses on their way to the host

projectVars == <<recs, clock, held, snap>>
requestVars == <<requests, outcome, basis>>
clientVars  == <<queue, pending, retried, cancelled, failed, worker, spawned,
                 seeded, provider, turn>>
threadVars  == <<inbox, wseed, outbox>>
vars == <<projectVars, requestVars, clientVars, threadVars>>

-----------------------------------------------------------------------------
(* Values *)

Keys == {"live", "command"}           \* the two project keys of one project
Settled == {"resolved", "superseded", "timeout", "unavailable", "rejected"}
NoTexts == [m \in Modules |-> 0]
NoSeed == [gen |-> 0, ver |-> NoTexts]

Requests == [module : Modules,
             key    : Keys,             \* live requests are latestOnly
             gen    : Nat,
             want   : [Modules -> Nat], \* the texts its caller had before it
             rec    : Nat,              \* the provider it captured, 0 = none
             fault  : {"none", "seed", "post"}]

IsLive(i) == requests[i].key = "live"
Current == recs[Len(recs)]
Open(i) == outcome[i] = "open"
AnalyzeMsg(i) == [kind |-> "analyze", id |-> i]
SeedMsg(k, g, v) == [kind |-> "seed", key |-> k, gen |-> g, ver |-> v]
Response(kind, i, v) == [kind |-> kind, id |-> i, from |-> worker, ver |-> v]

\* Settling the requests of S the same way leaves every other one as it was.
Settle(S, how) == [i \in DOMAIN outcome |-> IF i \in S THEN how ELSE outcome[i]]

\* Everything the client still owes an answer: what _rejectAll settles.
Owed == queue \cup ({pending} \ {0})

-----------------------------------------------------------------------------
Init ==
    /\ recs = <<NewRecord(0, [m \in Modules |-> 1])>>
    /\ clock = 1
    /\ held = [m \in Analysed |-> 0] /\ snap = NoSeed
    /\ requests = <<>> /\ outcome = <<>> /\ basis = <<>>
    /\ queue = {} /\ pending = 0 /\ retried = FALSE /\ cancelled = FALSE
    /\ failed = FALSE /\ worker = 0 /\ spawned = 0
    /\ seeded = [k \in Keys |-> 0] /\ provider = 0 /\ turn = "idle"
    /\ inbox = <<>> /\ wseed = [k \in Keys |-> NoSeed] /\ outbox = <<>>

-----------------------------------------------------------------------------
(* The project moves under the requests *)

\* The service folds a new text of m in.  m's own pass is no longer current:
\* its document's version moved, or its rerun was scheduled.
ChangeModule(m) ==
    /\ turn = "idle"
    /\ Current.ver[m] < MaxChanges
    /\ recs' = [recs EXCEPT ![Len(recs)] = ApplyModule(@, m, @.ver[m] + 1)]
    /\ clock' = clock + 1
    /\ held' = [n \in Analysed |-> IF n = m THEN 0 ELSE held[n]]
    /\ UNCHANGED <<snap, requestVars, clientVars, threadVars>>

\* The record is dropped and built again from the same texts.
RebuildRecord ==
    /\ turn = "idle"
    /\ Len(recs) < MaxRecords
    /\ recs' = Append(recs, NewRecord(clock, Current.ver))
    /\ clock' = clock + 1
    /\ UNCHANGED <<held, snap, requestVars, clientVars, threadVars>>

\* A live pass has read the project and awaits the analysis settings.
ReadContext(m) ==
    /\ turn = "idle"
    /\ held' = [held EXCEPT ![m] = Len(recs)]
    /\ held' # held
    /\ UNCHANGED <<recs, clock, snap, requestVars, clientVars, threadVars>>

-----------------------------------------------------------------------------
(* The client *)

\* What analyze() does to the state once a worker is there: an older live
\* request of the document is cancelled or dropped, and the new one queued.
Enqueue(q) ==
    LET i == Len(requests) + 1
        Older(j) == q.key = "live" /\ IsLive(j) /\ requests[j].module = q.module
        dropped == {j \in queue : Older(j)}
    IN  /\ requests' = Append(requests, q)
        /\ outcome' = Append(Settle(dropped, "superseded"), "open")
        /\ basis' = Append(basis, NoTexts)
        /\ cancelled' = (cancelled \/ (pending # 0 /\ Older(pending)))
        /\ queue' = (queue \ dropped) \cup {i}
        /\ turn' = "dispatch"

\* _ensureWorker: the worker is there, or a new one starts.
EnsureWorker ==
    IF worker # 0 THEN UNCHANGED <<worker, spawned, inbox, wseed>>
    ELSE /\ spawned' = spawned + 1
         /\ worker' = spawned + 1
         /\ inbox' = <<>>
         /\ wseed' = [k \in Keys |-> NoSeed]

\* ensureSeeded and analyze, as a live pass of m calls them after its awaits.
\* The generation is the record's now; the provider reads it at dispatch.
AnalyzeLive(m, fault, seeds) ==
    /\ turn = "idle" /\ ~failed /\ Len(requests) < MaxRequests
    /\ held[m] # 0
    /\ held' = [held EXCEPT ![m] = 0]
    /\ provider' = IF seeds THEN held[m] ELSE provider
    /\ EnsureWorker
    /\ Enqueue([module |-> m, key |-> "live", fault |-> fault,
                gen |-> CrossModuleGeneration(recs[held[m]], m),
                want |-> recs[held[m]].ver,
                rec |-> provider'])
    /\ UNCHANGED <<recs, clock, snap, pending, retried, failed, seeded, outbox>>

\* Analyze Project reads the whole project once, and all its requests carry
\* that snapshot.  Its generation is a fingerprint of the texts, which differs
\* exactly when they do: here the number of texts taken in so far.  Runs of a
\* project are single-flight, so the provider registered is this run's.
Fingerprint == clock - Len(recs) + 1

StartCommand ==
    /\ turn = "idle"
    /\ snap' = [gen |-> Fingerprint, ver |-> Current.ver]
    /\ snap' # snap
    /\ UNCHANGED <<recs, clock, held, requestVars, clientVars, threadVars>>

AnalyzeCommand(m, fault) ==
    /\ turn = "idle" /\ ~failed /\ Len(requests) < MaxRequests
    /\ snap # NoSeed
    /\ EnsureWorker
    /\ Enqueue([module |-> m, key |-> "command", fault |-> fault,
                gen |-> snap.gen, want |-> snap.ver, rec |-> 0])
    /\ UNCHANGED <<projectVars, pending, retried, failed, seeded, provider, outbox>>

\* One request at the worker at a time; the loop ends when there is one.
MayDispatch == ~failed /\ pending = 0 /\ worker # 0 /\ queue # {}

\* Mutant: a rejected submission ends the loop and strands the queue.
SubmitAndStop(i, retry, known) ==
    LET q == requests[i]
        fails == q.fault = "post"
    IN  /\ inbox' = inbox \o (IF fails THEN <<>> ELSE
                        <<SeedMsg(q.key, q.gen, q.want), AnalyzeMsg(i)>>)
        /\ seeded' = IF fails THEN known ELSE [known EXCEPT ![q.key] = q.gen]
        /\ pending' = IF fails THEN 0 ELSE i
        /\ retried' = (retry /\ ~fails)
        /\ outcome' = IF fails THEN Settle({i}, "rejected") ELSE outcome
        /\ turn' = "idle"

\* Mutant: the command's provider reads the project at dispatch too.
SubmitWithTextsNow(i, retry, known) ==
    LET q == requests[i]
        posts == known[q.key] # q.gen
    IN  /\ inbox' = inbox \o (IF posts THEN <<SeedMsg(q.key, q.gen, Current.ver)>> ELSE <<>>)
                          \o <<AnalyzeMsg(i)>>
        /\ seeded' = [known EXCEPT ![q.key] = q.gen]
        /\ pending' = i /\ retried' = retry
        /\ turn' = "idle" /\ UNCHANGED outcome

\* _submit: a seed first when `known`, the generation the client takes the
\* worker to have, is another one, then the request.  The seed is what the
\* provider reads now.  A provider that throws, or a message that cannot be
\* cloned, rejects the request alone, and the loop goes on.
Submit(i, retry, known) ==
    LET q == requests[i]
        source == IF q.rec # 0 THEN q.rec ELSE provider
        seed == IF q.key = "command" THEN q.want ELSE recs[source].ver
        posts == /\ known[q.key] # q.gen
                 /\ q.key = "command" \/ source # 0
        throws == posts /\ q.fault = "seed"
        fails == throws \/ q.fault = "post"
        sent == (IF posts /\ ~throws THEN <<SeedMsg(q.key, q.gen, seed)>> ELSE <<>>)
                \o (IF fails THEN <<>> ELSE <<AnalyzeMsg(i)>>)
    IN  /\ inbox' = inbox \o sent
        /\ seeded' = IF posts /\ ~throws THEN [known EXCEPT ![q.key] = q.gen] ELSE known
        /\ pending' = IF fails THEN 0 ELSE i
        /\ retried' = (retry /\ ~fails)
        /\ outcome' = IF fails THEN Settle({i}, "rejected") ELSE outcome
        /\ turn' = IF fails THEN "dispatch" ELSE "idle"

DispatchNext ==
    /\ turn = "dispatch" /\ MayDispatch
    /\ \E i \in queue :
         /\ \A j \in queue : i <= j
         /\ queue' = queue \ {i}
         /\ Submit(i, FALSE, seeded)
    /\ UNCHANGED <<projectVars, requests, basis, cancelled, failed, worker,
                   spawned, provider, wseed, outbox>>

DispatchDone ==
    /\ turn = "dispatch" /\ ~MayDispatch
    /\ turn' = "idle"
    /\ UNCHANGED <<projectVars, requestVars, queue, pending, retried, cancelled,
                   failed, worker, spawned, seeded, provider, threadVars>>

\* _onResponse.  A response from a worker that was replaced, or to a request
\* that is no longer the dispatched one, is ignored.
Ignored(r) == r.from # worker \/ r.id # pending

OnIgnoredResponse ==
    /\ turn = "idle" /\ outbox # <<>> /\ Ignored(Head(outbox))
    /\ outbox' = Tail(outbox)
    /\ UNCHANGED <<projectVars, requestVars, clientVars, inbox, wseed>>

\* Mutant: the handler forgets to dispatch what is queued.
FinishOnly(how, texts) ==
    /\ outcome' = Settle({pending}, how)
    /\ basis' = [basis EXCEPT ![pending] = texts]
    /\ pending' = 0 /\ retried' = FALSE /\ cancelled' = FALSE
    /\ UNCHANGED <<projectVars, requests, queue, failed, worker,
                   spawned, seeded, provider, turn, inbox, wseed>>

\* The dispatched request is settled `how`; the next one may go.
Finish(how, texts) ==
    /\ outcome' = Settle({pending}, how)
    /\ basis' = [basis EXCEPT ![pending] = texts]
    /\ pending' = 0 /\ retried' = FALSE /\ cancelled' = FALSE
    /\ turn' = "dispatch"
    /\ UNCHANGED <<projectVars, requests, queue, failed, worker,
                   spawned, seeded, provider, inbox, wseed>>

\* Mutant: the host trusts the worker to have seen the cancellation.
SupersededByWorker(r) == r.kind = "cancelled"

Superseded(r) == r.kind = "cancelled" \/ cancelled

OnCancelledResponse ==
    /\ turn = "idle" /\ outbox # <<>>
    /\ ~Ignored(Head(outbox)) /\ Superseded(Head(outbox))
    /\ outbox' = Tail(outbox)
    /\ Finish("superseded", NoTexts)

OnAnswer ==
    /\ turn = "idle" /\ outbox # <<>>
    /\ ~Ignored(Head(outbox)) /\ ~Superseded(Head(outbox))
    /\ Head(outbox).kind \in {"result", "error"}
    /\ outbox' = Tail(outbox)
    /\ IF Head(outbox).kind = "result"
       THEN Finish("resolved", Head(outbox).ver)
       ELSE Finish("rejected", NoTexts)

\* "Reseed once and retry the same request; a second miss is an error."
OnNeedSeed ==
    /\ turn = "idle" /\ outbox # <<>>
    /\ ~Ignored(Head(outbox)) /\ ~Superseded(Head(outbox))
    /\ Head(outbox).kind = "needSeed"
    /\ outbox' = Tail(outbox)
    /\ IF retried
       THEN Finish("rejected", NoTexts)
       ELSE /\ Submit(pending, TRUE, [seeded EXCEPT ![requests[pending].key] = 0])
            /\ UNCHANGED <<projectVars, requests, basis, queue, cancelled,
                           failed, worker, spawned, provider, wseed>>

\* Settles everything and gives the worker up for good.
FailAll ==
    /\ failed' = TRUE
    /\ outcome' = Settle(Owed, "unavailable")
    /\ queue' = {} /\ pending' = 0 /\ retried' = FALSE /\ cancelled' = FALSE
    /\ worker' = 0 /\ inbox' = <<>>
    /\ UNCHANGED <<requests, basis, spawned, seeded, provider, turn, wseed>>

\* The worker's error or exit event, or dispose().
WorkerDies ==
    /\ turn = "idle" /\ ~failed /\ worker # 0
    /\ FailAll
    /\ UNCHANGED <<projectVars, outbox>>

\* analyze() when there is no worker and none can be started: the request is
\* rejected at once and its caller analyses on the host.
AnalyzeUnavailable(m) ==
    /\ turn = "idle" /\ worker = 0 /\ Len(requests) < MaxRequests
    /\ snap # NoSeed
    /\ requests' = Append(requests, [module |-> m, key |-> "command", gen |-> snap.gen,
                                     want |-> snap.ver, rec |-> 0, fault |-> "none"])
    /\ outcome' = Append(outcome, "unavailable")
    /\ basis' = Append(basis, NoTexts)
    /\ failed' = TRUE
    /\ UNCHANGED <<projectVars, queue, pending, retried, cancelled, worker,
                   spawned, seeded, provider, turn, threadVars>>

\* Mutant: the restart keeps what the dead worker had been seeded with.
WatchdogKeepsSeeds(starts) ==
    /\ turn = "idle" /\ pending # 0 /\ starts
    /\ wseed' = [k \in Keys |-> NoSeed]
    /\ inbox' = <<>> /\ pending' = 0 /\ retried' = FALSE /\ cancelled' = FALSE
    /\ worker' = spawned + 1 /\ spawned' = spawned + 1
    /\ outcome' = Settle({pending}, "timeout")
    /\ turn' = "dispatch"
    /\ UNCHANGED <<queue, failed, seeded>>
    /\ UNCHANGED <<projectVars, requests, basis, provider, outbox>>

\* The dispatched request ran out of time: it alone fails, and the queue gets
\* a fresh worker, if one can be started.
Watchdog(starts) ==
    /\ turn = "idle" /\ pending # 0
    /\ seeded' = [k \in Keys |-> 0]
    /\ wseed' = [k \in Keys |-> NoSeed]
    /\ inbox' = <<>> /\ pending' = 0 /\ retried' = FALSE /\ cancelled' = FALSE
    /\ IF starts
       THEN /\ worker' = spawned + 1 /\ spawned' = spawned + 1
            /\ outcome' = Settle({pending}, "timeout")
            /\ turn' = "dispatch"
            /\ UNCHANGED <<queue, failed>>
       ELSE /\ worker' = 0 /\ failed' = TRUE
            /\ outcome' = [Settle(Owed, "unavailable") EXCEPT ![pending] = "timeout"]
            /\ queue' = {}
            /\ UNCHANGED <<spawned, turn>>
    /\ UNCHANGED <<projectVars, requests, basis, provider, outbox>>

\* forget(docKey): m's editor closed.  Its scheduled pass is cancelled too.
Forget(m) ==
    LET Own(i) == IsLive(i) /\ requests[i].module = m
        dropped == {i \in queue : Own(i)}
    IN  /\ turn = "idle"
        /\ held[m] # 0 \/ dropped # {} \/ (pending # 0 /\ Own(pending))
        /\ held' = [held EXCEPT ![m] = 0]
        /\ cancelled' = (cancelled \/ (pending # 0 /\ Own(pending)))
        /\ outcome' = Settle(dropped, "superseded")
        /\ queue' = queue \ dropped
        /\ UNCHANGED <<recs, clock, snap, requests, basis, pending, retried, failed,
                       worker, spawned, seeded, provider, turn, threadVars>>

-----------------------------------------------------------------------------
(* The worker thread handles its inbox in order.  Taking a request is one   *)
(* step: what the flag, the seed and the answer say when it completes.      *)

HandleSeed ==
    /\ worker # 0 /\ inbox # <<>> /\ Head(inbox).kind = "seed"
    /\ inbox' = Tail(inbox)
    /\ wseed' = [wseed EXCEPT ![Head(inbox).key] =
                    [gen |-> Head(inbox).gen, ver |-> Head(inbox).ver]]
    /\ UNCHANGED <<projectVars, requestVars, clientVars, outbox>>

HandleAnalyze ==
    /\ worker # 0 /\ inbox # <<>> /\ Head(inbox).kind = "analyze"
    /\ inbox' = Tail(inbox)
    /\ LET i == Head(inbox).id
           q == requests[i]
           seed == wseed[q.key]
       IN  outbox' \in {Append(outbox, Response(kind, i, seed.ver)) :
             kind \in IF cancelled THEN {"cancelled"}
                      ELSE IF seed.gen # q.gen THEN {"needSeed"}
                      ELSE {"result", "error"}}
    /\ UNCHANGED <<projectVars, requestVars, clientVars, wseed>>

-----------------------------------------------------------------------------
Caller ==
    \/ \E m \in Modules : ChangeModule(m)
    \/ RebuildRecord
    \/ \E m \in Analysed : ReadContext(m)
    \/ \E m \in Analysed, f \in {"none"} \cup Faults,
          seeds \in {TRUE} \cup {~Unseeded} : AnalyzeLive(m, f, seeds)
    \/ StartCommand
    \/ \E m \in Modules, f \in {"none"} \cup Faults : AnalyzeCommand(m, f)
    \/ \E m \in Modules : AnalyzeUnavailable(m)
    \/ \E m \in Analysed : Forget(m)

Client ==
    \/ DispatchNext \/ DispatchDone
    \/ OnIgnoredResponse \/ OnCancelledResponse \/ OnAnswer \/ OnNeedSeed
    \/ \E starts \in BOOLEAN : Watchdog(starts)
    \/ WorkerDies

Thread == HandleSeed \/ HandleAnalyze

Next == Caller \/ Client \/ Thread

\* Timers fire and the host's own loop goes on; nothing is assumed of the
\* worker, which may be stuck, nor of the editor.
Fairness == /\ WF_vars(DispatchNext \/ DispatchDone)
            /\ WF_vars(\E starts \in BOOLEAN : Watchdog(starts))

Spec == Init /\ [][Next]_vars /\ Fairness

-----------------------------------------------------------------------------
(* Properties *)

Texts == [Modules -> Nat]

ProjectType ==
    /\ recs \in Seq(Record) /\ recs # <<>>
    /\ clock \in Nat /\ clock >= Len(recs)
    /\ held \in [Analysed -> 0..Len(recs)]
    /\ snap \in [gen : Nat, ver : Texts]

RequestType ==
    /\ requests \in Seq(Requests)
    /\ outcome \in Seq(Settled \cup {"open"}) /\ Len(outcome) = Len(requests)
    /\ basis \in Seq(Texts) /\ Len(basis) = Len(requests)
    /\ \A i \in 1..Len(requests) : requests[i].rec <= Len(recs)

ClientType ==
    /\ queue \subseteq 1..Len(requests) /\ pending \in 0..Len(requests)
    /\ retried \in BOOLEAN /\ cancelled \in BOOLEAN /\ failed \in BOOLEAN
    /\ spawned \in Nat /\ worker \in 0..spawned
    /\ seeded \in [Keys -> Nat] /\ provider \in 0..Len(recs)
    /\ turn \in {"idle", "dispatch"}

AnalyzeMsgs == [kind : {"analyze"}, id : 1..Len(requests)]
SeedMsgs == [kind : {"seed"}, key : Keys, gen : Nat, ver : Texts]
Responses == [kind : {"result", "error", "needSeed", "cancelled"},
              id : 1..Len(requests), from : 1..spawned, ver : Texts]

ThreadType ==
    /\ inbox \in Seq(AnalyzeMsgs \cup SeedMsgs)
    /\ wseed \in [Keys -> [gen : Nat, ver : Texts]]
    /\ outbox \in Seq(Responses)

\* Every variable has the type its field has in the code.
TypeOK == ProjectType /\ RequestType /\ ClientType /\ ThreadType

\* An open request is the dispatched one or in the queue; and whenever the
\* host is idle, work in the queue means a request is at the worker: no
\* failing seed, uncloneable message, late response, restart or crash strands
\* the queue ("or strand a shifted request without a watchdog").
QueueServed ==
    /\ \A i \in DOMAIN outcome : Open(i) <=> i \in Owed
    /\ turn = "idle" /\ queue # {} => pending # 0

\* The generation the client takes the worker to have is the one it does have
\* when the request arrives, across restarts, failed submissions and retries:
\* the worker asks for a seed only when the caller gave none.
NoReseedNeeded ==
    \A k \in DOMAIN outbox :
        outbox[k].kind = "needSeed" /\ outbox[k].from = worker
            => requests[outbox[k].id].key = "live" /\ requests[outbox[k].id].rec = 0

\* Analyze Project never meets live diagnostics' seeds: each of its answers
\* is about exactly the texts of its snapshot, however the editor moved on.
CommandExact ==
    \A i \in DOMAIN outcome :
        outcome[i] = "resolved" /\ requests[i].key = "command" => basis[i] = requests[i].want

\* A live answer takes every other module at least as new as its caller had
\* it when it asked: "Consumers analyzing one module use it to detect when any
\* OTHER module's content moved".
FreshTexts ==
    \A i \in DOMAIN outcome :
        outcome[i] = "resolved" /\ IsLive(i) =>
            \A n \in Modules \ {requests[i].module} : basis[i][n] >= requests[i].want[n]

\* The client does what AnalysisService promises: settled once, in order,
\* never with an obsolete snapshot, nothing left open when it goes down.
Service == INSTANCE AnalysisService WITH
    requests <- [i \in DOMAIN requests |->
                   [module |-> requests[i].module, key |-> requests[i].key]],
    down <- failed
ServiceSpec == Service!Spec

\* Every request is settled in the end, even if the worker hangs for ever:
\* the watchdog times only the dispatched request, so the queue needs it to
\* be re-armed for each.
EveryRequestSettles ==
    \A i \in 1..MaxRequests :
        (i \in DOMAIN outcome /\ outcome[i] = "open")
            ~> (i \in DOMAIN outcome /\ outcome[i] # "open")
=============================================================================
