------------------------ MODULE AnalysisWorkerProofs ------------------------
(***************************************************************************)
(* Proofs about AnalysisWorker, for every project, editor and bound.       *)
(***************************************************************************)
EXTENDS AnalysisWorker, SequenceTheorems, TLAPS

-----------------------------------------------------------------------------
(* The inductive invariants *)

IsAnalyze(msg) == msg.kind = "analyze"
IsSeedOf(msg, k) == msg.kind = "seed" /\ msg.key = k
AnswersPending(r) == r.from = worker /\ r.id = pending

\* Work is waiting or out only while there is a worker.
QueueInv ==
    /\ \A i \in DOMAIN outcome : Open(i) <=> i \in Owed
    /\ pending \notin queue
    /\ Owed # {} => worker # 0 /\ ~failed
    /\ turn = "idle" /\ queue # {} => pending # 0

\* One request is out: it is the last message of the inbox, or its answer is
\* on its way, once.
ChannelInv ==
    /\ \A j \in 1..Len(inbox) : IsAnalyze(inbox[j]) =>
         j = Len(inbox) /\ inbox[j].id = pending /\ pending # 0
    /\ \A j \in 1..Len(outbox) : outbox[j].id \notin queue
    /\ \A j \in 1..Len(outbox) : pending # 0 /\ AnswersPending(outbox[j]) =>
         /\ \A k \in 1..Len(inbox) : ~IsAnalyze(inbox[k])
         /\ \A k \in 1..Len(outbox) : AnswersPending(outbox[k]) => k = j

\* After its inbox, the worker has the generation the client has noted.
BeliefHolds(k) ==
    \/ /\ wseed[k].gen = seeded[k]
       /\ \A j \in 1..Len(inbox) : ~IsSeedOf(inbox[j], k)
    \/ \E j \in 1..Len(inbox) :
         /\ IsSeedOf(inbox[j], k) /\ inbox[j].gen = seeded[k]
         /\ \A l \in 1..Len(inbox) : l > j => ~IsSeedOf(inbox[l], k)

SeedInv ==
    /\ worker # 0 => \A k \in Keys : BeliefHolds(k)
    /\ worker = 0 /\ ~failed => \A k \in Keys : seeded[k] = 0
    /\ provider = 0 => seeded["live"] = 0
    /\ \A i \in 1..Len(requests) : IsLive(i) /\ requests[i].rec # 0 => provider # 0
    /\ pending # 0 => \/ seeded[requests[pending].key] = requests[pending].gen
                      \/ seeded["live"] = 0 /\ IsLive(pending) /\ requests[pending].rec = 0
    /\ \A j \in 1..Len(outbox) : outbox[j].kind = "needSeed" /\ outbox[j].from = worker =>
         /\ IsLive(outbox[j].id) /\ requests[outbox[j].id].rec = 0
         /\ outbox[j].id = pending => seeded["live"] = 0

-----------------------------------------------------------------------------
(* Lemmas about the operators *)

\* Settle changes values only: it leaves a sequence of outcomes one.
LEMMA SettleType ==
    ASSUME NEW T, outcome \in Seq(T), NEW S, NEW how \in T
    PROVE  /\ Settle(S, how) \in Seq(T)
           /\ Len(Settle(S, how)) = Len(outcome)
           /\ \A i \in DOMAIN outcome :
                Settle(S, how)[i] = IF i \in S THEN how ELSE outcome[i]
<1> DEFINE n == Len(outcome)
<1>1. n \in Nat /\ DOMAIN outcome = 1..n /\ \A i \in 1..n : outcome[i] \in T
  OBVIOUS
<1>2. Settle(S, how) = [i \in 1..n |-> IF i \in S THEN how ELSE outcome[i]]
  BY <1>1 DEF Settle
<1>3. Settle(S, how) \in [1..n -> T]
  BY <1>1, <1>2
<1>4. Settle(S, how) \in Seq(T)
  BY <1>1, <1>3, SeqDef
<1>5. Len(Settle(S, how)) = n
  BY <1>1, <1>3, <1>4, LenProperties
<1> QED BY <1>1, <1>2, <1>4, <1>5

\* A record's generation of a module is a natural number: a module's own
\* changes are among all changes.
LEMMA GenerationType ==
    ASSUME NEW r \in Record, NEW m \in Modules
    PROVE  CrossModuleGeneration(r, m) \in Nat
BY DEF Record, CrossModuleGeneration

LEMMA ApplyModuleType ==
    ASSUME NEW r \in Record, NEW m \in Modules, NEW v \in Nat
    PROVE  ApplyModule(r, m, v) \in Record
BY DEF Record, ApplyModule

LEMMA NewRecordType ==
    ASSUME NEW c \in Nat, NEW v \in [Modules -> Nat]
    PROVE  NewRecord(c, v) \in Record
BY DEF Record, NewRecord

\* Elements and length of a sequence with one more element.
LEMMA AppendType ==
    ASSUME NEW T, NEW s \in Seq(T), NEW e \in T
    PROVE  /\ Append(s, e) \in Seq(T)
           /\ Len(Append(s, e)) = Len(s) + 1
           /\ \A i \in 1..Len(s) : Append(s, e)[i] = s[i]
           /\ Append(s, e)[Len(s) + 1] = e
OBVIOUS

-----------------------------------------------------------------------------
(* Type correctness *)

\* What a new request does to the requests, and what stays well typed because
\* nothing but their number grew.
LEMMA GrowthType ==
    ASSUME TypeOK, NEW q \in Requests, q.rec <= Len(recs),
           requests' = Append(requests, q), UNCHANGED <<recs, spawned>>
    PROVE  /\ requests' \in Seq(Requests)
           /\ Len(requests') = Len(requests) + 1
           /\ \A i \in 1..Len(requests') : requests'[i].rec <= Len(recs')
           /\ AnalyzeMsgs \subseteq AnalyzeMsgs'
           /\ Responses \subseteq Responses'
BY DEF TypeOK, ProjectType, RequestType, AnalyzeMsgs, Responses

LEMMA InitType == Init => TypeOK
<1> SUFFICES ASSUME Init PROVE TypeOK
  OBVIOUS
<1>1. [m \in Modules |-> 1] \in Texts /\ NoTexts \in Texts
  BY DEF Texts, NoTexts
<1>2. NewRecord(0, [m \in Modules |-> 1]) \in Record
  BY <1>1, NewRecordType DEF Texts
<1>3. ProjectType
  BY <1>1, <1>2 DEF Init, ProjectType, NoSeed
<1>4. RequestType
  BY DEF Init, RequestType
<1>5. ClientType
  <2>1. Len(requests) \in Nat /\ Len(recs) \in Nat
    BY <1>3, <1>4 DEF ProjectType, RequestType
  <2>2. provider \in 0..Len(recs) /\ pending \in 0..Len(requests) /\ worker \in 0..spawned
    BY <2>1 DEF Init
  <2>3. seeded \in [Keys -> Nat]
    BY DEF Init
  <2> QED BY <2>2, <2>3 DEF Init, ClientType
<1>6. ThreadType
  BY <1>1 DEF Init, ThreadType, NoSeed
<1> QED BY <1>3, <1>4, <1>5, <1>6 DEF TypeOK

LEMMA ProjectMoves ==
    ASSUME TypeOK,
           \/ \E m \in Modules : ChangeModule(m)
           \/ RebuildRecord
           \/ \E m \in Analysed : ReadContext(m)
           \/ StartCommand
    PROVE  TypeOK'
<1> USE DEF TypeOK
<1>1. Len(recs) \in Nat \ {0} /\ recs[Len(recs)] \in Record
  BY DEF ProjectType
<1>2. Current \in Record /\ Current.ver \in Texts
  BY <1>1 DEF Current, Record, Texts
<1>3. CASE \E m \in Modules : ChangeModule(m)
  <2>1. PICK m \in Modules : ChangeModule(m)
    BY <1>3
  <2>2. ApplyModule(recs[Len(recs)], m, recs[Len(recs)].ver[m] + 1) \in Record
    <3>1. recs[Len(recs)].ver[m] + 1 \in Nat
      BY <1>1 DEF Record
    <3> QED BY <1>1, <3>1, ApplyModuleType
  <2>3. recs' \in Seq(Record) /\ Len(recs') = Len(recs) /\ recs' # <<>>
    BY <1>1, <2>1, <2>2, ExceptSeq DEF ChangeModule, ProjectType
  <2>4. ProjectType'
    BY <2>1, <2>3 DEF ChangeModule, ProjectType, Texts
  <2> QED BY <2>1, <2>3, <2>4 DEF ChangeModule, requestVars, clientVars, threadVars,
               RequestType, ClientType, ThreadType, AnalyzeMsgs, SeedMsgs, Responses
<1>4. CASE RebuildRecord
  <2>1. NewRecord(clock, Current.ver) \in Record
    BY <1>2, NewRecordType DEF ProjectType, Texts
  <2>2. recs' \in Seq(Record) /\ Len(recs') = Len(recs) + 1 /\ recs' # <<>>
    BY <1>1, <1>4, <2>1, AppendType DEF RebuildRecord, ProjectType
  <2>3. ProjectType'
    BY <1>1, <1>4, <2>2 DEF RebuildRecord, ProjectType, Texts
  <2>4. RequestType' /\ ClientType'
    <3>0. \A i \in 1..Len(requests) : requests[i] \in Requests
      BY DEF RequestType
    <3>1. Len(recs) <= Len(recs') /\ \A i \in 1..Len(requests) : requests[i].rec \in Nat
      BY <1>1, <2>2, <3>0 DEF Requests
    <3>2. RequestType'
      BY <1>1, <1>4, <2>2, <3>1 DEF RebuildRecord, requestVars, RequestType
    <3>3. ClientType'
      BY <1>1, <1>4, <2>2, <3>1 DEF RebuildRecord, requestVars, clientVars, ClientType
    <3> QED BY <3>2, <3>3
  <2> QED BY <1>4, <2>3, <2>4 DEF RebuildRecord, requestVars, clientVars, threadVars,
               ThreadType, AnalyzeMsgs, SeedMsgs, Responses
<1>5. CASE (\E m \in Analysed : ReadContext(m)) \/ StartCommand
  <2>1. Fingerprint \in Nat
    BY <1>1 DEF Fingerprint, ProjectType
  <2>2. ProjectType'
    BY <1>1, <1>2, <1>5, <2>1 DEF ReadContext, StartCommand, ProjectType
  <2> QED BY <1>5, <2>2 DEF ReadContext, StartCommand, requestVars, clientVars, threadVars,
               RequestType, ClientType, ThreadType, AnalyzeMsgs, SeedMsgs, Responses
<1> QED BY <1>3, <1>4, <1>5

LEMMA NoSeedType == NoTexts \in Texts /\ NoSeed \in [gen : Nat, ver : Texts]
BY DEF NoTexts, NoSeed, Texts

\* A message or response typed against fewer requests is typed against more.
LEMMA ChannelsGrow ==
    ASSUME NEW A, NEW B, A \subseteq B, NEW s \in Seq(A)
    PROVE  s \in Seq(B)
BY SeqMonotonic

\* Accepting a request, with a worker that was there or has just started.
LEMMA EnqueueType ==
    ASSUME TypeOK, NEW q \in Requests, q.rec <= Len(recs),
           Enqueue(q), EnsureWorker, provider' \in 0..Len(recs),
           UNCHANGED <<recs, pending, retried, failed, seeded, outbox>>
    PROVE  RequestType' /\ ClientType' /\ ThreadType'
<1> USE DEF TypeOK
<1> DEFINE n == Len(requests)
           dropped == {j \in queue : q.key = "live" /\ IsLive(j) /\ requests[j].module = q.module}
           T == Settled \cup {"open"}
<1>1. n \in Nat /\ Len(recs) \in Nat /\ spawned \in Nat
  BY DEF RequestType, ProjectType, ClientType
<1>2. /\ requests' \in Seq(Requests) /\ Len(requests') = n + 1
      /\ \A i \in 1..n : requests'[i] = requests[i]
      /\ requests'[n + 1] = q
  BY <1>1, AppendType DEF Enqueue, RequestType
<1>3. outcome' \in Seq(T) /\ Len(outcome') = n + 1
  <2>1. "superseded" \in T /\ "open" \in T
    BY DEF Settled
  <2>2. /\ Settle(dropped, "superseded") \in Seq(T)
        /\ Len(Settle(dropped, "superseded")) = n
    BY <2>1, SettleType DEF RequestType
  <2>3. outcome' = Append(Settle(dropped, "superseded"), "open")
    BY DEF Enqueue
  <2> HIDE DEF T, dropped
  <2> QED BY <2>1, <2>2, <2>3, AppendType
<1>4. basis' \in Seq(Texts) /\ Len(basis') = n + 1
  BY NoSeedType, AppendType DEF Enqueue, RequestType
<1>5. RequestType'
  <2>1. \A i \in 1..n + 1 : requests'[i].rec <= Len(recs')
    <3>1. \A i \in 1..n + 1 : i \in 1..n \/ i = n + 1
      BY <1>1
    <3>2. \A i \in 1..n : requests[i].rec <= Len(recs)
      BY DEF RequestType
    <3> QED BY <1>2, <3>1, <3>2
  <2> QED BY <1>2, <1>3, <1>4, <2>1 DEF RequestType
<1>6. worker' \in 0..spawned' /\ spawned' \in Nat /\ spawned <= spawned'
  BY <1>1 DEF EnsureWorker, ClientType
<1>7. ClientType'
  <2>1. queue' \subseteq 1..n + 1 /\ turn' = "dispatch"
    <3>1. queue' = (queue \ dropped) \cup {n + 1} /\ queue \subseteq 1..n
      BY DEF Enqueue, ClientType
    <3>2. 1..n \subseteq 1..n + 1 /\ n + 1 \in 1..n + 1
      BY <1>1
    <3> HIDE DEF dropped, n
    <3>3. queue' \subseteq 1..n + 1
      BY <3>1, <3>2
    <3> QED BY <3>3 DEF Enqueue
  <2>2. cancelled' \in BOOLEAN
    BY Zenon DEF Enqueue, ClientType
  <2> QED BY <1>1, <1>2, <1>6, <2>1, <2>2 DEF ClientType
<1>8. ThreadType'
  <2>1. AnalyzeMsgs \cup SeedMsgs \subseteq (AnalyzeMsgs \cup SeedMsgs)'
    BY <1>1, <1>2 DEF AnalyzeMsgs, SeedMsgs
  <2>2. Responses \subseteq Responses'
    BY <1>1, <1>2, <1>6 DEF Responses
  <2>3. outbox' \in Seq(Responses')
    BY <2>2, ChannelsGrow DEF ThreadType
  <2>4. inbox' \in Seq((AnalyzeMsgs \cup SeedMsgs)')
    <3>1. inbox \in Seq((AnalyzeMsgs \cup SeedMsgs)')
      BY <2>1, ChannelsGrow DEF ThreadType
    <3>2. inbox' = inbox \/ inbox' = <<>>
      BY DEF EnsureWorker
    <3> QED BY <3>1, <3>2, EmptySeq
  <2>5. wseed' \in [Keys -> [gen : Nat, ver : Texts]]
    BY NoSeedType DEF EnsureWorker, ThreadType
  <2> QED BY <2>3, <2>4, <2>5 DEF ThreadType, AnalyzeMsgs, SeedMsgs, Responses
<1> QED BY <1>5, <1>7, <1>8

\* One iteration of the dispatch loop, or a retry, for an accepted request.
LEMMA SubmitType ==
    ASSUME TypeOK, NEW i \in 1..Len(requests), NEW retry \in BOOLEAN,
           NEW known \in [Keys -> Nat], Submit(i, retry, known),
           UNCHANGED <<requests, recs, spawned, wseed>>,
           queue' \subseteq queue, UNCHANGED <<basis, cancelled, failed, worker, provider>>,
           outbox' \in Seq(Responses)
    PROVE  RequestType' /\ ClientType' /\ ThreadType'
<1> USE DEF TypeOK
<1> DEFINE q == requests[i]
           T == Settled \cup {"open"}
           M == AnalyzeMsgs \cup SeedMsgs
           source == IF q.rec # 0 THEN q.rec ELSE provider
           seed == IF q.key = "command" THEN q.want ELSE recs[source].ver
           posts == known[q.key] # q.gen /\ (q.key = "command" \/ source # 0)
           throws == posts /\ q.fault = "seed"
           fails == throws \/ q.fault = "post"
           first == IF posts /\ ~throws THEN <<SeedMsg(q.key, q.gen, seed)>> ELSE <<>>
           second == IF fails THEN <<>> ELSE <<AnalyzeMsg(i)>>
<1>1. /\ q \in Requests /\ q.rec \in 0..Len(recs)
      /\ q.key \in Keys /\ q.gen \in Nat /\ q.want \in Texts
  <2>1. q \in Requests /\ q.rec <= Len(recs) /\ Len(recs) \in Nat
    BY DEF RequestType, ProjectType
  <2> QED BY <2>1 DEF Requests, Texts
<1>2. source \in 0..Len(recs)
  BY <1>1 DEF ClientType
<1>3. posts => SeedMsg(q.key, q.gen, seed) \in M
  <2>1. posts => seed \in Texts
    <3>1. source # 0 => recs[source] \in Record
      BY <1>2 DEF ProjectType
    <3> QED BY <1>1, <3>1 DEF Record, Texts
  <2> QED BY <1>1, <2>1 DEF SeedMsg, SeedMsgs
<1>4. AnalyzeMsg(i) \in M
  BY DEF AnalyzeMsg, AnalyzeMsgs
<1>5. first \in Seq(M) /\ second \in Seq(M)
  <2> HIDE DEF M
  <2> QED BY <1>3, <1>4
<1>6. inbox' = inbox \o (first \o second)
  BY DEF Submit
<1>7. inbox' \in Seq(M)
  <2>1. inbox \in Seq(M)
    BY DEF ThreadType
  <2> HIDE DEF M, first, second
  <2> QED BY <1>5, <1>6, <2>1
<1>8. outcome' \in Seq(T) /\ Len(outcome') = Len(outcome)
  <2>1. outcome' = outcome \/ outcome' = Settle({i}, "rejected")
    BY DEF Submit
  <2>2. "rejected" \in T
    BY DEF Settled
  <2>3. outcome \in Seq(T)
    BY DEF RequestType
  <2> HIDE DEF T
  <2> QED BY <2>1, <2>2, <2>3, SettleType
<1>9. RequestType'
  BY <1>8 DEF RequestType
<1>10. ClientType'
  <2>1. pending' \in 0..Len(requests)
    <3>1. pending' = 0 \/ pending' = i
      BY DEF Submit
    <3>2. Len(requests) \in Nat
      BY DEF RequestType
    <3> QED BY <3>1, <3>2
  <2>3. retried' \in BOOLEAN
    BY Zenon DEF Submit
  <2>4. turn' \in {"idle", "dispatch"}
    BY DEF Submit
  <2>2. seeded' \in [Keys -> Nat]
    BY <1>1 DEF Submit
  <2> QED BY <2>1, <2>2, <2>3, <2>4 DEF ClientType
<1>11. ThreadType'
  BY <1>7 DEF ThreadType, AnalyzeMsgs, SeedMsgs, Responses
<1> QED BY <1>9, <1>10, <1>11

LEMMA CallerType ==
    ASSUME TypeOK, Caller PROVE TypeOK'
<1> USE DEF TypeOK
<1>1. Len(recs) \in Nat \ {0} /\ Len(requests) \in Nat
  BY DEF ProjectType, RequestType
<1>2. ASSUME NEW m \in Analysed, NEW f \in {"none"} \cup Faults,
             NEW seeds \in BOOLEAN, AnalyzeLive(m, f, seeds)
      PROVE  TypeOK'
  <2> DEFINE q == [module |-> m, key |-> "live", fault |-> f,
                   gen |-> CrossModuleGeneration(recs[held[m]], m),
                   want |-> recs[held[m]].ver, rec |-> provider']
  <2>1. m \in Modules /\ f \in {"none", "seed", "post"}
    BY AnalysedAssumption, FaultsAssumption
  <2>2. held[m] \in 1..Len(recs) /\ recs[held[m]] \in Record
    BY <1>1, <1>2 DEF AnalyzeLive, ProjectType
  <2>3. provider' \in 0..Len(recs)
    BY <1>1, <1>2, <2>2 DEF AnalyzeLive, ClientType
  <2>4. q \in Requests /\ q.rec <= Len(recs)
    <3>1. CrossModuleGeneration(recs[held[m]], m) \in Nat
      BY <2>1, <2>2, GenerationType
    <3>2. recs[held[m]].ver \in [Modules -> Nat]
      BY <2>2 DEF Record
    <3>3. provider' \in Nat /\ provider' <= Len(recs)
      BY <1>1, <2>3
    <3> QED BY <2>1, <3>1, <3>2, <3>3 DEF Requests, Keys
  <2>5. /\ Enqueue(q) /\ EnsureWorker
        /\ UNCHANGED <<recs, clock, snap, pending, retried, failed, seeded, outbox>>
        /\ held' = [held EXCEPT ![m] = 0]
    BY <1>2 DEF AnalyzeLive
  <2> HIDE DEF q
  <2>6. RequestType' /\ ClientType' /\ ThreadType'
    BY <2>3, <2>4, <2>5, EnqueueType
  <2>7. ProjectType'
    BY <1>1, <2>5 DEF ProjectType
  <2> QED BY <2>6, <2>7
<1>3. ASSUME NEW m \in Modules, NEW f \in {"none"} \cup Faults, AnalyzeCommand(m, f)
      PROVE  TypeOK'
  <2> DEFINE q == [module |-> m, key |-> "command", fault |-> f,
                   gen |-> snap.gen, want |-> snap.ver, rec |-> 0]
  <2>1. f \in {"none", "seed", "post"}
    BY FaultsAssumption
  <2>2. q \in Requests /\ q.rec <= Len(recs)
    <3>1. snap.gen \in Nat /\ snap.ver \in [Modules -> Nat]
      BY DEF ProjectType, Texts
    <3> QED BY <1>1, <2>1, <3>1 DEF Requests, Keys
  <2>3. /\ Enqueue(q) /\ EnsureWorker
        /\ UNCHANGED <<projectVars, pending, retried, failed, seeded, provider, outbox>>
    BY <1>3 DEF AnalyzeCommand
  <2>4. UNCHANGED <<recs, pending, retried, failed, seeded, outbox>> /\ provider' \in 0..Len(recs)
    BY <2>3 DEF projectVars, ClientType
  <2> HIDE DEF q
  <2>5. RequestType' /\ ClientType' /\ ThreadType'
    BY <2>2, <2>3, <2>4, EnqueueType
  <2>6. ProjectType'
    BY <2>3 DEF ProjectType, projectVars
  <2> QED BY <2>5, <2>6
<1>4. ASSUME NEW m \in Modules, AnalyzeUnavailable(m)
      PROVE  TypeOK'
  <2> DEFINE q == [module |-> m, key |-> "command", gen |-> snap.gen,
                   want |-> snap.ver, rec |-> 0, fault |-> "none"]
             T == Settled \cup {"open"}
  <2>1. q \in Requests /\ q.rec <= Len(recs) /\ "unavailable" \in T
    BY <1>1 DEF Requests, Keys, ProjectType, Texts, Settled
  <2>2. /\ requests' = Append(requests, q) /\ outcome' = Append(outcome, "unavailable")
        /\ basis' = Append(basis, NoTexts) /\ failed' = TRUE
        /\ UNCHANGED <<projectVars, queue, pending, retried, cancelled, worker,
                       spawned, seeded, provider, turn, threadVars>>
    BY <1>4 DEF AnalyzeUnavailable
  <2> HIDE DEF q
  <2>3. /\ requests' \in Seq(Requests) /\ Len(requests') = Len(requests) + 1
        /\ \A i \in 1..Len(requests') : requests'[i].rec <= Len(recs')
        /\ AnalyzeMsgs \subseteq AnalyzeMsgs' /\ Responses \subseteq Responses'
    BY <2>1, <2>2, GrowthType DEF projectVars
  <2>4. outcome' \in Seq(T) /\ Len(outcome') = Len(requests')
    BY <2>1, <2>2, <2>3, AppendType DEF RequestType
  <2>5. basis' \in Seq(Texts) /\ Len(basis') = Len(requests')
    BY <2>2, <2>3, NoSeedType, AppendType DEF RequestType
  <2>6. RequestType'
    BY <2>3, <2>4, <2>5 DEF RequestType
  <2>7. ClientType'
    <3>1. queue' \subseteq 1..Len(requests') /\ pending' \in 0..Len(requests')
      BY <1>1, <2>2, <2>3 DEF ClientType
    <3> QED BY <2>2, <3>1 DEF ClientType, projectVars
  <2>8. ThreadType'
    <3>1. SeedMsgs' = SeedMsgs
      BY DEF SeedMsgs
    <3>2. AnalyzeMsgs \cup SeedMsgs \subseteq AnalyzeMsgs' \cup SeedMsgs'
      BY <2>3, <3>1
    <3>3. inbox' \in Seq(AnalyzeMsgs' \cup SeedMsgs')
      BY <2>2, <3>2, ChannelsGrow DEF ThreadType, threadVars
    <3>4. outbox' \in Seq(Responses')
      BY <2>2, <2>3, ChannelsGrow DEF ThreadType, threadVars
    <3> QED BY <2>2, <3>3, <3>4 DEF ThreadType, threadVars
  <2>9. ProjectType'
    BY <2>2 DEF ProjectType, projectVars
  <2> QED BY <2>6, <2>7, <2>8, <2>9
<1>5. ASSUME NEW m \in Analysed, Forget(m)
      PROVE  TypeOK'
  <2> DEFINE dropped == {i \in queue : IsLive(i) /\ requests[i].module = m}
             T == Settled \cup {"open"}
  <2>1. /\ held' = [held EXCEPT ![m] = 0] /\ queue' = queue \ dropped
        /\ outcome' = Settle(dropped, "superseded")
        /\ UNCHANGED <<recs, clock, snap, requests, basis, pending, retried, failed,
                       worker, spawned, seeded, provider, turn, threadVars>>
    BY <1>5 DEF Forget
  <2>2. cancelled' \in BOOLEAN
    BY <1>5, Zenon DEF Forget, ClientType
  <2>3. outcome' \in Seq(T) /\ Len(outcome') = Len(outcome)
    <3>1. "superseded" \in T
      BY DEF Settled
    <3> HIDE DEF dropped
    <3> QED BY <2>1, <3>1, SettleType DEF RequestType
  <2> HIDE DEF dropped
  <2>4. ProjectType' /\ RequestType'
    BY <1>1, <2>1, <2>3 DEF ProjectType, RequestType
  <2>5. ClientType'
    BY <2>1, <2>2 DEF ClientType
  <2>6. ThreadType'
    BY <2>1 DEF ThreadType, threadVars, AnalyzeMsgs, SeedMsgs, Responses
  <2> QED BY <2>4, <2>5, <2>6
<1>6. {TRUE} \cup {~Unseeded} \subseteq BOOLEAN
  BY UnseededAssumption
<1> QED BY <1>2, <1>3, <1>4, <1>5, <1>6, ProjectMoves DEF Caller

\* Settling the dispatched request, whatever the outcome.
LEMMA FinishType ==
    ASSUME TypeOK, NEW how \in Settled, NEW texts \in Texts, pending # 0,
           Finish(how, texts), outbox' \in Seq(Responses)
    PROVE  TypeOK'
<1> USE DEF TypeOK
<1> DEFINE T == Settled \cup {"open"}
<1>1. outcome' \in Seq(T) /\ Len(outcome') = Len(outcome)
  <2>1. how \in T /\ outcome' = Settle({pending}, how)
    BY DEF Finish
  <2> HIDE DEF T
  <2> QED BY <2>1, SettleType DEF RequestType, T
<1>2. basis' \in Seq(Texts) /\ Len(basis') = Len(basis)
  <2>1. pending \in 1..Len(basis)
    BY DEF ClientType, RequestType
  <2> QED BY <2>1, ExceptSeq DEF Finish, RequestType
<1>3. RequestType'
  BY <1>1, <1>2 DEF RequestType, Finish, projectVars
<1>4. ProjectType'
  BY DEF ProjectType, Finish, projectVars
<1>5. ClientType'
  <2>1. Len(requests) \in Nat
    BY DEF RequestType
  <2>2. pending' \in 0..Len(requests') /\ queue' \subseteq 1..Len(requests')
    BY <2>1 DEF ClientType, Finish
  <2>3. retried' \in BOOLEAN /\ cancelled' \in BOOLEAN /\ turn' \in {"idle", "dispatch"}
    BY DEF Finish
  <2>4. UNCHANGED <<failed, worker, spawned, seeded, provider, recs>>
    BY DEF Finish, projectVars
  <2> QED BY <2>2, <2>3, <2>4 DEF ClientType
<1>6. ThreadType'
  BY DEF ThreadType, Finish, AnalyzeMsgs, SeedMsgs, Responses
<1> QED BY <1>3, <1>4, <1>5, <1>6

LEMMA ClientStepType ==
    ASSUME TypeOK, Client PROVE TypeOK'
<1> USE DEF TypeOK
<1> DEFINE T == Settled \cup {"open"}
<1>1. Len(requests) \in Nat /\ Len(outcome) = Len(requests)
  BY DEF RequestType
<1>2. CASE DispatchNext
  <2>1. PICK i \in queue : queue' = queue \ {i} /\ Submit(i, FALSE, seeded)
    BY <1>2 DEF DispatchNext
  <2>2. i \in 1..Len(requests) /\ seeded \in [Keys -> Nat] /\ queue' \subseteq queue
    BY <2>1 DEF ClientType
  <2>3. UNCHANGED <<projectVars, requests, basis, cancelled, failed, worker,
                    spawned, provider, wseed, outbox>>
    BY <1>2 DEF DispatchNext
  <2>4. UNCHANGED recs /\ ProjectType'
    BY <2>3 DEF projectVars, ProjectType
  <2>5. outbox' \in Seq(Responses)
    BY <2>3 DEF ThreadType
  <2> QED BY <2>1, <2>2, <2>3, <2>4, <2>5, SubmitType
<1>3. CASE DispatchDone
  BY <1>3 DEF DispatchDone, projectVars, requestVars, threadVars, ProjectType, RequestType,
              ClientType, ThreadType, AnalyzeMsgs, SeedMsgs, Responses
<1>4. outbox # <<>> =>
        /\ Tail(outbox) \in Seq(Responses) /\ Head(outbox) \in Responses
        /\ Head(outbox).ver \in Texts /\ Head(outbox).id # 0
  <2>1. outbox # <<>> => Tail(outbox) \in Seq(Responses) /\ Head(outbox) \in Responses
    BY HeadTailProperties DEF ThreadType
  <2> QED BY <2>1 DEF Responses
<1>5. CASE OnIgnoredResponse
  BY <1>4, <1>5 DEF OnIgnoredResponse, projectVars, requestVars, clientVars, ProjectType,
         RequestType, ClientType, ThreadType, AnalyzeMsgs, SeedMsgs, Responses
<1>6. CASE OnCancelledResponse
  <2>1. /\ Finish("superseded", NoTexts) /\ outbox' \in Seq(Responses) /\ pending # 0
        /\ "superseded" \in Settled
    BY <1>4, <1>6 DEF OnCancelledResponse, Ignored, Settled
  <2> QED BY <2>1, NoSeedType, FinishType
<1>7. CASE OnAnswer
  <2>1. outbox' \in Seq(Responses) /\ pending # 0 /\ Head(outbox).ver \in Texts
    BY <1>4, <1>7 DEF OnAnswer, Ignored
  <2>2. Finish("resolved", Head(outbox).ver) \/ Finish("rejected", NoTexts)
    BY <1>7 DEF OnAnswer
  <2>3. "resolved" \in Settled /\ "rejected" \in Settled
    BY DEF Settled
  <2> QED BY <2>1, <2>2, <2>3, NoSeedType, FinishType
<1>8. CASE OnNeedSeed
  <2>1. outbox' \in Seq(Responses) /\ pending # 0 /\ pending \in 1..Len(requests)
    BY <1>1, <1>4, <1>8 DEF OnNeedSeed, Ignored, ClientType
  <2>2. CASE retried
    <3>1. Finish("rejected", NoTexts) /\ "rejected" \in Settled
      BY <1>8, <2>2 DEF OnNeedSeed, Settled
    <3> QED BY <2>1, <3>1, NoSeedType, FinishType
  <2>3. CASE ~retried
    <3> DEFINE known == [seeded EXCEPT ![requests[pending].key] = 0]
    <3>1. Submit(pending, TRUE, known)
          /\ UNCHANGED <<projectVars, requests, basis, queue, cancelled,
                         failed, worker, spawned, provider, wseed>>
      BY <1>8, <2>3 DEF OnNeedSeed
    <3>2. known \in [Keys -> Nat]
      BY DEF ClientType
    <3>3. UNCHANGED recs /\ ProjectType'
      BY <3>1 DEF projectVars, ProjectType
    <3> HIDE DEF known
    <3> QED BY <2>1, <3>1, <3>2, <3>3, SubmitType
  <2> QED BY <2>2, <2>3
<1>9. CASE \E starts \in BOOLEAN : Watchdog(starts)
  <2>1. PICK starts \in BOOLEAN : Watchdog(starts)
    BY <1>9
  <2>2. "timeout" \in T /\ "unavailable" \in T
    BY DEF Settled
  <2>3. pending \in 1..Len(outcome)
    BY <1>1, <2>1 DEF Watchdog, ClientType
  <2>4. outcome \in Seq(T)
    BY DEF RequestType
  <2>5. outcome' \in Seq(T) /\ Len(outcome') = Len(outcome)
    <3>1. CASE starts
      <4>1. outcome' = Settle({pending}, "timeout")
        BY <2>1, <3>1 DEF Watchdog
      <4> HIDE DEF T
      <4> QED BY <2>2, <2>4, <4>1, SettleType
    <3>2. CASE ~starts
      <4>1. outcome' = [Settle(Owed, "unavailable") EXCEPT ![pending] = "timeout"]
        BY <2>1, <3>2 DEF Watchdog
      <4> HIDE DEF T
      <4>2. Settle(Owed, "unavailable") \in Seq(T) /\ Len(Settle(Owed, "unavailable")) = Len(outcome)
        BY <2>2, <2>4, SettleType
      <4> QED BY <2>2, <2>3, <4>1, <4>2, ExceptSeq
    <3> QED BY <3>1, <3>2
  <2> HIDE DEF T
  <2>6. UNCHANGED <<projectVars, requests, basis, provider, outbox>> /\ spawned' \in Nat
        /\ worker' \in 0..spawned' /\ spawned <= spawned'
    BY <2>1 DEF Watchdog, ClientType
  <2>7. RequestType' /\ ProjectType'
    BY <2>5, <2>6 DEF RequestType, ProjectType, projectVars, T
  <2>8. ClientType'
    <3>1. pending' = 0 /\ retried' = FALSE /\ cancelled' = FALSE
          /\ seeded' = [k \in Keys |-> 0] /\ failed' \in BOOLEAN
          /\ queue' \subseteq queue /\ turn' \in {"idle", "dispatch"}
      BY <2>1 DEF Watchdog, ClientType
    <3>2. pending' \in 0..Len(requests') /\ queue' \subseteq 1..Len(requests')
      BY <1>1, <2>6, <3>1 DEF ClientType
    <3>3. seeded' \in [Keys -> Nat] /\ provider' \in 0..Len(recs')
      BY <2>6, <3>1 DEF ClientType, projectVars
    <3> QED BY <2>6, <3>1, <3>2, <3>3 DEF ClientType
  <2>9. ThreadType'
    <3>1. Responses \subseteq Responses'
      BY <1>1, <2>6 DEF Responses, ClientType
    <3>2. outbox' \in Seq(Responses')
      BY <2>6, <3>1, ChannelsGrow DEF ThreadType
    <3>3. inbox' = <<>> /\ wseed' = [k \in Keys |-> NoSeed]
      BY <2>1 DEF Watchdog
    <3> QED BY <3>2, <3>3, NoSeedType, EmptySeq DEF ThreadType
  <2> QED BY <2>7, <2>8, <2>9
<1>10. CASE WorkerDies
  <2>1. outcome' = Settle(Owed, "unavailable") /\ "unavailable" \in T
    BY <1>10 DEF WorkerDies, FailAll, Settled
  <2>2. outcome' \in Seq(T) /\ Len(outcome') = Len(outcome)
    <3> HIDE DEF T
    <3> QED BY <2>1, SettleType DEF RequestType, T
  <2>3. /\ queue' = {} /\ pending' = 0 /\ retried' = FALSE /\ cancelled' = FALSE
        /\ failed' = TRUE /\ worker' = 0 /\ inbox' = <<>>
        /\ UNCHANGED <<requests, basis, spawned, seeded, provider, turn, wseed>>
        /\ UNCHANGED <<projectVars, outbox>>
    BY <1>10 DEF WorkerDies, FailAll
  <2> HIDE DEF T
  <2>4. RequestType' /\ ProjectType'
    BY <2>2, <2>3 DEF RequestType, ProjectType, projectVars, T
  <2>5. ClientType'
    <3>1. pending' \in 0..Len(requests') /\ queue' \subseteq 1..Len(requests')
      BY <1>1, <2>3
    <3>2. worker' \in 0..spawned'
      BY <2>3 DEF ClientType
    <3> QED BY <2>3, <3>1, <3>2 DEF ClientType, projectVars
  <2>6. ThreadType'
    BY <2>3, EmptySeq DEF ThreadType, AnalyzeMsgs, SeedMsgs, Responses
  <2> QED BY <2>4, <2>5, <2>6
<1> QED BY <1>2, <1>3, <1>5, <1>6, <1>7, <1>8, <1>9, <1>10 DEF Client

LEMMA ThreadStepType ==
    ASSUME TypeOK, Thread PROVE TypeOK'
<1> USE DEF TypeOK
<1> DEFINE M == AnalyzeMsgs \cup SeedMsgs
<1>1. inbox # <<>> => Tail(inbox) \in Seq(M) /\ Head(inbox) \in M
  <2>1. inbox \in Seq(M)
    BY DEF ThreadType
  <2> HIDE DEF M
  <2> QED BY <2>1, HeadTailProperties
<1>2. CASE HandleSeed
  <2>1. /\ inbox' \in Seq(M) /\ Head(inbox) \in SeedMsgs
        /\ wseed' = [wseed EXCEPT ![Head(inbox).key] =
                       [gen |-> Head(inbox).gen, ver |-> Head(inbox).ver]]
        /\ UNCHANGED <<projectVars, requestVars, clientVars, outbox>>
    BY <1>1, <1>2 DEF HandleSeed, AnalyzeMsgs
  <2>2. wseed' \in [Keys -> [gen : Nat, ver : Texts]]
    BY <2>1 DEF SeedMsgs, ThreadType
  <2> QED BY <2>1, <2>2 DEF projectVars, requestVars, clientVars, ProjectType,
         RequestType, ClientType, ThreadType, AnalyzeMsgs, SeedMsgs, Responses
<1>3. CASE HandleAnalyze
  <2> DEFINE i == Head(inbox).id
  <2>1. inbox' \in Seq(M) /\ i \in 1..Len(requests) /\ worker \in 1..spawned
    BY <1>1, <1>3 DEF HandleAnalyze, AnalyzeMsgs, SeedMsgs, ClientType
  <2>2. requests[i].key \in Keys
    <3>1. requests[i] \in Requests
      BY <2>1 DEF RequestType
    <3> QED BY <3>1 DEF Requests
  <2>3. wseed[requests[i].key].ver \in Texts
    BY <2>2 DEF ThreadType
  <2>4. PICK kind \in {"result", "error", "needSeed", "cancelled"} :
           outbox' = Append(outbox, Response(kind, i, wseed[requests[i].key].ver))
    BY <1>3 DEF HandleAnalyze
  <2>5. outbox' \in Seq(Responses)
    <3>1. Response(kind, i, wseed[requests[i].key].ver) \in Responses
      BY <2>1, <2>3 DEF Response, Responses
    <3> HIDE DEF i
    <3> QED BY <2>4, <3>1, AppendType DEF ThreadType
  <2>6. UNCHANGED <<projectVars, requestVars, clientVars, wseed>>
    BY <1>3 DEF HandleAnalyze
  <2> QED BY <2>1, <2>5, <2>6 DEF projectVars, requestVars, clientVars, ProjectType,
         RequestType, ClientType, ThreadType, AnalyzeMsgs, SeedMsgs, Responses
<1> QED BY <1>2, <1>3 DEF Thread

\* Every state of every project, editor and bound is well typed: the fields of
\* analysisWorkerClient.ts and the worker's hold what their types say.
THEOREM TypeCorrect == Spec => []TypeOK
<1>1. Init => TypeOK
  BY InitType
<1>2. TypeOK /\ [Next]_vars => TypeOK'
  <2>1. ASSUME TypeOK, UNCHANGED vars PROVE TypeOK'
    BY <2>1 DEF vars, projectVars, requestVars, clientVars, threadVars, TypeOK, ProjectType,
         RequestType, ClientType, ThreadType, AnalyzeMsgs, SeedMsgs, Responses
  <2> QED BY <2>1, CallerType, ClientStepType, ThreadStepType DEF Next
<1> QED BY <1>1, <1>2, PTL DEF Spec

-----------------------------------------------------------------------------
(* The queue is always served *)

LEMMA QueueInit == Init => QueueInv
BY DEF Init, QueueInv, Owed

\* Accepting a request drops only queued ones and queues the new one.
LEMMA EnqueueQueue ==
    ASSUME TypeOK, QueueInv, NEW q \in Requests, Enqueue(q), EnsureWorker, ~failed,
           UNCHANGED <<pending, failed>>
    PROVE  QueueInv'
<1> DEFINE n == Len(requests)
           dropped == {j \in queue : q.key = "live" /\ IsLive(j) /\ requests[j].module = q.module}
           T == Settled \cup {"open"}
           s == Settle(dropped, "superseded")
<1>1. n \in Nat /\ DOMAIN outcome = 1..n /\ queue \subseteq 1..n /\ pending \in 0..n
  BY DEF TypeOK, RequestType, ClientType
<1>2. s \in Seq(T) /\ Len(s) = n
      /\ \A i \in 1..n : s[i] = IF i \in dropped THEN "superseded" ELSE outcome[i]
  <2>1. "superseded" \in T /\ outcome \in Seq(T) /\ Len(outcome) = n
    BY DEF Settled, TypeOK, RequestType
  <2> HIDE DEF dropped, T
  <2> QED BY <1>1, <2>1, SettleType
<1>3. outcome' = Append(s, "open") /\ queue' = (queue \ dropped) \cup {n + 1} /\ turn' = "dispatch"
  BY DEF Enqueue
<1>4. dropped \subseteq queue
  OBVIOUS
<1> HIDE DEF dropped, T, s, n
<1>5. /\ DOMAIN outcome' = 1..(n + 1) /\ outcome'[n + 1] = "open"
      /\ \A i \in 1..n : outcome'[i] = IF i \in dropped THEN "superseded" ELSE outcome[i]
  BY <1>1, <1>2, <1>3
<1>6. n + 1 \notin 1..n /\ \A i \in 1..(n + 1) : i \in 1..n \/ i = n + 1
  BY <1>1
<1>7. Owed' = (Owed \ dropped) \cup {n + 1}
  <2>1. pending \notin dropped /\ pending' = pending
    BY <1>4 DEF QueueInv
  <2> QED BY <1>3, <2>1 DEF Owed
<1>8. \A i \in 1..n : outcome'[i] = "open" <=> outcome[i] = "open" /\ i \notin dropped
  BY <1>5
<1>9. /\ \A i \in 1..n : outcome[i] = "open" <=> i \in Owed
      /\ n + 1 \notin dropped
  BY <1>1, <1>4, <1>6 DEF QueueInv, Open
<1>10. \A i \in DOMAIN outcome' : Open(i)' <=> i \in Owed'
  BY <1>5, <1>6, <1>7, <1>8, <1>9 DEF Open
<1>11. pending' \notin queue'
  <2>1. pending # n + 1
    BY <1>1
  <2> QED BY <1>3, <2>1 DEF QueueInv
<1>12. worker' # 0
  <2>1. spawned + 1 # 0
    BY DEF TypeOK, ClientType
  <2> QED BY <2>1 DEF EnsureWorker
<1> QED BY <1>3, <1>10, <1>11, <1>12 DEF QueueInv

\* Requests of S, all that may leave the client, are settled and the rest stay.
LEMMA SettleQueue ==
    ASSUME TypeOK, QueueInv, NEW S, NEW how \in Settled,
           outcome' = Settle(S, how), Owed' = Owed \ S
    PROVE  \A i \in DOMAIN outcome' : Open(i)' <=> i \in Owed'
<1> DEFINE T == Settled \cup {"open"}
<1>1. how \in T /\ how # "open" /\ outcome \in Seq(T)
  BY DEF Settled, TypeOK, RequestType
<1>2. DOMAIN outcome' = DOMAIN outcome
      /\ \A i \in DOMAIN outcome : outcome'[i] = IF i \in S THEN how ELSE outcome[i]
  BY DEF Settle
<1> QED BY <1>1, <1>2 DEF QueueInv, Open

LEMMA QueueStep ==
    ASSUME TypeOK, QueueInv, Next PROVE QueueInv'
<1>1. CASE UNCHANGED <<requests, outcome, queue, pending, failed, worker, turn>>
  BY <1>1 DEF QueueInv, Owed, Open
<1>2. CASE \/ \E m \in Modules : ChangeModule(m)
           \/ RebuildRecord \/ StartCommand \/ OnIgnoredResponse \/ Thread
           \/ \E m \in Analysed : ReadContext(m)
  BY <1>1, <1>2 DEF ChangeModule, RebuildRecord, StartCommand, OnIgnoredResponse, Thread,
       HandleSeed, HandleAnalyze, ReadContext, requestVars, clientVars
<1>3. ASSUME NEW m \in Analysed, NEW f \in {"none"} \cup Faults, NEW seeds \in BOOLEAN,
             AnalyzeLive(m, f, seeds)
      PROVE  QueueInv'
  <2> DEFINE q == [module |-> m, key |-> "live", fault |-> f,
                   gen |-> CrossModuleGeneration(recs[held[m]], m),
                   want |-> recs[held[m]].ver, rec |-> provider']
  <2>1. Enqueue(q) /\ EnsureWorker /\ ~failed /\ UNCHANGED <<pending, failed>>
    BY <1>3 DEF AnalyzeLive
  <2>2. q \in Requests
    <3>1. held[m] \in 1..Len(recs) /\ recs[held[m]] \in Record
      BY <1>3 DEF AnalyzeLive, TypeOK, ProjectType
    <3>2. m \in Modules /\ f \in {"none", "seed", "post"} /\ recs[held[m]].ver \in [Modules -> Nat]
      BY <3>1, AnalysedAssumption, FaultsAssumption DEF Record
    <3>3. CrossModuleGeneration(recs[held[m]], m) \in Nat
      BY <3>1, <3>2, GenerationType
    <3>4. provider' \in Nat
      BY <1>3, <3>1 DEF AnalyzeLive, TypeOK, ClientType, ProjectType
    <3> QED BY <3>2, <3>3, <3>4 DEF Requests, Keys
  <2> HIDE DEF q
  <2> QED BY <2>1, <2>2, EnqueueQueue
<1>4. ASSUME NEW m \in Modules, NEW f \in {"none"} \cup Faults, AnalyzeCommand(m, f)
      PROVE  QueueInv'
  <2> DEFINE q == [module |-> m, key |-> "command", fault |-> f,
                   gen |-> snap.gen, want |-> snap.ver, rec |-> 0]
  <2>1. Enqueue(q) /\ EnsureWorker /\ ~failed /\ UNCHANGED <<pending, failed>>
    BY <1>4 DEF AnalyzeCommand
  <2>2. q \in Requests
    BY FaultsAssumption DEF Requests, Keys, TypeOK, ProjectType, Texts
  <2> HIDE DEF q
  <2> QED BY <2>1, <2>2, EnqueueQueue
<1>5. ASSUME NEW m \in Modules, AnalyzeUnavailable(m)
      PROVE  QueueInv'
  <2>1. Owed = {} /\ Owed' = {} /\ UNCHANGED <<queue, pending, worker, turn>>
    BY <1>5 DEF AnalyzeUnavailable, QueueInv, Owed
  <2>2. outcome \in Seq(Settled \cup {"open"}) /\ outcome' = Append(outcome, "unavailable")
    BY <1>5 DEF AnalyzeUnavailable, TypeOK, RequestType
  <2>3. \A i \in DOMAIN outcome' : ~Open(i)'
    BY <2>1, <2>2 DEF QueueInv, Open
  <2> QED BY <2>1, <2>3 DEF QueueInv, Owed
<1>6. ASSUME NEW m \in Analysed, Forget(m)
      PROVE  QueueInv'
  <2> DEFINE dropped == {i \in queue : IsLive(i) /\ requests[i].module = m}
  <2>1. outcome' = Settle(dropped, "superseded") /\ queue' = queue \ dropped
        /\ UNCHANGED <<pending, failed, worker, turn>>
    BY <1>6 DEF Forget
  <2>2. dropped \subseteq queue /\ "superseded" \in Settled
    BY DEF Settled
  <2> HIDE DEF dropped
  <2>3. Owed' = Owed \ dropped
    BY <2>1, <2>2 DEF Owed, QueueInv
  <2>4. \A i \in DOMAIN outcome' : Open(i)' <=> i \in Owed'
    BY <2>1, <2>2, <2>3, SettleQueue
  <2> QED BY <2>1, <2>3, <2>4 DEF QueueInv
<1>7. ASSUME NEW i, NEW retry, NEW known, Submit(i, retry, known), i # 0,
             \/ i \in queue /\ pending = 0 /\ queue' = queue \ {i}
             \/ i = pending /\ queue' = queue,
             UNCHANGED <<worker, failed>>
      PROVE  QueueInv'
  <2>1. Owed = queue' \cup {i} /\ i \notin queue' /\ worker # 0 /\ ~failed
    BY <1>7 DEF Owed, QueueInv
  <2>2. CASE pending' = 0
    <3>1. outcome' = Settle({i}, "rejected") /\ turn' = "dispatch"
      BY <1>7, <2>2 DEF Submit
    <3>2. Owed' = Owed \ {i} /\ "rejected" \in Settled
      BY <2>1, <2>2 DEF Owed, Settled
    <3>3. \A j \in DOMAIN outcome' : Open(j)' <=> j \in Owed'
      BY <3>1, <3>2, SettleQueue
    <3>4. 0 \notin queue'
      BY <1>7 DEF TypeOK, ClientType
    <3> QED BY <1>7, <2>1, <2>2, <3>1, <3>3, <3>4 DEF QueueInv
  <2>3. CASE pending' # 0
    <3>1. pending' = i /\ outcome' = outcome
      BY <1>7, <2>3 DEF Submit
    <3>2. Owed' = Owed
      BY <2>1, <2>3, <3>1 DEF Owed
    <3> QED BY <1>7, <2>1, <2>3, <3>1, <3>2 DEF QueueInv, Open
  <2> QED BY <2>2, <2>3
<1>8. CASE DispatchNext
  <2>1. PICK i \in queue : queue' = queue \ {i} /\ Submit(i, FALSE, seeded)
    BY <1>8 DEF DispatchNext
  <2>2. pending = 0 /\ UNCHANGED <<worker, failed>> /\ i # 0
    BY <1>8, <2>1 DEF DispatchNext, MayDispatch, TypeOK, ClientType
  <2> QED BY <1>7, <2>1, <2>2
<1>9. CASE DispatchDone
  BY <1>9 DEF DispatchDone, MayDispatch, QueueInv, Owed, Open, requestVars
<1>10. ASSUME NEW how \in Settled, NEW texts, Finish(how, texts), pending # 0
       PROVE  QueueInv'
  <2>1. outcome' = Settle({pending}, how) /\ pending' = 0 /\ turn' = "dispatch"
        /\ UNCHANGED <<queue, failed, worker>>
    BY <1>10 DEF Finish
  <2>2. Owed' = Owed \ {pending} /\ 0 \notin queue
    BY <2>1 DEF Owed, QueueInv, TypeOK, ClientType
  <2>3. \A i \in DOMAIN outcome' : Open(i)' <=> i \in Owed'
    BY <2>1, <2>2, SettleQueue
  <2> QED BY <2>1, <2>2, <2>3 DEF QueueInv
<1>11. outbox # <<>> /\ ~Ignored(Head(outbox)) => pending # 0
  <2>1. outbox # <<>> => Head(outbox) \in Responses
    BY HeadTailProperties DEF TypeOK, ThreadType
  <2> QED BY <2>1 DEF Ignored, Responses
<1>12. "superseded" \in Settled /\ "resolved" \in Settled /\ "rejected" \in Settled
       /\ "timeout" \in Settled /\ "unavailable" \in Settled
  BY DEF Settled
<1>13. CASE OnCancelledResponse
  BY <1>10, <1>11, <1>12, <1>13 DEF OnCancelledResponse
<1>14. CASE OnAnswer
  <2>1. \E how \in Settled, texts \in {Head(outbox).ver, NoTexts} : Finish(how, texts)
    BY <1>12, <1>14 DEF OnAnswer
  <2> QED BY <1>10, <1>11, <1>14, <2>1 DEF OnAnswer
<1>15. CASE OnNeedSeed
  <2>1. CASE retried
    BY <1>10, <1>11, <1>12, <1>15, <2>1 DEF OnNeedSeed
  <2>2. CASE ~retried
    <3>1. Submit(pending, TRUE, [seeded EXCEPT ![requests[pending].key] = 0])
          /\ UNCHANGED <<queue, worker, failed>> /\ pending # 0
      BY <1>11, <1>15, <2>2 DEF OnNeedSeed
    <3> QED BY <1>7, <3>1
  <2> QED BY <2>1, <2>2
<1>16. ASSUME NEW starts \in BOOLEAN, Watchdog(starts)
       PROVE  QueueInv'
  <2>1. pending # 0 /\ pending' = 0
    BY <1>16 DEF Watchdog
  <2>2. CASE starts
    <3>1. outcome' = Settle({pending}, "timeout") /\ turn' = "dispatch"
          /\ worker' = spawned + 1 /\ UNCHANGED <<queue, failed>>
      BY <1>16, <2>2 DEF Watchdog
    <3>2. Owed' = Owed \ {pending} /\ worker' # 0 /\ 0 \notin queue
      BY <2>1, <3>1 DEF Owed, QueueInv, TypeOK, ClientType
    <3>3. \A i \in DOMAIN outcome' : Open(i)' <=> i \in Owed'
      BY <1>12, <3>1, <3>2, SettleQueue
    <3> QED BY <2>1, <3>1, <3>2, <3>3 DEF QueueInv, Owed
  <2>3. CASE ~starts
    <3>1. outcome' = [Settle(Owed, "unavailable") EXCEPT ![pending] = "timeout"] /\ queue' = {}
      BY <1>16, <2>3 DEF Watchdog
    <3>2. Owed' = {}
      BY <2>1, <3>1 DEF Owed
    <3>3. \A i \in DOMAIN outcome' : ~Open(i)'
      BY <3>1 DEF QueueInv, Open, Settle
    <3> QED BY <2>1, <3>1, <3>2, <3>3 DEF QueueInv
  <2> QED BY <2>2, <2>3
<1>17. CASE WorkerDies
  <2>1. outcome' = Settle(Owed, "unavailable") /\ queue' = {} /\ pending' = 0
    BY <1>17 DEF WorkerDies, FailAll
  <2>2. Owed' = {} /\ Owed' = Owed \ Owed
    BY <2>1 DEF Owed
  <2>3. \A i \in DOMAIN outcome' : Open(i)' <=> i \in Owed'
    BY <1>12, <2>1, <2>2, SettleQueue
  <2> QED BY <2>1, <2>2, <2>3 DEF QueueInv
<1>18. Caller => QueueInv'
  <2>1. {TRUE} \cup {~Unseeded} \subseteq BOOLEAN
    BY UnseededAssumption
  <2> QED BY <1>2, <1>3, <1>4, <1>5, <1>6, <2>1 DEF Caller
<1>19. Client => QueueInv'
  BY <1>2, <1>8, <1>9, <1>13, <1>14, <1>15, <1>16, <1>17 DEF Client
<1> QED BY <1>2, <1>18, <1>19 DEF Next

\* Whatever the callers, failures and bounds, an open request is queued or at
\* the worker and a queue never waits behind an idle worker: _dispatchNext is
\* called wherever _pending is cleared.
THEOREM QueueAlwaysServed == Spec => []QueueServed
<1>1. Init => TypeOK /\ QueueInv
  BY InitType, QueueInit
<1>2. TypeOK /\ QueueInv /\ [Next]_vars => (TypeOK /\ QueueInv)'
  <2>1. ASSUME TypeOK, QueueInv, Next PROVE TypeOK' /\ QueueInv'
    BY <2>1, CallerType, ClientStepType, ThreadStepType, QueueStep DEF Next
  <2>2. ASSUME TypeOK, QueueInv, UNCHANGED vars PROVE TypeOK' /\ QueueInv'
    BY <2>2 DEF vars, projectVars, requestVars, clientVars, threadVars, TypeOK, ProjectType,
         RequestType, ClientType, ThreadType, AnalyzeMsgs, SeedMsgs, Responses,
         QueueInv, Owed, Open
  <2> QED BY <2>1, <2>2
<1>3. QueueInv => QueueServed
  BY DEF QueueInv, QueueServed
<1> QED BY <1>1, <1>2, <1>3, PTL DEF Spec

-----------------------------------------------------------------------------
(* The worker has been seeded with what the client takes it to have *)

\* What _submit adds to the worker's messages: a seed, the request, or both.
LEMMA SubmitSends ==
    ASSUME TypeOK, NEW i \in 1..Len(requests), NEW retry, NEW known \in [Keys -> Nat],
           Submit(i, retry, known),
           NEW n, n = Len(inbox)
    PROVE  \E sent \in BOOLEAN :
             LET q == requests[i] IN
             /\ sent => known[q.key] # q.gen /\ (q.key = "live" => q.rec # 0 \/ provider # 0)
             /\ seeded' = [known EXCEPT ![q.key] = IF sent THEN q.gen ELSE known[q.key]]
             /\ pending' # 0 => \/ sent \/ known[q.key] = q.gen
                                \/ q.key = "live" /\ q.rec = 0 /\ provider = 0
             /\ Len(inbox') \in Nat /\ Len(inbox') >= n
             /\ \A j \in 1..n : inbox'[j] = inbox[j]
             /\ sent => /\ n + 1 <= Len(inbox') /\ inbox'[n + 1].kind = "seed"
                        /\ inbox'[n + 1].key = q.key /\ inbox'[n + 1].gen = q.gen
             /\ \A j \in 1..Len(inbox') : j > n =>
                  \/ sent /\ j = n + 1
                  \/ /\ pending' = i /\ j = Len(inbox')
                     /\ inbox'[j].kind = "analyze" /\ inbox'[j].id = i
<1> USE DEF TypeOK
<1> DEFINE q == requests[i]
           M == AnalyzeMsgs \cup SeedMsgs
           source == IF q.rec # 0 THEN q.rec ELSE provider
           seed == IF q.key = "command" THEN q.want ELSE recs[source].ver
           posts == known[q.key] # q.gen /\ (q.key = "command" \/ source # 0)
           throws == posts /\ q.fault = "seed"
           fails == throws \/ q.fault = "post"
           sent == posts /\ ~throws
           first == IF sent THEN <<SeedMsg(q.key, q.gen, seed)>> ELSE <<>>
           second == IF fails THEN <<>> ELSE <<AnalyzeMsg(i)>>
<1>1. q \in Requests /\ q.key \in {"live", "command"} /\ i # 0
  <2>1. q \in Requests /\ Len(requests) \in Nat
    BY DEF RequestType
  <2> QED BY <2>1 DEF Requests, Keys
<1>2. inbox' = inbox \o (first \o second) /\ inbox \in Seq(M) /\ n \in Nat
  <2>1. inbox' = inbox \o (first \o second)
    BY DEF Submit
  <2>2. inbox \in Seq(M)
    BY DEF ThreadType
  <2> HIDE DEF M
  <2>3. n \in Nat
    BY <2>2
  <2> QED BY <2>1, <2>2, <2>3
<1>3. seeded' = (IF sent THEN [known EXCEPT ![q.key] = q.gen] ELSE known)
      /\ pending' = (IF fails THEN 0 ELSE i)
  BY DEF Submit
<1>4. seeded' = [known EXCEPT ![q.key] = IF sent THEN q.gen ELSE known[q.key]]
  BY <1>1, <1>3 DEF Keys
<1>5. /\ sent => known[q.key] # q.gen /\ (q.key = "live" => q.rec # 0 \/ provider # 0)
      /\ pending' # 0 => \/ sent \/ known[q.key] = q.gen
                         \/ q.key = "live" /\ q.rec = 0 /\ provider = 0
  BY <1>1, <1>3
<1>6. SeedMsg(q.key, q.gen, seed).kind = "seed" /\ SeedMsg(q.key, q.gen, seed).key = q.key
      /\ SeedMsg(q.key, q.gen, seed).gen = q.gen
  BY DEF SeedMsg
<1>7. AnalyzeMsg(i).kind = "analyze" /\ AnalyzeMsg(i).id = i
  BY DEF AnalyzeMsg
<1> HIDE DEF M, seed, posts
<1>8. /\ Len(inbox') \in Nat /\ Len(inbox') >= n
      /\ \A j \in 1..n : inbox'[j] = inbox[j]
      /\ sent => n + 1 <= Len(inbox') /\ inbox'[n + 1] = SeedMsg(q.key, q.gen, seed)
      /\ \A j \in 1..Len(inbox') : j > n =>
           \/ sent /\ j = n + 1
           \/ ~fails /\ j = Len(inbox') /\ inbox'[j] = AnalyzeMsg(i)
  <2>1. CASE sent /\ ~fails
    <3>1. inbox' = inbox \o <<SeedMsg(q.key, q.gen, seed), AnalyzeMsg(i)>>
      BY <1>2, <2>1
    <3> QED BY <1>2, <2>1, <3>1
  <2>2. CASE sent /\ fails
    <3>1. inbox' = inbox \o <<SeedMsg(q.key, q.gen, seed)>>
      BY <1>2, <2>2
    <3> QED BY <1>2, <2>2, <3>1
  <2>3. CASE ~sent /\ ~fails
    <3>1. inbox' = inbox \o <<AnalyzeMsg(i)>>
      BY <1>2, <2>3
    <3> QED BY <1>2, <2>3, <3>1
  <2>4. CASE ~sent /\ fails
    <3>1. inbox' = inbox
      BY <1>2, <2>4
    <3> QED BY <1>2, <2>4, <3>1
  <2> QED BY <2>1, <2>2, <2>3, <2>4
<1>9. sent \in BOOLEAN
  OBVIOUS
<1> HIDE DEF sent, fails
<1> QED BY <1>3, <1>4, <1>5, <1>6, <1>7, <1>8, <1>9

\* Submitting a request no message and no answer is about keeps both
\* invariants, whether it is sent, or only its seed is, or neither.
LEMMA SubmitChannels ==
    ASSUME TypeOK, QueueInv, ChannelInv, SeedInv,
           NEW i \in 1..Len(requests), NEW retry, Submit(i, retry, seeded),
           UNCHANGED <<worker, requests, provider, wseed>>, queue' \subseteq queue,
           worker # 0,
           \A j \in 1..Len(inbox) : ~IsAnalyze(inbox[j]),
           \A j \in 1..Len(outbox') : \E k \in 1..Len(outbox) : outbox'[j] = outbox[k],
           \A j \in 1..Len(outbox') : ~(outbox'[j].from = worker /\ outbox'[j].id = i)
    PROVE  ChannelInv' /\ SeedInv'
<1> DEFINE n == Len(inbox)
           q == requests[i]
<1>1. n \in Nat /\ seeded \in [Keys -> Nat] /\ Len(requests) \in Nat
      /\ q.key \in Keys /\ i \in Nat \ {0}
  <2>1. n \in Nat /\ seeded \in [Keys -> Nat] /\ Len(requests) \in Nat /\ q \in Requests
    BY DEF TypeOK, ThreadType, ClientType, RequestType
  <2> QED BY <2>1 DEF Requests
<1> HIDE DEF n
<1>2. PICK sent \in BOOLEAN :
             /\ sent => seeded[q.key] # q.gen /\ (q.key = "live" => q.rec # 0 \/ provider # 0)
             /\ seeded' = [seeded EXCEPT ![q.key] = IF sent THEN q.gen ELSE seeded[q.key]]
             /\ pending' # 0 => \/ sent \/ seeded[q.key] = q.gen
                                \/ q.key = "live" /\ q.rec = 0 /\ provider = 0
             /\ Len(inbox') \in Nat /\ Len(inbox') >= n
             /\ \A j \in 1..n : inbox'[j] = inbox[j]
             /\ sent => /\ n + 1 <= Len(inbox') /\ inbox'[n + 1].kind = "seed"
                        /\ inbox'[n + 1].key = q.key /\ inbox'[n + 1].gen = q.gen
             /\ \A j \in 1..Len(inbox') : j > n =>
                  \/ sent /\ j = n + 1
                  \/ /\ pending' = i /\ j = Len(inbox')
                     /\ inbox'[j].kind = "analyze" /\ inbox'[j].id = i
  <2> HIDE DEF q
  <2> QED BY <1>1, SubmitSends DEF n, q
<1>3. pending' = 0 \/ pending' = i
  BY DEF Submit
<1>4. ASSUME NEW j \in 1..Len(inbox'), IsAnalyze(inbox'[j])
      PROVE  j = Len(inbox') /\ inbox'[j].id = pending' /\ pending' # 0
  <2>1. j > n
    <3>1. j \in 1..n => inbox'[j] = inbox[j] /\ ~IsAnalyze(inbox[j])
      BY <1>2 DEF n
    <3> QED BY <1>1, <1>2, <1>4, <3>1 DEF IsAnalyze
  <2>2. ~(sent /\ j = n + 1)
    BY <1>2, <1>4 DEF IsAnalyze
  <2> QED BY <1>1, <1>2, <2>1, <2>2
<1>5. ChannelInv'
  <2>1. \A j \in 1..Len(outbox') : outbox'[j].id \notin queue'
    BY DEF ChannelInv
  <2>2. \A j \in 1..Len(outbox') : ~(pending' # 0 /\ AnswersPending(outbox[j])')
    BY <1>3 DEF AnswersPending
  <2> QED BY <1>4, <2>1, <2>2 DEF ChannelInv, IsAnalyze
<1>6. seeded'[q.key] = (IF sent THEN q.gen ELSE seeded[q.key])
      /\ \A k \in Keys : k # q.key \/ ~sent => seeded'[k] = seeded[k]
  BY <1>1, <1>2
<1>7. ASSUME NEW k \in Keys PROVE BeliefHolds(k)'
  <2>1. CASE sent /\ k = q.key
    <3>1. \A l \in 1..Len(inbox') : l > n + 1 => inbox'[l].kind = "analyze"
      BY <1>1, <1>2
    <3>2. n + 1 \in 1..Len(inbox')
      BY <1>1, <1>2, <2>1
    <3>3. /\ inbox'[n + 1].kind = "seed" /\ inbox'[n + 1].key = k
          /\ inbox'[n + 1].gen = seeded'[k]
      BY <1>2, <1>6, <2>1
    <3>4. \A l \in 1..Len(inbox') : l > n + 1 => ~(inbox'[l].kind = "seed" /\ inbox'[l].key = k)
      BY <3>1
    <3> QED BY <3>2, <3>3, <3>4 DEF BeliefHolds, IsSeedOf
  <2>2. CASE ~(sent /\ k = q.key)
    <3>1. BeliefHolds(k) /\ seeded'[k] = seeded[k] /\ wseed'[k] = wseed[k]
      BY <1>6, <2>2 DEF SeedInv
    <3>2. \A l \in 1..Len(inbox') : l > n => ~(inbox'[l].kind = "seed" /\ inbox'[l].key = k)
      BY <1>1, <1>2, <2>2
    <3>3. \A l \in 1..Len(inbox') : l \in 1..n \/ l > n
      BY <1>1
    <3>4. \A l \in 1..n : l \in 1..Len(inbox') /\ inbox'[l] = inbox[l]
      BY <1>1, <1>2
    <3>5. CASE /\ wseed[k].gen = seeded[k]
               /\ \A j \in 1..n : ~IsSeedOf(inbox[j], k)
      <4>1. \A j \in 1..Len(inbox') : ~(inbox'[j].kind = "seed" /\ inbox'[j].key = k)
        BY <3>2, <3>3, <3>4, <3>5 DEF IsSeedOf
      <4> QED BY <3>1, <3>5, <4>1 DEF BeliefHolds, IsSeedOf
    <3>6. ASSUME NEW j \in 1..n, IsSeedOf(inbox[j], k), inbox[j].gen = seeded[k],
                 \A l \in 1..n : l > j => ~IsSeedOf(inbox[l], k)
          PROVE  BeliefHolds(k)'
      <4>1. \A l \in 1..Len(inbox') : l > j => ~(inbox'[l].kind = "seed" /\ inbox'[l].key = k)
        BY <3>2, <3>3, <3>4, <3>6 DEF IsSeedOf
      <4>2. /\ j \in 1..Len(inbox') /\ inbox'[j].gen = seeded'[k]
            /\ inbox'[j].kind = "seed" /\ inbox'[j].key = k
        BY <3>1, <3>4, <3>6 DEF IsSeedOf
      <4> QED BY <4>1, <4>2 DEF BeliefHolds, IsSeedOf
    <3> QED BY <3>1, <3>5, <3>6 DEF BeliefHolds, n
  <2> QED BY <2>1, <2>2
<1>8. SeedInv'
  <2>1. provider' = 0 => seeded'["live"] = 0
    <3>1. sent /\ q.key = "live" => provider # 0
      BY <1>2 DEF SeedInv, IsLive
    <3>2. "live" \in Keys
      BY DEF Keys
    <3> QED BY <1>6, <3>1, <3>2 DEF SeedInv
  <2>2. pending' # 0 => \/ seeded'[requests[pending'].key] = requests[pending'].gen
                        \/ /\ seeded'["live"] = 0 /\ requests[pending'].key = "live"
                           /\ requests[pending'].rec = 0
    <3>1. provider = 0 => seeded["live"] = 0
      BY DEF SeedInv
    <3> QED BY <1>2, <1>3, <1>6, <3>1
  <2>3. \A j \in 1..Len(outbox') : outbox'[j].kind = "needSeed" /\ outbox'[j].from = worker' =>
          /\ IsLive(outbox'[j].id) /\ requests[outbox'[j].id].rec = 0
          /\ outbox'[j].id # i
    BY DEF SeedInv
  <2>4. \A j \in 1..Len(outbox') : outbox'[j].id # 0
    <3>1. \A k \in 1..Len(outbox) : outbox[k] \in Responses
      BY DEF TypeOK, ThreadType
    <3>2. \A k \in 1..Len(outbox) : outbox[k].id # 0
      BY <1>1, <3>1 DEF Responses
    <3> QED BY <3>2
  <2>5. \A j \in 1..Len(outbox') : outbox'[j].kind = "needSeed" /\ outbox'[j].from = worker' =>
          /\ requests'[outbox'[j].id].key = "live" /\ requests'[outbox'[j].id].rec = 0
          /\ outbox'[j].id # pending'
    BY <1>3, <2>3, <2>4 DEF IsLive
  <2>6. \A j \in 1..Len(requests') :
          requests'[j].key = "live" /\ requests'[j].rec # 0 => provider' # 0
    BY DEF SeedInv, IsLive
  <2> QED BY <1>7, <2>1, <2>2, <2>5, <2>6 DEF SeedInv, IsLive
<1> QED BY <1>5, <1>8

LEMMA SeedInit == Init => ChannelInv /\ SeedInv
<1> SUFFICES ASSUME Init PROVE ChannelInv /\ SeedInv
  OBVIOUS
<1>1. Len(inbox) = 0 /\ Len(outbox) = 0 /\ Len(requests) = 0
  BY DEF Init
<1>2. pending = 0 /\ worker = 0 /\ \A k \in Keys : seeded[k] = 0
  BY DEF Init
<1>3. "live" \in Keys
  BY DEF Keys
<1> QED BY <1>1, <1>2, <1>3 DEF ChannelInv, SeedInv

\* A response taken off the host's queue: the rest keep their order.
LEMMA TailElements ==
    ASSUME TypeOK, outbox # <<>>, outbox' = Tail(outbox)
    PROVE  /\ Head(outbox) = outbox[1] /\ 1 \in 1..Len(outbox) /\ Head(outbox) \in Responses
           /\ \A j \in 1..Len(outbox') : j + 1 \in 1..Len(outbox) /\ outbox'[j] = outbox[j + 1]
                                         /\ j + 1 # 1
<1>1. outbox \in Seq(Responses)
  BY DEF TypeOK, ThreadType
<1>2. Len(outbox) \in Nat \ {0} /\ Len(outbox') = Len(outbox) - 1
  BY <1>1
<1>3. \A j \in 1..Len(outbox') : outbox'[j] = outbox[j + 1]
  BY <1>1, <1>2
<1>4. Head(outbox) = outbox[1] /\ outbox[1] \in Responses
  BY <1>1, <1>2
<1> QED BY <1>2, <1>3, <1>4

\* The dispatched request is settled on its answer: nothing is out any more.
LEMMA FinishChannels ==
    ASSUME TypeOK, QueueInv, ChannelInv, SeedInv, NEW how, NEW texts, Finish(how, texts),
           outbox # <<>>, outbox' = Tail(outbox), ~Ignored(Head(outbox))
    PROVE  ChannelInv' /\ SeedInv'
<1>1. /\ pending' = 0
      /\ UNCHANGED <<requests, queue, failed, worker, seeded, provider, inbox, wseed>>
  BY DEF Finish
<1>2. /\ \A j \in 1..Len(outbox') : j + 1 \in 1..Len(outbox) /\ outbox'[j] = outbox[j + 1]
      /\ Head(outbox) = outbox[1] /\ 1 \in 1..Len(outbox) /\ Head(outbox) \in Responses
  BY TailElements
<1>3. AnswersPending(outbox[1]) /\ pending # 0
  <2>1. 0 \notin 1..Len(requests)
    BY DEF TypeOK, RequestType
  <2> QED BY <1>2, <2>1 DEF Ignored, AnswersPending, Responses
<1>4. \A j \in 1..Len(inbox) : ~IsAnalyze(inbox[j])
  BY <1>2, <1>3 DEF ChannelInv
<1>5. ChannelInv'
  <2>1. \A j \in 1..Len(outbox') : outbox'[j].id \notin queue'
    BY <1>1, <1>2 DEF ChannelInv
  <2> QED BY <1>1, <1>4, <2>1 DEF ChannelInv, IsAnalyze
<1>6. SeedInv'
  <2>1. \A k \in Keys : BeliefHolds(k)' <=> BeliefHolds(k)
    BY <1>1 DEF BeliefHolds, IsSeedOf
  <2>2. \A j \in 1..Len(outbox') : outbox'[j].id # 0
    <3>1. \A k \in 1..Len(outbox) : outbox[k] \in Responses
      BY DEF TypeOK, ThreadType
    <3>2. Len(requests) \in Nat
      BY DEF TypeOK, RequestType
    <3>3. \A k \in 1..Len(outbox) : outbox[k].id # 0
      BY <3>1, <3>2 DEF Responses
    <3> QED BY <1>2, <3>3
  <2>3. \A j \in 1..Len(outbox') : outbox'[j].kind = "needSeed" /\ outbox'[j].from = worker' =>
          requests'[outbox'[j].id].key = "live" /\ requests'[outbox'[j].id].rec = 0
    BY <1>1, <1>2 DEF SeedInv, IsLive
  <2> QED BY <1>1, <2>1, <2>2, <2>3 DEF SeedInv, IsLive
<1> QED BY <1>5, <1>6

\* Nothing of the client moves but its queue: requests added at the end and
\* queued ones dropped, under the same worker or a first one.
LEMMA EnqueueChannels ==
    ASSUME TypeOK, QueueInv, ChannelInv, SeedInv, NEW q \in Requests, Enqueue(q), EnsureWorker,
           ~failed, UNCHANGED <<pending, failed, seeded, outbox>>,
           provider # 0 => provider' # 0,
           q.key = "live" /\ q.rec # 0 => provider' # 0
    PROVE  ChannelInv' /\ SeedInv'
<1> DEFINE n == Len(requests)
<1>1. n \in Nat /\ pending \in 0..n /\ spawned \in Nat
      /\ \A j \in 1..Len(outbox) : outbox[j].id \in 1..n /\ outbox[j].from \in 1..spawned
  <2>1. \A j \in 1..Len(outbox) : outbox[j] \in Responses
    BY DEF TypeOK, ThreadType
  <2>2. \A j \in 1..Len(outbox) : outbox[j].id \in 1..n /\ outbox[j].from \in 1..spawned
    BY <2>1 DEF Responses
  <2>3. n \in Nat /\ pending \in 0..n /\ spawned \in Nat
    BY DEF TypeOK, RequestType, ClientType
  <2> QED BY <2>2, <2>3
<1>2. requests' = Append(requests, q) /\ queue' \subseteq queue \cup {n + 1}
  BY DEF Enqueue
<1>3. /\ Len(requests') = n + 1 /\ requests'[n + 1] = q
      /\ \A i \in 1..n : requests'[i] = requests[i]
  BY <1>1, <1>2, AppendType DEF TypeOK, RequestType
<1>4. CASE worker # 0
  <2>1. UNCHANGED <<worker, inbox, wseed>>
    BY <1>4 DEF EnsureWorker
  <2>2. \A j \in 1..Len(outbox) : outbox[j].id \notin queue'
    BY <1>1, <1>2 DEF ChannelInv
  <2>3. ChannelInv'
    BY <2>1, <2>2 DEF ChannelInv, IsAnalyze, AnswersPending
  <2>4. \A k \in Keys : BeliefHolds(k)' <=> BeliefHolds(k)
    BY <2>1 DEF BeliefHolds, IsSeedOf
  <2>5. \A i \in 1..(n + 1) : requests'[i].key = "live" /\ requests'[i].rec # 0 => provider' # 0
    <3>1. \A i \in 1..(n + 1) : i \in 1..n \/ i = n + 1
      BY <1>1
    <3> QED BY <1>3, <3>1 DEF SeedInv, IsLive
  <2>6. pending # 0 => requests'[pending] = requests[pending]
    BY <1>1, <1>3
  <2>7. SeedInv'
    BY <1>1, <1>3, <2>1, <2>4, <2>5, <2>6 DEF SeedInv, IsLive
  <2> QED BY <2>3, <2>7
<1>5. CASE worker = 0
  <2>1. pending = 0 /\ queue = {}
    BY <1>5 DEF QueueInv, Owed
  <2>2. worker' = spawned + 1 /\ inbox' = <<>> /\ wseed' = [k \in Keys |-> NoSeed]
    BY <1>5 DEF EnsureWorker
  <2>3. n + 1 \notin 1..n /\ spawned + 1 \notin 1..spawned /\ Len(inbox') = 0
    BY <1>1, <2>2
  <2>4. ChannelInv'
    <3>1. \A j \in 1..Len(outbox') : outbox'[j].id \notin queue'
      BY <1>1, <1>2, <2>1, <2>3
    <3> QED BY <2>1, <2>3, <3>1 DEF ChannelInv
  <2>5. \A k \in Keys : BeliefHolds(k)'
    BY <1>5, <2>2, <2>3 DEF BeliefHolds, SeedInv, NoSeed
  <2>6. \A i \in 1..(n + 1) : requests'[i].key = "live" /\ requests'[i].rec # 0 => provider' # 0
    <3>1. \A i \in 1..(n + 1) : i \in 1..n \/ i = n + 1
      BY <1>1
    <3> QED BY <1>3, <3>1 DEF SeedInv, IsLive
  <2>7. \A j \in 1..Len(outbox') : outbox'[j].from # worker'
    BY <1>1, <2>2, <2>3
  <2>8. provider' = 0 => seeded'["live"] = 0
    BY DEF SeedInv
  <2>9. worker' # 0
    BY <1>1, <2>2
  <2> QED BY <1>3, <2>1, <2>4, <2>5, <2>6, <2>7, <2>8, <2>9 DEF SeedInv, IsLive
<1> QED BY <1>4, <1>5

LEMMA SeedStep ==
    ASSUME TypeOK, QueueInv, ChannelInv, SeedInv, Next PROVE ChannelInv' /\ SeedInv'
<1>1. CASE UNCHANGED <<requests, queue, pending, failed, worker, seeded, provider, inbox,
                       wseed, outbox>>
  BY <1>1 DEF ChannelInv, SeedInv, IsAnalyze, AnswersPending, IsLive, BeliefHolds, IsSeedOf
<1>2. CASE \/ \E m \in Modules : ChangeModule(m)
           \/ RebuildRecord \/ StartCommand \/ DispatchDone
           \/ \E m \in Analysed : ReadContext(m)
  BY <1>1, <1>2 DEF ChangeModule, RebuildRecord, StartCommand, DispatchDone,
       ReadContext, requestVars, clientVars, threadVars
<1>3. \A j \in 1..Len(outbox) : outbox[j].id # 0 /\ outbox[j].from # 0
                                /\ outbox[j].from \in 1..spawned
  <2>1. \A j \in 1..Len(outbox) : outbox[j] \in Responses
    BY DEF TypeOK, ThreadType
  <2>2. Len(requests) \in Nat /\ spawned \in Nat
    BY DEF TypeOK, RequestType, ClientType
  <2> QED BY <2>1, <2>2 DEF Responses
<1>4. ASSUME NEW m \in Analysed, NEW f \in {"none"} \cup Faults, NEW seeds \in BOOLEAN,
             AnalyzeLive(m, f, seeds)
      PROVE  ChannelInv' /\ SeedInv'
  <2> DEFINE q == [module |-> m, key |-> "live", fault |-> f,
                   gen |-> CrossModuleGeneration(recs[held[m]], m),
                   want |-> recs[held[m]].ver, rec |-> provider']
  <2>1. held[m] \in 1..Len(recs) /\ recs[held[m]] \in Record /\ held[m] # 0
        /\ Len(recs) \in Nat
    BY <1>4 DEF AnalyzeLive, TypeOK, ProjectType
  <2>2. provider' = IF seeds THEN held[m] ELSE provider
    BY <1>4 DEF AnalyzeLive
  <2>3. q \in Requests
    <3>1. m \in Modules /\ f \in {"none", "seed", "post"} /\ recs[held[m]].ver \in [Modules -> Nat]
      BY <2>1, AnalysedAssumption, FaultsAssumption DEF Record
    <3>2. CrossModuleGeneration(recs[held[m]], m) \in Nat
      BY <2>1, <3>1, GenerationType
    <3>3. provider' \in Nat
      BY <2>1, <2>2 DEF TypeOK, ClientType
    <3> QED BY <3>1, <3>2, <3>3 DEF Requests, Keys
  <2>4. Enqueue(q) /\ EnsureWorker /\ ~failed /\ UNCHANGED <<pending, failed, seeded, outbox>>
    BY <1>4 DEF AnalyzeLive
  <2>5. (provider # 0 => provider' # 0) /\ (q.rec # 0 => provider' # 0)
    BY <2>1, <2>2
  <2> HIDE DEF q
  <2> QED BY <2>3, <2>4, <2>5, EnqueueChannels
<1>5. ASSUME NEW m \in Modules, NEW f \in {"none"} \cup Faults, AnalyzeCommand(m, f)
      PROVE  ChannelInv' /\ SeedInv'
  <2> DEFINE q == [module |-> m, key |-> "command", fault |-> f,
                   gen |-> snap.gen, want |-> snap.ver, rec |-> 0]
  <2>1. Enqueue(q) /\ EnsureWorker /\ ~failed /\ UNCHANGED provider
        /\ UNCHANGED <<pending, failed, seeded, outbox>>
    BY <1>5 DEF AnalyzeCommand
  <2>2. q \in Requests
    BY FaultsAssumption DEF Requests, Keys, TypeOK, ProjectType, Texts
  <2>3. q.key # "live"
    OBVIOUS
  <2> HIDE DEF q
  <2> QED BY <2>1, <2>2, <2>3, EnqueueChannels
<1>6. ASSUME NEW m \in Modules, AnalyzeUnavailable(m)
      PROVE  ChannelInv' /\ SeedInv'
  <2> DEFINE q == [module |-> m, key |-> "command", gen |-> snap.gen,
                   want |-> snap.ver, rec |-> 0, fault |-> "none"]
             n == Len(requests)
  <2>1. /\ requests' = Append(requests, q) /\ failed' = TRUE /\ worker = 0
        /\ UNCHANGED <<queue, pending, worker, seeded, provider, inbox, wseed, outbox>>
    BY <1>6 DEF AnalyzeUnavailable, threadVars
  <2>2. q \in Requests /\ q.key # "live" /\ n \in Nat /\ requests \in Seq(Requests)
    BY DEF Requests, Keys, TypeOK, ProjectType, Texts, RequestType
  <2>3. pending = 0
    BY <2>1 DEF QueueInv, Owed
  <2> HIDE DEF q
  <2>4. /\ Len(requests') = n + 1 /\ requests'[n + 1] = q
        /\ \A i \in 1..n : requests'[i] = requests[i]
    BY <2>1, <2>2, AppendType
  <2>5. \A i \in 1..(n + 1) : requests'[i].key = "live" /\ requests'[i].rec # 0 => provider' # 0
    <3>1. \A i \in 1..(n + 1) : i \in 1..n \/ i = n + 1
      BY <2>2
    <3> QED BY <2>1, <2>2, <2>4, <3>1 DEF SeedInv, IsLive
  <2>6. ChannelInv'
    BY <2>1, <2>3 DEF ChannelInv, IsAnalyze, AnswersPending
  <2> QED BY <1>3, <2>1, <2>3, <2>4, <2>5, <2>6 DEF SeedInv, IsLive
<1>7. ASSUME NEW m \in Analysed, Forget(m)
      PROVE  ChannelInv' /\ SeedInv'
  <2>1. /\ queue' \subseteq queue
        /\ UNCHANGED <<requests, pending, failed, worker, seeded, provider, inbox, wseed, outbox>>
    BY <1>7 DEF Forget, threadVars
  <2>2. ChannelInv'
    BY <2>1 DEF ChannelInv, IsAnalyze, AnswersPending
  <2>3. SeedInv'
    BY <2>1 DEF SeedInv, IsLive, BeliefHolds, IsSeedOf
  <2> QED BY <2>2, <2>3
<1>8. CASE DispatchNext
  <2>1. PICK i \in queue : queue' = queue \ {i} /\ Submit(i, FALSE, seeded)
    BY <1>8 DEF DispatchNext
  <2>2. /\ pending = 0 /\ worker # 0
        /\ UNCHANGED <<worker, requests, provider, wseed, outbox>>
    BY <1>8 DEF DispatchNext, MayDispatch
  <2>3. i \in 1..Len(requests)
    BY <2>1 DEF TypeOK, ClientType
  <2>4. \A j \in 1..Len(inbox) : ~IsAnalyze(inbox[j])
    BY <2>2 DEF ChannelInv
  <2>5. \A j \in 1..Len(outbox') : outbox'[j].id # i
    BY <2>1, <2>2 DEF ChannelInv
  <2>6. \A j \in 1..Len(outbox') : \E k \in 1..Len(outbox) : outbox'[j] = outbox[k]
    BY <2>2
  <2> QED BY <2>1, <2>2, <2>3, <2>4, <2>5, <2>6, SubmitChannels
<1>9. CASE OnIgnoredResponse
  <2>1. outbox' = Tail(outbox) /\ outbox # <<>>
        /\ UNCHANGED <<requests, queue, pending, failed, worker, seeded, provider, inbox, wseed>>
    BY <1>9 DEF OnIgnoredResponse, requestVars, clientVars
  <2>2. \A j \in 1..Len(outbox') : j + 1 \in 1..Len(outbox) /\ outbox'[j] = outbox[j + 1]
    BY <2>1, TailElements
  <2>3. ChannelInv'
    <3>1. \A j \in 1..Len(outbox') : outbox'[j].id \notin queue'
      BY <2>1, <2>2 DEF ChannelInv
    <3>2. ASSUME NEW j \in 1..Len(outbox'), pending # 0, AnswersPending(outbox'[j])
          PROVE  /\ \A k \in 1..Len(inbox) : ~IsAnalyze(inbox[k])
                 /\ \A k \in 1..Len(outbox') : AnswersPending(outbox'[k]) => k = j
      <4>1. AnswersPending(outbox[j + 1]) /\ j + 1 \in 1..Len(outbox)
        BY <2>2, <3>2
      <4>2. \A k \in 1..Len(outbox') : AnswersPending(outbox'[k]) => k + 1 = j + 1
        BY <2>2, <3>2, <4>1 DEF ChannelInv
      <4> QED BY <3>2, <4>1, <4>2 DEF ChannelInv
    <3> QED BY <2>1, <3>1, <3>2 DEF ChannelInv, IsAnalyze, AnswersPending
  <2>4. SeedInv'
    BY <2>1, <2>2 DEF SeedInv, IsLive, BeliefHolds, IsSeedOf
  <2> QED BY <2>3, <2>4
<1>10. CASE OnCancelledResponse \/ OnAnswer \/ (OnNeedSeed /\ retried)
  <2>1. /\ outbox # <<>> /\ outbox' = Tail(outbox) /\ ~Ignored(Head(outbox))
        /\ \E how \in Settled, texts \in {Head(outbox).ver, NoTexts} : Finish(how, texts)
    BY <1>10 DEF OnCancelledResponse, OnAnswer, OnNeedSeed, Settled
  <2> QED BY <2>1, FinishChannels
<1>11. CASE OnNeedSeed /\ ~retried
  <2>1. /\ outbox # <<>> /\ outbox' = Tail(outbox) /\ ~Ignored(Head(outbox))
        /\ Head(outbox).kind = "needSeed"
        /\ Submit(pending, TRUE, [seeded EXCEPT ![requests[pending].key] = 0])
        /\ UNCHANGED <<requests, queue, worker, provider, wseed>>
    BY <1>11 DEF OnNeedSeed
  <2>2. /\ Head(outbox) = outbox[1] /\ 1 \in 1..Len(outbox)
        /\ \A j \in 1..Len(outbox') : j + 1 \in 1..Len(outbox) /\ outbox'[j] = outbox[j + 1]
                                      /\ j + 1 # 1
    BY <2>1, TailElements
  <2>3. AnswersPending(outbox[1]) /\ pending # 0 /\ worker # 0
    BY <1>3, <2>1, <2>2 DEF Ignored, AnswersPending
  <2>4. pending \in 1..Len(requests) /\ seeded \in [Keys -> Nat]
    BY <2>3 DEF TypeOK, ClientType, RequestType
  <2>5. \A j \in 1..Len(inbox) : ~IsAnalyze(inbox[j])
    BY <2>2, <2>3 DEF ChannelInv
  <2>6. \A j \in 1..Len(outbox') : ~(outbox'[j].from = worker /\ outbox'[j].id = pending)
    <3>1. \A j \in 1..Len(outbox') : ~AnswersPending(outbox[j + 1])
      BY <2>2, <2>3 DEF ChannelInv
    <3> QED BY <2>2, <3>1 DEF AnswersPending
  <2>7. \A j \in 1..Len(outbox') : \E k \in 1..Len(outbox) : outbox'[j] = outbox[k]
    BY <2>2
  <2>8. [seeded EXCEPT ![requests[pending].key] = 0] = seeded
    <3>1. requests[pending].key = "live" /\ seeded["live"] = 0
      BY <2>1, <2>2, <2>3 DEF SeedInv, IsLive, AnswersPending
    <3> QED BY <2>4, <3>1
  <2> QED BY <2>1, <2>3, <2>4, <2>5, <2>6, <2>7, <2>8, SubmitChannels
<1>12. ASSUME NEW starts \in BOOLEAN, Watchdog(starts)
       PROVE  ChannelInv' /\ SeedInv'
  <2>1. /\ seeded' = [k \in Keys |-> 0] /\ wseed' = [k \in Keys |-> NoSeed]
        /\ inbox' = <<>> /\ pending' = 0 /\ queue' \subseteq queue
        /\ UNCHANGED <<requests, provider, outbox>>
        /\ worker' = spawned + 1 \/ (worker' = 0 /\ failed' = TRUE)
    BY <1>12 DEF Watchdog
  <2>2. Len(inbox') = 0 /\ "live" \in Keys
    BY <2>1 DEF Keys
  <2>3. ChannelInv'
    <3>1. \A j \in 1..Len(outbox') : outbox'[j].id \notin queue'
      BY <2>1 DEF ChannelInv
    <3> QED BY <2>1, <2>2, <3>1 DEF ChannelInv
  <2>4. \A k \in Keys : BeliefHolds(k)'
    BY <2>1, <2>2 DEF BeliefHolds, NoSeed
  <2>5. \A j \in 1..Len(outbox') : outbox'[j].from # worker'
    <3>1. spawned + 1 \notin 1..spawned /\ 0 \notin 1..spawned
      BY DEF TypeOK, ClientType
    <3> QED BY <1>3, <2>1, <3>1
  <2>6. \A k \in Keys : seeded'[k] = 0
    BY <2>1
  <2>7. \A i \in 1..Len(requests') : requests'[i].key = "live" /\ requests'[i].rec # 0 => provider' # 0
    BY <2>1 DEF SeedInv, IsLive
  <2>8. SeedInv'
    BY <2>1, <2>2, <2>4, <2>5, <2>6, <2>7 DEF SeedInv, IsLive
  <2> QED BY <2>3, <2>8
<1>13. CASE WorkerDies
  <2>1. /\ failed' = TRUE /\ queue' = {} /\ pending' = 0 /\ worker' = 0 /\ inbox' = <<>>
        /\ UNCHANGED <<requests, seeded, provider, wseed, outbox>>
    BY <1>13 DEF WorkerDies, FailAll
  <2>2. Len(inbox') = 0
    BY <2>1
  <2>3. ChannelInv'
    BY <2>1, <2>2 DEF ChannelInv
  <2> QED BY <1>3, <2>1, <2>3 DEF SeedInv, IsLive
<1>14. inbox # <<>> =>
         /\ Len(inbox) \in Nat /\ Head(inbox) = inbox[1] /\ 1 \in 1..Len(inbox)
         /\ Len(Tail(inbox)) \in Nat /\ Len(Tail(inbox)) = Len(inbox) - 1
         /\ \A j \in 1..Len(Tail(inbox)) : Tail(inbox)[j] = inbox[j + 1]
  <2> DEFINE M == AnalyzeMsgs \cup SeedMsgs
  <2>1. inbox \in Seq(M)
    BY DEF TypeOK, ThreadType
  <2> HIDE DEF M
  <2> QED BY <2>1
<1>15. CASE HandleSeed
  <2> DEFINE h == Head(inbox)
             n == Len(inbox)
  <2>1. /\ inbox # <<>> /\ inbox' = Tail(inbox) /\ h.kind = "seed" /\ worker # 0
        /\ wseed' = [wseed EXCEPT ![h.key] = [gen |-> h.gen, ver |-> h.ver]]
        /\ UNCHANGED <<requests, queue, pending, failed, worker, seeded, provider, outbox>>
    BY <1>15 DEF HandleSeed, requestVars, clientVars
  <2>2. /\ n \in Nat /\ n # 0 /\ h = inbox[1] /\ 1 \in 1..n /\ Len(inbox') = n - 1
        /\ \A j \in 1..Len(inbox') : j + 1 \in 1..n /\ inbox'[j] = inbox[j + 1]
        /\ \A j \in 1..n : j # 1 => j - 1 \in 1..Len(inbox') /\ inbox'[j - 1] = inbox[j]
    <3>1. n \in Nat /\ n # 0 /\ h = inbox[1] /\ 1 \in 1..n /\ Len(inbox') = n - 1
          /\ \A j \in 1..Len(inbox') : inbox'[j] = inbox[j + 1]
      BY <1>14, <2>1
    <3>2. \A j \in 1..n : j # 1 => j - 1 \in 1..Len(inbox') /\ (j - 1) + 1 = j
      BY <3>1
    <3> QED BY <3>1, <3>2
  <2>3. \A k \in Keys : wseed'[k].gen = IF k = h.key THEN h.gen ELSE wseed[k].gen
    BY <2>1 DEF TypeOK, ThreadType
  <2> HIDE DEF h, n
  <2>4. ChannelInv'
    <3>1. \A j \in 1..Len(inbox') : IsAnalyze(inbox'[j]) =>
            j = Len(inbox') /\ inbox'[j].id = pending /\ pending # 0
      <4>1. \A j \in 1..Len(inbox') : IsAnalyze(inbox'[j]) =>
              j + 1 = n /\ inbox[j + 1].id = pending /\ pending # 0
        BY <2>2 DEF ChannelInv, n
      <4> QED BY <2>2, <4>1
    <3>2. (\A j \in 1..Len(inbox) : ~IsAnalyze(inbox[j]))
            => \A j \in 1..Len(inbox') : ~IsAnalyze(inbox'[j])
      BY <2>2 DEF n
    <3> QED BY <2>1, <3>1, <3>2 DEF ChannelInv, IsAnalyze, AnswersPending
  <2>5. ASSUME NEW k \in Keys PROVE BeliefHolds(k)'
    <3>1. BeliefHolds(k) /\ seeded' = seeded
      BY <2>1 DEF SeedInv
    <3>2. CASE /\ wseed[k].gen = seeded[k] /\ k # h.key
               /\ \A j \in 1..n : ~IsSeedOf(inbox[j], k)
      <4>1. \A j \in 1..Len(inbox') : ~IsSeedOf(inbox'[j], k)
        BY <2>2, <3>2
      <4> QED BY <2>3, <3>1, <3>2, <4>1 DEF BeliefHolds, IsSeedOf
    <3>3. ASSUME NEW j \in 1..n, IsSeedOf(inbox[j], k), inbox[j].gen = seeded[k],
                 \A l \in 1..n : l > j => ~IsSeedOf(inbox[l], k)
          PROVE  BeliefHolds(k)'
      <4>1. CASE j = 1
        <5>1. h.key = k /\ h.gen = seeded[k]
          BY <2>2, <3>3, <4>1 DEF IsSeedOf
        <5>2. \A l \in 1..Len(inbox') : ~IsSeedOf(inbox'[l], k)
          BY <2>2, <3>3, <4>1
        <5> QED BY <2>3, <3>1, <5>1, <5>2 DEF BeliefHolds, IsSeedOf
      <4>2. CASE j # 1
        <5>1. j - 1 \in 1..Len(inbox') /\ inbox'[j - 1] = inbox[j]
          BY <2>2, <4>2
        <5>2. \A l \in 1..Len(inbox') : l > j - 1 => ~IsSeedOf(inbox'[l], k)
          <6>1. \A l \in 1..Len(inbox') : l > j - 1 => l + 1 > j
            BY <2>2
          <6> QED BY <2>2, <3>3, <6>1
        <5> QED BY <3>1, <3>3, <5>1, <5>2 DEF BeliefHolds, IsSeedOf
      <4> QED BY <4>1, <4>2
    <3>4. k = h.key => IsSeedOf(inbox[1], k)
      BY <2>1, <2>2 DEF IsSeedOf
    <3> QED BY <2>2, <3>1, <3>2, <3>3, <3>4 DEF BeliefHolds, n
  <2>6. SeedInv'
    BY <2>1, <2>5 DEF SeedInv, IsLive
  <2> QED BY <2>4, <2>6
<1>16. CASE HandleAnalyze
  <2> DEFINE q == requests[pending]
             m == Len(outbox)
  <2>1. /\ inbox # <<>> /\ inbox' = Tail(inbox) /\ IsAnalyze(Head(inbox)) /\ worker # 0
        /\ UNCHANGED <<requests, queue, pending, failed, worker, seeded, provider, wseed>>
    BY <1>16 DEF HandleAnalyze, IsAnalyze, requestVars, clientVars
  <2>2. Head(inbox).id = pending /\ pending # 0 /\ Len(inbox) = 1 /\ 1..Len(inbox') = {}
        /\ IsAnalyze(inbox[1]) /\ 1 \in 1..Len(inbox)
    <3>1. IsAnalyze(inbox[1]) /\ 1 \in 1..Len(inbox) /\ Head(inbox) = inbox[1]
          /\ Len(inbox') = Len(inbox) - 1 /\ Len(inbox) \in Nat
      BY <1>14, <2>1
    <3>2. 1 = Len(inbox) /\ inbox[1].id = pending /\ pending # 0
      BY <3>1 DEF ChannelInv
    <3>3. Len(inbox') = 0
      <4>1. Len(inbox') = Len(inbox) - 1 /\ 1 = Len(inbox)
        BY <3>1, <3>2
      <4>2. \A k : k = Len(inbox) - 1 => k = 0
        BY <3>2
      <4> QED BY <4>1, <4>2
    <3>4. 1..Len(inbox') = {}
      BY <3>3
    <3> QED BY <3>1, <3>2, <3>4
  <2>3. PICK kind : outbox' = Append(outbox, Response(kind, pending, wseed[q.key].ver))
                    /\ (kind = "needSeed" => wseed[q.key].gen # q.gen)
    BY <1>16, <2>2 DEF HandleAnalyze
  <2>4. outbox \in Seq(Responses) /\ m \in Nat
    BY DEF TypeOK, ThreadType
  <2>5. q.key \in Keys
    <3>1. pending \in 1..Len(requests) /\ requests \in Seq(Requests)
      BY <2>2 DEF TypeOK, ClientType, RequestType
    <3>2. q \in Requests
      BY <3>1
    <3> QED BY <3>2 DEF Requests
  <2> DEFINE r == Response(kind, pending, wseed[q.key].ver)
  <2>6. r.kind = kind /\ r.id = pending /\ r.from = worker
    BY DEF Response
  <2> HIDE DEF r, q
  <2>7. /\ Len(outbox') = m + 1 /\ outbox'[m + 1] = r
        /\ \A j \in 1..m : outbox'[j] = outbox[j]
        /\ \A j \in 1..(m + 1) : j \in 1..m \/ j = m + 1
    BY <2>3, <2>4 DEF r
  <2> HIDE DEF m
  <2>8. \A j \in 1..m : ~AnswersPending(outbox[j])
    BY <2>2 DEF ChannelInv, m
  <2>9. ChannelInv'
    <3>1. \A j \in 1..Len(outbox') : outbox'[j].id \notin queue
      BY <2>6, <2>7 DEF ChannelInv, QueueInv, m
    <3>2. \A j \in 1..Len(outbox') : AnswersPending(outbox'[j]) => j = m + 1
      BY <2>7, <2>8
    <3> QED BY <2>1, <2>2, <3>1, <3>2 DEF ChannelInv, AnswersPending, IsAnalyze
  <2>10. \A k \in Keys : wseed[k].gen = seeded[k]
    <3>1. \A k \in Keys, j \in 1..Len(inbox) : ~IsSeedOf(inbox[j], k)
      BY <2>2 DEF IsSeedOf, IsAnalyze
    <3> QED BY <2>1, <3>1 DEF SeedInv, BeliefHolds
  <2>11. \A k \in Keys : BeliefHolds(k)'
    BY <2>1, <2>2, <2>10 DEF BeliefHolds, IsSeedOf
  <2>12. kind = "needSeed" => IsLive(pending) /\ q.rec = 0 /\ seeded["live"] = 0
    BY <2>2, <2>3, <2>5, <2>10 DEF SeedInv, q
  <2>13. \A j \in 1..Len(outbox') : outbox'[j].kind = "needSeed" /\ outbox'[j].from = worker =>
           /\ requests[outbox'[j].id].key = "live" /\ requests[outbox'[j].id].rec = 0
           /\ outbox'[j].id = pending => seeded["live"] = 0
    BY <2>6, <2>7, <2>12 DEF SeedInv, IsLive, m, q
  <2>14. SeedInv'
    BY <2>1, <2>11, <2>13 DEF SeedInv, IsLive
  <2> QED BY <2>9, <2>14
<1>17. Caller => ChannelInv' /\ SeedInv'
  <2>1. {TRUE} \cup {~Unseeded} \subseteq BOOLEAN
    BY UnseededAssumption
  <2> QED BY <1>2, <1>4, <1>5, <1>6, <1>7, <2>1 DEF Caller
<1>18. Client => ChannelInv' /\ SeedInv'
  BY <1>2, <1>8, <1>9, <1>10, <1>11, <1>12, <1>13 DEF Client
<1> QED BY <1>15, <1>16, <1>17, <1>18 DEF Next, Thread

\* The client never takes the worker to hold a seed it does not hold: whatever
\* is restarted, retried, cancelled or rejected, the worker asks to be reseeded
\* only for a project nobody has seeded.
THEOREM SeedsAreKnown == Spec => []NoReseedNeeded
<1> DEFINE Inv == TypeOK /\ QueueInv /\ ChannelInv /\ SeedInv
<1>1. Init => Inv
  BY InitType, QueueInit, SeedInit
<1>2. Inv /\ [Next]_vars => Inv'
  <2>1. ASSUME Inv, Next PROVE Inv'
    BY <2>1, CallerType, ClientStepType, ThreadStepType, QueueStep, SeedStep DEF Next
  <2>2. ASSUME Inv, UNCHANGED vars PROVE Inv'
    BY <2>2 DEF vars, projectVars, requestVars, clientVars, threadVars, TypeOK, ProjectType,
         RequestType, ClientType, ThreadType, AnalyzeMsgs, SeedMsgs, Responses,
         QueueInv, Owed, Open, ChannelInv, IsAnalyze, AnswersPending, SeedInv, IsLive,
         BeliefHolds, IsSeedOf
  <2> QED BY <2>1, <2>2
<1>3. Inv => NoReseedNeeded
  <2>1. TypeOK => DOMAIN outbox = 1..Len(outbox)
    BY DEF TypeOK, ThreadType
  <2> QED BY <2>1 DEF SeedInv, NoReseedNeeded, IsLive
<1> QED BY <1>1, <1>2, <1>3, PTL DEF Spec

-----------------------------------------------------------------------------
(* Answers are about the texts their callers asked with *)

\* What an answer about the texts v has to be for request i.
Fits(i, v) ==
    IF requests[i].key = "command" THEN v = requests[i].want
    ELSE \A n \in Modules \ {requests[i].module} : v[n] >= requests[i].want[n]

\* The worker compares generations only: a seed it holds must fit whatever was
\* asked with its generation ...
Answers(k, g, v) ==
    \A i \in 1..Len(requests) : requests[i].key = k /\ requests[i].gen = g => Fits(i, v)

\* ... and whatever will be: a later request of Analyze Project takes its snapshot
\* from now on, or has it already;
CommandAhead(g, v) ==
    /\ g <= Fingerprint
    /\ g = Fingerprint => v = Current.ver
    /\ g = snap.gen => v = snap.ver

\* a later live request is made of a record, as it stands now or will stand.
LiveAhead(g, v) ==
    \A m \in Analysed :
        /\ g <= CrossModuleGeneration(Current, m)
        /\ \A r \in 1..Len(recs) : CrossModuleGeneration(recs[r], m) = g =>
             \A n \in Modules \ {m} : v[n] >= recs[r].ver[n]

Ahead(k, g, v) == IF k = "command" THEN CommandAhead(g, v) ELSE LiveAhead(g, v)

GoodSeed(k, g, v) == Answers(k, g, v) /\ Ahead(k, g, v)

\* What the worker has been seeded with, or will be by its inbox.
SeedsGood(k) ==
    /\ GoodSeed(k, 0, NoTexts)
    /\ GoodSeed(k, wseed[k].gen, wseed[k].ver)
    /\ \A j \in 1..Len(inbox) :
         IsSeedOf(inbox[j], k) => GoodSeed(k, inbox[j].gen, inbox[j].ver)

\* What it would be seeded with, were a request dispatched now.
SourceText(i) ==
    IF requests[i].key = "command" THEN requests[i].want ELSE recs[requests[i].rec].ver

SourcesGood(k) ==
    \A i \in 1..Len(requests) :
        requests[i].key = k => GoodSeed(k, requests[i].gen, SourceText(i))

\* What it has answered.
AnswersFit(k) ==
    /\ \A j \in 1..Len(outbox) :
         outbox[j].kind = "result" /\ requests[outbox[j].id].key = k
             => Fits(outbox[j].id, outbox[j].ver)
    /\ \A i \in 1..Len(requests) :
         requests[i].key = k /\ outcome[i] = "resolved" => Fits(i, basis[i])

KeyInv(k) == SeedsGood(k) /\ SourcesGood(k) /\ AnswersFit(k)

CommandInv == KeyInv("command") /\ GoodSeed("command", snap.gen, snap.ver)

\* Each record counts from where its predecessors' generations end.
RecordsInv ==
    /\ \A r \in 1..Len(recs) : recs[r].base >= 1
    /\ \A r, s \in 1..Len(recs) : r < s => recs[r].base + recs[r].counter < recs[s].base
    /\ Current.base + Current.counter <= clock

\* A live request has a generation and texts its record has had.
LiveRequestAt(i) ==
    /\ requests[i].rec # 0 /\ requests[i].module \in Analysed
    /\ recs[requests[i].rec].base <= requests[i].gen
    /\ requests[i].gen <= CrossModuleGeneration(recs[requests[i].rec], requests[i].module)
    /\ \A n \in Modules : requests[i].want[n] <= recs[requests[i].rec].ver[n]

LiveInv ==
    /\ KeyInv("live") /\ RecordsInv
    /\ \A i \in 1..Len(requests) : requests[i].key = "live" => LiveRequestAt(i)

-----------------------------------------------------------------------------
(* What is passed along fits *)

\* Nothing that decides what fits has changed.
LEMMA SameGood ==
    ASSUME UNCHANGED <<requests, recs, clock, snap>>, NEW k
    PROVE  /\ \A g, v : GoodSeed(k, g, v) => GoodSeed(k, g, v)'
           /\ \A i, v : Fits(i, v) => Fits(i, v)'
           /\ SourcesGood(k) => SourcesGood(k)'
<1>1. \A i, v : Fits(i, v)' <=> Fits(i, v)
  BY DEF Fits
<1>2. \A g, v : Answers(k, g, v) => Answers(k, g, v)'
  BY <1>1 DEF Answers
<1>3. Current' = Current /\ Fingerprint' = Fingerprint
  BY DEF Current, Fingerprint
<1>4. \A g, v : CommandAhead(g, v) => CommandAhead(g, v)'
  BY <1>3 DEF CommandAhead
<1>5. \A g, v : LiveAhead(g, v) => LiveAhead(g, v)'
  BY <1>3 DEF LiveAhead
<1>6. \A g, v : GoodSeed(k, g, v) => GoodSeed(k, g, v)'
  BY <1>2, <1>4, <1>5 DEF GoodSeed, Ahead
<1>7. \A i : SourceText(i)' = SourceText(i)
  BY DEF SourceText
<1>8. SourcesGood(k) => SourcesGood(k)'
  BY <1>6, <1>7 DEF SourcesGood
<1> QED BY <1>1, <1>6, <1>8

\* The worker is as it was or starts anew, and requests are as they were or more.
LEMMA Carried ==
    ASSUME TypeOK, NEW k \in Keys, KeyInv(k),
           \A g \in Nat, v \in Texts : GoodSeed(k, g, v) => GoodSeed(k, g, v)',
           SourcesGood(k)',
           inbox' = inbox \/ inbox' = <<>>,
           wseed' = wseed \/ wseed' = [l \in Keys |-> NoSeed],
           \A j \in 1..Len(outbox') : \E l \in 1..Len(outbox) : outbox'[j] = outbox[l],
           Len(requests) <= Len(requests'), Len(requests') \in Nat,
           \A i \in 1..Len(requests) :
               /\ requests'[i] = requests[i]
               /\ outcome'[i] = "resolved" => outcome[i] = "resolved" /\ basis'[i] = basis[i],
           \A i \in 1..Len(requests') : i \notin 1..Len(requests) => outcome'[i] # "resolved"
    PROVE  KeyInv(k)'
<1>1. NoTexts \in Texts /\ 0 \in Nat /\ wseed[k].gen \in Nat /\ wseed[k].ver \in Texts
  BY NoSeedType DEF TypeOK, ThreadType
<1>2. GoodSeed(k, 0, NoTexts)'
  <2>1. NoTexts' = NoTexts
    BY DEF NoTexts
  <2> QED BY <1>1, <2>1 DEF KeyInv, SeedsGood
<1>3. GoodSeed(k, wseed[k].gen, wseed[k].ver)'
  <2>1. CASE wseed' = wseed
    BY <1>1, <2>1 DEF KeyInv, SeedsGood
  <2>2. CASE wseed' = [l \in Keys |-> NoSeed]
    <3>1. wseed'[k].gen = 0 /\ wseed'[k].ver = NoTexts
      BY <2>2 DEF NoSeed
    <3> QED BY <1>2, <3>1 DEF NoTexts
  <2> QED BY <2>1, <2>2
<1>4. \A j \in 1..Len(inbox') :
        IsSeedOf(inbox'[j], k) => GoodSeed(k, inbox[j].gen, inbox[j].ver)'
  <2>1. CASE inbox' = <<>>
    BY <2>1
  <2>2. CASE inbox' = inbox
    <3> SUFFICES ASSUME NEW j \in 1..Len(inbox), IsSeedOf(inbox[j], k)
                 PROVE  GoodSeed(k, inbox[j].gen, inbox[j].ver)'
      BY <2>2
    <3>1. inbox[j].gen \in Nat /\ inbox[j].ver \in Texts
      <4>1. inbox[j] \in AnalyzeMsgs \cup SeedMsgs
        BY DEF TypeOK, ThreadType
      <4> QED BY <4>1 DEF AnalyzeMsgs, SeedMsgs, IsSeedOf
    <3> QED BY <2>2, <3>1 DEF KeyInv, SeedsGood
  <2> QED BY <2>1, <2>2
<1>5. SeedsGood(k)'
  BY <1>2, <1>3, <1>4 DEF SeedsGood, IsSeedOf
<1>6. ASSUME NEW i \in 1..Len(requests), NEW v PROVE Fits(i, v)' <=> Fits(i, v)
  BY DEF Fits
<1>7. ASSUME NEW j \in 1..Len(outbox'), outbox'[j].kind = "result",
             requests'[outbox'[j].id].key = k
      PROVE  Fits(outbox[j].id, outbox[j].ver)'
  <2>0. PICK l \in 1..Len(outbox) : outbox'[j] = outbox[l]
    OBVIOUS
  <2>1. outbox[l].id \in 1..Len(requests)
    <3>1. outbox[l] \in Responses
      BY DEF TypeOK, ThreadType
    <3> QED BY <3>1 DEF Responses
  <2>2. Fits(outbox[l].id, outbox[l].ver)
    BY <1>7, <2>0, <2>1 DEF KeyInv, AnswersFit
  <2> QED BY <2>0, <2>1, <2>2 DEF Fits
<1>8. ASSUME NEW i \in 1..Len(requests'), requests'[i].key = k, outcome'[i] = "resolved"
      PROVE  Fits(i, basis[i])'
  <2>1. i \in 1..Len(requests)
    BY <1>8
  <2>2. Fits(i, basis[i])
    BY <1>8, <2>1 DEF KeyInv, AnswersFit
  <2> QED BY <1>8, <2>1, <2>2 DEF Fits
<1>9. AnswersFit(k)'
  BY <1>7, <1>8 DEF AnswersFit
<1> QED BY <1>5, <1>9 DEF KeyInv

\* A seed that _submit sends has the generation of the request and the texts its
\* provider reads now.
LEMMA SubmitSeeds ==
    ASSUME TypeOK, NEW i \in 1..Len(requests), NEW retry, NEW known, Submit(i, retry, known)
    PROVE  /\ Len(inbox') \in Nat /\ Len(inbox) \in Nat
           /\ \A j \in 1..Len(inbox') :
                \/ j \in 1..Len(inbox) /\ inbox'[j] = inbox[j]
                \/ inbox'[j].kind = "analyze"
                \/ /\ inbox'[j].key = requests[i].key /\ inbox'[j].gen = requests[i].gen
                   /\ requests[i].key = "command" \/ requests[i].rec # 0
                        => inbox'[j].ver = SourceText(i)
<1> DEFINE q == requests[i]
           M == AnalyzeMsgs \cup SeedMsgs
           source == IF q.rec # 0 THEN q.rec ELSE provider
           seed == IF q.key = "command" THEN q.want ELSE recs[source].ver
           posts == known[q.key] # q.gen /\ (q.key = "command" \/ source # 0)
           throws == posts /\ q.fault = "seed"
           fails == throws \/ q.fault = "post"
           sent == posts /\ ~throws
           first == IF sent THEN <<SeedMsg(q.key, q.gen, seed)>> ELSE <<>>
           second == IF fails THEN <<>> ELSE <<AnalyzeMsg(i)>>
<1>1. inbox' = inbox \o (first \o second) /\ inbox \in Seq(M)
  <2>1. inbox' = inbox \o (first \o second)
    BY DEF Submit
  <2>2. inbox \in Seq(M)
    BY DEF TypeOK, ThreadType
  <2> QED BY <2>1, <2>2
<1>2. q.key = "command" \/ q.rec # 0 => seed = SourceText(i)
  BY DEF SourceText
<1> DEFINE msg == SeedMsg(q.key, q.gen, seed)
<1>3. /\ msg.key = q.key /\ msg.gen = q.gen
      /\ q.key = "command" \/ q.rec # 0 => msg.ver = SourceText(i)
  BY <1>2 DEF SeedMsg
<1>4. AnalyzeMsg(i).kind = "analyze"
  BY DEF AnalyzeMsg
<1> HIDE DEF M, msg, sent, fails
<1>5. /\ \/ first = <<>> \/ first = <<msg>>
      /\ \/ second = <<>> \/ second = <<AnalyzeMsg(i)>>
  BY DEF msg
<1> HIDE DEF first, second
<1>6. DEFINE rest == first \o second
<1>7. /\ Len(rest) \in Nat
      /\ \A l \in 1..Len(rest) : rest[l] = msg \/ rest[l] = AnalyzeMsg(i)
  <2>1. CASE first = <<>> /\ second = <<>>
    BY <2>1
  <2>2. CASE first = <<msg>> /\ second = <<>>
    BY <2>2
  <2>3. CASE first = <<>> /\ second = <<AnalyzeMsg(i)>>
    BY <2>3
  <2>4. CASE first = <<msg>> /\ second = <<AnalyzeMsg(i)>>
    BY <2>4
  <2> QED BY <1>5, <2>1, <2>2, <2>3, <2>4
<1>8. rest \in Seq({msg, AnalyzeMsg(i)})
  <2>1. \A S, e : e \in S => <<>> \in Seq(S) /\ <<e>> \in Seq(S)
    OBVIOUS
  <2>2. msg \in {msg, AnalyzeMsg(i)} /\ AnalyzeMsg(i) \in {msg, AnalyzeMsg(i)}
    OBVIOUS
  <2>3. first \in Seq({msg, AnalyzeMsg(i)}) /\ second \in Seq({msg, AnalyzeMsg(i)})
    BY <1>5, <2>1, <2>2, Zenon
  <2> QED BY <2>3, ConcatProperties
<1> HIDE DEF rest
<1>9. /\ Len(inbox) \in Nat /\ Len(inbox') = Len(inbox) + Len(rest)
      /\ \A j \in 1..Len(inbox') :
           inbox'[j] = IF j <= Len(inbox) THEN inbox[j] ELSE rest[j - Len(inbox)]
  BY <1>1, <1>8, ConcatProperties DEF rest
<1>10. ASSUME NEW j \in 1..Len(inbox')
       PROVE  \/ j \in 1..Len(inbox) /\ inbox'[j] = inbox[j]
              \/ inbox'[j] = msg \/ inbox'[j] = AnalyzeMsg(i)
  <2>1. CASE j <= Len(inbox)
    BY <1>9, <2>1
  <2>2. CASE ~(j <= Len(inbox))
    <3>1. j - Len(inbox) \in 1..Len(rest) /\ inbox'[j] = rest[j - Len(inbox)]
      BY <1>7, <1>9, <2>2
    <3> QED BY <1>7, <3>1
  <2> QED BY <2>1, <2>2
<1>11. Len(inbox') \in Nat
  BY <1>7, <1>9
<1> QED BY <1>3, <1>4, <1>9, <1>10, <1>11

\* One iteration of the dispatch loop, or a retry.
LEMMA SubmitFits ==
    ASSUME TypeOK, NEW k \in Keys, KeyInv(k),
           NEW i \in 1..Len(requests), NEW retry, NEW known, Submit(i, retry, known),
           requests[i].key = k => k = "command" \/ requests[i].rec # 0,
           UNCHANGED <<requests, recs, clock, snap, basis, wseed>>,
           \A j \in 1..Len(outbox') : \E l \in 1..Len(outbox) : outbox'[j] = outbox[l]
    PROVE  KeyInv(k)'
<1>1. /\ \A g, v : GoodSeed(k, g, v) => GoodSeed(k, g, v)'
      /\ \A l, v : Fits(l, v) => Fits(l, v)'
      /\ SourcesGood(k)'
  BY SameGood DEF KeyInv
<1>2. ASSUME NEW j \in 1..Len(inbox'), IsSeedOf(inbox'[j], k)
      PROVE  GoodSeed(k, inbox[j].gen, inbox[j].ver)'
  <2>1. CASE j \in 1..Len(inbox) /\ inbox'[j] = inbox[j]
    <3>1. GoodSeed(k, inbox[j].gen, inbox[j].ver)
      BY <1>2, <2>1 DEF KeyInv, SeedsGood
    <3> QED BY <1>1, <2>1, <3>1
  <2>2. CASE /\ inbox'[j].key = requests[i].key /\ inbox'[j].gen = requests[i].gen
             /\ requests[i].key = "command" \/ requests[i].rec # 0
                  => inbox'[j].ver = SourceText(i)
    <3>1. requests[i].key = k /\ inbox'[j].ver = SourceText(i)
      BY <1>2, <2>2 DEF IsSeedOf
    <3>2. GoodSeed(k, requests[i].gen, SourceText(i))
      BY <3>1 DEF KeyInv, SourcesGood
    <3>3. GoodSeed(k, inbox'[j].gen, inbox'[j].ver)
      BY <2>2, <3>1, <3>2
    <3> QED BY <1>1, <3>3
  <2>3. inbox'[j].kind # "analyze"
    BY <1>2 DEF IsSeedOf
  <2> QED BY <2>1, <2>2, <2>3, SubmitSeeds
<1>3. SeedsGood(k)'
  <2>1. GoodSeed(k, 0, NoTexts)' /\ GoodSeed(k, wseed[k].gen, wseed[k].ver)'
    <3>1. GoodSeed(k, 0, NoTexts) /\ GoodSeed(k, wseed[k].gen, wseed[k].ver)
      BY DEF KeyInv, SeedsGood
    <3> QED BY <1>1, <3>1 DEF NoTexts
  <2> QED BY <1>2, <2>1 DEF SeedsGood, IsSeedOf
<1>4. \A j \in 1..Len(outbox') : outbox'[j].kind = "result" /\ requests'[outbox'[j].id].key = k
        => Fits(outbox[j].id, outbox[j].ver)'
  <2> SUFFICES ASSUME NEW j \in 1..Len(outbox'), outbox'[j].kind = "result",
                      requests[outbox'[j].id].key = k
               PROVE  Fits(outbox[j].id, outbox[j].ver)'
    OBVIOUS
  <2>1. PICK l \in 1..Len(outbox) : outbox'[j] = outbox[l]
    OBVIOUS
  <2>2. Fits(outbox'[j].id, outbox'[j].ver)
    BY <2>1 DEF KeyInv, AnswersFit
  <2> QED BY <1>1, <2>2
<1>5. \A l \in 1..Len(requests') : requests'[l].key = k /\ outcome'[l] = "resolved"
        => Fits(l, basis[l])'
  <2> SUFFICES ASSUME NEW l \in 1..Len(requests), requests[l].key = k, outcome'[l] = "resolved"
               PROVE  Fits(l, basis[l])'
    OBVIOUS
  <2>1. outcome[l] = "resolved"
    <3>1. l \in DOMAIN outcome
      BY DEF TypeOK, RequestType
    <3>2. outcome' = outcome \/ outcome' = Settle({i}, "rejected")
      BY DEF Submit
    <3> QED BY <3>1, <3>2 DEF Settle
  <2>2. Fits(l, basis[l])
    BY <2>1 DEF KeyInv, AnswersFit
  <2> QED BY <1>1, <2>2
<1> QED BY <1>1, <1>3, <1>4, <1>5 DEF KeyInv, AnswersFit

\* A response is taken: the dispatched request is settled, by a result with it.
LEMMA FinishFits ==
    ASSUME TypeOK, NEW k \in Keys, KeyInv(k), outbox # <<>>, ~Ignored(Head(outbox)),
           outbox' = Tail(outbox), NEW how \in Settled, NEW texts, Finish(how, texts),
           how = "resolved" => Head(outbox).kind = "result" /\ texts = Head(outbox).ver
    PROVE  KeyInv(k)'
<1>1. UNCHANGED <<requests, recs, clock, snap, inbox, wseed>>
  BY DEF Finish, projectVars
<1>2. /\ \A g, v : GoodSeed(k, g, v) => GoodSeed(k, g, v)'
      /\ \A l, v : Fits(l, v) => Fits(l, v)'
      /\ SourcesGood(k)'
  BY <1>1, SameGood DEF KeyInv
<1>3. SeedsGood(k)'
  BY <1>1, <1>2 DEF KeyInv, SeedsGood, IsSeedOf, NoTexts
<1>4. /\ Head(outbox) = outbox[1] /\ 1 \in 1..Len(outbox)
      /\ \A j \in 1..Len(outbox') : j + 1 \in 1..Len(outbox) /\ outbox'[j] = outbox[j + 1]
  BY TailElements
<1>5. pending \in 1..Len(requests) /\ outbox[1].id = pending
  <2>1. outbox[1] \in Responses
    BY <1>4 DEF TypeOK, ThreadType
  <2> QED BY <1>4, <2>1 DEF Ignored, Responses
<1>6. \A j \in 1..Len(outbox') : outbox'[j].kind = "result" /\ requests'[outbox'[j].id].key = k
        => Fits(outbox[j].id, outbox[j].ver)'
  <2> SUFFICES ASSUME NEW j \in 1..Len(outbox'), outbox'[j].kind = "result",
                      requests[outbox'[j].id].key = k
               PROVE  Fits(outbox[j].id, outbox[j].ver)'
    BY <1>1
  <2>1. Fits(outbox'[j].id, outbox'[j].ver)
    BY <1>4 DEF KeyInv, AnswersFit
  <2> QED BY <1>2, <2>1
<1>7. \A l \in 1..Len(requests') : requests'[l].key = k /\ outcome'[l] = "resolved"
        => Fits(l, basis[l])'
  <2> SUFFICES ASSUME NEW l \in 1..Len(requests), requests[l].key = k, outcome'[l] = "resolved"
               PROVE  Fits(l, basis[l])'
    BY <1>1
  <2>1. l \in DOMAIN outcome /\ l \in DOMAIN basis
    BY DEF TypeOK, RequestType
  <2>2. outcome'[l] = (IF l = pending THEN how ELSE outcome[l])
        /\ basis'[l] = (IF l = pending THEN texts ELSE basis[l])
    BY <2>1 DEF Finish, Settle
  <2>3. Fits(l, basis'[l])
    <3>1. CASE l = pending
      <4>1. outbox[1].kind = "result" /\ outbox[1].id = l /\ basis'[l] = outbox[1].ver
        BY <1>4, <1>5, <2>2, <3>1
      <4>2. Fits(outbox[1].id, outbox[1].ver)
        BY <1>4, <4>1 DEF KeyInv, AnswersFit
      <4> QED BY <4>1, <4>2
    <3>2. CASE l # pending
      BY <2>2, <3>2 DEF KeyInv, AnswersFit
    <3> QED BY <3>1, <3>2
  <2> QED BY <1>2, <2>3
<1> QED BY <1>2, <1>3, <1>6, <1>7 DEF KeyInv, AnswersFit

\* The worker takes a message of its inbox.
LEMMA ThreadFits ==
    ASSUME TypeOK, NEW k \in Keys, KeyInv(k), Thread
    PROVE  KeyInv(k)'
<1> DEFINE M == AnalyzeMsgs \cup SeedMsgs
<1>1. /\ inbox # <<>> /\ inbox' = Tail(inbox)
      /\ UNCHANGED <<requests, recs, clock, snap, outcome, basis>>
  BY DEF Thread, HandleSeed, HandleAnalyze, projectVars, requestVars
<1>2. /\ Head(inbox) = inbox[1] /\ 1 \in 1..Len(inbox) /\ inbox[1] \in M
      /\ \A j \in 1..Len(inbox') : j + 1 \in 1..Len(inbox) /\ inbox'[j] = inbox[j + 1]
  <2>1. inbox \in Seq(M)
    BY DEF TypeOK, ThreadType
  <2> HIDE DEF M
  <2>2. /\ Len(inbox) \in Nat \ {0} /\ Len(inbox') = Len(inbox) - 1
        /\ \A j \in 1..Len(inbox') : inbox'[j] = inbox[j + 1]
        /\ Head(inbox) = inbox[1]
    BY <1>1, <2>1
  <2>3. inbox[1] \in M /\ 1 \in 1..Len(inbox)
    BY <2>1, <2>2
  <2> QED BY <2>2, <2>3
<1>3. /\ \A g, v : GoodSeed(k, g, v) => GoodSeed(k, g, v)'
      /\ \A i, v : Fits(i, v) => Fits(i, v)'
      /\ SourcesGood(k)'
  BY <1>1, SameGood DEF KeyInv
<1>4. \A j \in 1..Len(inbox') : IsSeedOf(inbox'[j], k) => GoodSeed(k, inbox[j].gen, inbox[j].ver)'
  <2> SUFFICES ASSUME NEW j \in 1..Len(inbox'), IsSeedOf(inbox'[j], k)
               PROVE  GoodSeed(k, inbox[j].gen, inbox[j].ver)'
    OBVIOUS
  <2>1. GoodSeed(k, inbox'[j].gen, inbox'[j].ver)
    BY <1>2 DEF KeyInv, SeedsGood
  <2> QED BY <1>3, <2>1
<1>5. \A i \in 1..Len(requests') : requests'[i].key = k /\ outcome'[i] = "resolved"
        => Fits(i, basis[i])'
  BY <1>1, <1>3 DEF KeyInv, AnswersFit
<1>6. GoodSeed(k, 0, NoTexts)'
  <2>1. GoodSeed(k, 0, NoTexts)
    BY DEF KeyInv, SeedsGood
  <2> QED BY <1>3, <2>1 DEF NoTexts
<1>7. CASE HandleSeed
  <2>1. /\ inbox[1].kind = "seed" /\ outbox' = outbox
        /\ wseed' = [wseed EXCEPT ![inbox[1].key] =
                       [gen |-> inbox[1].gen, ver |-> inbox[1].ver]]
    BY <1>2, <1>7 DEF HandleSeed
  <2>2. GoodSeed(k, wseed[k].gen, wseed[k].ver)'
    <3>1. CASE inbox[1].key = k
      <4>1. GoodSeed(k, inbox[1].gen, inbox[1].ver)
        BY <1>2, <2>1, <3>1 DEF KeyInv, SeedsGood, IsSeedOf
      <4>2. wseed'[k].gen = inbox[1].gen /\ wseed'[k].ver = inbox[1].ver
        BY <2>1, <3>1 DEF TypeOK, ThreadType
      <4>3. GoodSeed(k, wseed'[k].gen, wseed'[k].ver)
        BY <4>1, <4>2
      <4> QED BY <1>3, <4>3
    <3>2. CASE inbox[1].key # k
      <4>1. wseed'[k] = wseed[k]
        BY <2>1, <3>2 DEF TypeOK, ThreadType
      <4>2. GoodSeed(k, wseed'[k].gen, wseed'[k].ver)
        BY <4>1 DEF KeyInv, SeedsGood
      <4> QED BY <1>3, <4>2
    <3> QED BY <3>1, <3>2
  <2>3. SeedsGood(k)'
    BY <1>4, <1>6, <2>2 DEF SeedsGood, IsSeedOf
  <2>4. AnswersFit(k)'
    BY <1>1, <1>3, <1>5, <2>1 DEF KeyInv, AnswersFit
  <2> QED BY <1>3, <2>3, <2>4 DEF KeyInv
<1>8. CASE HandleAnalyze
  <2>1. PICK i : i = inbox[1].id
    OBVIOUS
  <2>2. i \in 1..Len(requests) /\ wseed' = wseed
    BY <1>2, <1>8, <2>1 DEF HandleAnalyze, AnalyzeMsgs, SeedMsgs
  <2>3. requests[i].key \in Keys
    <3>1. requests[i] \in Requests
      BY <2>2 DEF TypeOK, RequestType
    <3> QED BY <3>1 DEF Requests
  <2>4. PICK kind : /\ outbox' = Append(outbox, Response(kind, i, wseed[requests[i].key].ver))
                    /\ kind = "result" => wseed[requests[i].key].gen = requests[i].gen
    BY <1>2, <1>8, <2>1 DEF HandleAnalyze
  <2>5. PICK r : r = Response(kind, i, wseed[requests[i].key].ver)
    OBVIOUS
  <2>6. r.kind = kind /\ r.id = i /\ r.ver = wseed[requests[i].key].ver
    BY <2>5 DEF Response
  <2>7. outbox \in Seq(Responses)
    BY DEF TypeOK, ThreadType
  <2>8. /\ Len(outbox) \in Nat /\ Len(outbox') = Len(outbox) + 1
        /\ outbox'[Len(outbox) + 1] = r
        /\ \A j \in 1..Len(outbox) : outbox'[j] = outbox[j]
    BY <2>4, <2>5, <2>7
  <2>9. requests[i].key = k /\ kind = "result" => Fits(i, r.ver)
    BY <2>2, <2>4, <2>6 DEF KeyInv, SeedsGood, GoodSeed, Answers
  <2>10. \A j \in 1..Len(outbox') : outbox'[j].kind = "result" /\ requests'[outbox'[j].id].key = k
           => Fits(outbox[j].id, outbox[j].ver)'
    <3> SUFFICES ASSUME NEW j \in 1..Len(outbox'), outbox'[j].kind = "result",
                        requests[outbox'[j].id].key = k
                 PROVE  Fits(outbox[j].id, outbox[j].ver)'
      BY <1>1
    <3>1. Fits(outbox'[j].id, outbox'[j].ver)
      <4>1. CASE j \in 1..Len(outbox)
        BY <2>8, <4>1 DEF KeyInv, AnswersFit
      <4>2. CASE j = Len(outbox) + 1
        BY <2>6, <2>8, <2>9, <4>2
      <4> QED BY <2>8, <4>1, <4>2
    <3> QED BY <1>3, <3>1
  <2>11. GoodSeed(k, wseed[k].gen, wseed[k].ver)'
    BY <1>3, <2>2 DEF KeyInv, SeedsGood
  <2>12. SeedsGood(k)'
    BY <1>4, <1>6, <2>11 DEF SeedsGood, IsSeedOf
  <2> QED BY <1>3, <1>5, <2>10, <2>12 DEF KeyInv, AnswersFit
<1> QED BY <1>7, <1>8 DEF Thread

-----------------------------------------------------------------------------
(* What fits goes on fitting while the project moves *)

\* A record's generations, from its base to its last; a record that was built later
\* has later ones.
LEMMA Generations ==
    ASSUME TypeOK, RecordsInv, NEW m \in Modules, NEW r \in 1..Len(recs)
    PROVE  /\ recs[r] \in Record /\ CrossModuleGeneration(recs[r], m) \in Nat
           /\ recs[r].base \in Nat /\ recs[r].counter \in Nat /\ recs[r].base >= 1
           /\ recs[r].base <= CrossModuleGeneration(recs[r], m)
           /\ CrossModuleGeneration(recs[r], m) <= recs[r].base + recs[r].counter
           /\ recs[r].ver \in Texts
<1>1. recs[r] \in Record
  BY DEF TypeOK, ProjectType
<1>2. /\ recs[r].base \in Nat /\ recs[r].counter \in Nat /\ recs[r].own[m] \in Nat
      /\ recs[r].own[m] <= recs[r].counter /\ recs[r].ver \in Texts
  BY <1>1 DEF Record, Texts
<1>3. \A b, c, o \in Nat : o <= c => b + c - o \in Nat /\ b <= b + c - o /\ b + c - o <= b + c
  OBVIOUS
<1>4. recs[r].base >= 1
  BY DEF RecordsInv
<1> QED BY <1>1, <1>2, <1>3, <1>4, Zenon DEF CrossModuleGeneration

LEMMA Latest ==
    ASSUME TypeOK, RecordsInv, NEW m \in Modules, NEW r \in 1..Len(recs)
    PROVE  CrossModuleGeneration(recs[r], m) <= CrossModuleGeneration(Current, m)
<1>1. Len(recs) \in 1..Len(recs)
  BY DEF TypeOK, ProjectType
<1>2. CASE r = Len(recs)
  BY <1>2, Generations DEF Current
<1>3. CASE r # Len(recs)
  <2>1. r < Len(recs)
    BY <1>1, <1>3
  <2>2. recs[r].base + recs[r].counter < recs[Len(recs)].base
    BY <1>1, <2>1 DEF RecordsInv
  <2>3. /\ CrossModuleGeneration(recs[r], m) <= recs[r].base + recs[r].counter
        /\ CrossModuleGeneration(recs[r], m) \in Nat /\ recs[r].base \in Nat /\ recs[r].counter \in Nat
    BY Generations
  <2>4. /\ recs[Len(recs)].base <= CrossModuleGeneration(recs[Len(recs)], m)
        /\ recs[Len(recs)].base \in Nat /\ CrossModuleGeneration(recs[Len(recs)], m) \in Nat
    BY <1>1, Generations
  <2> QED BY <2>2, <2>3, <2>4 DEF Current
<1> QED BY <1>2, <1>3

\* A generation belongs to one record only.
LEMMA OneRecord ==
    ASSUME TypeOK, RecordsInv, NEW g \in Nat, NEW r \in 1..Len(recs), NEW s \in 1..Len(recs),
           recs[r].base <= g, g <= recs[r].base + recs[r].counter,
           recs[s].base <= g, g <= recs[s].base + recs[s].counter
    PROVE  r = s
<1>1. Modules # {}
  BY ModulesAssumption
<1>2. /\ recs[r].base \in Nat /\ recs[r].counter \in Nat
      /\ recs[s].base \in Nat /\ recs[s].counter \in Nat
  BY <1>1, Generations
<1>3. \A i, j \in 1..Len(recs) : i < j => recs[i].base + recs[i].counter < recs[j].base
  BY DEF RecordsInv
<1>5. ~(r < s)
  <2>1. r < s => recs[r].base + recs[r].counter < recs[s].base
    BY <1>3
  <2> QED BY <1>2, <2>1
<1>6. ~(s < r)
  <2>1. s < r => recs[s].base + recs[s].counter < recs[r].base
    BY <1>3
  <2> QED BY <1>2, <2>1
<1>4. r \in Nat /\ s \in Nat
  OBVIOUS
<1> QED BY <1>4, <1>5, <1>6

\* What a change does to the records: the generation of every other module moves on.
LEMMA Changed ==
    ASSUME TypeOK, RecordsInv, NEW m \in Modules, ChangeModule(m)
    PROVE  /\ Len(recs') = Len(recs) /\ Len(recs) \in 1..Len(recs)
           /\ \A r \in 1..Len(recs) : r # Len(recs) => recs'[r] = recs[r]
           /\ \A r \in 1..Len(recs) : recs'[r].base = recs[r].base
           /\ recs'[Len(recs)].counter = recs[Len(recs)].counter + 1
           /\ \A n \in Modules : CrossModuleGeneration(recs'[Len(recs)], n)
                = CrossModuleGeneration(recs[Len(recs)], n) + (IF n = m THEN 0 ELSE 1)
           /\ \A n \in Modules : recs'[Len(recs)].ver[n]
                = IF n = m THEN recs[Len(recs)].ver[n] + 1 ELSE recs[Len(recs)].ver[n]
           /\ clock' = clock + 1 /\ UNCHANGED <<requests, snap>>
<1>1. recs \in Seq(Record) /\ Len(recs) \in Nat \ {0}
  BY DEF TypeOK, ProjectType
<1>2. PICK c \in 1..Len(recs) : c = Len(recs)
  BY <1>1
<1>3. /\ recs' = [recs EXCEPT ![c] = ApplyModule(recs[c], m, recs[c].ver[m] + 1)]
      /\ clock' = clock + 1 /\ UNCHANGED <<requests, snap>>
  BY <1>2 DEF ChangeModule, requestVars
<1>4. recs[c] \in Record
  BY <1>1
<1>5. PICK rec : rec = ApplyModule(recs[c], m, recs[c].ver[m] + 1)
  OBVIOUS
<1>6. /\ rec.base = recs[c].base /\ rec.counter = recs[c].counter + 1
      /\ rec.own = [recs[c].own EXCEPT ![m] = recs[c].own[m] + 1]
      /\ rec.ver = [recs[c].ver EXCEPT ![m] = recs[c].ver[m] + 1]
  BY <1>5 DEF ApplyModule
<1>7. /\ recs[c].own \in [Modules -> Nat] /\ recs[c].ver \in [Modules -> Nat]
      /\ recs[c].base \in Nat /\ recs[c].counter \in Nat
  BY <1>4 DEF Record
<1>8. ASSUME NEW n \in Modules
      PROVE  /\ rec.ver[n] = IF n = m THEN recs[c].ver[n] + 1 ELSE recs[c].ver[n]
             /\ CrossModuleGeneration(rec, n)
                  = CrossModuleGeneration(recs[c], n) + (IF n = m THEN 0 ELSE 1)
  <2>1. rec.own[n] = IF n = m THEN recs[c].own[n] + 1 ELSE recs[c].own[n]
    BY <1>6, <1>7
  <2>2. rec.ver[n] = IF n = m THEN recs[c].ver[n] + 1 ELSE recs[c].ver[n]
    BY <1>6, <1>7
  <2>3. recs[c].own[n] \in Nat
    BY <1>7
  <2>4. CrossModuleGeneration(rec, n) = recs[c].base + (recs[c].counter + 1) - rec.own[n]
    BY <1>6 DEF CrossModuleGeneration
  <2>5. CrossModuleGeneration(recs[c], n) = recs[c].base + recs[c].counter - recs[c].own[n]
    BY DEF CrossModuleGeneration
  <2>6. CASE n = m
    <3>1. \A b, d, o \in Nat : b + (d + 1) - (o + 1) = (b + d - o) + 0
      OBVIOUS
    <3>2. CrossModuleGeneration(rec, n)
            = recs[c].base + (recs[c].counter + 1) - (recs[c].own[n] + 1)
      BY <2>1, <2>4, <2>6, Zenon
    <3>3. recs[c].base + (recs[c].counter + 1) - (recs[c].own[n] + 1)
            = (recs[c].base + recs[c].counter - recs[c].own[n]) + 0
      <4>1. recs[c].base \in Nat /\ recs[c].counter \in Nat
        BY <1>7
      <4> QED BY <2>3, <3>1, <4>1, Zenon
    <3>4. CrossModuleGeneration(rec, n) = CrossModuleGeneration(recs[c], n) + 0
      BY <2>5, <3>2, <3>3, Zenon
    <3> QED BY <2>2, <2>6, <3>4, Zenon
  <2>7. CASE n # m
    BY <1>7, <2>1, <2>2, <2>3, <2>4, <2>5, <2>7
  <2> QED BY <2>6, <2>7
<1>9. /\ Len(recs') = Len(recs) /\ recs'[c] = rec
      /\ \A r \in 1..Len(recs) : r # c => recs'[r] = recs[r]
  BY <1>1, <1>3, <1>5
<1>10. \A r \in 1..Len(recs) : recs'[r].base = recs[r].base
  BY <1>6, <1>9
<1> QED BY <1>2, <1>3, <1>6, <1>8, <1>9, <1>10

LEMMA ChangedRecords ==
    ASSUME TypeOK, RecordsInv, NEW m \in Modules, ChangeModule(m)
    PROVE  RecordsInv'
<1>1. PICK c \in 1..Len(recs) : c = Len(recs)
  BY Changed
<1>2. /\ Len(recs') = Len(recs) /\ recs'[c].counter = recs[c].counter + 1
      /\ \A r \in 1..Len(recs) : r # c => recs'[r] = recs[r]
      /\ \A r \in 1..Len(recs) : recs'[r].base = recs[r].base
      /\ clock' = clock + 1
  BY <1>1, Changed
<1>3. /\ recs[c].base \in Nat /\ recs[c].counter \in Nat /\ clock \in Nat /\ Len(recs) \in Nat
  <2>1. clock \in Nat /\ Len(recs) \in Nat
    BY DEF TypeOK, ProjectType
  <2> QED BY <2>1, Generations
<1>4. \A r \in 1..Len(recs') : recs'[r].base >= 1
  BY <1>2 DEF RecordsInv
<1>5. ASSUME NEW r \in 1..Len(recs'), NEW s \in 1..Len(recs'), r < s
      PROVE  recs'[r].base + recs'[r].counter < recs'[s].base
  <2>1. r # c
    BY <1>1, <1>2, <1>3, <1>5
  <2>2. recs[r].base + recs[r].counter < recs[s].base
    BY <1>2, <1>5 DEF RecordsInv
  <2> QED BY <1>2, <2>1, <2>2
<1>6. Current'.base + Current'.counter <= clock'
  <2>1. recs[c].base + recs[c].counter <= clock
    BY <1>1 DEF RecordsInv, Current
  <2>2. Current' = recs'[c]
    BY <1>1, <1>2 DEF Current
  <2> QED BY <1>2, <1>3, <2>1, <2>2
<1> QED BY <1>4, <1>5, <1>6 DEF RecordsInv

\* A seed that fits before the change does so afterwards: if a later request can
\* have its generation still, only the module analysed itself has changed.
LEMMA ChangedGood ==
    ASSUME TypeOK, RecordsInv, NEW m \in Modules, ChangeModule(m), NEW k \in Keys,
           NEW g \in Nat, NEW v, GoodSeed(k, g, v)
    PROVE  GoodSeed(k, g, v)'
<1>1. PICK c \in 1..Len(recs) : c = Len(recs)
  BY Changed
<1>2. /\ Len(recs') = Len(recs) /\ UNCHANGED <<requests, snap>> /\ clock' = clock + 1
      /\ \A r \in 1..Len(recs) : r # c => recs'[r] = recs[r]
      /\ \A n \in Modules : CrossModuleGeneration(recs'[c], n)
           = CrossModuleGeneration(recs[c], n) + (IF n = m THEN 0 ELSE 1)
      /\ \A n \in Modules : recs'[c].ver[n] = IF n = m THEN recs[c].ver[n] + 1 ELSE recs[c].ver[n]
  BY <1>1, Changed
<1>3. Answers(k, g, v)'
  BY <1>2 DEF GoodSeed, Answers, Fits
<1>4. CASE k = "command"
  <2>1. g <= Fingerprint /\ (g = snap.gen => v = snap.ver)
    BY <1>4 DEF GoodSeed, Ahead, CommandAhead
  <2>2. Fingerprint \in Int /\ Fingerprint' = Fingerprint + 1
    BY <1>2 DEF Fingerprint, TypeOK, ProjectType
  <2>3. CommandAhead(g, v)'
    BY <1>2, <2>1, <2>2 DEF CommandAhead
  <2> QED BY <1>3, <1>4, <2>3 DEF GoodSeed, Ahead
<1>5. CASE k # "command"
  <2>1. LiveAhead(g, v)
    BY <1>5 DEF GoodSeed, Ahead
  <2>2. ASSUME NEW n \in Analysed
        PROVE  /\ g <= CrossModuleGeneration(recs'[c], n)
               /\ \A r \in 1..Len(recs) : CrossModuleGeneration(recs'[r], n) = g =>
                    \A l \in Modules \ {n} : v[l] >= recs'[r].ver[l]
    <3>1. n \in Modules
      BY AnalysedAssumption
    <3>2. g <= CrossModuleGeneration(recs[c], n) /\ CrossModuleGeneration(recs[c], n) \in Nat
      BY <1>1, <2>1, <3>1, Generations DEF LiveAhead, Current
    <3>3. g <= CrossModuleGeneration(recs'[c], n)
      BY <1>2, <3>1, <3>2
    <3>4. ASSUME NEW r \in 1..Len(recs), CrossModuleGeneration(recs'[r], n) = g,
                 NEW l \in Modules \ {n}
          PROVE  v[l] >= recs'[r].ver[l]
      <4>1. CASE r = c
        <5>1. n = m
          BY <1>2, <3>1, <3>2, <3>4, <4>1
        <5>2. CrossModuleGeneration(recs[c], n) = g
          BY <1>2, <3>1, <3>2, <3>4, <4>1, <5>1
        <5>3. v[l] >= recs[c].ver[l]
          BY <2>1, <5>2 DEF LiveAhead
        <5> QED BY <1>2, <3>4, <4>1, <5>1, <5>3
      <4>2. CASE r # c
        BY <1>2, <2>1, <3>4, <4>2 DEF LiveAhead
      <4> QED BY <4>1, <4>2
    <3> QED BY <3>3, <3>4
  <2>3. LiveAhead(g, v)'
    <3>1. Current' = recs'[c]
      BY <1>1, <1>2 DEF Current
    <3> QED BY <1>2, <2>2, <3>1 DEF LiveAhead
  <2> QED BY <1>3, <1>5, <2>3 DEF GoodSeed, Ahead
<1> QED BY <1>4, <1>5

\* A record built anew starts behind every generation there has been, with the texts
\* of the one before.
LEMMA Rebuilt ==
    ASSUME TypeOK, RecordsInv, RebuildRecord
    PROVE  /\ RecordsInv'
           /\ Len(recs') = Len(recs) + 1 /\ \A r \in 1..Len(recs) : recs'[r] = recs[r]
           /\ \A k \in Keys, g \in Nat : \A v : GoodSeed(k, g, v) => GoodSeed(k, g, v)'
<1>1. /\ recs \in Seq(Record) /\ Len(recs) \in Nat \ {0} /\ clock \in Nat
      /\ recs[Len(recs)] \in Record
  BY DEF TypeOK, ProjectType
<1>2. PICK c \in 1..Len(recs) : c = Len(recs)
  BY <1>1
<1>3. PICK rec : rec = NewRecord(clock, recs[c].ver)
  OBVIOUS
<1>4. /\ rec.base = clock + 1 /\ rec.counter = 0 /\ rec.ver = recs[c].ver
      /\ \A m \in Modules : rec.own[m] = 0
  BY <1>3 DEF NewRecord
<1>5. recs' = Append(recs, rec) /\ clock' = clock + 1 /\ UNCHANGED <<requests, snap>>
  BY <1>2, <1>3 DEF RebuildRecord, Current, requestVars
<1>6. /\ Len(recs') = c + 1 /\ recs'[c + 1] = rec
      /\ \A r \in 1..c : recs'[r] = recs[r]
      /\ \A r \in 1..(c + 1) : r \in 1..c \/ r = c + 1
  BY <1>1, <1>2, <1>5
<1>7. recs[c].base + recs[c].counter <= clock
  BY <1>2 DEF RecordsInv, Current
<1>8. ASSUME NEW r \in 1..c
      PROVE  /\ recs[r].base + recs[r].counter <= clock
             /\ recs[r].base \in Nat /\ recs[r].counter \in Nat
  <2>1. /\ recs[r].base \in Nat /\ recs[r].counter \in Nat
        /\ recs[c].base \in Nat /\ recs[c].counter \in Nat
    BY <1>2, ModulesAssumption, Generations
  <2>2. CASE r = c
    BY <1>7, <2>1, <2>2
  <2>3. CASE r # c
    <3>1. r < c
      BY <2>3
    <3>2. recs[r].base + recs[r].counter < recs[c].base
      BY <1>2, <3>1 DEF RecordsInv
    <3> QED BY <1>1, <1>7, <2>1, <3>2
  <2> QED BY <2>2, <2>3
<1>9. RecordsInv'
  <2>1. \A r \in 1..Len(recs') : recs'[r].base >= 1
    <3>1. rec.base >= 1
      BY <1>1, <1>4
    <3>2. \A r \in 1..c : recs[r].base >= 1
      BY <1>2 DEF RecordsInv
    <3> QED BY <1>6, <3>1, <3>2
  <2>2. ASSUME NEW r \in 1..Len(recs'), NEW s \in 1..Len(recs'), r < s
        PROVE  recs'[r].base + recs'[r].counter < recs'[s].base
    <3>1. r \in 1..c
      BY <1>6, <2>2
    <3>2. CASE s \in 1..c
      BY <1>2, <1>6, <2>2, <3>1, <3>2 DEF RecordsInv
    <3>3. CASE s = c + 1
      BY <1>1, <1>4, <1>6, <1>8, <3>1, <3>3
    <3> QED BY <1>6, <3>2, <3>3
  <2>3. Current'.base + Current'.counter <= clock'
    <3>1. Current' = rec
      BY <1>6 DEF Current
    <3> QED BY <1>1, <1>4, <1>5, <3>1
  <2> QED BY <2>1, <2>2, <2>3 DEF RecordsInv
<1>10. ASSUME NEW k \in Keys, NEW g \in Nat, NEW v, GoodSeed(k, g, v)
       PROVE  GoodSeed(k, g, v)'
  <2>1. Answers(k, g, v)'
    BY <1>5, <1>10 DEF GoodSeed, Answers, Fits
  <2>2. CASE k = "command"
    <3>1. CommandAhead(g, v)
      BY <1>10, <2>2 DEF GoodSeed, Ahead
    <3>2. Fingerprint' = Fingerprint
      BY <1>1, <1>2, <1>5, <1>6 DEF Fingerprint
    <3>3. Current'.ver = Current.ver
      BY <1>2, <1>4, <1>6 DEF Current
    <3>4. CommandAhead(g, v)'
      BY <1>5, <3>1, <3>2, <3>3 DEF CommandAhead
    <3> QED BY <2>1, <2>2, <3>4 DEF GoodSeed, Ahead
  <2>3. CASE k # "command"
    <3>1. LiveAhead(g, v)
      BY <1>10, <2>3 DEF GoodSeed, Ahead
    <3>2. ASSUME NEW m \in Analysed
          PROVE  /\ g < CrossModuleGeneration(rec, m)
                 /\ g <= CrossModuleGeneration(rec, m)
      <4>1. m \in Modules
        BY AnalysedAssumption
      <4>2. g <= CrossModuleGeneration(recs[c], m)
        BY <1>2, <3>1 DEF LiveAhead, Current
      <4>3. /\ CrossModuleGeneration(recs[c], m) <= recs[c].base + recs[c].counter
            /\ CrossModuleGeneration(recs[c], m) \in Nat
            /\ recs[c].base \in Nat /\ recs[c].counter \in Nat
        BY <4>1, Generations
      <4>4. CrossModuleGeneration(rec, m) = clock + 1
        BY <1>1, <1>4, <4>1 DEF CrossModuleGeneration
      <4> QED BY <1>1, <1>7, <4>2, <4>3, <4>4
    <3>3. ASSUME NEW m \in Analysed, NEW r \in 1..Len(recs'),
                 CrossModuleGeneration(recs'[r], m) = g
          PROVE  \A n \in Modules \ {m} : v[n] >= recs'[r].ver[n]
      <4>1. r # c + 1
        <5>1. CrossModuleGeneration(rec, m) # g
          <6>1. CrossModuleGeneration(rec, m) \in Int
            BY <1>1, <1>4, AnalysedAssumption DEF CrossModuleGeneration
          <6> QED BY <3>2, <6>1
        <5> QED BY <1>6, <3>3, <5>1
      <4>2. r \in 1..Len(recs) /\ recs'[r] = recs[r]
        BY <1>2, <1>6, <4>1
      <4> QED BY <3>1, <3>3, <4>2 DEF LiveAhead
    <3>4. Current' = rec
      BY <1>6 DEF Current
    <3>5. LiveAhead(g, v)'
      BY <3>2, <3>3, <3>4 DEF LiveAhead
    <3> QED BY <2>1, <2>3, <3>5 DEF GoodSeed, Ahead
  <2> QED BY <2>2, <2>3
<1> QED BY <1>2, <1>6, <1>9, <1>10

\* A snapshot is taken of the texts as they stand.
LEMMA Snapped ==
    ASSUME StartCommand, NEW k \in Keys, NEW g \in Nat, NEW v, GoodSeed(k, g, v)
    PROVE  GoodSeed(k, g, v)'
<1>1. /\ UNCHANGED <<recs, clock, requests>>
      /\ snap'.gen = Fingerprint /\ snap'.ver = Current.ver
  BY DEF StartCommand, requestVars
<1>2. Current' = Current /\ Fingerprint' = Fingerprint
  BY <1>1 DEF Current, Fingerprint
<1>3. Answers(k, g, v)'
  BY <1>1 DEF GoodSeed, Answers, Fits
<1>4. CommandAhead(g, v) => CommandAhead(g, v)'
  BY <1>1, <1>2 DEF CommandAhead
<1>5. LiveAhead(g, v) => LiveAhead(g, v)'
  BY <1>1, <1>2 DEF LiveAhead
<1> QED BY <1>3, <1>4, <1>5 DEF GoodSeed, Ahead

\* A new request asks what a seed of its generation is known to answer.
LEMMA Asked ==
    ASSUME TypeOK, NEW q \in Requests, requests' = Append(requests, q),
           UNCHANGED <<recs, clock, snap>>, NEW k \in Keys,
           q.key = k /\ k = "command" => q.gen = snap.gen /\ q.want = snap.ver,
           q.key = k /\ k = "live" =>
             q.module \in Analysed /\ \E r \in 1..Len(recs) :
               q.gen = CrossModuleGeneration(recs[r], q.module) /\ q.want = recs[r].ver,
           NEW g \in Nat, NEW v, GoodSeed(k, g, v)
    PROVE  GoodSeed(k, g, v)'
<1>1. /\ Len(requests) \in Nat /\ Len(requests') = Len(requests) + 1
      /\ \A i \in 1..Len(requests) : requests'[i] = requests[i]
      /\ requests'[Len(requests) + 1] = q
  BY AppendType DEF TypeOK, RequestType
<1>2. k \in {"command", "live"}
  BY DEF Keys
<1>3. Current' = Current /\ Fingerprint' = Fingerprint
  BY DEF Current, Fingerprint
<1>4. Ahead(k, g, v) => Ahead(k, g, v)'
  BY <1>3 DEF Ahead, CommandAhead, LiveAhead
<1>5. ASSUME NEW i \in 1..Len(requests'), requests'[i].key = k, requests'[i].gen = g
      PROVE  Fits(i, v)'
  <2>1. CASE i \in 1..Len(requests)
    <3>1. Fits(i, v)
      BY <1>1, <1>5, <2>1 DEF GoodSeed, Answers
    <3> QED BY <1>1, <2>1, <3>1 DEF Fits
  <2>2. CASE i = Len(requests) + 1
    <3>1. q.key = k /\ q.gen = g /\ requests'[i] = q
      BY <1>1, <1>5, <2>2
    <3>2. CASE k = "command"
      <4>1. v = q.want
        BY <3>1, <3>2 DEF GoodSeed, Ahead, CommandAhead
      <4> QED BY <3>1, <3>2, <4>1 DEF Fits
    <3>3. CASE k = "live"
      <4>1. LiveAhead(g, v) /\ q.module \in Analysed
        BY <3>1, <3>3 DEF GoodSeed, Ahead
      <4>2. PICK r \in 1..Len(recs) :
              q.gen = CrossModuleGeneration(recs[r], q.module) /\ q.want = recs[r].ver
        BY <3>1, <3>3
      <4>3. \A n \in Modules \ {q.module} : v[n] >= q.want[n]
        BY <3>1, <4>1, <4>2 DEF LiveAhead
      <4> QED BY <3>1, <3>3, <4>3 DEF Fits
    <3> QED BY <1>2, <3>2, <3>3
  <2> QED BY <1>1, <2>1, <2>2
<1>6. Answers(k, g, v)'
  BY <1>5 DEF Answers
<1> QED BY <1>4, <1>6 DEF GoodSeed

-----------------------------------------------------------------------------
(* The steps *)

\* The client and the worker: a response, a dispatch, a timeout, a death.
LEMMA ClientFits ==
    ASSUME TypeOK, NEW k \in Keys, KeyInv(k),
           \A i \in 1..Len(requests) :
               requests[i].key = k => k = "command" \/ requests[i].rec # 0,
           Client \/ Thread \/ (\E m \in Analysed : ReadContext(m) \/ Forget(m))
    PROVE  KeyInv(k)'
<1> DEFINE Quiet == /\ UNCHANGED <<requests, recs, clock, snap, basis>>
                    /\ inbox' = inbox \/ inbox' = <<>>
                    /\ wseed' = wseed \/ wseed' = [l \in Keys |-> NoSeed]
                    /\ \A j \in 1..Len(outbox') : \E l \in 1..Len(outbox) : outbox'[j] = outbox[l]
                    /\ \A i \in 1..Len(requests) : outcome'[i] = "resolved" => outcome[i] = "resolved"
<1>0. Len(requests) \in Nat /\ DOMAIN outcome = 1..Len(requests)
  BY DEF TypeOK, RequestType
<1>1. CASE Quiet
  <2>1. /\ \A g, v : GoodSeed(k, g, v) => GoodSeed(k, g, v)'
        /\ SourcesGood(k)'
    BY <1>1, SameGood DEF KeyInv
  <2>2. /\ Len(requests) <= Len(requests') /\ Len(requests') \in Nat
        /\ \A i \in 1..Len(requests) :
             /\ requests'[i] = requests[i]
             /\ outcome'[i] = "resolved" => outcome[i] = "resolved" /\ basis'[i] = basis[i]
        /\ \A i \in 1..Len(requests') : i \notin 1..Len(requests) => outcome'[i] # "resolved"
    BY <1>0, <1>1
  <2> QED BY <1>1, <2>1, <2>2, Carried
<1>2. ASSUME NEW S, NEW how, how # "resolved",
             \A i \in 1..Len(requests) : outcome'[i] = Settle(S, how)[i] \/ outcome'[i] = "timeout"
      PROVE  \A i \in 1..Len(requests) : outcome'[i] = "resolved" => outcome[i] = "resolved"
  BY <1>0, <1>2 DEF Settle
<1>3. CASE DispatchNext
  <2>1. PICK i \in queue : Submit(i, FALSE, seeded)
    BY <1>3 DEF DispatchNext
  <2>2. /\ i \in 1..Len(requests)
        /\ UNCHANGED <<requests, recs, clock, snap, basis, wseed, outbox>>
    BY <1>3, <2>1 DEF DispatchNext, projectVars, TypeOK, ClientType
  <2>3. \A j \in 1..Len(outbox') : \E l \in 1..Len(outbox) : outbox'[j] = outbox[l]
    BY <2>2
  <2> QED BY <2>1, <2>2, <2>3, SubmitFits
<1>4. CASE DispatchDone
  <2>1. UNCHANGED <<requests, recs, clock, snap, basis, outcome, inbox, wseed, outbox>>
    BY <1>4 DEF DispatchDone, projectVars, requestVars, threadVars
  <2>2. Quiet
    BY <2>1
  <2> QED BY <1>1, <2>2
<1>5. CASE OnIgnoredResponse
  <2>1. /\ outbox # <<>> /\ outbox' = Tail(outbox)
        /\ UNCHANGED <<requests, recs, clock, snap, basis, outcome, inbox, wseed>>
    BY <1>5 DEF OnIgnoredResponse, projectVars, requestVars
  <2>2. \A j \in 1..Len(outbox') : \E l \in 1..Len(outbox) : outbox'[j] = outbox[l]
    BY <2>1, TailElements
  <2>3. Quiet
    BY <2>1, <2>2
  <2> QED BY <1>1, <2>3
<1>6. CASE OnCancelledResponse \/ OnAnswer \/ (OnNeedSeed /\ retried)
  <2>1. /\ outbox # <<>> /\ ~Ignored(Head(outbox)) /\ outbox' = Tail(outbox)
        /\ \/ Finish("superseded", NoTexts) \/ Finish("rejected", NoTexts)
           \/ Head(outbox).kind = "result" /\ Finish("resolved", Head(outbox).ver)
    BY <1>6 DEF OnCancelledResponse, OnAnswer, OnNeedSeed
  <2>2. "superseded" \in Settled /\ "rejected" \in Settled /\ "resolved" \in Settled
    BY DEF Settled
  <2> QED BY <2>1, <2>2, FinishFits
<1>7. CASE OnNeedSeed /\ ~retried
  <2>1. PICK known : known = [seeded EXCEPT ![requests[pending].key] = 0]
    OBVIOUS
  <2>2. /\ outbox # <<>> /\ ~Ignored(Head(outbox)) /\ outbox' = Tail(outbox)
        /\ Submit(pending, TRUE, known)
        /\ UNCHANGED <<requests, recs, clock, snap, basis, wseed>>
    BY <1>7, <2>1 DEF OnNeedSeed, projectVars
  <2>3. PICK i : i = pending
    OBVIOUS
  <2>4. i \in 1..Len(requests)
    <3>1. Head(outbox) \in Responses
      BY <2>2, TailElements
    <3> QED BY <2>2, <2>3, <3>1 DEF Ignored, Responses
  <2>5. \A j \in 1..Len(outbox') : \E l \in 1..Len(outbox) : outbox'[j] = outbox[l]
    BY <2>2, TailElements
  <2>6. Submit(i, TRUE, known)
    BY <2>2, <2>3
  <2> QED BY <2>2, <2>4, <2>5, <2>6, SubmitFits
<1>8. ASSUME NEW starts \in BOOLEAN, Watchdog(starts)
      PROVE  KeyInv(k)'
  <2>1. /\ UNCHANGED <<requests, recs, clock, snap, basis, outbox>> /\ inbox' = <<>>
        /\ wseed' = [l \in Keys |-> NoSeed]
    BY <1>8 DEF Watchdog, projectVars
  <2>2. \/ outcome' = Settle({pending}, "timeout")
        \/ outcome' = [Settle(Owed, "unavailable") EXCEPT ![pending] = "timeout"]
    BY <1>8 DEF Watchdog
  <2>3. \A i \in 1..Len(requests) : \/ outcome'[i] = Settle({pending}, "timeout")[i]
                                     \/ outcome'[i] = Settle(Owed, "unavailable")[i]
                                     \/ outcome'[i] = "timeout"
    BY <1>0, <2>2 DEF Settle
  <2>4. \A i \in 1..Len(requests) : outcome'[i] = "resolved" => outcome[i] = "resolved"
    BY <1>0, <2>3 DEF Settle
  <2>5. Quiet
    BY <2>1, <2>4
  <2> QED BY <1>1, <2>5
<1>9. CASE WorkerDies
  <2>1. /\ UNCHANGED <<requests, recs, clock, snap, basis, outbox, wseed>> /\ inbox' = <<>>
        /\ outcome' = Settle(Owed, "unavailable")
    BY <1>9 DEF WorkerDies, FailAll, projectVars
  <2>2. \A i \in 1..Len(requests) : outcome'[i] = "resolved" => outcome[i] = "resolved"
    BY <1>2, <2>1
  <2>3. Quiet
    BY <2>1, <2>2
  <2> QED BY <1>1, <2>3
<1>10. ASSUME NEW m \in Analysed, ReadContext(m)
       PROVE  KeyInv(k)'
  <2>1. UNCHANGED <<requests, recs, clock, snap, basis, outcome, inbox, wseed, outbox>>
    BY <1>10 DEF ReadContext, requestVars, threadVars
  <2>2. Quiet
    BY <2>1
  <2> QED BY <1>1, <2>2
<1>11. ASSUME NEW m \in Analysed, Forget(m)
       PROVE  KeyInv(k)'
  <2>1. PICK S : S = {i \in queue : IsLive(i) /\ requests[i].module = m}
    OBVIOUS
  <2>2. /\ UNCHANGED <<requests, recs, clock, snap, basis, inbox, wseed, outbox>>
        /\ outcome' = Settle(S, "superseded")
    BY <1>11, <2>1 DEF Forget, threadVars
  <2>3. \A i \in 1..Len(requests) : outcome'[i] = "resolved" => outcome[i] = "resolved"
    BY <1>2, <2>2
  <2>4. Quiet
    BY <2>2, <2>3
  <2> QED BY <1>1, <2>4
<1>12. CASE Thread
  BY <1>12, ThreadFits
<1> QED BY <1>3, <1>4, <1>5, <1>6, <1>7, <1>8, <1>9, <1>10, <1>11, <1>12 DEF Client

-----------------------------------------------------------------------------
(* The callers' steps *)

\* At the start nothing has been asked, and generations begin after 0.
LEMMA FitsInit ==
    ASSUME Init
    PROVE  /\ RecordsInv
           /\ \A k \in Keys : KeyInv(k)
           /\ GoodSeed("command", snap.gen, snap.ver)
<1>1. /\ Len(requests) = 0 /\ Len(inbox) = 0 /\ Len(outbox) = 0 /\ Len(recs) = 1
      /\ Current = NewRecord(0, [m \in Modules |-> 1]) /\ recs[1] = Current /\ clock = 1
      /\ snap = NoSeed /\ \A k \in Keys : wseed[k] = NoSeed
  BY DEF Init, Current
<1>2. /\ Current.base = 1 /\ Current.counter = 0
      /\ \A m \in Modules : Current.own[m] = 0
  BY <1>1 DEF NewRecord
<1>3. RecordsInv
  BY <1>1, <1>2 DEF RecordsInv
<1>4. \A m \in Modules : CrossModuleGeneration(Current, m) = 1
  BY <1>2 DEF CrossModuleGeneration
<1>5. ASSUME NEW k \in Keys PROVE GoodSeed(k, 0, NoTexts)
  <2>1. Answers(k, 0, NoTexts)
    BY <1>1 DEF Answers
  <2>2. CommandAhead(0, NoTexts)
    BY <1>1 DEF CommandAhead, Fingerprint, NoSeed
  <2>3. ASSUME NEW m \in Analysed
        PROVE  /\ 0 <= CrossModuleGeneration(Current, m)
               /\ \A r \in 1..Len(recs) : CrossModuleGeneration(recs[r], m) # 0
    <3>1. CrossModuleGeneration(Current, m) = 1
      BY <1>4, AnalysedAssumption
    <3>2. \A r \in 1..Len(recs) : recs[r] = Current
      BY <1>1
    <3> QED BY <3>1, <3>2
  <2>4. LiveAhead(0, NoTexts)
    BY <2>3 DEF LiveAhead
  <2> QED BY <2>1, <2>2, <2>4 DEF GoodSeed, Ahead
<1>6. NoSeed.gen = 0 /\ NoSeed.ver = NoTexts
  BY DEF NoSeed
<1>7. ASSUME NEW k \in Keys PROVE KeyInv(k)
  <2>1. SeedsGood(k)
    BY <1>1, <1>5, <1>6 DEF SeedsGood
  <2>2. SourcesGood(k) /\ AnswersFit(k)
    BY <1>1 DEF SourcesGood, AnswersFit
  <2> QED BY <2>1, <2>2 DEF KeyInv
<1>8. GoodSeed("command", snap.gen, snap.ver)
  BY <1>1, <1>5, <1>6 DEF Keys
<1> QED BY <1>3, <1>7, <1>8

\* A request is accepted, or refused at once.
LEMMA NewRequest ==
    ASSUME TypeOK, NEW k \in Keys, KeyInv(k), NEW q \in Requests,
           requests' = Append(requests, q), basis' = Append(basis, NoTexts),
           UNCHANGED <<recs, clock, snap, outbox>>,
           inbox' = inbox \/ inbox' = <<>>,
           wseed' = wseed \/ wseed' = [l \in Keys |-> NoSeed],
           \A i \in 1..Len(requests) : outcome'[i] = "resolved" => outcome[i] = "resolved",
           outcome'[Len(requests) + 1] # "resolved",
           q.key = k => GoodSeed(k, q.gen, IF k = "command" THEN q.want ELSE recs[q.rec].ver),
           q.key = k /\ k = "command" => q.gen = snap.gen /\ q.want = snap.ver,
           q.key = k /\ k = "live" =>
             /\ q.module \in Analysed /\ q.rec \in 1..Len(recs)
             /\ \E r \in 1..Len(recs) :
                  q.gen = CrossModuleGeneration(recs[r], q.module) /\ q.want = recs[r].ver
    PROVE  KeyInv(k)'
<1>1. /\ Len(requests) \in Nat /\ Len(requests') = Len(requests) + 1
      /\ \A i \in 1..Len(requests) : requests'[i] = requests[i]
      /\ requests'[Len(requests) + 1] = q
      /\ \A i \in 1..Len(requests') : i \in 1..Len(requests) \/ i = Len(requests) + 1
  BY AppendType DEF TypeOK, RequestType
<1>2. \A i \in 1..Len(requests) : basis'[i] = basis[i]
  <2>1. basis \in Seq(Texts) /\ Len(basis) = Len(requests)
    BY DEF TypeOK, RequestType
  <2> QED BY <2>1, NoSeedType, AppendType
<1>3. \A g \in Nat : \A v : GoodSeed(k, g, v) => GoodSeed(k, g, v)'
  BY Asked
<1>4. ASSUME NEW i \in 1..Len(requests'), requests'[i].key = k
      PROVE  GoodSeed(k, requests[i].gen, SourceText(i))'
  <2>1. CASE i \in 1..Len(requests)
    <3>0. requests[i] \in Requests
      BY <2>1 DEF TypeOK, RequestType
    <3>1. requests[i].gen \in Nat
      BY <3>0 DEF Requests
    <3>2. GoodSeed(k, requests[i].gen, SourceText(i))
      BY <1>1, <1>4, <2>1 DEF KeyInv, SourcesGood
    <3>3. SourceText(i)' = SourceText(i)
      BY <1>1, <2>1 DEF SourceText
    <3> QED BY <1>1, <1>3, <2>1, <3>1, <3>2, <3>3
  <2>2. CASE i = Len(requests) + 1
    <3>1. requests'[i] = q /\ q.key = k /\ q.gen \in Nat
      BY <1>1, <1>4, <2>2 DEF Requests
    <3>2. SourceText(i)' = IF k = "command" THEN q.want ELSE recs[q.rec].ver
      BY <3>1 DEF SourceText
    <3> QED BY <1>3, <3>1, <3>2
  <2> QED BY <1>1, <2>1, <2>2
<1>5. SourcesGood(k)'
  BY <1>4 DEF SourcesGood
<1>6. /\ \A j \in 1..Len(outbox') : \E l \in 1..Len(outbox) : outbox'[j] = outbox[l]
      /\ Len(requests) <= Len(requests') /\ Len(requests') \in Nat
      /\ \A i \in 1..Len(requests) :
           /\ requests'[i] = requests[i]
           /\ outcome'[i] = "resolved" => outcome[i] = "resolved" /\ basis'[i] = basis[i]
      /\ \A i \in 1..Len(requests') : i \notin 1..Len(requests) => outcome'[i] # "resolved"
  <2>1. outbox' = outbox
    OBVIOUS
  <2>2. \A j \in 1..Len(outbox') : \E l \in 1..Len(outbox) : outbox'[j] = outbox[l]
    BY <2>1
  <2>3. Len(requests) <= Len(requests') /\ Len(requests') \in Nat
    BY <1>1
  <2>4. \A i \in 1..Len(requests') : i \notin 1..Len(requests) => outcome'[i] # "resolved"
    BY <1>1, Zenon
  <2> QED BY <1>1, <1>2, <2>2, <2>3, <2>4, Zenon
<1>7. \A g \in Nat, v \in Texts : GoodSeed(k, g, v) => GoodSeed(k, g, v)'
  BY <1>3
<1> HIDE DEF KeyInv, SourcesGood, GoodSeed
<1> QED BY <1>5, <1>6, <1>7, Carried

\* What Enqueue and EnsureWorker leave of the requests.
LEMMA EnqueueLeaves ==
    ASSUME TypeOK, NEW q \in Requests, Enqueue(q), EnsureWorker
    PROVE  /\ requests' = Append(requests, q) /\ basis' = Append(basis, NoTexts)
           /\ inbox' = inbox \/ inbox' = <<>>
           /\ wseed' = wseed \/ wseed' = [l \in Keys |-> NoSeed]
           /\ \A i \in 1..Len(requests) : outcome'[i] = "resolved" => outcome[i] = "resolved"
           /\ outcome'[Len(requests) + 1] # "resolved"
<1> DEFINE T == Settled \cup {"open"}
           dropped == {j \in queue : q.key = "live" /\ IsLive(j) /\ requests[j].module = q.module}
<1>1. "superseded" \in T /\ "open" \in T
  BY DEF Settled
<1>2. outcome \in Seq(T) /\ Len(outcome) = Len(requests) /\ DOMAIN outcome = 1..Len(requests)
  BY DEF TypeOK, RequestType
<1>3. outcome' = Append(Settle(dropped, "superseded"), "open")
  BY DEF Enqueue
<1> HIDE DEF T, dropped
<1>4. /\ Settle(dropped, "superseded") \in Seq(T)
      /\ Len(Settle(dropped, "superseded")) = Len(requests)
      /\ \A i \in DOMAIN outcome : Settle(dropped, "superseded")[i]
           = IF i \in dropped THEN "superseded" ELSE outcome[i]
  BY <1>1, <1>2, SettleType
<1>5. /\ \A i \in 1..Len(requests) : outcome'[i] = Settle(dropped, "superseded")[i]
      /\ outcome'[Len(requests) + 1] = "open"
  BY <1>1, <1>3, <1>4, AppendType
<1>6. \A i \in 1..Len(requests) : outcome'[i] = "resolved" => outcome[i] = "resolved"
  BY <1>2, <1>4, <1>5
<1> QED BY <1>5, <1>6 DEF Enqueue, EnsureWorker

\* The records move with the project only.
LEMMA RecordsStep ==
    ASSUME TypeOK, RecordsInv, Next PROVE RecordsInv'
<1>1. CASE \E m \in Modules : ChangeModule(m)
  BY <1>1, ChangedRecords
<1>2. CASE RebuildRecord
  BY <1>2, Rebuilt
<1>3. CASE UNCHANGED <<recs, clock>>
  BY <1>3 DEF RecordsInv, Current
<1>4. \/ \E m \in Modules : ChangeModule(m)
      \/ RebuildRecord
      \/ UNCHANGED <<recs, clock>>
  <2>1. CASE Client
    BY <2>1 DEF Client, DispatchNext, DispatchDone, OnIgnoredResponse, OnCancelledResponse,
         OnAnswer, OnNeedSeed, Finish, Watchdog, WorkerDies, projectVars
  <2>2. CASE Thread
    BY <2>2 DEF Thread, HandleSeed, HandleAnalyze, projectVars
  <2>3. CASE Caller
    BY <2>3 DEF Caller, ReadContext, AnalyzeLive, StartCommand, AnalyzeCommand,
         AnalyzeUnavailable, Forget, projectVars
  <2> QED BY <2>1, <2>2, <2>3 DEF Next
<1> QED BY <1>1, <1>2, <1>3, <1>4

\* The project moves; requests and channels stay.
LEMMA Moved ==
    ASSUME TypeOK, NEW k \in Keys, KeyInv(k), SourcesGood(k)',
           \A g \in Nat, v \in Texts : GoodSeed(k, g, v) => GoodSeed(k, g, v)',
           UNCHANGED <<requests, outcome, basis, inbox, wseed, outbox>>
    PROVE  KeyInv(k)'
<1>1. Len(requests) \in Nat
  BY DEF TypeOK, RequestType
<1>2. \A j \in 1..Len(outbox') : \E l \in 1..Len(outbox) : outbox'[j] = outbox[l]
  OBVIOUS
<1>3. /\ Len(requests) <= Len(requests') /\ Len(requests') \in Nat
      /\ \A i \in 1..Len(requests) :
           /\ requests'[i] = requests[i]
           /\ outcome'[i] = "resolved" => outcome[i] = "resolved" /\ basis'[i] = basis[i]
      /\ \A i \in 1..Len(requests') : i \notin 1..Len(requests) => outcome'[i] # "resolved"
  BY <1>1
<1>4. inbox' = inbox /\ wseed' = wseed
  OBVIOUS
<1> HIDE DEF KeyInv, SourcesGood, GoodSeed
<1> QED BY <1>2, <1>3, <1>4, Carried

\* What a live pass asks, and what it leaves as it was.
LEMMA LiveAsks ==
    ASSUME TypeOK, NEW m \in Analysed, NEW f \in {"none"} \cup Faults, NEW seeds \in BOOLEAN,
           AnalyzeLive(m, f, seeds), NEW q,
           q = [module |-> m, key |-> "live", fault |-> f,
                gen |-> CrossModuleGeneration(recs[held[m]], m),
                want |-> recs[held[m]].ver, rec |-> provider']
    PROVE  /\ held[m] \in 1..Len(recs) /\ q \in Requests
           /\ Enqueue(q) /\ EnsureWorker /\ UNCHANGED <<recs, clock, snap, outbox>>
<1>1. m \in Modules /\ f \in {"none", "seed", "post"}
  BY AnalysedAssumption, FaultsAssumption
<1>2. held[m] \in 1..Len(recs) /\ recs[held[m]] \in Record
  BY DEF AnalyzeLive, TypeOK, ProjectType
<1>3. provider' \in 0..Len(recs)
  <2>1. provider' = held[m] \/ provider' = provider
    BY DEF AnalyzeLive
  <2>2. provider \in 0..Len(recs)
    BY DEF TypeOK, ClientType
  <2> QED BY <1>2, <2>1, <2>2
<1>4. CrossModuleGeneration(recs[held[m]], m) \in Nat
  BY <1>1, <1>2, GenerationType
<1>5. recs[held[m]].ver \in [Modules -> Nat]
  BY <1>2 DEF Record
<1>6. q \in Requests
  <2>1. provider' \in Nat
    BY <1>3
  <2> QED BY <1>1, <1>4, <1>5, <2>1 DEF Requests, Keys
<1>7. /\ Enqueue(q) /\ EnsureWorker /\ UNCHANGED <<recs, clock, snap, outbox>>
  BY DEF AnalyzeLive
<1> QED BY <1>2, <1>6, <1>7

\* What Analyze Project asks.
LEMMA CommandAsks ==
    ASSUME TypeOK, NEW m \in Modules, NEW f \in {"none"} \cup Faults, NEW q,
           q = [module |-> m, key |-> "command", gen |-> snap.gen,
                want |-> snap.ver, rec |-> 0, fault |-> f]
    PROVE  q \in Requests
<1>1. snap.gen \in Nat /\ snap.ver \in [Modules -> Nat]
  BY DEF TypeOK, ProjectType, Texts
<1>2. f \in {"none", "seed", "post"}
  BY FaultsAssumption
<1> QED BY <1>1, <1>2 DEF Requests, Keys

\* Every step keeps the seeds of Analyze Project to its snapshots.
LEMMA CommandStep ==
    ASSUME TypeOK, RecordsInv, CommandInv, Next PROVE CommandInv'
<1>0. /\ "command" \in Keys /\ KeyInv("command") /\ GoodSeed("command", snap.gen, snap.ver)
      /\ snap.gen \in Nat /\ snap.ver \in Texts
  BY DEF Keys, CommandInv, TypeOK, ProjectType
<1>1. ASSUME UNCHANGED <<requests, outcome, basis, inbox, wseed, outbox>>,
             \A g \in Nat : \A v : GoodSeed("command", g, v) => GoodSeed("command", g, v)'
      PROVE  KeyInv("command")'
  <2>1. \A g \in Nat, v \in Texts : GoodSeed("command", g, v) => GoodSeed("command", g, v)'
    BY <1>1
  <2>2. ASSUME NEW i \in 1..Len(requests), requests[i].key = "command"
        PROVE  GoodSeed("command", requests[i].gen, SourceText(i))'
    <3>1. GoodSeed("command", requests[i].gen, SourceText(i))
      BY <1>0, <2>2 DEF KeyInv, SourcesGood
    <3>2. SourceText(i)' = SourceText(i)
      BY <1>1, <2>2 DEF SourceText
    <3>3. requests[i] \in Requests
      BY DEF TypeOK, RequestType
    <3>4. requests[i].gen \in Nat
      BY <3>3 DEF Requests
    <3> QED BY <1>1, <3>1, <3>2, <3>4
  <2>3. SourcesGood("command")'
    BY <1>1, <2>2 DEF SourcesGood
  <2> QED BY <1>0, <1>1, <2>1, <2>3, Moved
<1>2. CASE \E m \in Modules : ChangeModule(m)
  <2>1. PICK m \in Modules : ChangeModule(m)
    BY <1>2
  <2>2. \A g \in Nat : \A v : GoodSeed("command", g, v) => GoodSeed("command", g, v)'
    BY <1>0, <2>1, ChangedGood
  <2>3. UNCHANGED <<requests, outcome, basis, inbox, wseed, outbox, snap>>
    BY <2>1 DEF ChangeModule, requestVars, threadVars
  <2> QED BY <1>0, <1>1, <2>2, <2>3 DEF CommandInv
<1>3. CASE RebuildRecord
  <2>1. \A g \in Nat : \A v : GoodSeed("command", g, v) => GoodSeed("command", g, v)'
    BY <1>0, <1>3, Rebuilt
  <2>2. UNCHANGED <<requests, outcome, basis, inbox, wseed, outbox, snap>>
    BY <1>3 DEF RebuildRecord, requestVars, threadVars
  <2> QED BY <1>0, <1>1, <2>1, <2>2 DEF CommandInv
<1>4. CASE StartCommand
  <2>1. \A g \in Nat : \A v : GoodSeed("command", g, v) => GoodSeed("command", g, v)'
    BY <1>0, <1>4, Snapped
  <2>2. /\ UNCHANGED <<requests, outcome, basis, inbox, wseed, outbox, recs, clock>>
        /\ snap'.gen = Fingerprint /\ snap'.ver = Current.ver
    BY <1>4 DEF StartCommand, requestVars, threadVars
  <2>3. Current' = Current /\ Fingerprint' = Fingerprint
    BY <2>2 DEF Current, Fingerprint
  <2>4. CommandAhead(snap.gen, snap.ver)'
    <3>1. Fingerprint \in Int
      BY DEF Fingerprint, TypeOK, ProjectType
    <3> QED BY <2>2, <2>3, <3>1 DEF CommandAhead
  <2>5. ASSUME NEW i \in 1..Len(requests), requests[i].key = "command",
               requests[i].gen = Fingerprint
        PROVE  requests[i].want = Current.ver
    <3>1. GoodSeed("command", requests[i].gen, SourceText(i))
      BY <1>0, <2>5 DEF KeyInv, SourcesGood
    <3> QED BY <2>5, <3>1 DEF GoodSeed, Ahead, CommandAhead, SourceText
  <2>6. Answers("command", snap.gen, snap.ver)'
    BY <2>2, <2>5 DEF Answers, Fits
  <2>7. GoodSeed("command", snap.gen, snap.ver)'
    BY <2>4, <2>6 DEF GoodSeed, Ahead
  <2> QED BY <1>1, <2>1, <2>2, <2>7 DEF CommandInv
<1>5. ASSUME Client \/ Thread \/ (\E m \in Analysed : ReadContext(m) \/ Forget(m))
      PROVE  CommandInv'
  <2>1. KeyInv("command")'
    BY <1>0, <1>5, ClientFits
  <2>2. UNCHANGED <<requests, recs, clock, snap>>
    BY <1>5 DEF Client, DispatchNext, DispatchDone, OnIgnoredResponse, OnCancelledResponse,
         OnAnswer, OnNeedSeed, Finish, Watchdog, WorkerDies, FailAll, Thread, HandleSeed,
         HandleAnalyze, ReadContext, Forget, projectVars, requestVars
  <2>3. GoodSeed("command", snap.gen, snap.ver)'
    BY <1>0, <2>2, SameGood
  <2> QED BY <2>1, <2>3 DEF CommandInv
<1>6. ASSUME NEW q \in Requests, requests' = Append(requests, q),
             basis' = Append(basis, NoTexts), UNCHANGED <<recs, clock, snap, outbox>>,
             inbox' = inbox \/ inbox' = <<>>,
             wseed' = wseed \/ wseed' = [l \in Keys |-> NoSeed],
             \A i \in 1..Len(requests) : outcome'[i] = "resolved" => outcome[i] = "resolved",
             outcome'[Len(requests) + 1] # "resolved",
             q.key = "command" => q.gen = snap.gen /\ q.want = snap.ver
      PROVE  CommandInv'
  <2>1. /\ q.key = "command" => GoodSeed("command", q.gen,
                                  IF "command" = "command" THEN q.want ELSE recs[q.rec].ver)
        /\ q.key = "command" /\ "command" = "live" =>
             /\ q.module \in Analysed /\ q.rec \in 1..Len(recs)
             /\ \E r \in 1..Len(recs) :
                  q.gen = CrossModuleGeneration(recs[r], q.module) /\ q.want = recs[r].ver
    BY <1>0, <1>6
  <2>2. KeyInv("command")'
    BY <1>0, <1>6, <2>1, NewRequest
  <2>3. GoodSeed("command", snap.gen, snap.ver)'
    BY <1>0, <1>6, <2>1, Asked
  <2> QED BY <2>2, <2>3 DEF CommandInv
<1>7. ASSUME NEW m \in Analysed, NEW f \in {"none"} \cup Faults, NEW seeds \in BOOLEAN,
             AnalyzeLive(m, f, seeds)
      PROVE  CommandInv'
  <2>1. PICK q : q = [module |-> m, key |-> "live", fault |-> f,
                      gen |-> CrossModuleGeneration(recs[held[m]], m),
                      want |-> recs[held[m]].ver, rec |-> provider']
    OBVIOUS
  <2>2. /\ q \in Requests /\ Enqueue(q) /\ EnsureWorker
        /\ UNCHANGED <<recs, clock, snap, outbox>>
    BY <1>7, <2>1, LiveAsks
  <2>3. q.key # "command"
    BY <2>1
  <2> QED BY <1>6, <2>2, <2>3, EnqueueLeaves
<1>8. ASSUME NEW m \in Modules, NEW f \in {"none"} \cup Faults, AnalyzeCommand(m, f)
      PROVE  CommandInv'
  <2>1. PICK q : q = [module |-> m, key |-> "command", gen |-> snap.gen,
                      want |-> snap.ver, rec |-> 0, fault |-> f]
    OBVIOUS
  <2>2. /\ q \in Requests /\ q.gen = snap.gen /\ q.want = snap.ver
    BY <2>1, CommandAsks
  <2>3. Enqueue(q) /\ EnsureWorker /\ UNCHANGED <<recs, clock, snap, outbox>>
    <3>1. Enqueue([module |-> m, key |-> "command", fault |-> f,
                   gen |-> snap.gen, want |-> snap.ver, rec |-> 0])
      BY <1>8 DEF AnalyzeCommand
    <3>2. q = [module |-> m, key |-> "command", fault |-> f,
               gen |-> snap.gen, want |-> snap.ver, rec |-> 0]
      BY <2>1
    <3> QED BY <1>8, <3>1, <3>2 DEF AnalyzeCommand, projectVars
  <2> QED BY <1>6, <2>2, <2>3, EnqueueLeaves
<1>9. ASSUME NEW m \in Modules, AnalyzeUnavailable(m)
      PROVE  CommandInv'
  <2>1. PICK q : q = [module |-> m, key |-> "command", gen |-> snap.gen,
                      want |-> snap.ver, rec |-> 0, fault |-> "none"]
    OBVIOUS
  <2>2. /\ q \in Requests /\ q.gen = snap.gen /\ q.want = snap.ver
    BY <2>1, CommandAsks
  <2>3. /\ requests' = Append(requests, q) /\ basis' = Append(basis, NoTexts)
        /\ outcome' = Append(outcome, "unavailable")
        /\ UNCHANGED <<recs, clock, snap, outbox, inbox, wseed>>
    BY <1>9, <2>1 DEF AnalyzeUnavailable, projectVars, threadVars
  <2>4. /\ \A i \in 1..Len(requests) : outcome'[i] = "resolved" => outcome[i] = "resolved"
        /\ outcome'[Len(requests) + 1] # "resolved"
    <3>1. "unavailable" \in Settled \cup {"open"}
      BY DEF Settled
    <3>2. outcome \in Seq(Settled \cup {"open"}) /\ Len(outcome) = Len(requests)
      BY DEF TypeOK, RequestType
    <3>3. /\ \A i \in 1..Len(requests) : outcome'[i] = outcome[i]
          /\ outcome'[Len(requests) + 1] = "unavailable"
      BY <2>3, <3>1, <3>2, AppendType
    <3> QED BY <3>3
  <2> QED BY <1>6, <2>2, <2>3, <2>4
<1> QED BY <1>2, <1>3, <1>4, <1>5, <1>7, <1>8, <1>9 DEF Next, Caller

\* Newer texts answer whatever older ones do.
LEMMA Grown ==
    ASSUME TypeOK', NEW g, NEW v \in Texts, NEW w \in Texts,
           \A n \in Modules : w[n] >= v[n], GoodSeed("live", g, v)'
    PROVE  GoodSeed("live", g, w)'
<1>1. \A n \in Modules : v[n] \in Nat /\ w[n] \in Nat
  BY DEF Texts
<1>2. ASSUME NEW i \in 1..Len(requests'), requests'[i].key = "live", requests'[i].gen = g
      PROVE  Fits(i, w)'
  <2>1. requests'[i].want \in [Modules -> Nat]
    <3>1. requests' \in Seq(Requests)
      <4>1. requests' \in Seq(Requests')
        BY DEF TypeOK, RequestType
      <4>2. Requests' = Requests
        BY DEF Requests, Keys
      <4> QED BY <4>1, <4>2
    <3>2. requests'[i] \in Requests
      BY <3>1
    <3> QED BY <3>2 DEF Requests
  <2>2. \A n \in Modules \ {requests'[i].module} : v[n] >= requests'[i].want[n]
    BY <1>2 DEF GoodSeed, Answers, Fits
  <2>3. \A n \in Modules \ {requests'[i].module} : w[n] >= requests'[i].want[n]
    BY <1>1, <2>1, <2>2
  <2> QED BY <1>2, <2>3 DEF Fits
<1>3. Answers("live", g, w)'
  BY <1>2 DEF Answers
<1>4. ASSUME NEW m \in Analysed
      PROVE  /\ g <= CrossModuleGeneration(Current', m)
             /\ \A r \in 1..Len(recs') : CrossModuleGeneration(recs'[r], m) = g =>
                  \A n \in Modules \ {m} : w[n] >= recs'[r].ver[n]
  <2>1. /\ g <= CrossModuleGeneration(Current', m)
        /\ \A r \in 1..Len(recs') : CrossModuleGeneration(recs'[r], m) = g =>
             \A n \in Modules \ {m} : v[n] >= recs'[r].ver[n]
    BY DEF GoodSeed, Ahead, LiveAhead
  <2>2. ASSUME NEW r \in 1..Len(recs'), CrossModuleGeneration(recs'[r], m) = g,
               NEW n \in Modules \ {m}
        PROVE  w[n] >= recs'[r].ver[n]
    <3>1. recs'[r] \in Record
      BY DEF TypeOK, ProjectType
    <3>2. recs'[r].ver[n] \in Nat
      BY <3>1 DEF Record
    <3>3. v[n] >= recs'[r].ver[n]
      BY <2>1, <2>2
    <3> QED BY <1>1, <3>2, <3>3
  <2> QED BY <2>1, <2>2
<1>5. LiveAhead(g, w)'
  BY <1>4 DEF LiveAhead
<1> QED BY <1>3, <1>5 DEF GoodSeed, Ahead

\* A live pass seeds with the record it has read: whatever has that generation was
\* made of the same record, earlier.
LEMMA LiveSeed ==
    ASSUME TypeOK, LiveInv, NEW m \in Analysed, \A n \in Analysed : n = m,
           NEW h \in 1..Len(recs)
    PROVE  GoodSeed("live", CrossModuleGeneration(recs[h], m), recs[h].ver)
<1>0. RecordsInv /\ m \in Modules
  BY AnalysedAssumption DEF LiveInv
<1>1. PICK g : g = CrossModuleGeneration(recs[h], m)
  OBVIOUS
<1>2. /\ g \in Nat /\ recs[h].base <= g /\ g <= recs[h].base + recs[h].counter
      /\ recs[h].base \in Nat /\ recs[h].counter \in Nat /\ recs[h].ver \in Texts
  BY <1>0, <1>1, Generations
<1>3. ASSUME NEW i \in 1..Len(requests), requests[i].key = "live", requests[i].gen = g
      PROVE  Fits(i, recs[h].ver)
  <2>1. LiveRequestAt(i)
    BY <1>3 DEF LiveInv
  <2>2. PICK r : r = requests[i].rec
    OBVIOUS
  <2>3. r \in 1..Len(recs)
    <3>1. requests[i] \in Requests /\ requests[i].rec <= Len(recs)
      BY DEF TypeOK, RequestType
    <3>2. requests[i].rec \in Nat /\ Len(recs) \in Nat
      BY <3>1 DEF Requests, TypeOK, ProjectType
    <3>3. requests[i].rec # 0
      BY <2>1 DEF LiveRequestAt
    <3> QED BY <2>2, <3>1, <3>2, <3>3
  <2>4. /\ requests[i].module = m /\ recs[r].base <= g
        /\ g <= CrossModuleGeneration(recs[r], m)
        /\ \A n \in Modules : requests[i].want[n] <= recs[r].ver[n]
    BY <1>3, <2>1, <2>2 DEF LiveRequestAt
  <2>5. g <= recs[r].base + recs[r].counter
    <3>1. /\ CrossModuleGeneration(recs[r], m) <= recs[r].base + recs[r].counter
          /\ CrossModuleGeneration(recs[r], m) \in Nat
          /\ recs[r].base \in Nat /\ recs[r].counter \in Nat
      BY <1>0, <2>3, Generations
    <3> QED BY <1>2, <2>4, <3>1
  <2>6. r = h
    BY <1>0, <1>2, <2>3, <2>4, <2>5, OneRecord
  <2>7. \A n \in Modules : requests[i].want[n] \in Nat /\ recs[h].ver[n] \in Nat
    <3>1. requests[i] \in Requests
      BY DEF TypeOK, RequestType
    <3> QED BY <1>2, <3>1 DEF Requests, Texts
  <2>8. \A n \in Modules : recs[h].ver[n] >= requests[i].want[n]
    BY <2>4, <2>6, <2>7
  <2> QED BY <1>3, <2>8 DEF Fits
<1>4. ASSUME NEW n \in Analysed
      PROVE  /\ g <= CrossModuleGeneration(Current, n)
             /\ \A r \in 1..Len(recs) : CrossModuleGeneration(recs[r], n) = g => r = h
  <2>1. n = m
    OBVIOUS
  <2>2. g <= CrossModuleGeneration(Current, m)
    BY <1>0, <1>1, Latest
  <2>3. ASSUME NEW r \in 1..Len(recs), CrossModuleGeneration(recs[r], m) = g
        PROVE  r = h
    <3>1. recs[r].base <= g /\ g <= recs[r].base + recs[r].counter
      BY <1>0, <2>3, Generations
    <3> QED BY <1>0, <1>2, <3>1, OneRecord
  <2> QED BY <2>1, <2>2, <2>3
<1>5. \A n \in Modules : recs[h].ver[n] >= recs[h].ver[n]
  BY <1>2 DEF Texts
<1>6. LiveAhead(g, recs[h].ver)
  BY <1>4, <1>5 DEF LiveAhead
<1>7. Answers("live", g, recs[h].ver)
  BY <1>3 DEF Answers
<1> QED BY <1>1, <1>6, <1>7 DEF GoodSeed, Ahead

\* A live request stays one of its record, which only moves on.
LEMMA RequestsMove ==
    ASSUME TypeOK, RecordsInv, UNCHANGED requests,
           (\E m \in Modules : ChangeModule(m)) \/ RebuildRecord \/ UNCHANGED recs,
           NEW i \in 1..Len(requests), LiveRequestAt(i)
    PROVE  /\ LiveRequestAt(i)'
           /\ \A n \in Modules : recs'[requests[i].rec].ver[n] >= recs[requests[i].rec].ver[n]
           /\ requests[i].rec \in 1..Len(recs) /\ Len(recs) <= Len(recs')
<1>1. PICK r : r = requests[i].rec
  OBVIOUS
<1>2. PICK m : m = requests[i].module
  OBVIOUS
<1>3. r \in 1..Len(recs) /\ m \in Modules /\ Len(recs) \in Nat
  <2>1. requests[i] \in Requests /\ requests[i].rec <= Len(recs)
    BY DEF TypeOK, RequestType
  <2>2. requests[i].rec \in Nat /\ requests[i].module \in Modules /\ Len(recs) \in Nat
    BY <2>1 DEF Requests, TypeOK, ProjectType
  <2>3. requests[i].rec # 0
    BY DEF LiveRequestAt
  <2> QED BY <1>1, <1>2, <2>1, <2>2, <2>3
<1> DEFINE Grows ==
             /\ recs'[r].base = recs[r].base
             /\ CrossModuleGeneration(recs'[r], m) \in Nat
             /\ CrossModuleGeneration(recs[r], m) <= CrossModuleGeneration(recs'[r], m)
             /\ \A n \in Modules : recs'[r].ver[n] \in Nat /\ recs'[r].ver[n] >= recs[r].ver[n]
             /\ Len(recs) <= Len(recs')
<1>4. /\ CrossModuleGeneration(recs[r], m) \in Nat
      /\ \A n \in Modules : recs[r].ver[n] \in Nat
  BY <1>3, Generations DEF Texts
<1>6. ASSUME NEW p \in Modules, ChangeModule(p) PROVE Grows
  <2>1. CASE r # Len(recs)
    <3>1. recs'[r] = recs[r] /\ Len(recs') = Len(recs)
      BY <1>3, <1>6, <2>1, Changed
    <3> QED BY <1>3, <1>4, <3>1
  <2>2. CASE r = Len(recs)
    <3>1. /\ recs'[r].base = recs[r].base /\ Len(recs') = Len(recs)
          /\ CrossModuleGeneration(recs'[r], m)
               = CrossModuleGeneration(recs[r], m) + (IF m = p THEN 0 ELSE 1)
          /\ \A n \in Modules : recs'[r].ver[n]
               = IF n = p THEN recs[r].ver[n] + 1 ELSE recs[r].ver[n]
      BY <1>3, <1>6, <2>2, Changed
    <3> QED BY <1>3, <1>4, <3>1
  <2> QED BY <2>1, <2>2
<1>7. ASSUME RebuildRecord PROVE Grows
  <2>1. recs'[r] = recs[r] /\ Len(recs') = Len(recs) + 1
    BY <1>3, <1>7, Rebuilt
  <2> QED BY <1>3, <1>4, <2>1
<1>8. ASSUME UNCHANGED recs PROVE Grows
  BY <1>3, <1>4, <1>8
<1>9. Grows
  BY <1>6, <1>7, <1>8
<1>10. LiveRequestAt(i)'
  <2>1. /\ r # 0 /\ m \in Analysed /\ recs[r].base <= requests[i].gen
        /\ requests[i].gen <= CrossModuleGeneration(recs[r], m)
        /\ \A n \in Modules : requests[i].want[n] <= recs[r].ver[n]
    BY <1>1, <1>2 DEF LiveRequestAt
  <2>2. requests[i].gen \in Nat /\ \A n \in Modules : requests[i].want[n] \in Nat
    <3>1. requests[i] \in Requests
      BY DEF TypeOK, RequestType
    <3> QED BY <3>1 DEF Requests
  <2>3. requests[i].gen <= CrossModuleGeneration(recs'[r], m)
    BY <1>4, <1>9, <2>1, <2>2
  <2>4. \A n \in Modules : requests[i].want[n] <= recs'[r].ver[n]
    BY <1>4, <1>9, <2>1, <2>2
  <2>5. recs'[r].base <= requests[i].gen
    BY <1>9, <2>1
  <2> HIDE DEF Grows
  <2> QED BY <1>1, <1>2, <2>1, <2>3, <2>4, <2>5 DEF LiveRequestAt
<1> QED BY <1>1, <1>3, <1>9, <1>10

\* Every step keeps the seeds of live diagnostics to what its passes had read.
LEMMA LiveStep ==
    ASSUME \A m, n \in Analysed : m = n, Unseeded = FALSE,
           TypeOK, TypeOK', LiveInv, Next
    PROVE  LiveInv'
<1>0. "live" \in Keys /\ KeyInv("live") /\ RecordsInv
  BY DEF Keys, LiveInv
<1>1. RecordsInv'
  BY <1>0, RecordsStep
<1>2. \A i \in 1..Len(requests) : requests[i].key = "live" => LiveRequestAt(i)
  BY DEF LiveInv
<1>3. ASSUME (\E m \in Modules : ChangeModule(m)) \/ RebuildRecord \/ StartCommand
      PROVE  LiveInv'
  <2>1. \A g \in Nat : \A v : GoodSeed("live", g, v) => GoodSeed("live", g, v)'
    BY <1>0, <1>3, ChangedGood, Rebuilt, Snapped
  <2>2. UNCHANGED <<requests, outcome, basis, inbox, wseed, outbox>>
    BY <1>3 DEF ChangeModule, RebuildRecord, StartCommand, requestVars, threadVars
  <2>3. (\E m \in Modules : ChangeModule(m)) \/ RebuildRecord \/ UNCHANGED recs
    BY <1>3 DEF StartCommand
  <2>4. ASSUME NEW i \in 1..Len(requests), requests[i].key = "live"
        PROVE  LiveRequestAt(i)' /\ GoodSeed("live", requests[i].gen, SourceText(i))'
    <3>1. /\ LiveRequestAt(i)'
          /\ \A n \in Modules : recs'[requests[i].rec].ver[n] >= recs[requests[i].rec].ver[n]
          /\ requests[i].rec \in 1..Len(recs) /\ Len(recs) <= Len(recs')
      BY <1>0, <1>2, <2>2, <2>3, <2>4, RequestsMove
    <3>2. PICK r : r = requests[i].rec
      OBVIOUS
    <3>3. PICK v : v = recs[r].ver
      OBVIOUS
    <3>4. PICK w : w = recs'[r].ver
      OBVIOUS
    <3>5. PICK g : g = requests[i].gen
      OBVIOUS
    <3>6. v \in Texts /\ w \in Texts
      <4>1. Len(recs) \in Nat /\ Len(recs') \in Nat
        BY DEF TypeOK, ProjectType
      <4>2. r \in 1..Len(recs) /\ r \in 1..Len(recs')
        BY <3>1, <3>2, <4>1
      <4>3. recs[r] \in Record /\ recs'[r] \in Record
        BY <4>2 DEF TypeOK, ProjectType
      <4> QED BY <3>3, <3>4, <4>3 DEF Record, Texts
    <3>7. g \in Nat
      <4>1. requests[i] \in Requests
        BY DEF TypeOK, RequestType
      <4> QED BY <3>5, <4>1 DEF Requests
    <3>8. GoodSeed("live", g, v)
      <4>1. GoodSeed("live", requests[i].gen, SourceText(i))
        BY <1>0, <2>4 DEF KeyInv, SourcesGood
      <4> QED BY <2>4, <3>2, <3>3, <3>5, <4>1 DEF SourceText
    <3>9. GoodSeed("live", g, v)'
      BY <2>1, <3>7, <3>8
    <3>10. \A n \in Modules : w[n] >= v[n]
      BY <3>1, <3>2, <3>3, <3>4
    <3>11. GoodSeed("live", g, w)'
      BY <3>6, <3>9, <3>10, Grown
    <3>12. requests'[i].gen = g /\ SourceText(i)' = w
      BY <2>2, <2>4, <3>2, <3>4, <3>5 DEF SourceText
    <3> QED BY <3>1, <3>11, <3>12
  <2>5. SourcesGood("live")'
    BY <2>2, <2>4 DEF SourcesGood
  <2>6. \A g \in Nat, v \in Texts : GoodSeed("live", g, v) => GoodSeed("live", g, v)'
    BY <2>1
  <2>7. KeyInv("live")'
    BY <1>0, <2>2, <2>5, <2>6, Moved
  <2>8. \A i \in 1..Len(requests') : requests'[i].key = "live" => LiveRequestAt(i)'
    BY <2>2, <2>4
  <2> QED BY <1>1, <2>7, <2>8 DEF LiveInv
<1>4. ASSUME Client \/ Thread \/ (\E m \in Analysed : ReadContext(m) \/ Forget(m))
      PROVE  LiveInv'
  <2>1. \A i \in 1..Len(requests) :
          requests[i].key = "live" => "live" = "command" \/ requests[i].rec # 0
    BY <1>2 DEF LiveRequestAt
  <2>2. KeyInv("live")'
    BY <1>0, <1>4, <2>1, ClientFits
  <2>3. UNCHANGED <<requests, recs>>
    BY <1>4 DEF Client, DispatchNext, DispatchDone, OnIgnoredResponse, OnCancelledResponse,
         OnAnswer, OnNeedSeed, Finish, Watchdog, WorkerDies, FailAll, Thread, HandleSeed,
         HandleAnalyze, ReadContext, Forget, projectVars, requestVars
  <2>4. \A i \in 1..Len(requests') : requests'[i].key = "live" => LiveRequestAt(i)'
    BY <1>0, <1>2, <2>3, RequestsMove
  <2> QED BY <1>1, <2>2, <2>4 DEF LiveInv
<1>5. ASSUME NEW q \in Requests, requests' = Append(requests, q), UNCHANGED recs,
             q.key = "live" => /\ q.rec \in 1..Len(recs) /\ q.module \in Analysed
                               /\ q.gen = CrossModuleGeneration(recs[q.rec], q.module)
                               /\ q.want = recs[q.rec].ver
      PROVE  \A i \in 1..Len(requests') : requests'[i].key = "live" => LiveRequestAt(i)'
  <2>1. /\ Len(requests) \in Nat /\ Len(requests') = Len(requests) + 1
        /\ \A i \in 1..Len(requests) : requests'[i] = requests[i]
        /\ requests'[Len(requests) + 1] = q
        /\ \A i \in 1..Len(requests') : i \in 1..Len(requests) \/ i = Len(requests) + 1
    BY <1>5, AppendType DEF TypeOK, RequestType
  <2>2. ASSUME NEW i \in 1..Len(requests), requests[i].key = "live"
        PROVE  LiveRequestAt(i)'
    <3>1. LiveRequestAt(i)
      BY <1>2, <2>2
    <3> QED BY <1>5, <2>1, <3>1 DEF LiveRequestAt
  <2>3. ASSUME q.key = "live", NEW i, i = Len(requests) + 1
        PROVE  LiveRequestAt(i)'
    <3>1. q.module \in Modules
      BY <1>5, <2>3, AnalysedAssumption
    <3>2. /\ recs[q.rec].base <= CrossModuleGeneration(recs[q.rec], q.module)
          /\ CrossModuleGeneration(recs[q.rec], q.module) \in Nat
          /\ recs[q.rec].ver \in Texts
      BY <1>0, <1>5, <2>3, <3>1, Generations
    <3>3. /\ q.rec # 0 /\ q.module \in Analysed /\ recs[q.rec].base <= q.gen
          /\ q.gen <= CrossModuleGeneration(recs[q.rec], q.module)
      BY <1>5, <2>3, <3>2
    <3>4. \A n \in Modules : q.want[n] <= recs[q.rec].ver[n]
      BY <1>5, <2>3, <3>2 DEF Texts
    <3>5. requests'[i] = q /\ recs' = recs
      BY <1>5, <2>1, <2>3
    <3> QED BY <3>3, <3>4, <3>5 DEF LiveRequestAt
  <2>4. ASSUME NEW i \in 1..Len(requests'), requests'[i].key = "live"
        PROVE  LiveRequestAt(i)'
    <3>1. CASE i \in 1..Len(requests)
      BY <2>1, <2>2, <2>4, <3>1
    <3>2. CASE i = Len(requests) + 1
      BY <2>1, <2>3, <2>4, <3>2
    <3> QED BY <2>1, <3>1, <3>2
  <2> QED BY <2>4
<1>6. ASSUME NEW m \in Analysed, NEW f \in {"none"} \cup Faults,
             NEW seeds \in {TRUE} \cup {~Unseeded}, AnalyzeLive(m, f, seeds)
      PROVE  LiveInv'
  <2>0. seeds = TRUE /\ seeds \in BOOLEAN
    OBVIOUS
  <2>1. PICK q : q = [module |-> m, key |-> "live", fault |-> f,
                      gen |-> CrossModuleGeneration(recs[held[m]], m),
                      want |-> recs[held[m]].ver, rec |-> provider']
    OBVIOUS
  <2>2. /\ held[m] \in 1..Len(recs) /\ q \in Requests /\ Enqueue(q) /\ EnsureWorker
        /\ UNCHANGED <<recs, clock, snap, outbox>>
    BY <1>6, <2>0, <2>1, LiveAsks
  <2>3. provider' = held[m]
    BY <1>6, <2>0 DEF AnalyzeLive
  <2>4. PICK h \in 1..Len(recs) : h = held[m]
    BY <2>2
  <2>5. /\ q.key = "live" /\ q.module = m /\ q.rec = h /\ q.want = recs[h].ver
        /\ q.gen = CrossModuleGeneration(recs[h], m)
    BY <2>1, <2>3, <2>4
  <2>6. GoodSeed("live", q.gen, recs[q.rec].ver)
    BY <2>5, LiveSeed
  <2>7. /\ q.key = "live" => GoodSeed("live", q.gen,
                               IF "live" = "command" THEN q.want ELSE recs[q.rec].ver)
        /\ q.key = "live" /\ "live" = "command" => q.gen = snap.gen /\ q.want = snap.ver
        /\ q.key = "live" /\ "live" = "live" =>
             /\ q.module \in Analysed /\ q.rec \in 1..Len(recs)
             /\ \E r \in 1..Len(recs) :
                  q.gen = CrossModuleGeneration(recs[r], q.module) /\ q.want = recs[r].ver
    BY <2>5, <2>6
  <2>8. KeyInv("live")'
    BY <1>0, <2>2, <2>7, EnqueueLeaves, NewRequest
  <2>9. \A i \in 1..Len(requests') : requests'[i].key = "live" => LiveRequestAt(i)'
    BY <1>5, <2>2, <2>5, EnqueueLeaves
  <2> QED BY <1>1, <2>8, <2>9 DEF LiveInv
<1>7. ASSUME NEW m \in Modules, NEW f \in {"none"} \cup Faults, AnalyzeCommand(m, f)
      PROVE  LiveInv'
  <2>1. PICK q : q = [module |-> m, key |-> "command", gen |-> snap.gen,
                      want |-> snap.ver, rec |-> 0, fault |-> f]
    OBVIOUS
  <2>2. q \in Requests /\ q.key # "live"
    BY <2>1, CommandAsks
  <2>3. Enqueue(q) /\ EnsureWorker /\ UNCHANGED <<recs, clock, snap, outbox>>
    <3>1. Enqueue([module |-> m, key |-> "command", fault |-> f,
                   gen |-> snap.gen, want |-> snap.ver, rec |-> 0])
      BY <1>7 DEF AnalyzeCommand
    <3>2. q = [module |-> m, key |-> "command", fault |-> f,
               gen |-> snap.gen, want |-> snap.ver, rec |-> 0]
      BY <2>1
    <3> QED BY <1>7, <3>1, <3>2 DEF AnalyzeCommand, projectVars
  <2>4. KeyInv("live")'
    BY <1>0, <2>2, <2>3, EnqueueLeaves, NewRequest
  <2>5. \A i \in 1..Len(requests') : requests'[i].key = "live" => LiveRequestAt(i)'
    BY <1>5, <2>2, <2>3, EnqueueLeaves
  <2> QED BY <1>1, <2>4, <2>5 DEF LiveInv
<1>8. ASSUME NEW m \in Modules, AnalyzeUnavailable(m)
      PROVE  LiveInv'
  <2>1. PICK q : q = [module |-> m, key |-> "command", gen |-> snap.gen,
                      want |-> snap.ver, rec |-> 0, fault |-> "none"]
    OBVIOUS
  <2>2. q \in Requests /\ q.key # "live"
    BY <2>1, CommandAsks
  <2>3. /\ requests' = Append(requests, q) /\ basis' = Append(basis, NoTexts)
        /\ outcome' = Append(outcome, "unavailable")
        /\ UNCHANGED <<recs, clock, snap, outbox, inbox, wseed>>
    BY <1>8, <2>1 DEF AnalyzeUnavailable, projectVars, threadVars
  <2>4. /\ \A i \in 1..Len(requests) : outcome'[i] = "resolved" => outcome[i] = "resolved"
        /\ outcome'[Len(requests) + 1] # "resolved"
    <3>1. "unavailable" \in Settled \cup {"open"}
      BY DEF Settled
    <3>2. outcome \in Seq(Settled \cup {"open"}) /\ Len(outcome) = Len(requests)
      BY DEF TypeOK, RequestType
    <3>3. /\ \A i \in 1..Len(requests) : outcome'[i] = outcome[i]
          /\ outcome'[Len(requests) + 1] = "unavailable"
      BY <2>3, <3>1, <3>2, AppendType
    <3> QED BY <3>3
  <2>5. KeyInv("live")'
    BY <1>0, <2>2, <2>3, <2>4, NewRequest
  <2>6. \A i \in 1..Len(requests') : requests'[i].key = "live" => LiveRequestAt(i)'
    BY <1>5, <2>2, <2>3
  <2> QED BY <1>1, <2>5, <2>6 DEF LiveInv
<1> QED BY <1>3, <1>4, <1>6, <1>7, <1>8 DEF Next, Caller

\* A step that changes nothing changes nothing of this.
LEMMA FitsStutter ==
    ASSUME TypeOK, UNCHANGED vars
    PROVE  /\ TypeOK' /\ (RecordsInv => RecordsInv')
           /\ CommandInv => CommandInv'
           /\ LiveInv => LiveInv'
<1>1. UNCHANGED <<requests, outcome, basis, inbox, wseed, outbox, recs, clock, snap>>
  BY DEF vars, projectVars, requestVars, threadVars
<1>2. TypeOK'
  BY DEF vars, projectVars, requestVars, clientVars, threadVars, TypeOK, ProjectType,
       RequestType, ClientType, ThreadType, AnalyzeMsgs, SeedMsgs, Responses
<1>3. RecordsInv => RecordsInv'
  BY <1>1 DEF RecordsInv, Current
<1>4. ASSUME NEW k \in Keys, KeyInv(k) PROVE KeyInv(k)'
  <2>1. SourcesGood(k)' /\ \A g \in Nat, v \in Texts : GoodSeed(k, g, v) => GoodSeed(k, g, v)'
    BY <1>1, <1>4, SameGood DEF KeyInv
  <2> QED BY <1>1, <1>4, <2>1, Moved
<1>5. "live" \in Keys /\ "command" \in Keys
  BY DEF Keys
<1>6. CommandInv => CommandInv'
  BY <1>1, <1>4, <1>5, SameGood DEF CommandInv
<1>7. LiveInv => LiveInv'
  BY <1>1, <1>3, <1>4, <1>5 DEF LiveInv, LiveRequestAt
<1> QED BY <1>2, <1>3, <1>6, <1>7

\* Analyze Project's answers are about its own snapshots, whatever live diagnostics
\* seed the same worker with and however the project moves under both
\* (analysisWorkerClient.ts and analyzeProjectCommand.ts: a project key of its own).
THEOREM CommandsAreExact == Spec => []CommandExact
<1> DEFINE Inv == TypeOK /\ RecordsInv /\ CommandInv
<1>1. Init => Inv
  BY InitType, FitsInit DEF CommandInv, Keys
<1>2. Inv /\ [Next]_vars => Inv'
  <2>1. ASSUME Inv, Next PROVE Inv'
    BY <2>1, CallerType, ClientStepType, ThreadStepType, RecordsStep, CommandStep DEF Next
  <2>2. ASSUME Inv, UNCHANGED vars PROVE Inv'
    BY <2>2, FitsStutter
  <2> QED BY <2>1, <2>2
<1>3. Inv => CommandExact
  <2>1. TypeOK => DOMAIN outcome = 1..Len(requests)
    BY DEF TypeOK, RequestType
  <2> QED BY <2>1 DEF CommandInv, KeyInv, AnswersFit, Fits, CommandExact
<1> QED BY <1>1, <1>2, <1>3, PTL DEF Spec

\* While one module is analysed, and its caller always seeds, a live answer takes every
\* other module at least as new as the pass that asked had read it, whatever the project,
\* the watchdog, the restarts and the failed messages do in between.  With a second
\* module the seeds of the one pass for the generation of the other: see the README.
THEOREM LiveTextsAreFresh ==
    ASSUME \A m, n \in Analysed : m = n, Unseeded = FALSE
    PROVE  Spec => []FreshTexts
<1> DEFINE Inv == TypeOK /\ LiveInv
<1>1. Init => Inv
  <2>1. ASSUME Init PROVE LiveInv
    <3>1. "live" \in Keys /\ Len(requests) = 0
      BY <2>1 DEF Init, Keys
    <3> QED BY <2>1, <3>1, FitsInit DEF LiveInv
  <2> QED BY <2>1, InitType
<1>2. Inv /\ [Next]_vars => Inv'
  <2>1. ASSUME Inv, Next PROVE Inv'
    <3>1. TypeOK'
      BY <2>1, CallerType, ClientStepType, ThreadStepType DEF Next
    <3> QED BY <2>1, <3>1, LiveStep
  <2>2. ASSUME Inv, UNCHANGED vars PROVE Inv'
    BY <2>2, FitsStutter
  <2> QED BY <2>1, <2>2
<1>3. Inv => FreshTexts
  <2>1. TypeOK => DOMAIN outcome = 1..Len(requests)
    BY DEF TypeOK, RequestType
  <2> QED BY <2>1 DEF LiveInv, KeyInv, AnswersFit, Fits, FreshTexts, IsLive
<1> QED BY <1>1, <1>2, <1>3, PTL DEF Spec

-----------------------------------------------------------------------------
(* The client implements AnalysisService *)

\* j is a newer live request for the document of the live request i.
Replaces(j, i) ==
    j > i /\ IsLive(i) /\ IsLive(j) /\ requests[j].module = requests[i].module

Newest(i) == \A j \in 1..Len(requests) : ~Replaces(j, i)

\* Requests go out in order; what is queued is the newest of its document, and so is
\* what is out unless it is cancelled; only a live request is ever cancelled.
ServiceInv ==
    /\ \A j \in queue : pending < j /\ Newest(j)
    /\ pending # 0 /\ ~cancelled => Newest(pending)
    /\ cancelled => pending # 0 /\ IsLive(pending)
    /\ \A j \in 1..Len(outbox) : outbox[j].kind = "cancelled" => IsLive(outbox[j].id)

\* Requests are let go of, and none is made.
LEMMA ServiceKeeps ==
    ASSUME TypeOK, ServiceInv, UNCHANGED requests, queue' \subseteq queue,
           \/ pending' = 0 /\ cancelled' = FALSE
           \/ pending' = pending /\ cancelled' = cancelled,
           \A j \in 1..Len(outbox') : \E l \in 1..Len(outbox) : outbox'[j] = outbox[l]
    PROVE  ServiceInv'
<1>1. /\ \A i : Newest(i)' <=> Newest(i)
      /\ \A i : IsLive(i)' <=> IsLive(i)
  BY DEF Newest, Replaces, IsLive
<1>2. queue \subseteq 1..Len(requests) /\ Len(requests) \in Nat
  BY DEF TypeOK, ClientType, RequestType
<1>3. \A j \in queue' : pending' < j /\ Newest(j)'
  <2>1. \A j \in queue : 0 < j
    BY <1>2
  <2> QED BY <1>1, <2>1 DEF ServiceInv
<1>4. pending' # 0 /\ ~cancelled' => Newest(pending)'
  <2>1. pending' # 0 => pending' = pending /\ cancelled' = cancelled
    OBVIOUS
  <2> QED BY <1>1, <2>1 DEF ServiceInv, Newest, Replaces, IsLive
<1>5. cancelled' => pending' # 0 /\ IsLive(pending)'
  <2>1. cancelled' => pending' = pending /\ cancelled' = cancelled
    BY Zenon
  <2> QED BY <2>1 DEF ServiceInv, IsLive
<1>6. \A j \in 1..Len(outbox') : outbox'[j].kind = "cancelled" => IsLive(outbox[j].id)'
  <2> SUFFICES ASSUME NEW j \in 1..Len(outbox'), outbox'[j].kind = "cancelled"
               PROVE  IsLive(outbox[j].id)'
    OBVIOUS
  <2>1. PICK l \in 1..Len(outbox) : outbox'[j] = outbox[l]
    OBVIOUS
  <2>2. IsLive(outbox[l].id)
    BY <2>1 DEF ServiceInv
  <2> QED BY <2>1, <2>2 DEF IsLive
<1> QED BY <1>3, <1>4, <1>5, <1>6 DEF ServiceInv

\* A request is made: queued where no older one of its document stays, or refused.
LEMMA ServiceGrows ==
    ASSUME TypeOK, ServiceInv, NEW q \in Requests, requests' = Append(requests, q),
           UNCHANGED <<pending, outbox>>,
           \/ /\ Enqueue(q)
           \/ q.key = "command" /\ UNCHANGED <<queue, cancelled>>
    PROVE  ServiceInv'
<1>1. /\ Len(requests) \in Nat /\ Len(requests') = Len(requests) + 1
      /\ \A i \in 1..Len(requests) : requests'[i] = requests[i]
      /\ requests'[Len(requests) + 1] = q
      /\ \A i \in 1..Len(requests') : i \in 1..Len(requests) \/ i = Len(requests) + 1
  BY AppendType DEF TypeOK, RequestType
<1>2. PICK n \in Nat : n = Len(requests)
  BY <1>1
<1>3. /\ queue \subseteq 1..n /\ pending \in 0..n
      /\ pending # 0 => pending \in 1..n
  BY <1>2 DEF TypeOK, ClientType
<1>4. \A i \in 1..n : IsLive(i)' <=> IsLive(i)
  BY <1>1, <1>2 DEF IsLive
<1>5. ASSUME NEW i \in 1..n, Newest(i),
             ~(q.key = "live" /\ IsLive(i) /\ requests[i].module = q.module)
      PROVE  Newest(i)'
  <2> SUFFICES ASSUME NEW j \in 1..Len(requests'), Replaces(j, i)' PROVE FALSE
    BY DEF Newest
  <2>1. CASE j \in 1..n
    <3>1. Replaces(j, i)
      BY <1>1, <1>2, <2>1 DEF Replaces, IsLive
    <3> QED BY <1>2, <1>5, <2>1, <3>1 DEF Newest
  <2>2. CASE j = n + 1
    BY <1>1, <1>2, <1>5, <2>2 DEF Replaces, IsLive
  <2> QED BY <1>1, <1>2, <2>1, <2>2
<1>6. Newest(n + 1)'
  <2>1. \A j \in 1..Len(requests') : ~(j > n + 1)
    BY <1>1, <1>2
  <2> QED BY <2>1 DEF Newest, Replaces
<1>7. ASSUME NEW j \in queue' PROVE pending' < j /\ Newest(j)'
  <2>1. CASE j \in queue
    <3>1. ~(q.key = "live" /\ IsLive(j) /\ requests[j].module = q.module)
      BY <1>2, <1>3, <1>7, <2>1 DEF Enqueue
    <3>2. Newest(j) /\ pending < j
      BY <2>1 DEF ServiceInv
    <3> QED BY <1>3, <1>5, <2>1, <3>1, <3>2
  <2>2. CASE j = n + 1
    BY <1>3, <1>6, <2>2
  <2>3. queue' \subseteq queue \cup {n + 1}
    BY <1>2 DEF Enqueue
  <2> QED BY <2>1, <2>2, <2>3
<1>8. pending' # 0 /\ ~cancelled' => Newest(pending)'
  <2> SUFFICES ASSUME pending # 0, ~cancelled' PROVE Newest(pending)'
    OBVIOUS
  <2>1. PICK p \in 1..n : p = pending
    BY <1>3
  <2>2. ~cancelled /\ ~(q.key = "live" /\ IsLive(p) /\ requests[p].module = q.module)
    <3>1. CASE Enqueue(q)
      BY <2>1, <3>1, Zenon DEF Enqueue
    <3>2. CASE q.key = "command" /\ UNCHANGED <<queue, cancelled>>
      BY <3>2
    <3> QED BY <3>1, <3>2
  <2>3. Newest(p)
    BY <2>1, <2>2 DEF ServiceInv
  <2>4. Newest(p)'
    BY <1>5, <2>2, <2>3
  <2> QED BY <2>1, <2>4 DEF Newest, Replaces, IsLive
<1>9. cancelled' => pending' # 0 /\ IsLive(pending)'
  <2> SUFFICES ASSUME cancelled' PROVE pending # 0 /\ IsLive(pending)'
    OBVIOUS
  <2>1. pending # 0 /\ IsLive(pending)
    <3>1. cancelled => pending # 0 /\ IsLive(pending)
      BY DEF ServiceInv
    <3>2. CASE Enqueue(q)
      BY <3>1, <3>2, Zenon DEF Enqueue
    <3>3. CASE q.key = "command" /\ UNCHANGED <<queue, cancelled>>
      BY <3>1, <3>3
    <3> QED BY <3>2, <3>3
  <2> QED BY <1>1, <1>2, <1>3, <2>1 DEF IsLive
<1>10. ASSUME NEW j \in 1..Len(outbox'), outbox'[j].kind = "cancelled"
       PROVE  IsLive(outbox[j].id)'
  <2>1. IsLive(outbox[j].id) /\ outbox' = outbox
    BY <1>10 DEF ServiceInv
  <2>2. outbox[j] \in Responses
    BY <2>1 DEF TypeOK, ThreadType
  <2>3. outbox[j].id \in 1..n
    BY <1>2, <2>2 DEF Responses
  <2> QED BY <1>4, <2>1, <2>3 DEF IsLive
<1> QED BY <1>7, <1>8, <1>9, <1>10 DEF ServiceInv

\* Every step of the callers, the client and the worker.
LEMMA ServiceStep ==
    ASSUME TypeOK, ChannelInv, ServiceInv, Next PROVE ServiceInv'
<1>0. /\ queue \subseteq 1..Len(requests) /\ Len(requests) \in Nat
      /\ pending \in 0..Len(requests)
  BY DEF TypeOK, ClientType, RequestType
<1>1. outbox # <<>> /\ outbox' = Tail(outbox)
        => \A j \in 1..Len(outbox') : \E l \in 1..Len(outbox) : outbox'[j] = outbox[l]
  BY TailElements
<1>2. outbox' = outbox
        => \A j \in 1..Len(outbox') : \E l \in 1..Len(outbox) : outbox'[j] = outbox[l]
  OBVIOUS
<1>3. ASSUME UNCHANGED <<requests, queue, pending, cancelled, outbox>>
      PROVE  ServiceInv'
  <2>1. queue' \subseteq queue /\ pending' = pending /\ cancelled' = cancelled
    BY <1>3
  <2> QED BY <1>2, <1>3, <2>1, ServiceKeeps
<1>4. CASE \/ \E m \in Modules : ChangeModule(m)
           \/ RebuildRecord \/ StartCommand \/ DispatchDone \/ HandleSeed
           \/ \E m \in Analysed : ReadContext(m)
  BY <1>3, <1>4 DEF ChangeModule, RebuildRecord, StartCommand, DispatchDone, HandleSeed,
       ReadContext, requestVars, clientVars, threadVars
<1>5. ASSUME NEW m \in Analysed, NEW f \in {"none"} \cup Faults, NEW seeds \in BOOLEAN,
             AnalyzeLive(m, f, seeds)
      PROVE  ServiceInv'
  <2>1. PICK q : q = [module |-> m, key |-> "live", fault |-> f,
                      gen |-> CrossModuleGeneration(recs[held[m]], m),
                      want |-> recs[held[m]].ver, rec |-> provider']
    OBVIOUS
  <2>2. /\ q \in Requests /\ Enqueue(q) /\ EnsureWorker /\ UNCHANGED outbox
    BY <1>5, <2>1, LiveAsks
  <2>3. UNCHANGED <<pending, outbox>>
    BY <1>5 DEF AnalyzeLive
  <2> QED BY <2>2, <2>3, EnqueueLeaves, ServiceGrows
<1>6. ASSUME NEW m \in Modules, NEW f \in {"none"} \cup Faults, AnalyzeCommand(m, f)
      PROVE  ServiceInv'
  <2>1. PICK q : q = [module |-> m, key |-> "command", gen |-> snap.gen,
                      want |-> snap.ver, rec |-> 0, fault |-> f]
    OBVIOUS
  <2>2. q \in Requests
    BY <2>1, CommandAsks
  <2>3. Enqueue(q) /\ EnsureWorker /\ UNCHANGED <<pending, outbox>>
    <3>1. Enqueue([module |-> m, key |-> "command", fault |-> f,
                   gen |-> snap.gen, want |-> snap.ver, rec |-> 0])
      BY <1>6 DEF AnalyzeCommand
    <3>2. q = [module |-> m, key |-> "command", fault |-> f,
               gen |-> snap.gen, want |-> snap.ver, rec |-> 0]
      BY <2>1
    <3> QED BY <1>6, <3>1, <3>2 DEF AnalyzeCommand
  <2> QED BY <2>2, <2>3, EnqueueLeaves, ServiceGrows
<1>7. ASSUME NEW m \in Modules, AnalyzeUnavailable(m)
      PROVE  ServiceInv'
  <2>1. PICK q : q = [module |-> m, key |-> "command", gen |-> snap.gen,
                      want |-> snap.ver, rec |-> 0, fault |-> "none"]
    OBVIOUS
  <2>2. q \in Requests /\ q.key = "command"
    BY <2>1, CommandAsks
  <2>3. requests' = Append(requests, q) /\ UNCHANGED <<queue, pending, cancelled, outbox>>
    BY <1>7, <2>1 DEF AnalyzeUnavailable, threadVars
  <2> QED BY <2>2, <2>3, ServiceGrows
<1>8. ASSUME NEW m \in Analysed, Forget(m)
      PROVE  ServiceInv'
  <2>1. /\ UNCHANGED <<requests, pending, outbox>> /\ queue' \subseteq queue
    BY <1>8 DEF Forget, threadVars
  <2>2. cancelled' = (cancelled \/ (pending # 0 /\ IsLive(pending) /\ requests[pending].module = m))
    BY <1>8 DEF Forget
  <2>3. CASE cancelled' = cancelled
    BY <1>2, <2>1, <2>3, ServiceKeeps
  <2>4. CASE cancelled' # cancelled
    <3>1. cancelled' /\ pending # 0 /\ IsLive(pending)
      <4>1. cancelled \in BOOLEAN
        BY DEF TypeOK, ClientType
      <4> QED BY <2>2, <2>4, <4>1, Zenon
    <3>2. \A i : (Newest(i)' <=> Newest(i)) /\ (IsLive(i)' <=> IsLive(i))
      BY <2>1 DEF Newest, Replaces, IsLive
    <3>3. \A j \in queue' : pending' < j /\ Newest(j)'
      BY <2>1, <3>2 DEF ServiceInv
    <3>4. pending' # 0 /\ IsLive(pending)'
      BY <2>1, <3>1 DEF IsLive
    <3>5. \A j \in 1..Len(outbox') : outbox'[j].kind = "cancelled" => IsLive(outbox[j].id)'
      BY <2>1 DEF ServiceInv, IsLive
    <3> QED BY <3>1, <3>3, <3>4, <3>5 DEF ServiceInv
  <2> QED BY <2>3, <2>4
<1>9. CASE DispatchNext
  <2>1. PICK i \in queue : /\ \A j \in queue : i <= j
                           /\ queue' = queue \ {i}
                           /\ Submit(i, FALSE, seeded)
    BY <1>9 DEF DispatchNext
  <2>2. /\ UNCHANGED <<requests, cancelled, outbox>> /\ pending = 0
        /\ pending' = 0 \/ pending' = i
    BY <1>9, <2>1 DEF DispatchNext, MayDispatch, Submit
  <2>3. cancelled' = FALSE
    <3>1. ~cancelled
      BY <2>2 DEF ServiceInv
    <3>2. cancelled \in BOOLEAN
      BY DEF TypeOK, ClientType
    <3> QED BY <2>2, <3>1, <3>2, Zenon
  <2>4. \A l : (Newest(l)' <=> Newest(l)) /\ (IsLive(l)' <=> IsLive(l))
    BY <2>2 DEF Newest, Replaces, IsLive
  <2>5. \A j \in queue' : pending' < j /\ Newest(j)'
    <3> SUFFICES ASSUME NEW j \in queue' PROVE pending' < j /\ Newest(j)'
      OBVIOUS
    <3>1. j \in queue /\ j # i
      BY <2>1
    <3>2. i <= j /\ i \in Nat /\ j \in Nat /\ j > 0
      BY <1>0, <2>1, <3>1
    <3>3. pending' < j
      BY <2>2, <3>1, <3>2
    <3> QED BY <2>4, <3>1, <3>3 DEF ServiceInv
  <2>6. pending' # 0 => Newest(pending)'
    <3>1. Newest(i)'
      BY <2>1, <2>4 DEF ServiceInv
    <3> QED BY <2>2, <3>1 DEF Newest, Replaces, IsLive
  <2>7. \A j \in 1..Len(outbox') : outbox'[j].kind = "cancelled" => IsLive(outbox[j].id)'
    BY <2>2 DEF ServiceInv, IsLive
  <2> QED BY <2>3, <2>5, <2>6, <2>7 DEF ServiceInv
<1>10. CASE OnIgnoredResponse
  <2>1. /\ outbox # <<>> /\ outbox' = Tail(outbox)
        /\ UNCHANGED <<requests, queue, pending, cancelled>>
    BY <1>10 DEF OnIgnoredResponse, requestVars, clientVars
  <2>2. queue' \subseteq queue /\ pending' = pending /\ cancelled' = cancelled
    BY <2>1
  <2> QED BY <1>1, <2>1, <2>2, ServiceKeeps
<1>11. CASE OnCancelledResponse \/ OnAnswer \/ (OnNeedSeed /\ retried)
  <2>1. /\ outbox # <<>> /\ outbox' = Tail(outbox)
        /\ UNCHANGED <<requests, queue>> /\ pending' = 0 /\ cancelled' = FALSE
    BY <1>11 DEF OnCancelledResponse, OnAnswer, OnNeedSeed, Finish
  <2>2. queue' \subseteq queue
    BY <2>1
  <2> QED BY <1>1, <2>1, <2>2, ServiceKeeps
<1>12. CASE OnNeedSeed /\ ~retried
  <2>1. /\ outbox # <<>> /\ outbox' = Tail(outbox)
        /\ UNCHANGED <<requests, queue, cancelled>> /\ ~cancelled
        /\ pending' = 0 \/ pending' = pending
    BY <1>12 DEF OnNeedSeed, Submit, Superseded
  <2>2. cancelled' = FALSE /\ queue' \subseteq queue
    <3>1. cancelled \in BOOLEAN
      BY DEF TypeOK, ClientType
    <3> QED BY <2>1, <3>1, Zenon
  <2>3. \A j \in 1..Len(outbox') : \E l \in 1..Len(outbox) : outbox'[j] = outbox[l]
    BY <1>1, <2>1
  <2> QED BY <2>1, <2>2, <2>3, ServiceKeeps
<1>13. ASSUME NEW starts \in BOOLEAN, Watchdog(starts)
       PROVE  ServiceInv'
  <2>1. /\ UNCHANGED <<requests, outbox>> /\ pending' = 0 /\ cancelled' = FALSE
        /\ queue' = queue \/ queue' = {}
    BY <1>13 DEF Watchdog
  <2>2. queue' \subseteq queue
    BY <2>1
  <2> QED BY <1>2, <2>1, <2>2, ServiceKeeps
<1>14. CASE WorkerDies
  <2>1. /\ UNCHANGED <<requests, outbox>> /\ pending' = 0 /\ cancelled' = FALSE
        /\ queue' = {}
    BY <1>14 DEF WorkerDies, FailAll
  <2>2. queue' \subseteq queue
    BY <2>1
  <2> QED BY <1>2, <2>1, <2>2, ServiceKeeps
<1>15. CASE HandleAnalyze
  <2>1. PICK r : /\ outbox' = Append(outbox, r) /\ r.id = Head(inbox).id
                 /\ r.kind = "cancelled" => cancelled
                 /\ r \in [kind : {"result", "error", "needSeed", "cancelled"},
                           id : {Head(inbox).id}, from : {worker},
                           ver : {wseed[requests[Head(inbox).id].key].ver}]
    <3>1. PICK kind \in {"result", "error", "needSeed", "cancelled"} :
            /\ kind = "cancelled" => cancelled
            /\ outbox' = Append(outbox, Response(kind, Head(inbox).id,
                                          wseed[requests[Head(inbox).id].key].ver))
      BY <1>15 DEF HandleAnalyze
    <3> QED BY <3>1 DEF Response
  <2>2. Head(inbox).id = pending /\ UNCHANGED <<requests, queue, pending, cancelled>>
    <3>1. inbox # <<>> /\ Head(inbox).kind = "analyze"
      BY <1>15 DEF HandleAnalyze
    <3>2. inbox \in Seq(AnalyzeMsgs \cup SeedMsgs)
      BY DEF TypeOK, ThreadType
    <3>3. Len(inbox) \in Nat /\ 1 \in 1..Len(inbox) /\ Head(inbox) = inbox[1]
      BY <3>1, <3>2
    <3>4. inbox[1].id = pending
      BY <3>1, <3>3 DEF ChannelInv, IsAnalyze
    <3> QED BY <1>15, <3>3, <3>4 DEF HandleAnalyze, requestVars, clientVars
  <2>3. /\ Len(outbox) \in Nat /\ Len(outbox') = Len(outbox) + 1
        /\ \A j \in 1..Len(outbox) : outbox'[j] = outbox[j]
        /\ outbox'[Len(outbox) + 1] = r
    <3>1. outbox \in Seq(Responses \cup {r}) /\ r \in Responses \cup {r}
      <4>1. outbox \in Seq(Responses)
        BY DEF TypeOK, ThreadType
      <4> QED BY <4>1, ChannelsGrow
    <3> QED BY <2>1, <3>1, AppendType
  <2>4. \A i : (Newest(i)' <=> Newest(i)) /\ (IsLive(i)' <=> IsLive(i))
    BY <2>2 DEF Newest, Replaces, IsLive
  <2>5. ASSUME NEW j \in 1..Len(outbox'), outbox'[j].kind = "cancelled"
        PROVE  IsLive(outbox[j].id)'
    <3>1. CASE j \in 1..Len(outbox)
      <4>1. IsLive(outbox[j].id) /\ outbox'[j] = outbox[j]
        BY <2>3, <2>5, <3>1 DEF ServiceInv
      <4> QED BY <2>2, <4>1 DEF IsLive
    <3>2. CASE j = Len(outbox) + 1
      <4>1. cancelled /\ outbox'[j].id = pending
        BY <2>1, <2>2, <2>3, <2>5, <3>2, Zenon
      <4>2. IsLive(pending)
        BY <4>1 DEF ServiceInv
      <4> QED BY <2>2, <4>1, <4>2 DEF IsLive
    <3> QED BY <2>3, <3>1, <3>2
  <2>6. \A j \in queue' : pending' < j /\ Newest(j)'
    BY <2>2, <2>4 DEF ServiceInv
  <2>7. /\ pending' # 0 /\ ~cancelled' => Newest(pending)'
        /\ cancelled' => pending' # 0 /\ IsLive(pending)'
    BY <2>2, <2>4 DEF ServiceInv, Newest, Replaces, IsLive
  <2> QED BY <2>5, <2>6, <2>7 DEF ServiceInv
<1>16. \A s \in {TRUE} \cup {~Unseeded} : s \in BOOLEAN
  BY UnseededAssumption
<1> QED BY <1>4, <1>5, <1>6, <1>7, <1>8, <1>9, <1>10, <1>11, <1>12, <1>13, <1>14, <1>15, <1>16
        DEF Next, Caller, Client, Thread

\* What the service sees of the requests.
Asks == [i \in DOMAIN requests |-> [module |-> requests[i].module, key |-> requests[i].key]]

LEMMA FunctionSeq ==
    ASSUME NEW S, NEW n \in Nat, NEW f \in [1..n -> S]
    PROVE  f \in Seq(S) /\ Len(f) = n /\ DOMAIN f = 1..n
<1>1. f \in Seq(S)
  BY SeqDef
<1> QED BY <1>1, LenProperties

LEMMA ServiceView ==
    ASSUME TypeOK
    PROVE  /\ DOMAIN requests = 1..Len(requests) /\ DOMAIN outcome = 1..Len(requests)
           /\ DOMAIN Asks = 1..Len(requests) /\ Len(requests) \in Nat
           /\ Asks \in Seq([module : Modules, key : {"live", "command"}])
           /\ Len(Asks) = Len(requests)
           /\ \A i \in 1..Len(requests) : Service!Live(i) <=> IsLive(i)
           /\ \A i : Service!Open(i) <=> Open(i)
           /\ \A i \in 1..Len(requests) : Asks[i].module = requests[i].module
<1>1. /\ DOMAIN requests = 1..Len(requests) /\ Len(requests) \in Nat
      /\ DOMAIN outcome = 1..Len(requests)
  BY DEF TypeOK, RequestType
<1>2. \A i \in 1..Len(requests) :
        /\ Asks[i] = [module |-> requests[i].module, key |-> requests[i].key]
        /\ requests[i].module \in Modules /\ requests[i].key \in {"live", "command"}
  <2>1. \A i \in 1..Len(requests) : requests[i] \in Requests
    BY DEF TypeOK, RequestType
  <2> QED BY <1>1, <2>1 DEF Asks, Requests, Keys
<1>3. Asks \in [1..Len(requests) -> [module : Modules, key : {"live", "command"}]]
  BY <1>1, <1>2 DEF Asks
<1>4. /\ Asks \in Seq([module : Modules, key : {"live", "command"}])
      /\ Len(Asks) = Len(requests) /\ DOMAIN Asks = 1..Len(requests)
  BY <1>1, <1>3, FunctionSeq
<1>5. \A i \in 1..Len(requests) : Service!Live(i) <=> IsLive(i)
  BY <1>1 DEF Service!Live, IsLive
<1>6. \A i : Service!Open(i) <=> Open(i)
  BY DEF Service!Open, Open
<1> QED BY <1>1, <1>2, <1>4, <1>5, <1>6

\* One more request is one more for the service.
LEMMA AsksGrow ==
    ASSUME TypeOK, NEW q \in Requests, requests' = Append(requests, q)
    PROVE  /\ [module |-> q.module, key |-> q.key] \in [module : Modules, key : {"live", "command"}]
           /\ Asks' = Append(Asks, [module |-> q.module, key |-> q.key])
<1> DEFINE S == [module : Modules, key : {"live", "command"}]
           e == [module |-> q.module, key |-> q.key]
<1>1. /\ Len(requests) \in Nat /\ requests' \in Seq(Requests)
      /\ Len(requests') = Len(requests) + 1 /\ DOMAIN requests' = 1..Len(requests')
      /\ \A i \in 1..Len(requests) : requests'[i] = requests[i]
      /\ requests'[Len(requests) + 1] = q
  BY AppendType DEF TypeOK, RequestType
<1>2. e \in S
  BY DEF Requests, Keys
<1>3. Asks \in Seq(S) /\ Len(Asks) = Len(requests) /\ DOMAIN Asks = 1..Len(requests)
  BY ServiceView
<1>4. Asks' \in Seq(S) /\ Len(Asks') = Len(requests')
  <2>1. Asks' \in [1..Len(requests') -> S]
    <3>1. \A i \in 1..Len(requests') : requests'[i] \in Requests
      BY <1>1
    <3>2. \A i \in 1..Len(requests') :
            [module |-> requests'[i].module, key |-> requests'[i].key] \in S
      BY <3>1 DEF Requests, Keys
    <3>3. Asks' = [i \in 1..Len(requests') |->
                     [module |-> requests'[i].module, key |-> requests'[i].key]]
      BY <1>1 DEF Asks
    <3> QED BY <3>2, <3>3
  <2>2. Len(requests') \in Nat
    BY <1>1
  <2> QED BY <2>1, <2>2, FunctionSeq
<1> HIDE DEF S, e
<1>5. /\ Append(Asks, e) \in Seq(S) /\ Len(Append(Asks, e)) = Len(Asks) + 1
      /\ \A i \in 1..Len(Asks) : Append(Asks, e)[i] = Asks[i]
      /\ Append(Asks, e)[Len(Asks) + 1] = e
  BY <1>2, <1>3, AppendProperties
<1>6. ASSUME NEW i \in 1..Len(Asks')
      PROVE  Asks'[i] = Append(Asks, e)[i]
  <2>1. CASE i \in 1..Len(requests)
    BY <1>1, <1>3, <1>5, <2>1 DEF Asks
  <2>2. CASE i = Len(requests) + 1
    BY <1>1, <1>3, <1>5, <2>2 DEF Asks, e
  <2>3. i \in 1..Len(requests) \/ i = Len(requests) + 1
    <3>1. i \in 1..(Len(requests) + 1)
      BY <1>1, <1>4, Zenon
    <3> QED BY <1>1, <3>1
  <2> QED BY <2>1, <2>2, <2>3
<1>7. Asks' = Append(Asks, e)
  BY <1>1, <1>3, <1>4, <1>5, <1>6, SeqEqual
<1> QED BY <1>2, <1>7 DEF S, e

\* A new request is an Ask.
LEMMA EnqueueAsks ==
    ASSUME TypeOK, QueueInv, NEW q \in Requests, Enqueue(q), ~failed, UNCHANGED failed
    PROVE  Service!Ask
<1> DEFINE T == Settled \cup {"open"}
           dropped == {j \in queue : q.key = "live" /\ IsLive(j) /\ requests[j].module = q.module}
<1>1. /\ requests' = Append(requests, q)
      /\ outcome' = Append(Settle(dropped, "superseded"), "open")
  BY DEF Enqueue
<1>2. /\ DOMAIN outcome = 1..Len(requests) /\ Len(requests) \in Nat
      /\ outcome \in Seq(T) /\ Len(outcome) = Len(requests)
      /\ "superseded" \in T /\ "open" \in T
  BY ServiceView DEF TypeOK, RequestType, Settled
<1>3. PICK e \in [module : Modules, key : {"live", "command"}] :
        /\ e = [module |-> q.module, key |-> q.key] /\ Asks' = Append(Asks, e)
        /\ e.key = q.key /\ e.module = q.module
  BY <1>1, AsksGrow
<1>4. \A j \in dropped : /\ Open(j) /\ q.key = "live" /\ Service!Live(j)
                         /\ Asks[j].module = q.module
  <2>1. \A j \in queue : Open(j) /\ j \in 1..Len(requests)
    BY <1>2 DEF QueueInv, Owed, TypeOK, ClientType
  <2> QED BY <2>1, ServiceView
<1> HIDE DEF dropped, T
<1>5. /\ Settle(dropped, "superseded") \in Seq(T)
      /\ Len(Settle(dropped, "superseded")) = Len(outcome)
      /\ \A i \in DOMAIN outcome : Settle(dropped, "superseded")[i]
           = IF i \in dropped THEN "superseded" ELSE outcome[i]
  BY <1>2, SettleType
<1>6. /\ Len(outcome') = Len(requests) + 1 /\ outcome'[Len(requests) + 1] = "open"
      /\ \A i \in 1..Len(requests) : outcome'[i] = Settle(dropped, "superseded")[i]
  BY <1>1, <1>2, <1>5, AppendType
<1>7. \A i \in DOMAIN outcome :
        \/ outcome'[i] = outcome[i]
        \/ /\ outcome'[i] = "superseded" /\ Service!Open(i) /\ e.key = "live"
           /\ Service!Live(i) /\ Asks[i].module = e.module
  BY <1>2, <1>3, <1>4, <1>5, <1>6, ServiceView
<1>8. Len(Asks) = Len(requests)
  BY ServiceView
<1> QED BY <1>3, <1>6, <1>7, <1>8 DEF Service!Ask, Asks

\* The dispatched request, or the one just shifted, is the oldest that is open.
LEMMA OldestOpen ==
    ASSUME TypeOK, QueueInv, NEW i \in 1..Len(requests), i \in Owed,
           \A j \in Owed : i <= j
    PROVE  Open(i) /\ Service!Open(i) /\ Service!Oldest(i) /\ i \in DOMAIN outcome
<1>1. /\ DOMAIN outcome = 1..Len(requests) /\ Len(requests) \in Nat
      /\ \A j : Service!Open(j) <=> Open(j)
  BY ServiceView
<1>2. \A j \in 1..Len(requests) : Open(j) => i <= j
  BY <1>1 DEF QueueInv
<1>3. \A j \in 1..Len(requests) : j < i => ~Open(j)
  BY <1>1, <1>2
<1>4. Service!Oldest(i)
  BY <1>1, <1>3 DEF Service!Oldest
<1> QED BY <1>1, <1>4 DEF QueueInv

\* The dispatched request is served first.
LEMMA PendingOldest ==
    ASSUME TypeOK, QueueInv, ServiceInv, pending # 0
    PROVE  /\ Open(pending) /\ Service!Open(pending) /\ Service!Oldest(pending)
           /\ pending \in DOMAIN outcome /\ ~failed
           /\ ~cancelled => ~Service!Obsolete(pending)
<1>1. PICK p : p = pending
  OBVIOUS
<1>2. p \in 1..Len(requests) /\ Len(requests) \in Nat /\ queue \subseteq 1..Len(requests)
  BY <1>1 DEF TypeOK, ClientType, RequestType
<1>3. p \in Owed /\ \A j \in Owed : p <= j
  <2>1. \A j \in queue : p < j /\ j \in Nat
    BY <1>1, <1>2 DEF ServiceInv
  <2>2. \A j \in queue : p <= j
    BY <1>2, <2>1
  <2> QED BY <1>1, <1>2, <2>2 DEF Owed
<1>4. Open(p) /\ Service!Open(p) /\ Service!Oldest(p) /\ p \in DOMAIN outcome
  BY <1>2, <1>3, OldestOpen
<1>5. ~failed
  BY <1>3 DEF QueueInv
<1>6. ASSUME ~cancelled PROVE ~Service!Obsolete(p)
  <2>1. Newest(p)
    BY <1>1, <1>6 DEF ServiceInv
  <2>2. \A j \in 1..Len(requests) : ~(j > p /\ Service!Live(p) /\ Service!Live(j)
                                        /\ Asks[j].module = Asks[p].module)
    BY <1>2, <2>1, ServiceView DEF Newest, Replaces
  <2> QED BY <2>2, ServiceView DEF Service!Obsolete, Asks
<1> QED BY <1>1, <1>4, <1>5, <1>6

\* Settling one request is a change of its outcome.
LEMMA SettleOne ==
    ASSUME TypeOK, NEW i, NEW how
    PROVE  Settle({i}, how) = [outcome EXCEPT ![i] = how]
<1>1. outcome = [j \in DOMAIN outcome |-> outcome[j]]
  BY DEF TypeOK, RequestType
<1> QED BY <1>1 DEF Settle

\* The service sees no more of a step than its requests, their outcomes and whether
\* it is down.
LEMMA ServiceStutters ==
    ASSUME UNCHANGED <<requests, outcome, failed>>
    PROVE  UNCHANGED <<Asks, outcome, failed>>
BY DEF Asks

\* One request fails alone.
LEMMA FailsAlone ==
    ASSUME TypeOK, NEW i \in DOMAIN outcome, Service!Open(i), Service!Oldest(i), ~failed,
           NEW how \in {"rejected", "timeout"}, outcome' = Settle({i}, how),
           UNCHANGED <<requests, failed>>
    PROVE  Service!FailOne(i)
<1>1. outcome' = [outcome EXCEPT ![i] = how]
  BY SettleOne
<1> QED BY <1>1 DEF Service!FailOne, Asks

\* Live requests of one document, or none, are dropped.
LEMMA Drops ==
    ASSUME TypeOK, QueueInv, NEW S, S \subseteq Owed, NEW m \in Modules,
           \A i \in S : IsLive(i) /\ requests[i].module = m,
           outcome' = Settle(S, "superseded"), UNCHANGED <<requests, failed>>
    PROVE  Service!Supersede(m) \/ outcome' = outcome
<1>1. DOMAIN outcome' = DOMAIN outcome
  BY DEF Settle
<1>2. \A i \in DOMAIN outcome : outcome'[i] = IF i \in S THEN "superseded" ELSE outcome[i]
  BY DEF Settle
<1>3. \A i \in DOMAIN outcome : i \in S => /\ Service!Open(i) /\ Service!Live(i)
                                           /\ Asks[i].module = m
  BY ServiceView DEF QueueInv
<1>4. \A i \in DOMAIN outcome :
        \/ outcome'[i] = outcome[i]
        \/ /\ outcome'[i] = "superseded" /\ Service!Open(i)
           /\ Service!Live(i) /\ Asks[i].module = m
  BY <1>2, <1>3
<1> QED BY <1>1, <1>4 DEF Service!Supersede, Asks

\* A submission that fails rejects its request; another leaves the outcomes alone.
LEMMA SubmitSettles ==
    ASSUME NEW i, NEW retry, NEW known, Submit(i, retry, known)
    PROVE  outcome' = outcome \/ outcome' = Settle({i}, "rejected")
BY DEF Submit

\* The service goes down with everything it owed.
LEMMA AllFail ==
    ASSUME TypeOK, QueueInv, ServiceInv, ~failed, failed' = TRUE, UNCHANGED requests,
           DOMAIN outcome' = DOMAIN outcome,
           \A i \in DOMAIN outcome :
               \/ outcome'[i] = Settle(Owed, "unavailable")[i]
               \/ outcome'[i] = "timeout" /\ i = pending /\ pending # 0
    PROVE  Service!GoDown
<1>1. ASSUME NEW i \in DOMAIN outcome
      PROVE  IF Service!Open(i) THEN \/ outcome'[i] = "unavailable"
                                     \/ outcome'[i] = "timeout" /\ Service!Oldest(i)
             ELSE outcome'[i] = outcome[i]
  <2>1. Service!Open(i) <=> i \in Owed
    BY ServiceView DEF QueueInv
  <2>2. CASE outcome'[i] = Settle(Owed, "unavailable")[i]
    BY <2>1, <2>2 DEF Settle
  <2>3. CASE outcome'[i] = "timeout" /\ i = pending /\ pending # 0
    BY <2>3, PendingOldest
  <2> QED BY <1>1, <2>2, <2>3
<1> QED BY <1>1 DEF Service!GoDown, Asks

\* Every step is one of the service, or none of its business.
LEMMA ImplementsStep ==
    ASSUME TypeOK, QueueInv, ServiceInv, Next
    PROVE  Service!Next \/ UNCHANGED <<Asks, outcome, failed>>
<1>0. /\ DOMAIN outcome = 1..Len(requests) /\ Len(requests) \in Nat
      /\ queue \subseteq 1..Len(requests)
  BY ServiceView DEF TypeOK, ClientType
<1>1. CASE \/ \E m \in Modules : ChangeModule(m)
           \/ RebuildRecord \/ StartCommand \/ DispatchDone \/ OnIgnoredResponse
           \/ \E m \in Analysed : ReadContext(m)
           \/ Thread
  BY <1>1, ServiceStutters DEF ChangeModule, RebuildRecord, StartCommand, DispatchDone,
       OnIgnoredResponse, ReadContext, Thread, HandleSeed, HandleAnalyze, requestVars, clientVars
<1>2. ASSUME NEW m \in Analysed, NEW f \in {"none"} \cup Faults, NEW seeds \in BOOLEAN,
             AnalyzeLive(m, f, seeds)
      PROVE  Service!Next
  <2>1. PICK q : q = [module |-> m, key |-> "live", fault |-> f,
                      gen |-> CrossModuleGeneration(recs[held[m]], m),
                      want |-> recs[held[m]].ver, rec |-> provider']
    OBVIOUS
  <2>2. q \in Requests /\ Enqueue(q)
    BY <1>2, <2>1, LiveAsks
  <2>3. ~failed /\ UNCHANGED failed
    BY <1>2 DEF AnalyzeLive
  <2> QED BY <2>2, <2>3, EnqueueAsks DEF Service!Next
<1>3. ASSUME NEW m \in Modules, NEW f \in {"none"} \cup Faults, AnalyzeCommand(m, f)
      PROVE  Service!Next
  <2>1. PICK q : q = [module |-> m, key |-> "command", gen |-> snap.gen,
                      want |-> snap.ver, rec |-> 0, fault |-> f]
    OBVIOUS
  <2>2. q \in Requests
    BY <2>1, CommandAsks
  <2>3. Enqueue(q) /\ ~failed /\ UNCHANGED failed
    <3>1. Enqueue([module |-> m, key |-> "command", fault |-> f,
                   gen |-> snap.gen, want |-> snap.ver, rec |-> 0])
      BY <1>3 DEF AnalyzeCommand
    <3>2. q = [module |-> m, key |-> "command", fault |-> f,
               gen |-> snap.gen, want |-> snap.ver, rec |-> 0]
      BY <2>1
    <3> QED BY <1>3, <3>1, <3>2 DEF AnalyzeCommand
  <2> QED BY <2>2, <2>3, EnqueueAsks DEF Service!Next
<1>4. ASSUME NEW m \in Modules, AnalyzeUnavailable(m)
      PROVE  Service!Next
  <2>1. PICK q : q = [module |-> m, key |-> "command", gen |-> snap.gen,
                      want |-> snap.ver, rec |-> 0, fault |-> "none"]
    OBVIOUS
  <2>2. q \in Requests
    BY <2>1, CommandAsks
  <2>3. /\ requests' = Append(requests, q) /\ outcome' = Append(outcome, "unavailable")
        /\ failed' = TRUE /\ worker = 0
    BY <1>4, <2>1 DEF AnalyzeUnavailable
  <2>4. \A i \in DOMAIN outcome : ~Service!Open(i)
    BY <2>3, ServiceView DEF QueueInv
  <2>5. PICK e \in [module : Modules, key : {"live", "command"}] : Asks' = Append(Asks, e)
    BY <2>2, <2>3, AsksGrow
  <2> QED BY <2>3, <2>4, <2>5 DEF Service!Next, Service!Refuse, Asks
<1>5. ASSUME NEW m \in Analysed, Forget(m)
      PROVE  Service!Next \/ UNCHANGED <<Asks, outcome, failed>>
  <2>1. PICK S : S = {i \in queue : IsLive(i) /\ requests[i].module = m}
    OBVIOUS
  <2>2. outcome' = Settle(S, "superseded") /\ UNCHANGED <<requests, failed>>
    BY <1>5, <2>1 DEF Forget
  <2>3. S \subseteq Owed /\ \A i \in S : IsLive(i) /\ requests[i].module = m
    BY <2>1 DEF Owed
  <2>4. m \in Modules
    BY AnalysedAssumption
  <2>5. Service!Supersede(m) \/ outcome' = outcome
    BY <2>2, <2>3, <2>4, Drops
  <2> QED BY <2>2, <2>4, <2>5, ServiceStutters DEF Service!Next
<1>6. CASE DispatchNext
  <2>1. PICK i \in queue : (\A j \in queue : i <= j) /\ Submit(i, FALSE, seeded)
    BY <1>6 DEF DispatchNext
  <2>2. UNCHANGED <<requests, failed>> /\ pending = 0 /\ ~failed
    BY <1>6 DEF DispatchNext, MayDispatch
  <2>3. Owed = queue
    BY <2>2 DEF Owed
  <2>4. Service!Open(i) /\ Service!Oldest(i) /\ i \in DOMAIN outcome
    BY <1>0, <2>1, <2>3, OldestOpen
  <2>5. CASE outcome' = outcome
    BY <2>2, <2>5, ServiceStutters
  <2>6. CASE outcome' = Settle({i}, "rejected")
    BY <2>2, <2>4, <2>6, FailsAlone DEF Service!Next
  <2> QED BY <2>1, <2>5, <2>6, SubmitSettles
<1>7. ASSUME outbox # <<>>, ~Ignored(Head(outbox))
      PROVE  /\ Head(outbox) = outbox[1] /\ 1 \in 1..Len(outbox)
             /\ outbox[1].id = pending /\ pending # 0
  <2>1. outbox \in Seq(Responses)
    BY DEF TypeOK, ThreadType
  <2>2. Head(outbox) = outbox[1] /\ 1 \in 1..Len(outbox) /\ outbox[1] \in Responses
    BY <1>7, <2>1
  <2>3. outbox[1].id \in 1..Len(requests) /\ outbox[1].id = pending
    BY <1>7, <2>2 DEF Responses, Ignored
  <2> QED BY <1>0, <2>2, <2>3
<1>8. ASSUME OnCancelledResponse
      PROVE  Service!Next \/ UNCHANGED <<Asks, outcome, failed>>
  <2>1. /\ outbox # <<>> /\ ~Ignored(Head(outbox)) /\ Superseded(Head(outbox))
        /\ outcome' = Settle({pending}, "superseded") /\ UNCHANGED <<requests, failed>>
    BY <1>8 DEF OnCancelledResponse, Finish
  <2>2. IsLive(pending) /\ pending # 0
    BY <1>7, <2>1 DEF Superseded, ServiceInv
  <2>3. requests[pending].module \in Modules /\ {pending} \subseteq Owed
    <3>1. pending \in 1..Len(requests)
      BY <2>2, PendingOldest, <1>0
    <3>2. requests[pending] \in Requests
      BY <3>1 DEF TypeOK, RequestType
    <3> QED BY <2>2, <3>2 DEF Requests, Owed
  <2>4. PICK m \in Modules : m = requests[pending].module
    BY <2>3
  <2>5. PICK S : S = {pending}
    OBVIOUS
  <2>6. /\ S \subseteq Owed /\ \A i \in S : IsLive(i) /\ requests[i].module = m
        /\ outcome' = Settle(S, "superseded") /\ UNCHANGED <<requests, failed>>
    BY <2>1, <2>2, <2>3, <2>4, <2>5
  <2>7. Service!Supersede(m) \/ outcome' = outcome
    BY <2>6, Drops
  <2> QED BY <2>1, <2>7, ServiceStutters DEF Service!Next
<1>9. ASSUME OnAnswer \/ (OnNeedSeed /\ retried)
      PROVE  Service!Next
  <2>1. /\ outbox # <<>> /\ ~Ignored(Head(outbox)) /\ ~Superseded(Head(outbox))
        /\ UNCHANGED <<requests, failed>>
        /\ \/ outcome' = Settle({pending}, "rejected")
           \/ outcome' = Settle({pending}, "resolved")
    BY <1>9 DEF OnAnswer, OnNeedSeed, Finish
  <2>2. /\ Service!Open(pending) /\ Service!Oldest(pending) /\ ~failed
        /\ pending \in DOMAIN outcome /\ ~Service!Obsolete(pending)
    BY <1>7, <2>1, PendingOldest DEF Superseded
  <2>3. CASE outcome' = Settle({pending}, "rejected")
    BY <2>1, <2>2, <2>3, FailsAlone DEF Service!Next
  <2>4. CASE outcome' = Settle({pending}, "resolved")
    <3>1. outcome' = [outcome EXCEPT ![pending] = "resolved"]
      BY <2>4, SettleOne
    <3>2. Service!Answer(pending)
      BY <2>1, <2>2, <3>1 DEF Service!Answer, Asks
    <3> QED BY <2>2, <3>2 DEF Service!Next
  <2> QED BY <2>1, <2>3, <2>4
<1>10. ASSUME OnNeedSeed, ~retried
       PROVE  Service!Next \/ UNCHANGED <<Asks, outcome, failed>>
  <2>1. PICK known : known = [seeded EXCEPT ![requests[pending].key] = 0]
    OBVIOUS
  <2>2. /\ outbox # <<>> /\ ~Ignored(Head(outbox)) /\ UNCHANGED <<requests, failed>>
        /\ Submit(pending, TRUE, known)
    BY <1>10, <2>1 DEF OnNeedSeed
  <2>3. /\ Service!Open(pending) /\ Service!Oldest(pending) /\ ~failed
        /\ pending \in DOMAIN outcome
    BY <1>7, <2>2, PendingOldest
  <2>4. CASE outcome' = outcome
    BY <2>2, <2>4, ServiceStutters
  <2>5. CASE outcome' = Settle({pending}, "rejected")
    BY <2>2, <2>3, <2>5, FailsAlone DEF Service!Next
  <2>6. outcome' = outcome \/ outcome' = Settle({pending}, "rejected")
    BY <2>2 DEF Submit
  <2> QED BY <2>4, <2>5, <2>6
<1>11. ASSUME NEW starts \in BOOLEAN, Watchdog(starts)
       PROVE  Service!Next
  <2>1. pending # 0 /\ UNCHANGED requests
    BY <1>11 DEF Watchdog
  <2>2. /\ Service!Open(pending) /\ Service!Oldest(pending) /\ ~failed
        /\ pending \in DOMAIN outcome
    BY <2>1, PendingOldest
  <2>3. CASE starts
    <3>1. outcome' = Settle({pending}, "timeout") /\ UNCHANGED failed
      BY <1>11, <2>3 DEF Watchdog
    <3> QED BY <2>1, <2>2, <3>1, FailsAlone DEF Service!Next
  <2>4. CASE ~starts
    <3>1. /\ failed' = TRUE
          /\ outcome' = [Settle(Owed, "unavailable") EXCEPT ![pending] = "timeout"]
      BY <1>11, <2>4 DEF Watchdog
    <3>2. DOMAIN outcome' = DOMAIN outcome
      BY <3>1 DEF Settle
    <3>3. \A i \in DOMAIN outcome :
            \/ outcome'[i] = Settle(Owed, "unavailable")[i]
            \/ outcome'[i] = "timeout" /\ i = pending /\ pending # 0
      BY <2>1, <3>1 DEF Settle
    <3> QED BY <2>1, <2>2, <3>1, <3>2, <3>3, AllFail DEF Service!Next
  <2> QED BY <2>3, <2>4
<1>12. ASSUME WorkerDies
       PROVE  Service!Next
  <2>1. /\ ~failed /\ failed' = TRUE /\ UNCHANGED requests
        /\ outcome' = Settle(Owed, "unavailable")
    BY <1>12 DEF WorkerDies, FailAll
  <2>2. DOMAIN outcome' = DOMAIN outcome
    BY <2>1 DEF Settle
  <2> QED BY <2>1, <2>2, AllFail DEF Service!Next
<1>13. \A s \in {TRUE} \cup {~Unseeded} : s \in BOOLEAN
  BY UnseededAssumption
<1> QED BY <1>1, <1>2, <1>3, <1>4, <1>5, <1>6, <1>8, <1>9, <1>10, <1>11, <1>12, <1>13
        DEF Next, Caller, Client

\* The client implements AnalysisService: whatever it queues, seeds, cancels, restarts
\* and retries, its callers see each request settled at most once, in order, a live one
\* never answered once a newer one for its document was made, and nothing left open
\* when the worker is given up (analysisWorkerClient.ts).
THEOREM ClientIsAService == Spec => ServiceSpec
<1> DEFINE Inv == TypeOK /\ QueueInv /\ ChannelInv /\ SeedInv /\ ServiceInv
<1>1. Init => Inv /\ Service!Init
  <2> SUFFICES ASSUME Init PROVE Inv /\ Service!Init
    OBVIOUS
  <2>1. TypeOK /\ QueueInv /\ ChannelInv /\ SeedInv
    BY InitType, QueueInit, SeedInit
  <2>2. ServiceInv
    BY DEF Init, ServiceInv
  <2>3. Asks = <<>> /\ outcome = <<>> /\ failed = FALSE
    <3>1. Len(requests) = 0 /\ outcome = <<>> /\ failed = FALSE
      BY DEF Init
    <3>2. Asks \in Seq([module : Modules, key : {"live", "command"}]) /\ Len(Asks) = 0
      BY <2>1, <3>1, ServiceView
    <3> QED BY <3>1, <3>2, EmptySeq
  <2> QED BY <2>1, <2>2, <2>3 DEF Service!Init, Asks
<1>2. Inv /\ [Next]_vars => Inv'
  <2>1. ASSUME Inv, Next PROVE Inv'
    BY <2>1, CallerType, ClientStepType, ThreadStepType, QueueStep, SeedStep, ServiceStep DEF Next
  <2>2. ASSUME Inv, UNCHANGED vars PROVE Inv'
    BY <2>2 DEF vars, projectVars, requestVars, clientVars, threadVars, TypeOK, ProjectType,
         RequestType, ClientType, ThreadType, AnalyzeMsgs, SeedMsgs, Responses,
         QueueInv, Owed, Open, ChannelInv, IsAnalyze, AnswersPending, SeedInv, IsLive,
         BeliefHolds, IsSeedOf, ServiceInv, Newest, Replaces
  <2> QED BY <2>1, <2>2
<1>3. Inv /\ [Next]_vars => Service!Next \/ UNCHANGED <<Asks, outcome, failed>>
  <2>1. ASSUME Inv, Next PROVE Service!Next \/ UNCHANGED <<Asks, outcome, failed>>
    BY <2>1, ImplementsStep
  <2>2. ASSUME UNCHANGED vars PROVE UNCHANGED <<Asks, outcome, failed>>
    BY <2>2, ServiceStutters DEF vars, requestVars, clientVars
  <2> QED BY <2>1, <2>2
<1>4. ServiceSpec <=> Service!Init /\ [][Service!Next]_<<Asks, outcome, failed>>
  BY DEF ServiceSpec, Service!Spec, Asks
<1> QED BY <1>1, <1>2, <1>3, <1>4, PTL DEF Spec

=============================================================================
