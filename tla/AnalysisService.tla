-------------------------- MODULE AnalysisService --------------------------
(***************************************************************************)
(* What the analysis worker client promises its callers, with no worker,   *)
(* seed or message in it: every request is settled at most once; answers   *)
(* come in the order of the requests; a live request is never answered     *)
(* once a newer one for the same document was made, and only live requests *)
(* are ever superseded; once the service is down nothing stays open.       *)
(***************************************************************************)
EXTENDS Naturals, Sequences

CONSTANT Modules

VARIABLES requests, outcome, down

Live(i) == requests[i].key = "live"
Open(i) == outcome[i] = "open"

\* A newer live request for i's document was made: i's text is obsolete.
Obsolete(i) == \E j \in DOMAIN requests :
    /\ j > i /\ Live(i) /\ Live(j) /\ requests[j].module = requests[i].module

Oldest(i) == \A j \in DOMAIN outcome : j < i => ~Open(j)

Init == requests = <<>> /\ outcome = <<>> /\ down = FALSE

\* A request is accepted; it supersedes only open live requests of its document.
Ask ==
    \E q \in [module : Modules, key : {"live", "command"}] :
        /\ ~down
        /\ requests' = Append(requests, q)
        /\ Len(outcome') = Len(requests) + 1
        /\ outcome'[Len(requests) + 1] = "open"
        /\ \A i \in DOMAIN outcome :
             \/ outcome'[i] = outcome[i]
             \/ /\ outcome'[i] = "superseded" /\ Open(i) /\ q.key = "live"
                /\ Live(i) /\ requests[i].module = q.module
        /\ UNCHANGED down

\* The service is, or turns out to be, down: the request is refused at once.
Refuse ==
    \E q \in [module : Modules, key : {"live", "command"}] :
        /\ \A i \in DOMAIN outcome : ~Open(i)
        /\ requests' = Append(requests, q)
        /\ outcome' = Append(outcome, "unavailable")
        /\ down' = TRUE

\* The oldest open request is answered, unless it is obsolete.
Answer(i) ==
    /\ Open(i) /\ Oldest(i) /\ ~Obsolete(i) /\ ~down
    /\ outcome' = [outcome EXCEPT ![i] = "resolved"]
    /\ UNCHANGED <<requests, down>>

\* The oldest open request fails alone.
FailOne(i) ==
    /\ Open(i) /\ Oldest(i) /\ ~down
    /\ outcome' \in {[outcome EXCEPT ![i] = how] : how \in {"rejected", "timeout"}}
    /\ UNCHANGED <<requests, down>>

\* Live requests of one document are dropped: replaced, or its editor closed.
Supersede(m) ==
    /\ outcome' # outcome
    /\ DOMAIN outcome' = DOMAIN outcome
    /\ \A i \in DOMAIN outcome :
         \/ outcome'[i] = outcome[i]
         \/ /\ outcome'[i] = "superseded" /\ Open(i)
            /\ Live(i) /\ requests[i].module = m
    /\ UNCHANGED <<requests, down>>

\* The service goes down: everything open is settled, and at most the
\* request that was being served fails for a reason of its own.
GoDown ==
    /\ ~down /\ down' = TRUE
    /\ DOMAIN outcome' = DOMAIN outcome
    /\ \A i \in DOMAIN outcome :
         IF Open(i) THEN \/ outcome'[i] = "unavailable"
                         \/ outcome'[i] = "timeout" /\ Oldest(i)
                    ELSE outcome'[i] = outcome[i]
    /\ UNCHANGED requests

Next == \/ Ask \/ Refuse \/ GoDown
        \/ \E i \in DOMAIN outcome : Answer(i) \/ FailOne(i)
        \/ \E m \in Modules : Supersede(m)

Spec == Init /\ [][Next]_<<requests, outcome, down>>
=============================================================================
