--------------------------- MODULE KeyedAsyncLock ---------------------------
(***************************************************************************)
(* createKeyedAsyncLock (util/keyedAsyncLock.ts): asynchronous actions     *)
(* that share a key run one at a time in the order of the calls.  It has   *)
(* no lock variable: each call waits for the promise of the call that was  *)
(* last in its key's map entry, and puts its own there; whoever finds its  *)
(* own there when it ends removes it.                                      *)
(*                                                                         *)
(* The promise a call leaves settles when the call before it has settled   *)
(* and its own action is over; as the action is awaited after the former,  *)
(* that is when the action is over.                                        *)
(***************************************************************************)
EXTENDS Integers

CONSTANTS
    Keys,
    Calls,    \* the calls of the lock, each made at most once
    KeyOf,    \* the key of each call
    NoCall    \* "undefined", the call before a first one

ASSUME KeyAssumption == KeyOf \in [Calls -> Keys]
ASSUME NoCallAssumption == NoCall \notin Calls

VARIABLES
    state,    \* per call: how far it is
    previous, \* per call: the call it waits for
    queues,   \* per key: the call whose promise the map holds
    ticket,   \* per call: its place among the calls of its key; 0 = not made
    made      \* per key: the calls made so far

lockVars == <<state, previous, queues, ticket, made>>

LockInit ==
    /\ state = [c \in Calls |-> "idle"]
    /\ previous = [c \in Calls |-> NoCall]
    /\ queues = [k \in Keys |-> NoCall]
    /\ ticket = [c \in Calls |-> 0]
    /\ made = [k \in Keys |-> 0]

-----------------------------------------------------------------------------
\* withKeyedLock up to its await.
Call(c) ==
    LET k == KeyOf[c]
    IN  /\ state[c] = "idle"
        /\ state' = [state EXCEPT ![c] = "waiting"]
        /\ previous' = [previous EXCEPT ![c] = queues[k]]
        /\ queues' = [queues EXCEPT ![k] = c]
        /\ made' = [made EXCEPT ![k] = @ + 1]
        /\ ticket' = [ticket EXCEPT ![c] = made[k] + 1]

\* Mutant: a call waits until the call before it has begun.
MayStartBehind(c) == previous[c] # NoCall => state[previous[c]] # "waiting"

\* Mutant: a call waits until its key's entry is gone.
MayStartAlone(c) == previous[c] # NoCall => queues[KeyOf[c]] = NoCall

MayStart(c) == previous[c] # NoCall => state[previous[c]] = "done"

Start(c) ==
    /\ state[c] = "waiting" /\ MayStart(c)
    /\ state' = [state EXCEPT ![c] = "running"]
    /\ UNCHANGED <<previous, queues, ticket, made>>

\* Mutant: the entry goes with whoever ends.
KeptForgets(c) == NoCall

\* What the map keeps of c's key once c has ended.
Kept(c) == IF queues[KeyOf[c]] = c THEN NoCall ELSE queues[KeyOf[c]]

\* The action returned or threw: the finally block.
Finish(c) ==
    /\ state[c] = "running"
    /\ state' = [state EXCEPT ![c] = "done"]
    /\ queues' = [queues EXCEPT ![KeyOf[c]] = Kept(c)]
    /\ UNCHANGED <<previous, ticket, made>>

LockNext == \E c \in Calls : Call(c) \/ Start(c) \/ Finish(c)

LockSpec == LockInit /\ [][LockNext]_lockVars

\* A settled promise's continuation runs, and actions end.
FairLockSpec == LockSpec /\ \A c \in Calls : WF_lockVars(Start(c)) /\ WF_lockVars(Finish(c))

-----------------------------------------------------------------------------
\* A call has a place exactly from when it is made.
Numbered ==
    \A c \in Calls : /\ ticket[c] <= made[KeyOf[c]]
                     /\ state[c] = "idle" => ticket[c] = 0
                     /\ state[c] # "idle" => ticket[c] # 0

LockTypeOK ==
    /\ state \in [Calls -> {"idle", "waiting", "running", "done"}]
    /\ previous \in [Calls -> Calls \cup {NoCall}]
    /\ queues \in [Keys -> Calls \cup {NoCall}]
    /\ ticket \in [Calls -> Nat]
    /\ made \in [Keys -> Nat]
    /\ Numbered

Active(c) == state[c] \in {"waiting", "running"}

\* Actions sharing a key run one at a time, in the order of the calls: when one
\* runs, those called before it are over and those after it have not begun.
InCallOrder ==
    \A c, d \in Calls :
        /\ KeyOf[c] = KeyOf[d] /\ c # d
        /\ state[c] = "running" /\ state[d] # "idle"
        => state[d] = IF ticket[d] < ticket[c] THEN "done" ELSE "waiting"

\* The map holds an entry for a key exactly while a call of it is under way:
\* it neither grows over a session nor forgets a queue that has one waiting.
EntryWhileActive ==
    \A k \in Keys : (queues[k] # NoCall) <=> (\E c \in Calls : KeyOf[c] = k /\ Active(c))

\* Every call gets its turn, whatever the actions before it did.
EveryCallEnds == \A c \in Calls : (state[c] = "waiting") ~> (state[c] = "done")

=============================================================================
