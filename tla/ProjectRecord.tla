--------------------------- MODULE ProjectRecord ---------------------------
(***************************************************************************)
(* The value VbaProjectIndexService keeps for one project: which text of   *)
(* every module its index last took in, and the counters from which        *)
(* crossModuleGeneration is computed (vbaProjectIndexService.ts).          *)
(*                                                                         *)
(* A module's text is abstracted to a version: a number that grows with    *)
(* every text the module has had, so "older than" is "<".                  *)
(***************************************************************************)
EXTENDS Naturals, FiniteSets

CONSTANT Modules          \* the modules of the one project

ASSUME ModulesAssumption == IsFiniteSet(Modules) /\ Modules # {}

Record ==
    {r \in [base    : Nat,                \* _generationBase
            counter : Nat,                \* _changeCounter
            own     : [Modules -> Nat],   \* _changesByModule
            ver     : [Modules -> Nat]] : \* byModule: the text last folded in
        \A m \in Modules : r.own[m] <= r.counter}

\* Mutant: every record counts from the same start.
NewRecordFromOne(clock, ver) ==
    [base |-> 1, counter |-> 0, own |-> [m \in Modules |-> 0], ver |-> ver]

\* A record built when the shared clock reads `clock` (it becomes clock + 1).
NewRecord(clock, ver) ==
    [base |-> clock + 1, counter |-> 0, own |-> [m \in Modules |-> 0], ver |-> ver]

\* applyModule: the text moves on, and the change counts for `m`.
ApplyModule(rec, m, version) ==
    [base    |-> rec.base,
     counter |-> rec.counter + 1,
     own     |-> [rec.own EXCEPT ![m] = @ + 1],
     ver     |-> [rec.ver EXCEPT ![m] = version]]

\* "Monotonic counter of module-source changes, excluding those to `m`."
CrossModuleGeneration(rec, m) == rec.base + rec.counter - rec.own[m]
=============================================================================
